SPECIFICATION Spec
CONSTANTS
  Task = {1}
  Timers = {timer}
  Hands = {}
  MaxFailed = 1
  DailyJobCap = 1
  MaxActs = 2
INVARIANT
  RequeuedCanPublish
