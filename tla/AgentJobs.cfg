SPECIFICATION FairSpec
CONSTANTS
  Task = {1, 2}
  Timers = {timer}
  Hands = {}
  MaxFailed = 2
  DailyJobCap = 1
  MaxActs = 1
INVARIANTS
  TypeOK
  EvidenceIsKept
  DailyCap
  WrecksAreBounded
PROPERTIES
  RetriedByAPerson
  NotDoneTwice
  Lifecycle
  QueueIsServed
