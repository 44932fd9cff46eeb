SPECIFICATION MCSpec
CONSTANTS
  JobTasks = {1}
  Timers = {timer}
  Hands = {}
  MaxFailed = 1
  DailyJobCap = 1
  MaxActs = 2
  MaxPeople = 1
  here = here
  rate = rate
  Protected = {}
  Slug = {rate}
  NoSlug = NoSlug
  NoRepo = NoRepo
  Extends = {}
  Lines <- OneLine
  Seeds <- OneTask
  MaxPerTick = 1
  MaxDays = 1
  IdOf <- Ids
  Orders <- Drop
PROPERTIES
  OrderIsFresh
