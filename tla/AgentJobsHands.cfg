SPECIFICATION Spec
CONSTANTS
  Task = {1}
  Timers = {}
  Hands = {h1, h2}
  MaxFailed = 1
  DailyJobCap = 1
  MaxActs = 0
SYMMETRY HandSymmetry
INVARIANTS
  WorktreeIsExclusive
  EvidenceIsKept
