SPECIFICATION Spec
CONSTANTS
  p1 = p1
  p2 = p2
  auth = auth
  authflow = authflow
  Process = {p1}
  Id = {auth, authflow}
  Ref = {auth, authflow}
  Prefix <- Nested
  NoId = NoId
  Issues <- PlainIssue
  Blocks <- Attached
  Commands <- OnlyCompact
  Seeds <- OneTask
  Keep = 1
  MaxRuns = 1
  MaxEdits = 1
CHECK_DEADLOCK FALSE
PROPERTIES
  EntriesFollow
