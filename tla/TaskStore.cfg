SPECIFICATION Spec
CONSTANTS
  p1 = p1
  p2 = p2
  auth = auth
  authflow = authflow
  Process = {p1, p2}
  Id = {auth, authflow}
  Ref = {auth, authflow}
  Prefix <- Nested
  NoId = NoId
  Issues <- PlainIssue
  Blocks <- Snippets
  Commands <- EachVerb
  Seeds <- OneTask
  Keep = 1
  MaxRuns = 3
  MaxEdits = 1
SYMMETRY AnyProcess
CHECK_DEADLOCK FALSE
INVARIANTS
  TypeOK
  DecisionsAreKept
  PagesShowTheirTasks
PROPERTIES
  OnlyItsSection
  EntriesFollow
