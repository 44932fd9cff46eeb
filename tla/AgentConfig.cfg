SPECIFICATION Spec
CONSTANTS
  MaxText = 3
  Width = 24
  Second = 1000
  ShellMeta = {"ls | sh"}
  Padded = {" git log"}
  NotInBranch = {"ma in"}
  RunsDoctor = {"jalon doctor"}
  Files <- MCFiles
INVARIANTS
  TypeOK
  EveryLineCounts
  AsWritten
  OnlySoundIsLoaded
  RefusalsAreDue
CHECK_DEADLOCK FALSE
