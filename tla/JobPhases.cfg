SPECIFICATION Spec
CONSTANTS
  Status <- MCStatus
  Drafts <- MCDrafts
  ProbeWrites = {"code", "ignored"}
  CriterionWrites = {"code", "ignored"}
CHECK_DEADLOCK FALSE
INVARIANTS
  TypeOK
  EveryAnswerIsOnDisk
  MeasuredBeforeWritten
  NothingProposedIsDropped
  CriterionSawTheChange
  ProposedUnlessPadded
PROPERTIES
  Lifecycle
