SPECIFICATION Spec
CONSTANTS
  N = 4
  MaxArgs = 2
  Profiles <- SkippedGroup
  SkipGroups = TRUE
  RunnableGroups = FALSE
INVARIANTS
  ConfirmHasHint
CHECK_DEADLOCK FALSE
