SPECIFICATION Spec
CONSTANTS
  N = 3
  MaxArgs = 2
  Profiles <- AnyKind
  SkipGroups = TRUE
  RunnableGroups = TRUE
INVARIANTS
  TypeOK
  HintGaps
  ExcludedNeverRuns
  HelpIsComplete
  OptInSurface
  BoundariesDisjoint
CHECK_DEADLOCK FALSE
