SPECIFICATION FairSpec
CONSTANTS
  Requests = {q1, q2}
INVARIANTS
  TypeOK
  NoUngatedRequest
  TunnelTornDown
PROPERTY
  SignalEnds
CHECK_DEADLOCK FALSE
