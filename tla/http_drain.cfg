SPECIFICATION Spec
CONSTANTS
  Requests = {q1, q2}
INVARIANT GracefulDrain
CHECK_DEADLOCK FALSE
