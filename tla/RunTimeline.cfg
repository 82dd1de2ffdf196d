SPECIFICATION Spec
CONSTANTS
  Requests = {q1, q2}
  NoRequest = NoRequest
INVARIANTS
  TimelineClaimsHold
CHECK_DEADLOCK FALSE
