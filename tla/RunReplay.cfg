SPECIFICATION Spec
CONSTANTS
  Requests = {q1, q2}
  NoRequest = NoRequest
INVARIANTS
  RejectedReplayMadeNoCall
CHECK_DEADLOCK FALSE
