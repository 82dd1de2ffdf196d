SPECIFICATION Spec
SYMMETRY Exchanges
CONSTANTS
  t1 = t1
  t2 = t2
  q1 = q1
  q2 = q2
  p1 = p1
  Threads = {t1, t2}
  Requests = {q1, q2}
  Products = {p1}
  MaxRetained = 1
  MaxSessions = 1
  MaxWindow = 1
  MaxOnboarded = 1
  TTL = 0
  MaxRounds = 1
  MaxCalls = 3
  MaxTime = 1
  MaxRestarts = 1
INVARIANTS
  TablesKeepLimits
  RequestsNameRetainedRuns
  RunsAreTheirOwners
  PaidOnce
CHECK_DEADLOCK FALSE
