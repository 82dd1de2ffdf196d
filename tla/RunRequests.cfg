SPECIFICATION FairSpec
CONSTANTS
  Requests = {q1, q2, q3}
  NoRequest = NoRequest
INVARIANTS
  TypeOK
  NoStateAlarm
  ReceiptMeansConsent
  RevocationIsLoggedOnce
PROPERTIES
  FlagsAreReleased
CHECK_DEADLOCK FALSE
