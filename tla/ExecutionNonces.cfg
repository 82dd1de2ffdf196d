SPECIFICATION FairSpec
CONSTANTS
  k1 = k1
  k2 = k2
  e1 = e1
  e2 = e2
  a1 = a1
  c1 = c1
  c2 = c2
  n1 = n1
  r1 = r1
  r2 = r2
  Mandates = {m1}
  Versions <- MCOneVersion
  Times <- MCOneTime
  Nonces = {n1}
  NoNonce = NoNonce
  Threads = {e1, e2, a1}
  NoThread = NoThread
  Connections = {k1, k2}
  NoConnection = NoConnection
  ConnectionOf <- MCConnectionOf
  Executors = {e1, e2}
  Administrators = {a1}
  Capabilities = {c1, c2}
  NonceOf <- MCNonceOf
  RequestOf <- MCRequestOf
  NoRequest = NoRequest
  Unissued = Unissued
  Tampering = {}
  DefiniteErrors = TRUE
  MaxLifetime = 1
  MaxSkew = 0
  ClockLag = 0
  MaxCrashes = 1
  MaxFaults = 1
INVARIANTS
  GuardIsExclusive
  ReservedHasOwner
  InFlightConsent
  SingleUse
  RefusalIsFinal
  LedgerTellsTruth
  RepliesAreRecorded
PROPERTIES
  EveryCallReturns
CHECK_DEADLOCK FALSE
