SPECIFICATION FairSpec
CONSTANTS
  None = None
  c1 = c1
  c2 = c2
  e1 = e1
  e2 = e2
  k1 = k1
  k2 = k2
  Deviations = 2
  Checkouts = {c1}
  Scenarios <- MCScenarios
  EvidenceSets <- MCEvidenceSets
  MaxRounds = 1
  MaxFaults = 1
INVARIANTS
  TypeOK
  AllowIsEarned
  CapabilityIsWithinMandate
  WithholdingNeverAllows
  ModelIsGated
PROPERTIES
  EveryRunEnds
CHECK_DEADLOCK FALSE
