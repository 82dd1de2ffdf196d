SPECIFICATION FairSpec
CONSTANTS
  x1 = x1
  x2 = x2
  Reviews = {v1, v2}
  Evidence <- MCEvidence
  InitialSets <- MCInitialSets
  MaxRounds = 1
  MaxItems = 1
  MaxFaults = 2
INVARIANTS
  StoreExplainsReview
PROPERTIES
  RecoveryEnds
CHECK_DEADLOCK FALSE
