SPECIFICATION RecoverySpec
CONSTANTS
  s1 = s1
  s2 = s2
  purpose = purpose
  recurrence = recurrence
  once = once
  monthly = monthly
  Global = Global
  Unestablished = Unestablished
  Nothing = Nothing
  Raised = Raised
  Merchant = m1
  Skus <- MCSkus
  Kinds <- MCKinds
  RequiredKinds <- MCRequired
  Registries <- MCRegistries
  Deliveries <- MCDeliveries
  MaxTime = 2
  Reviews = {v1}
  Evidence <- MCEvidence
  InitialSets <- MCInitialSets
  MaxRounds = 2
  MaxItems = 2
  MaxFaults = 1
INVARIANTS
  ProvenanceComesFirst
  BudgetsHold
  AcquiredIsAuthoritative
  AcquisitionFits
PROPERTIES
  ResolvedOnce
CHECK_DEADLOCK FALSE
