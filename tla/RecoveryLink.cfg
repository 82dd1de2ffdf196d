SPECIFICATION Spec
CONSTANTS
  x1 = x1
  x2 = x2
  Reviews = {v1}
  Evidence <- MCEvidence
  InitialSets <- MCInitialSets
  MaxRounds = 2
  MaxItems = 1
  MaxFaults = 0
INVARIANTS
  ExecutionIsLinked
CHECK_DEADLOCK FALSE
