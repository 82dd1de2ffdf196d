SPECIFICATION FairSpec
CONSTANTS
  g1 = g1
  g2 = g2
  Scenarios = {g1, g2}
  NoOne = NoOne
  MaxRuns = 2
  Decisions = {"ALLOW", "REVIEW"}
  MaxOperations = 1
INVARIANTS
  ShownIsCurrent
PROPERTIES
  OnlyNewestPaints
  PageSettles
