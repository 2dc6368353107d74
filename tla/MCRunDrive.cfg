SPECIFICATION EitherFaultSpec
CONSTANTS
  b1 = b1
  c1 = c1
  o1 = o1
  r1 = r1
  None = None
  Nobody = Nobody
  Controllers = {k1, k2}
  Sessions = {s1, s2}
  Constructions <- MCConstructions
  Checks <- NoChecks
  Operations <- MCOperations
  Retained <- MCRetained
  Before <- MCBefore
  After <- MCAfter
  Edges <- PairEdges
  BuildOf <- PairBuildOf
  Rank <- PairRank
  MaxRecords = 3
  MaxKills = 2
  MaxLosses = 1
CHECK_DEADLOCK FALSE
SYMMETRY ControllerSymmetry
INVARIANTS
  Resumable
  EffectsOwned
  ArtifactsBacked
PROPERTIES
  ImplementsDispatch
