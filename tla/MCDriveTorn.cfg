SPECIFICATION Spec
CONSTANTS
  b1 = b1
  c1 = c1
  o1 = o1
  r1 = r1
  None = None
  Nobody = Nobody
  Controllers = {k1, k2}
  Sessions = {s1}
  Constructions <- MCConstructions
  Checks <- MCChecks
  Operations <- MCOperations
  Retained <- MCRetained
  Before <- MCBefore
  After <- MCAfter
  Edges <- MCEdges
  BuildOf <- MCBuildOf
  Rank <- MCRank
  MaxRecords = 4
  MaxKills = 1
  MaxLosses = 1
CHECK_DEADLOCK FALSE
SYMMETRY ControllerSymmetry
INVARIANTS
  EffectsOwned
