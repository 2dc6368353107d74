SPECIFICATION CommandSpec
CONSTANTS
  b1 = b1
  c1 = c1
  o1 = o1
  o2 = o2
  r1 = r1
  n1 = n1
  None = None
  Nobody = Nobody
  Controllers = {k1}
  Sessions = {s1}
  Constructions <- MCConstructions
  Checks <- NoChecks
  Operations <- LaterOperations
  Retained <- MCRetained
  Before <- LaterBefore
  After <- LaterAfter
  Edges <- LaterEdges
  BuildOf <- LaterBuildOf
  Rank <- LaterRank
  MaxRecords = 3
  MaxKills = 0
  MaxLosses = 0
CHECK_DEADLOCK FALSE
INVARIANTS
  ScopeCovers
