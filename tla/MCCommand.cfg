SPECIFICATION FairPartSpec
CONSTANTS
  b1 = b1
  c1 = c1
  o1 = o1
  o2 = o2
  r1 = r1
  n1 = n1
  None = None
  Nobody = Nobody
  Controllers = {k1}
  Sessions = {s1, s2}
  Constructions <- MCConstructions
  Checks <- MCChecks
  Operations <- MCOperations
  Retained <- MCRetained
  Before <- MCBefore
  After <- MCAfter
  Edges <- MCEdges
  BuildOf <- MCBuildOf
  Rank <- MCRank
  MaxRecords = 5
  MaxKills = 0
  MaxLosses = 2
  Cleaners = {d1, d2}
  Builds = {b2}
  BuildClasses = {"installed_resource", "construction_session"}
  MaxDispatches = 2
  MaxFaults = 1
CHECK_DEADLOCK FALSE
INVARIANTS
  ScopeCoversFresh
  CompleteIsClean
PROPERTIES
  CommandsSettle
  OnlyCompletedRemoved
  Converges
