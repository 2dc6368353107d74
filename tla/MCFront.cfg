SPECIFICATION FrontSpec
CONSTANTS
  Codecs <- MCCodecs
  Candidates <- MCCandidates
  Budget = 1
  MaxEdits = 2
  Sessions = {s1}
  None = None
  b1 = b1
  b2 = b2
  c1 = c1
  c2 = c2
  c3 = c3
  o1 = o1
  o2 = o2
  o3 = o3
  o4 = o4
  p1 = p1
  p2 = p2
  p3 = p3
  p4 = p4
  q1 = q1
  q2 = q2
  q3 = q3
  q4 = q4
  r1 = r1
  Constructions <- MCConstructions
  Checks <- MCChecks
  Operations <- MCOperations
  Retained <- MCRetained
  Before <- MCBefore
  After <- MCAfter
  Edges <- MCEdges
  BuildOf <- MCBuildOf
  Order <- MCOrder
  Names <- MCNames
  Places <- MCPlaces
  Runtime <- MCRuntime
  BuildIds <- MCBuildIds
  CheckIds <- MCCheckIds
  OperationIds <- MCOperationIds
  Recipe <- MCRecipe
  BuiltInputs <- MCBuiltInputs
  Scripts <- MCScripts
CHECK_DEADLOCK FALSE
INVARIANTS
  SweepIsStatus
  SatisfactionIsGrounded
  RoundTrips
  Canonical
  IdentityNamesContent
  PrivateApart
  AcceptedIsComposable
PROPERTIES
  DecisionsStand
