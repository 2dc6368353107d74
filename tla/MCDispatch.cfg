SPECIFICATION Spec
CONSTANTS
  b1 = b1
  b2 = b2
  c1 = c1
  o1 = o1
  o2 = o2
  p1 = p1
  q1 = q1
  r1 = r1
  None = None
  Sessions = {s1}
  Nonces = {n1, n2, n3, n4, n5, n6}
  Constructions <- TwoBuilds
  Checks <- OneCheck
  Operations <- TwoOps
  Retained <- OneRetained
  Before <- MixBefore
  After <- MixAfter
  Edges <- MixEdges
  BuildOf <- ChecksB1
  RetainedInputs <- B2UsesR1
  Rewrites <- MixRewrites
  Rank <- LateFirst
  ConstructionCapacity = 2
  CheckCapacity = 1
  MaxReleases = 2
  MaxDispatchCount = 5
  MaxMemberCount = 2
  MaxDependencyCount = 1
  MaxObservationCount = 2
  RecordOverhead = 1
  MaxEncodingSize = 30
CHECK_DEADLOCK FALSE
SYMMETRY NonceSymmetry
INVARIANTS
  TypeOK
  HistoryRestorable
  UniqueExecution
  LedgerValid
  NeverStalls
PROPERTIES
  FailureContained
  LedgerMonotone
  EpochSerial
  ImplementsJournal
