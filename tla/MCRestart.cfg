SPECIFICATION RestartSpec
CONSTANTS
  Processes = {w1, w2}
  Branches = {x, y}
  Nobody = Nobody
  Refused = Refused
  Absent = Absent
  None = None
  MaxRecords = 3
  MaxStops = 2
  MaxLosses = 1
  Names = {n1, n2}
  Contents = {x, y}
  Roots = {f, g}
  MaxHostFaults = 1
  Controllers = {k1}
  BeforeTotal = 2
  AfterTotal = 2
  MaxCrashes = 3
  MaxRevocations = 3
SYMMETRY RestartSymmetry
CHECK_DEADLOCK FALSE
INVARIANTS
  HeadBacked
  KeptSurvives
  IndexBacked
  AdmittedAreRetained
  Unredirected
  BodiesCoverJournal
PROPERTIES
  ReadsAreCurrent
  ImplementsLog
  LoadsAreCurrent
  ImplementsWriteOnce
  ImplementsContract
