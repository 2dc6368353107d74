SPECIFICATION Spec
CONSTANTS
  Processes = {w1}
  Branches = {a}
  Nobody = Nobody
  Refused = Refused
  MaxRecords = 2
  MaxStops = 1
  MaxLosses = 1
CHECK_DEADLOCK FALSE
INVARIANTS
  HeadlessHoldsOne
