SPECIFICATION Spec
CONSTANTS
  Processes = {w1}
  Keys = {k1}
  Values = {a}
  Nobody = Nobody
  Absent = Absent
  Refused = Refused
  MaxStops = 1
  MaxLosses = 0
CHECK_DEADLOCK FALSE
INVARIANT RetryReuses
