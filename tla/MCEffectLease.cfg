SPECIFICATION Spec
CONSTANTS
  Controllers = {k1}
  BeforeTotal = 0
  AfterTotal = 0
  Nobody = Nobody
  None = None
  MaxCrashes = 1
  MaxRevocations = 1
CHECK_DEADLOCK FALSE
INVARIANTS
  LeaseLossNotPromoted
