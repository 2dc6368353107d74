SPECIFICATION Spec
CONSTANTS
  Cleaners = {c1}
  Builds = {b1}
  Operations = {}
  BuildClasses = {"installed_resource", "construction_session"}
  MaxDispatches = 2
  MaxFaults = 0
CHECK_DEADLOCK FALSE
INVARIANTS
  ReleasedOwnNothing
