SPECIFICATION FairSpec
CONSTANTS
  Controllers = {k1, k2}
  BeforeTotal = 1
  AfterTotal = 1
  Nobody = Nobody
  None = None
  MaxCrashes = 1
  MaxRevocations = 1
CHECK_DEADLOCK FALSE
PROPERTIES
  JournalMonotone
  Resolves
  ContractUntilRevoked
