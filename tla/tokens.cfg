SPECIFICATION Spec
CONSTANTS
  Calls = {c1, c2}
  Batch = 2
  LowWater = 1
  MaxDay = 2
  MaxLogins = 2
  MaxBatches = 1
  Faults = {"lost", "refused", "copied", "stalled"}
  MaxFaults = 1
INVARIANTS
  TokenWorksOnce
  PoolIsOfThisSession
  FailuresHaveReasons
CHECK_DEADLOCK FALSE
