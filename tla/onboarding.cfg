CONSTANTS
  DemoAllowed = TRUE
  SyncSet = {TRUE}
  MaxKeys = 3
  MaxBinds = 2
  MaxSalts = 2
  MaxRuns = 2
  MaxLeaves = 2
  MaxFailures = 1
SPECIFICATION SetupSpec
INVARIANTS OpensUnlessDisturbed DoneMeansRecoverable
CHECK_DEADLOCK FALSE
