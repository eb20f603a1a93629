SPECIFICATION Spec
CONSTANTS
  Tables = {"blob", "inv", "restore"}
  Ids = {1, 2}
  Slots = {s1, s2}
  Batch = 1
  Limit = 2
  MaxDay = 3
  MaxWindow = 1
  MaxOps = 1
  MaxFaults = 1
INVARIANTS
  KeptWhileUsed
  OrphanHasCause
  LiveVaultKept
  OverrunNeedsSweep
CHECK_DEADLOCK FALSE
