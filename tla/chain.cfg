SPECIFICATION Spec
CONSTANTS
  Tabs = {t1, t2}
  Pushes = {p1, p2}
  NoPush = NoPush
  NoTab = NoTab
  MaxIndex = 2
  MaxProbes = 2
  MaxSaves = 2
  MaxStarts = 2
  MaxRotations = 1
SYMMETRY Symmetry
CONSTRAINTS
  RotationsAlone
  OldAccounts
  PullsAlone
INVARIANTS
  InventoryNamesStoredBlob
  ReuseHasCause
  IndexIsRecorded
CHECK_DEADLOCK FALSE
