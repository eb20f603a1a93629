SPECIFICATION Spec
CONSTANTS
  Tabs = {t1}
  Calls = {c1, c2}
  NoTab = NoTab
  OldFormats = {3}
  MaxSalts = 1
  MaxChanges = 2
  MaxKeys = 2
SYMMETRY Symmetry
INVARIANTS
  RowAlwaysOpens
CHECK_DEADLOCK FALSE
