SPECIFICATION Spec
CONSTANTS
  Tabs = {t1, t2}
  MaxVaults = 2
  MaxBinds = 3
  MaxMp = 1
  MaxFaults = 1
  MaxCalls = 2
  MAX_ATTEMPTS = 2
INVARIANTS
  KitOpensVault
  CacheIsUsersChoice
  ShownIsStored
PROPERTY RightFactorsNeverBurn
SYMMETRY TabSymmetry
CONSTRAINT SecondVault
ACTION_CONSTRAINT ThirdPasskey
CHECK_DEADLOCK FALSE
