SPECIFICATION Spec
CONSTANTS
  Tabs = {t1, t2}
  Calls = {c1, c2}
  NoTab = NoTab
  OldFormats = {0, 1, 2}
  MaxSalts = 2
  MaxChanges = 2
  MaxKeys = 2
SYMMETRY Symmetry
CONSTRAINT Bounded
ACTION_CONSTRAINT ChangesOfOldAccounts
INVARIANTS
  UnlockAlwaysWorks
  KeyKeptUnlessOverlap
  EnvelopeRecovers
CHECK_DEADLOCK FALSE
