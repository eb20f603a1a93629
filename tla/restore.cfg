SPECIFICATION Spec
CONSTANTS
  Devices = {d1, d2}
  First = d1
  StartRoots = {NoRoot, r1, r2}
  Pushes = {p1, p2, p3}
  NoPush = NoPush
  NoDevice = NoDevice
  Roots = {r1, r2}
  NoRoot = NoRoot
  MaxDay = 1
  ScanDays = 1
  ScanSlots = 3
  RetainDays = 1
  Every = 2
  MaxOps = 2
  Events = {"rotate", "reload", "lock", "day"}
  MaxEvents = 1
SYMMETRY Symmetry
CONSTRAINT OneStory
ACTION_CONSTRAINT EnablesFirst
INVARIANTS
  AddressReuseHasCause
  MarkedIsFound
  PurgedUnlessRaced
CHECK_DEADLOCK FALSE
