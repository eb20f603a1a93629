SPECIFICATION FairSpec
CONSTANTS
  t1 = t1
  t2 = t2
  e1 = e1
  e2 = e2
  Tabs = {t1, t2}
  Edits = {e1, e2}
  NoEdit = NoEdit
  Remote = Remote
  Stories <- MCStories
  MaxUnlocks = 2
  Copies = 1
INVARIANTS
  EditsSurviveLock
  StaleTabIsWarned
PROPERTIES
  AbandonedTabLocks
  TabsLockTogether
  EditReachesDisk
CHECK_DEADLOCK FALSE
