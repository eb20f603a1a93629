SPECIFICATION FairSpec
CONSTANTS
  Start = {TRUE, FALSE}
  MaxRequests = 6
  MaxTime = 2
  SessionTtl = 1
  Retries = 1
  Faults = {"lost", "refused", "broken", "copied", "stalled"}
  MaxFaults = 1
INVARIANTS
  EnrolledMatchesServer
  OneSessionPerLogin
  LogoutEndsLogin
PROPERTIES
  DeviceSettles
  ImplementsRegistry
CHECK_DEADLOCK FALSE
