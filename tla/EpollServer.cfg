SPECIFICATION FairSpec
CONSTANTS
  k1 = k1
  k2 = k2
  Socks = {k1, k2}
  Total = 2
  Capacity = 1
  MaxReq = 1
  MaxWork = 1
  MaxMods = 2
  Taf = FALSE
  None = None
INVARIANTS
  TypeOK
  ConnectionsAccounted
  ClosedIsNotifiedOnce
  CommandsAreSeen
  OnlyMissedLinger
PROPERTIES
  CommandsAreTaken
CHECK_DEADLOCK FALSE
