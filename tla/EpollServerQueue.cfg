SPECIFICATION Spec
CONSTANTS
  k1 = k1
  k2 = k2
  Socks = {k1, k2}
  Total = 1
  Capacity = 1
  MaxReq = 2
  MaxWork = 1
  MaxMods = 1
  Taf = TRUE
  None = None
SYMMETRY SockSymmetry
INVARIANTS
  CloseIsLast
  RequestsInOrder
  QueueIsBounded
CHECK_DEADLOCK FALSE
