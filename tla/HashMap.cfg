SPECIFICATION ContainersSpec
CONSTANTS
  k1 = k1
  k2 = k2
  v1 = v1
  b1 = b1
  b2 = b2
  b3 = b3
  e0 = e0
  e1 = e1
  e2 = e2
  RingElements = {e0, e1, e2}
  RingSize <- ElementSize
  RingWord = 2
  RingCells = 6
  Keys = {k1, k2}
  Values = {v1}
  Size <- OneChunk
  Bucket <- OneBucket
  NBuckets = 1
  Addr = {b1, b2, b3}
  EraseCount = 1
  AutoErase = TRUE
  MaxCalls = 2
  None = None
SYMMETRY KeyAndBlockSymmetry
INVARIANTS
  
  BlocksHaveOnePlace
  DirtyIsReached
PROPERTIES
  ImplementsCache
  RingIsFifo
CHECK_DEADLOCK FALSE
