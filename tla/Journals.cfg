SPECIFICATION JournalsSpec
CONSTANTS
  Keys = {1, 2, 3, 4, 5, 6}
  Place <- Places
  Value = {0, 1, 2, 3, 4, 5, 6}
  MaxLog = 1000
  MaxStale = 1
  RedoAddr = {1, 2}
  RedoValue = {0, 1}
  RedoMaxLog = 4
INVARIANTS
  TreeIsWhole
  ClosedMeansDone
PROPERTIES
  OneKeyAtATime
  RedoIsAtomic
