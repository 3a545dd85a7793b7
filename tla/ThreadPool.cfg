SPECIFICATION FairSpec
CONSTANTS
  j1 = j1
  NWorkers = 2
  Jobs = {j1}
  MaxCalls = 3
  MaxWaits = 1
  None = None
INVARIANTS
  TypeOK
  StopIsComplete
  JobInOnePlace
PROPERTIES
  WaitMissesOnlyHandoff
  EveryJobLeaves
  StopReturns
CHECK_DEADLOCK FALSE
