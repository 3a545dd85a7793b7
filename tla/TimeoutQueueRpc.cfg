SPECIFICATION FairSpec
CONSTANTS
  r1 = r1
  r2 = r2
  r3 = r3
  r4 = r4
  Reqs = {r1, r2, r3}
  FromRpc = {r1, r2}
  MaxId = 2
  Timeout = 1
PROPERTIES
  EveryRequestLeaves
CHECK_DEADLOCK FALSE
