SPECIFICATION Spec
CONSTANTS
  r1 = r1
  r2 = r2
  r3 = r3
  r4 = r4
  Reqs = {r1, r2, r3, r4}
  FromRpc = {}
  MaxId = 3
  Timeout = 1
SYMMETRY ReqSymmetry
INVARIANTS
  PopAssertion
  PopIsOldestWaiting
  AnswerToItsRequest
  QueueHoldsOpenRequests
  IndInv
PROPERTIES
  ImplementsPending
CHECK_DEADLOCK FALSE
