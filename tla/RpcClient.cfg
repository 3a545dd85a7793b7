SPECIFICATION FairSpec
CONSTANTS
  r1 = r1
  r2 = r2
  p1 = p1
  c1 = c1
  c2 = c2
  Calls = {r1, r2}
  Adapters = {p1}
  Conns = {c1, c2}
  Mixes <- TwoCalls
  None = None
INVARIANTS
  TypeOK
  AnswerIsOwn
  AsyncCalledBackOnce
  WaitingIsServed
  AnsweredAreWoken
PROPERTIES
  AsyncCallsAreCalledBack
CHECK_DEADLOCK FALSE
