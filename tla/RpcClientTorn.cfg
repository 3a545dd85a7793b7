SPECIFICATION Spec
CONSTANTS
  r1 = r1
  r2 = r2
  p1 = p1
  c1 = c1
  c2 = c2
  Calls = {r1, r2}
  Adapters = {p1}
  Conns = {c1, c2}
  Mixes <- OneCall
  None = None
INVARIANTS
  AnswersAreComplete
CHECK_DEADLOCK FALSE
