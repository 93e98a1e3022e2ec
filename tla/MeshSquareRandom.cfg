SPECIFICATION Spec
CONSTANTS
  p = p
  n = n
  e1 = e1
  e2 = e2
  s = s
  w1 = w1
  w2 = w2
  Cols = 4
  Rows = 2
  Routings <- AsCalled
  NumVCs = 2
  Crowded = FALSE
  EVC = 1
  Packets = {n, e1, e2, s, w1, w2}
  Traffic <- Square
CHECK_DEADLOCK FALSE
INVARIANTS
  NoDeadlock
SYMMETRY SameWay
