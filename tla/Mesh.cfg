SPECIFICATION Spec
CONSTANTS
  p = p
  n = n
  e1 = e1
  e2 = e2
  s = s
  w1 = w1
  w2 = w2
  Cols = 4
  Rows = 3
  Routings <- All
  NumVCs = 2
  Crowded = TRUE
  EVC = 1
  Packets = {p}
  Traffic <- OnePacket
CHECK_DEADLOCK FALSE
INVARIANTS
  XYAssertsHold
  RoutesAreMinimal
  NeverStuck
