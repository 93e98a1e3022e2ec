SPECIFICATION Spec
CONSTANTS
  a1 = a1
  b1 = b1
  c2 = c2
  NumIn = 2
  OutPorts = {0, 1}
  NumVCs = 2
  PerVNet = 2
  MaxCredit = 1
  Ordered = {0}
  Flows = {a1, b1, c2}
  VNetOf <- VNet
  InOf <- In
  OutOf <- Out
  SizeOf <- Size
  EVC = 1
  Turning = {c2}
INVARIANTS
  AssertionsHold
  BoundedLosses
  NoFlitForgotten
PROPERTIES
  ImplementsPorts
  PacketsLeaveInOrder
  RouterDrains
