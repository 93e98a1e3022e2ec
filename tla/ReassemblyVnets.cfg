SPECIFICATION Spec
CONSTANTS
  Sources <- OneSource
  Vnets = {1, 2}
  Size = 5
  FLIT_ID_ = 3
  Lifetime = 2
  Period = 6
INVARIANTS
  HandedOnceWhenComplete
