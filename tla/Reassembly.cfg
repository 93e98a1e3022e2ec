SPECIFICATION Spec
CONSTANTS
  Sources <- TwoSources
  Vnets = {2}
  Size = 5
  FLIT_ID_ = 3
  Lifetime = 2
  Period = 6
INVARIANTS
  HandedOnceWhenComplete
  RobCountsFlits
