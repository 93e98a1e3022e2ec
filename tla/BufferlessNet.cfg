SPECIFICATION Spec
CONSTANTS
  Cols = 4
  Rows = 3
  NumVNets = 2
  NumPackets = 3
  MaxSize = 2
  HopCycles = 2
  MaxCredit = 2
  Settings <- Networks
  Traffic <- Meetings
INVARIANTS
  OneFlitPerLink
  GoldAtHome
  NobodyWithoutALink
PROPERTIES
  GoldStaysOnCourse
  FlitsArrive
