SPECIFICATION Spec
CONSTANTS
  InPorts <- RowIn
  OutPorts <- RowOut
  InDir <- RowInDirs
  OutDir <- RowOutDirs
  NumVCs = 1
  MaxId = 1
  Tdm = FALSE
  WaveNum = 1
  WaveTable <- NoWaves
  ArrivalWaves <- NoArrivals
INVARIANTS
  TypeOK
  NoAssertionFails
  ReservationHonoured
  WorkConserving
  GoldenNotDeflected
