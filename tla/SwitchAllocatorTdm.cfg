SPECIFICATION FairSpec
CONSTANTS
  InPorts <- TdmPorts
  OutPorts <- TdmPorts
  InDir <- TdmDirs
  OutDir <- TdmDirs
  NumVCs = 2
  MaxId = 0
  Tdm = TRUE
  WaveNum = 3
  WaveTable <- TdmWaves
  ArrivalWaves <- TdmArrivals
INVARIANTS
  WaveRespected
PROPERTIES
  LocalFlitLeaves
