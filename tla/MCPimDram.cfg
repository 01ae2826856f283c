SPECIFICATION Spec
CONSTANTS
  NumCube = 2
  NumLogicCube = 2
  NumChannel = 2
  NumRank = 1
  NumBankgroup = 1
  NumBank = 4
  NumRow = 4
  NumCol = 1
  Granul = 2
  NREFI = 20
  BufferSize = 10
  T <- MCTimings
  Tensors <- MCTensors
  Requests <- MCRequests
INVARIANTS
  DramInv
  RefreshKeepsUp
  DepartsInTime
PROPERTIES
  ActiveKeepsItsRow
  RequestsEnd
  IdealTracksKernel
  WeightsDoNotOverlap
