CONSTANTS
  Threads <- OneThread
  Kinds <- Others
  Insts <- GotoInsts
  IndirectTargets <- JumpTargets
  useIndirect = TRUE
  RASSize = 2
  BTBIdxBits = 2
  BTBTagBits = 1
  BTBThreadBits = 0
  SetBits = 1
  NumWays = 1
  IndTagBits = 1
  PathLength = 1
  hashGHR = TRUE
  hashTargets = TRUE
  MaxSeqNum = 4
  MaxInFlight = 3
  CommitWidth = 1
  MaxWeight = 15
  MaxWeightSum = 12
  MaxWeight2 = 3
  MaxWeightSum2 = 5
  IdxBits <- SmallTables
  CtrBits <- OneBit
  LocalTableBits = 1
  LocalTableBits2 = 1
  UnsignedBits = 4
SPECIFICATION Spec
INVARIANTS
  HistoriesOwned
  GlobalHistoryRestored
  LocalHistoriesRestored
  HistoryIsPath
PROPERTIES
  TrainsConsulted
