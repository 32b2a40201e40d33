CONSTANTS
  Threads <- TwoThreads
  Insts <- MixedInsts
  IndirectTargets <- MixedTargets
  useIndirect = TRUE
  RASSize = 2
  BTBIdxBits = 2
  BTBTagBits = 1
  BTBThreadBits = 1
  SetBits = 1
  NumWays = 2
  IndTagBits = 1
  PathLength = 2
  hashGHR = TRUE
  hashTargets = TRUE
  MaxSeqNum = 3
  MaxInFlight = 3
  CommitWidth = 2
  BPInit <- AnyBPInit
  bpLookup <- AnyLookup
  uncondBranch <- AnyUncondBranch
  btbUpdate <- AnyBtbUpdate
  bpUpdate <- AnyUpdate
  bpSquash <- AnySquash
  getGHR <- AnyGetGHR
SPECIFICATION Spec
INVARIANTS
  TypeOK
  PredHistMatchesWindow
  CorrectionFindsBranch
  HistoriesOwned
  PathMatchesPredHist
