CONSTANTS
  Threads <- OneThread
  Insts <- CondReturnInsts
  IndirectTargets <- CallTargets
  useIndirect = TRUE
  RASSize = 4
  BTBIdxBits = 2
  BTBTagBits = 1
  BTBThreadBits = 0
  SetBits = 1
  NumWays = 1
  IndTagBits = 1
  PathLength = 1
  hashGHR = TRUE
  hashTargets = TRUE
  MaxSeqNum = 4
  MaxInFlight = 3
  CommitWidth = 2
  BPInit <- AnyBPInit
  bpLookup <- AnyLookup
  uncondBranch <- AnyUncondBranch
  btbUpdate <- AnyBtbUpdate
  bpUpdate <- AnyUpdate
  bpSquash <- AnySquash
  getGHR <- AnyGetGHR
SPECIFICATION Spec
INVARIANT
  RASIndexRestored
