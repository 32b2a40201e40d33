CONSTANTS
  NumThreads = 2
  NumRegs = 2
  NumPhysRegs = 6
  ZeroReg = 0
  MaxDestRegs = 2
  MaxSeqNum = 3
SPECIFICATION Spec
INVARIANTS
  TypeOK
  NoRegisterTwice
  NoRegisterLost
  CommitMapKept
  SourcesKept
