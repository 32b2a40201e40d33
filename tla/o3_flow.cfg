CONSTANTS
  Kinds <- FlowKinds
  Width = 1
  FetchQueueSize = 1
  ROBEntries = 1
  SquashWidth = 1
  MaxSeqNum = 5
  MaxHindrances = 2
SPECIFICATION FairSpec
INVARIANTS
  TypeOK
  ROBCredits
  SkidBuffersFit
  StallsKnown
PROPERTY
  Drains
