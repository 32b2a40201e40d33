CONSTANTS
  Kinds <- RedirectKinds
  Width = 2
  FetchQueueSize = 2
  ROBEntries = 3
  SquashWidth = 1
  MaxSeqNum = 4
  MaxHindrances = 1
SPECIFICATION Spec
INVARIANTS
  CommitsProgramOrder
  RedirectFindsBranch
  HistoryIsInFlight
