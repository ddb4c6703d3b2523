SPECIFICATION FairSpec
CONSTANTS
  Totals <- MCTotals
  FetchSize = 7
  UShortSpan = 4
  Faults <- NoFaults
  MaxRow = 12
  ColType = "number"
  NullRows <- MCNullRows
INVARIANTS
  TypeOK
  CursorOnRow
  ReadsOwnValue
  EodMeansExhausted
  FalseMeansAllPresented
PROPERTIES
  NextPresentsNextRow
  ReachesEnd
  ImplementsRowStream
