SPECIFICATION Spec
CONSTANTS
  Totals <- MCTotals
  FetchSize = 7
  UShortSpan = 4
  Faults <- AnyFault
  MaxRow = 12
  ColType = "number"
  NullRows <- MCNullRows
INVARIANTS
  ReadsDelivered
