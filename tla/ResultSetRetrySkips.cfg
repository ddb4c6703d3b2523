SPECIFICATION Spec
CONSTANTS
  Totals <- MCTotals
  FetchSize = 7
  UShortSpan = 4
  Faults <- Blocked
  MaxRow = 12
  ColType = "number"
  NullRows <- MCNullRows
PROPERTIES
  NextPresentsNextRow
