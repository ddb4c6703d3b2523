SPECIFICATION Spec
CONSTANTS
  Stmts <- MCStmts
  SelectStmts <- MCSelects
  Params <- MCParams
  CursorParams <- MCCursors
  Sets <- MCSets
  Names <- MCNames
  NULL = NULL
  LateBindFaults <- NoFault
  MaxHeld = 1
  Orderly = TRUE
  OneSet = TRUE
  q1 = q1  b1 = b1  c1 = c1  v1 = v1  r1 = r1  r2 = r2  n1 = n1
SYMMETRY Interchangeable
INVARIANTS
  CachedSetCurrent
CHECK_DEADLOCK FALSE
