SPECIFICATION Spec
CONSTANTS
  Stmts <- MCStmts
  SelectStmts <- MCSelects
  Params <- MCParams
  CursorParams <- MCCursors
  Sets <- MCSets
  Names <- MCNames
  NULL = NULL
  LateBindFaults <- BeforeMap
  MaxHeld = 2
  Orderly = FALSE
  OneSet = FALSE
  q1 = q1  b1 = b1  c1 = c1  v1 = v1  r1 = r1  r2 = r2  n1 = n1
SYMMETRY Interchangeable
INVARIANTS
  TypeOK
  ReferencesCounted
  NothingLeaked
  AttachedHandleLives
PROPERTIES
  ImplementsHeap
CHECK_DEADLOCK FALSE
