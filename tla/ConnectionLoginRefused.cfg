SPECIFICATION Spec
CONSTANTS
  MaxOpens = 2
  FailAt <- LoginRefused
  LinksFail = FALSE
INVARIANTS
  NothingLeaks
CHECK_DEADLOCK FALSE
