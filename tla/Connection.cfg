SPECIFICATION Spec
CONSTANTS
  MaxOpens = 3
  FailAt <- AnyStage
  LinksFail = TRUE
INVARIANTS
  TypeOK
  ConnectedMeansUsable
  BlockingFlagAgrees
  CloseDisconnects
  TidyLeavesNothing
  HandlesLiveWhenUsed
PROPERTIES
  DisconnectReleasesAll
CHECK_DEADLOCK FALSE
