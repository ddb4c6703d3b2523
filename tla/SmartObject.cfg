SPECIFICATION FairSpec
CONSTANTS
  Threads <- MCThreads
  Refs <- MCRefs
  Nobody = Nobody
  t1 = t1  t2 = t2  t3 = t3  r1 = r1  r2 = r2  r3 = r3  r4 = r4
INVARIANTS
  TypeOK
  NoUseAfterDelete
  CountReturnedExact
  AssertionsHold
  LastReleaseDeletes
  LockFreeAtEnd
  SomeoneGoesOn
PROPERTIES
  ImplementsRefCounted
  DeletedAtLast
CHECK_DEADLOCK FALSE
