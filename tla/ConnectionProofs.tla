-------------------------- MODULE ConnectionProofs --------------------------
(***************************************************************************)
(* Proofs about Connection for any number of calls of Open and Close, any  *)
(* set of failing stages, with lost links and with careless clients.       *)
(***************************************************************************)
EXTENDS Connection, TLAPS

\* The five members are the handles of Open number id, all allocated, the
\* server attached, the session begun.
Usable(id) ==
  /\ \A kind \in Kinds : member[kind] = id /\ <<kind, id>> \in live
  /\ id \in attached \cap begun \cap linked

\* The numbers of Opens to come are fresh.
Fresh == nonblocking \subseteq 1 .. opens

ConnectionInv ==
  /\ TypeOK
  /\ Fresh
  /\ ConnectedMeansUsable
  /\ BlockingFlagAgrees

\* NULL names no Open.
LEMMA NullIsNoId == NULL \notin Ids
BY ConnectionAssumption DEF NULL, Ids

\* A new object owns nothing (epConnection.cpp:69-79).
LEMMA ConnectionInit == Init => ConnectionInv
<1> SUFFICES ASSUME Init
             PROVE  ConnectionInv
  OBVIOUS
<1>1. member \in [Kinds -> Ids \cup {NULL}]
  BY DEF Init
<1>2. opens \in 0 .. MaxOpens
  BY ConnectionAssumption DEF Init
<1>3. /\ object \in {"none", "alive", "unwinding", "gone"}
      /\ isOpened \in BOOLEAN /\ isBlocking \in BOOLEAN /\ unclosed \in BOOLEAN
      /\ misused \in BOOLEAN /\ stopped \subseteq Stages /\ reopened \in BOOLEAN
  BY DEF Init
<1>4. /\ live \subseteq Kinds \X Ids
      /\ attached \subseteq Ids /\ begun \subseteq Ids /\ linked \subseteq Ids
      /\ nonblocking \subseteq Ids /\ lost \subseteq Ids /\ nonblocking \subseteq 1 .. opens
  BY DEF Init
<1>5. ~isOpened
  BY DEF Init
<1> QED
  BY <1>1, <1>2, <1>3, <1>4, <1>5
     DEF ConnectionInv, TypeOK, Fresh, ConnectedMeansUsable, BlockingFlagAgrees

-----------------------------------------------------------------------------
(* Open.                                                                   *)

\* Whatever stage Open ends at, its new handles keep the types and the
\* numbers of later Opens stay fresh (epConnection.cpp:82-169).
LEMMA ProgressTypes ==
  ASSUME ConnectionInv, NEW done \in Stages, NEW nonBlockingMode \in BOOLEAN,
         Progress(done, nonBlockingMode)
  PROVE  /\ member' \in [Kinds -> Ids \cup {NULL}]
         /\ opens' \in 0 .. MaxOpens /\ unclosed' \in BOOLEAN /\ reopened' \in BOOLEAN
         /\ live' \subseteq Kinds \X Ids
         /\ attached' \subseteq Ids /\ begun' \subseteq Ids /\ linked' \subseteq Ids
         /\ nonblocking' \subseteq Ids /\ lost' \subseteq Ids
         /\ misused' \in BOOLEAN
         /\ Fresh'
<1> USE DEF ConnectionInv, TypeOK
<1> DEFINE id == opens + 1
<1>1. id \in Ids /\ opens' = id /\ unclosed' = TRUE /\ reopened' \in BOOLEAN
  BY ConnectionAssumption DEF Progress, Ids
<1>2. opens' \in 0 .. MaxOpens
  BY <1>1, ConnectionAssumption DEF Ids
<1>3. member' = [kind \in Kinds |-> IF kind \in Allocated(done) THEN id ELSE member[kind]]
  BY DEF Progress
<1>4. member' \in [Kinds -> Ids \cup {NULL}]
  BY <1>1, <1>3
<1>5. live' = live \cup (Allocated(done) \X {id}) /\ Allocated(done) \subseteq Kinds
  BY DEF Progress, Allocated
<1>6. \A reached \in BOOLEAN : Once(id, reached) \subseteq {id}
  BY DEF Once
<1>7. /\ attached' \subseteq attached \cup {id} /\ begun' \subseteq begun \cup {id}
      /\ linked' \subseteq linked \cup {id} /\ nonblocking' \subseteq nonblocking \cup {id}
      /\ lost' = lost /\ misused' = misused
  BY <1>6 DEF Progress, Once
<1>8. nonblocking' \subseteq 1 .. opens'
  BY <1>1, <1>7 DEF Fresh
<1> QED
  BY <1>1, <1>2, <1>4, <1>5, <1>7, <1>8 DEF Fresh

\* An Open that returns has made a usable connection in the mode asked for.
LEMMA OpenSucceedsUsable ==
  ASSUME ConnectionInv, NEW nonBlockingMode \in BOOLEAN, OpenSucceeds(nonBlockingMode)
  PROVE  ConnectedMeansUsable' /\ BlockingFlagAgrees'
<1> USE DEF ConnectionInv, TypeOK
<1> DEFINE id == opens + 1
<1>1. id \in Ids /\ id \notin nonblocking
  BY ConnectionAssumption DEF OpenSucceeds, Progress, Ids, Fresh
<1>2. Allocated(Opened) = Kinds
  BY DEF Allocated, Opened, Kinds, StageOf
<1>3. \A kind \in Kinds : member'[kind] = id /\ <<kind, id>> \in live'
  BY <1>2 DEF OpenSucceeds, Progress
<1>4. id \in attached' \cap begun' \cap linked'
  BY DEF OpenSucceeds, Progress, Once, Opened, Attached, Begun, Linked
<1>5. nonblocking' = nonblocking \cup (IF nonBlockingMode THEN {id} ELSE {})
  BY DEF OpenSucceeds, Progress, Once, Opened
<1>6. isBlocking' = ~nonBlockingMode
  BY DEF OpenSucceeds
<1>7. member'["server"] = id
  BY <1>3 DEF Kinds
<1> QED
  BY <1>1, <1>3, <1>4, <1>5, <1>6, <1>7 DEF ConnectedMeansUsable, BlockingFlagAgrees

\* An Open that throws leaves the object not connected, as it was.
LEMMA OpenStep ==
  ASSUME ConnectionInv, NEW nonBlockingMode \in BOOLEAN,
         object' \in {"none", "alive", "unwinding", "gone"},
         OpenSucceeds(nonBlockingMode) \/ OpenThrows(nonBlockingMode)
  PROVE  ConnectionInv'
<1>1. CASE OpenSucceeds(nonBlockingMode)
  <2>1. isOpened' \in BOOLEAN /\ isBlocking' \in BOOLEAN /\ stopped' = stopped
    BY <1>1 DEF OpenSucceeds
  <2>2. Opened \in Stages /\ Progress(Opened, nonBlockingMode)
    BY <1>1 DEF OpenSucceeds, Opened, Stages
  <2> QED
    BY <1>1, <2>1, <2>2, ProgressTypes, OpenSucceedsUsable DEF ConnectionInv, TypeOK
<1>2. CASE OpenThrows(nonBlockingMode)
  <2>1. isOpened' = isOpened /\ isBlocking' = isBlocking /\ ~isOpened
    BY <1>2 DEF OpenThrows, MayOpen
  <2>2. PICK done \in Stages : /\ Progress(done, nonBlockingMode)
                               /\ stopped' = stopped \cup {done}
    BY <1>2, ConnectionAssumption DEF OpenThrows
  <2>3. ConnectedMeansUsable' /\ BlockingFlagAgrees'
    BY <2>1 DEF ConnectedMeansUsable, BlockingFlagAgrees
  <2> QED
    BY <2>1, <2>2, <2>3, ProgressTypes DEF ConnectionInv, TypeOK
<1> QED
  BY <1>1, <1>2

-----------------------------------------------------------------------------
(* Close.                                                                  *)

\* Close keeps the types (epConnection.cpp:172-234).
LEMMA CloseTypes ==
  ASSUME ConnectionInv, NEW quiet \in BOOLEAN, CloseHandles(quiet)
  PROVE  /\ member' \in [Kinds -> Ids \cup {NULL}]
         /\ isOpened' \in BOOLEAN /\ isBlocking' \in BOOLEAN
         /\ stopped' \subseteq Stages
         /\ opens' \in 0 .. MaxOpens /\ unclosed' \in BOOLEAN /\ reopened' \in BOOLEAN
         /\ live' \subseteq Kinds \X Ids
         /\ attached' \subseteq Ids /\ begun' \subseteq Ids /\ linked' \subseteq Ids
         /\ nonblocking' \subseteq Ids /\ lost' \subseteq Ids
         /\ misused' \in BOOLEAN
         /\ Fresh'
<1> USE DEF ConnectionInv, TypeOK
<1>1. member' \in [Kinds -> Ids \cup {NULL}]
  BY DEF CloseHandles
<1>2. /\ isOpened' \in BOOLEAN /\ isBlocking' \in BOOLEAN /\ unclosed' \in BOOLEAN
      /\ stopped' = stopped /\ reopened' = reopened
  BY DEF CloseHandles
<1>3. misused' \in BOOLEAN
  BY DEF CloseHandles
<1>4. /\ opens' = opens /\ lost' = lost /\ live' \subseteq live
      /\ linked' \subseteq linked /\ nonblocking' \subseteq nonblocking
  BY DEF CloseHandles
<1>5. attached' \subseteq attached /\ begun' \subseteq begun
  BY DEF CloseHandles
<1> QED
  BY <1>1, <1>2, <1>3, <1>4, <1>5 DEF Fresh

\* Of a usable connection Close releases everything or, when OCISessionEnd
\* fails, nothing: the chain is never left half way (epConnection.cpp:186-227).
LEMMA CloseAllOrNothing ==
  ASSUME ConnectionInv, isOpened, NEW quiet \in BOOLEAN, CloseHandles(quiet)
  PROVE  \E id \in Ids :
           /\ Usable(id)
           /\ \/ /\ MayFree /\ ~isOpened'
                 /\ \A kind \in Kinds : <<kind, id>> \notin live'
                 /\ id \notin attached' \cup begun'
              \/ /\ ~MayFree /\ id \in lost
                 /\ UNCHANGED <<member, live, attached, begun, linked, isOpened, isBlocking>>
<1> USE DEF ConnectionInv, TypeOK
<1>1. PICK id \in Ids : Usable(id)
  BY DEF ConnectedMeansUsable, Usable
<1>2. id # NULL
  BY NullIsNoId
<1>3. /\ \A kind \in Kinds : member[kind] = id /\ IsLive(kind)
      /\ id \in attached /\ id \in begun /\ id \in linked
  BY <1>1 DEF Usable, IsLive
<1>4. HasContext /\ member["session"] = id /\ member["server"] = id /\ member["svc"] = id
  BY <1>2, <1>3 DEF HasContext, Kinds
<1>5. Detaches
  BY <1>3, <1>4 DEF Detaches, Kinds
<1>6. SessionEnds <=> id \notin lost
  BY <1>3, <1>4 DEF SessionEnds, Kinds
<1>7. MayFree <=> SessionEnds
  BY <1>2, <1>4, <1>5 DEF MayFree, ReachesDetach
<1>8. \A kind \in Kinds : FreeSucceeds(kind, quiet)
  BY <1>3 DEF FreeSucceeds
<1>9. CASE MayFree
  <2>1. Freed(quiet) = Kinds
    BY <1>2, <1>3, <1>8, <1>9 DEF Freed, Held, ReachesFree
  <2>2. AllFreed(quiet)
    BY <1>8, <1>9 DEF AllFreed
  <2>3. ~isOpened'
    BY <2>2 DEF CloseHandles
  <2>4. \A kind \in Kinds : <<kind, id>> \notin live'
    BY <1>3, <2>1 DEF CloseHandles
  <2>5. EndsSession /\ ReachesDetach
    BY <1>2, <1>4, <1>7, <1>9 DEF EndsSession, ReachesDetach
  <2>6. id \notin attached' \cup begun'
    BY <1>4, <1>5, <2>5 DEF CloseHandles
  <2> QED
    BY <1>1, <1>9, <2>3, <2>4, <2>6
<1>10. CASE ~MayFree
  <2>1. Freed(quiet) = {} /\ ~AllFreed(quiet)
    BY <1>10 DEF Freed, ReachesFree, AllFreed
  <2>2. ~EndsSession /\ ~ReachesDetach
    BY <1>2, <1>4, <1>7, <1>10 DEF EndsSession, ReachesDetach
  <2>3. Reset(quiet) = {}
    BY <2>1 DEF Reset
  <2>4. member' = member
    BY <2>3 DEF CloseHandles
  <2>5. live' = live /\ linked' = linked
    BY <2>1 DEF CloseHandles
  <2>6. begun' = begun /\ attached' = attached
    BY <2>2 DEF CloseHandles
  <2>7. isOpened' = isOpened /\ isBlocking' = isBlocking
    BY <2>1 DEF CloseHandles
  <2> QED
    BY <1>1, <1>6, <1>7, <1>10, <2>4, <2>5, <2>6, <2>7
<1> QED
  BY <1>9, <1>10

\* Close keeps what is known of the connection (epConnection.cpp:172-234).
LEMMA CloseStep ==
  ASSUME ConnectionInv, NEW quiet \in BOOLEAN, CloseHandles(quiet),
         object' \in {"none", "alive", "unwinding", "gone"}
  PROVE  ConnectionInv'
<1>1. CASE ~isOpened
  <2>1. ~isOpened'
    BY <1>1 DEF CloseHandles
  <2> QED
    BY <2>1, CloseTypes
       DEF ConnectionInv, TypeOK, ConnectedMeansUsable, BlockingFlagAgrees
<1>2. CASE isOpened
  <2>1. PICK id \in Ids :
           /\ Usable(id)
           /\ \/ ~isOpened'
              \/ /\ id \in lost
                 /\ UNCHANGED <<member, live, attached, begun, linked, isOpened, isBlocking>>
    BY <1>2, CloseAllOrNothing
  <2>2. lost' = lost
    BY DEF CloseHandles
  <2>3. ConnectedMeansUsable' /\ BlockingFlagAgrees'
    BY <2>1, <2>2 DEF Usable, ConnectedMeansUsable, BlockingFlagAgrees
  <2> QED
    BY <2>3, CloseTypes DEF ConnectionInv, TypeOK
<1> QED
  BY <1>1, <1>2

-----------------------------------------------------------------------------
\* Every call, and every link that is lost, keeps what is known of the
\* connection (epConnection.cpp:42-234).
LEMMA ConnectionStep == ConnectionInv /\ [Next]_vars => ConnectionInv'
<1> SUFFICES ASSUME ConnectionInv, [Next]_vars
             PROVE  ConnectionInv'
  OBVIOUS
<1>1. CASE Construct
  BY <1>1 DEF Construct, oci, ConnectionInv, TypeOK, Fresh, ConnectedMeansUsable,
              BlockingFlagAgrees
<1>2. ASSUME NEW nonBlockingMode \in BOOLEAN,
             ConstructOpen(nonBlockingMode) \/ Open(nonBlockingMode)
      PROVE  ConnectionInv'
  <2>1. object' \in {"none", "alive", "unwinding", "gone"}
    BY <1>2 DEF ConstructOpen, Open
  <2>2. OpenSucceeds(nonBlockingMode) \/ OpenThrows(nonBlockingMode)
    BY <1>2 DEF ConstructOpen, Open
  <2> QED
    BY <2>1, <2>2, OpenStep
<1>3. CASE Close \/ Destroy
  <2>1. PICK quiet \in BOOLEAN : CloseHandles(quiet)
    BY <1>3 DEF Close, Destroy
  <2>2. object' \in {"none", "alive", "unwinding", "gone"}
    BY <1>3 DEF Close, Destroy
  <2> QED
    BY <2>1, <2>2, CloseStep
<1>4. ASSUME NEW id \in Ids, LinkLost(id)
      PROVE  ConnectionInv'
  <2>1. /\ UNCHANGED <<object, member, isOpened, isBlocking, opens, unclosed, stopped, reopened>>
        /\ UNCHANGED <<live, attached, begun, linked, nonblocking, misused>>
        /\ lost' = lost \cup {id}
    BY <1>4 DEF LinkLost, client
  <2> QED
    BY <2>1 DEF ConnectionInv, TypeOK, Fresh, ConnectedMeansUsable, BlockingFlagAgrees
<1>5. CASE UNCHANGED vars
  BY <1>5 DEF vars, ConnectionInv, TypeOK, Fresh, ConnectedMeansUsable, BlockingFlagAgrees
<1> QED
  BY <1>1, <1>2, <1>3, <1>4, <1>5 DEF Next

\* While IsConnected is TRUE every handle of the connection is the one its
\* last Open allocated, allocated still, attached and in session
\* (epConnection.cpp:82-234), whatever failed before.
THEOREM ConnectedCorrect == Spec => []ConnectedMeansUsable
<1>1. Spec => []ConnectionInv
  BY ConnectionInit, ConnectionStep, PTL DEF Spec
<1>2. ConnectionInv => ConnectedMeansUsable
  BY DEF ConnectionInv
<1> QED
  BY <1>1, <1>2, PTL

\* IsBlocking answers for the mode of the server handle until a link is lost
\* (epConnection.cpp:153-166, 176-182, 229-233).
THEOREM BlockingCorrect == Spec => []BlockingFlagAgrees
<1>1. Spec => []ConnectionInv
  BY ConnectionInit, ConnectionStep, PTL DEF Spec
<1>2. ConnectionInv => BlockingFlagAgrees
  BY DEF ConnectionInv
<1> QED
  BY <1>1, <1>2, PTL

\* A Close after which IsConnected is FALSE has freed the five handles, ended
\* the session and detached the server (epConnection.cpp:172-234).
THEOREM DisconnectCorrect == Spec => DisconnectReleasesAll
<1>1. Spec => []ConnectionInv
  BY ConnectionInit, ConnectionStep, PTL DEF Spec
<1>2. ASSUME ConnectionInv, [Next]_vars
      PROVE  [isOpened /\ ~isOpened' =>
                LET id == member["env"]
                IN  /\ \A kind \in Kinds : <<kind, id>> \notin live'
                    /\ id \notin attached' \cup begun']_vars
  <2> SUFFICES ASSUME isOpened, ~isOpened'
               PROVE  /\ \A kind \in Kinds : <<kind, member["env"]>> \notin live'
                      /\ member["env"] \notin attached' \cup begun'
    OBVIOUS
  <2>1. Close \/ Destroy
    BY <1>2 DEF Next, vars, client, Construct, ConstructOpen, Open, OpenSucceeds,
                OpenThrows, LinkLost
  <2>2. PICK quiet \in BOOLEAN : CloseHandles(quiet)
    BY <2>1 DEF Close, Destroy
  <2>3. PICK id \in Ids :
          /\ Usable(id)
          /\ \A kind \in Kinds : <<kind, id>> \notin live'
          /\ id \notin attached' \cup begun'
    BY <1>2, <2>2, CloseAllOrNothing
  <2>4. member["env"] = id
    BY <2>3 DEF Usable, Kinds
  <2> QED
    BY <2>3, <2>4
<1> QED
  BY <1>1, <1>2, PTL DEF Spec, DisconnectReleasesAll

\* A Close makes IsConnected FALSE unless a link was lost
\* (epConnection.cpp:172-234): the only way of CloseAllOrNothing to release
\* nothing is a lost link.
THEOREM CloseCorrect == Spec => []CloseDisconnects
<1>1. Spec => []ConnectionInv
  BY ConnectionInit, ConnectionStep, PTL DEF Spec
<1>2. Init => CloseDisconnects
  BY DEF Init, CloseDisconnects
<1>3. ASSUME ConnectionInv, CloseDisconnects, [Next]_vars
      PROVE  CloseDisconnects'
  <2>1. CASE Close \/ Destroy
    <3>1. PICK quiet \in BOOLEAN : CloseHandles(quiet)
      BY <2>1 DEF Close, Destroy
    <3>2. isOpened /\ isOpened' => lost # {}
      BY <1>3, <3>1, CloseAllOrNothing
    <3>3. lost' = lost /\ (isOpened' => isOpened)
      BY <3>1 DEF CloseHandles
    <3> QED
      BY <3>2, <3>3 DEF CloseDisconnects
  <2>2. ASSUME NEW nonBlockingMode \in BOOLEAN,
               ConstructOpen(nonBlockingMode) \/ Open(nonBlockingMode)
        PROVE  CloseDisconnects'
    <3>1. OpenSucceeds(nonBlockingMode) \/ OpenThrows(nonBlockingMode)
      BY <2>2 DEF ConstructOpen, Open
    <3>2. unclosed' = TRUE
      BY <3>1 DEF OpenSucceeds, OpenThrows, Progress
    <3> QED
      BY <3>2 DEF CloseDisconnects
  <2>3. CASE Construct \/ (\E id \in Ids : LinkLost(id)) \/ UNCHANGED vars
    BY <1>3, <2>3 DEF Construct, LinkLost, vars, client, oci, CloseDisconnects
  <2> QED
    BY <1>3, <2>1, <2>2, <2>3 DEF Next
<1> QED
  BY <1>1, <1>2, <1>3, PTL DEF Spec

\* The types the runs check hold whatever fails and in whatever order Open
\* and Close are called (epConnection.h:184-201).
THEOREM ConnectionTypes == Spec => []TypeOK
<1>1. Spec => []ConnectionInv
  BY ConnectionInit, ConnectionStep, PTL DEF Spec
<1>2. ConnectionInv => TypeOK
  BY DEF ConnectionInv
<1> QED
  BY <1>1, <1>2, PTL

-----------------------------------------------------------------------------
(* Handles are live when they are used: the members that hold one form a   *)
(* beginning of the order of allocation, and Close resets it as a whole or *)
(* not at all.                                                             *)

Chained == \A kind \in Held \ {"env"} : ResetBy[kind] \in Held
Stocked == stopped \cap SessionStages = {} =>
             /\ ~misused
             /\ Chained
             /\ \A kind \in Held : IsLive(kind)

\* Without a stage between the service context and the session handle, what
\* an Open allocated up to the stage it reached is a chain
\* (epConnection.cpp:89-126).
LEMMA AllocatedChained ==
  ASSUME NEW done \in Stages \ SessionStages
  PROVE  /\ Allocated(done) \subseteq Kinds
         /\ \A kind \in Allocated(done) \ {"env"} : ResetBy[kind] \in Allocated(done)
<1>1. Allocated(done) \subseteq Kinds
  BY DEF Allocated
<1>2. done \in Int /\ (done < 5 \/ done > 6)
  BY DEF Stages, SessionStages, StageOf
<1>3. ASSUME NEW kind \in Allocated(done) \ {"env"}
      PROVE  ResetBy[kind] \in Allocated(done)
  <2>1. CASE kind = "svc"
    BY <1>2, <1>3, <2>1 DEF Allocated, ResetBy, StageOf, Kinds
  <2>2. CASE kind = "session"
    BY <1>2, <1>3, <2>2 DEF Allocated, ResetBy, StageOf, Kinds
  <2>3. CASE kind = "error"
    BY <1>2, <1>3, <2>3 DEF Allocated, ResetBy, StageOf, Kinds
  <2>4. CASE kind = "server"
    BY <1>2, <1>3, <2>4 DEF Allocated, ResetBy, StageOf, Kinds
  <2> QED
    BY <1>1, <1>3, <2>1, <2>2, <2>3, <2>4 DEF Kinds
<1> QED
  BY <1>1, <1>3

\* The handles of an Open extend the chain, those it did not reach stay.
LEMMA ProgressStocked ==
  ASSUME ConnectionInv, Stocked, NEW done \in Stages, NEW nonBlockingMode \in BOOLEAN,
         Progress(done, nonBlockingMode),
         (stopped' = stopped /\ done = Opened) \/ stopped' = stopped \cup {done}
  PROVE  Stocked'
<1> USE DEF ConnectionInv, TypeOK
<1> SUFFICES ASSUME stopped' \cap SessionStages = {}
             PROVE  ~misused' /\ Chained' /\ \A kind \in Held' : IsLive(kind)'
  BY DEF Stocked
<1> DEFINE id == opens + 1
<1>1. done \in Stages \ SessionStages /\ stopped \cap SessionStages = {}
  BY DEF SessionStages, StageOf, Opened
<1>2. ~misused /\ Chained /\ \A kind \in Held : IsLive(kind)
  BY <1>1 DEF Stocked
<1>3. id \in Ids /\ id # NULL
  BY ConnectionAssumption DEF Progress, Ids, NULL
<1>4. member' = [kind \in Kinds |-> IF kind \in Allocated(done) THEN id ELSE member[kind]]
  BY DEF Progress
<1>5. live' = live \cup (Allocated(done) \X {id}) /\ misused' = misused
  BY DEF Progress
<1>6. Held' = Held \cup Allocated(done)
  BY <1>1, <1>3, <1>4, AllocatedChained DEF Held
<1>7. Chained'
  BY <1>1, <1>2, <1>6, AllocatedChained DEF Chained
<1>8. \A kind \in Held' : IsLive(kind)'
  BY <1>1, <1>2, <1>4, <1>5, <1>6, AllocatedChained DEF IsLive, Held
<1> QED
  BY <1>2, <1>5, <1>7, <1>8

\* Of a chain of live handles Close frees and resets all or nothing.
LEMMA CloseChain ==
  ASSUME ConnectionInv, Chained, \A kind \in Held : IsLive(kind),
         NEW quiet \in BOOLEAN, CloseHandles(quiet)
  PROVE  /\ misused' = misused
         /\ MayFree => /\ Held' = {}
                       /\ live' = live \ {<<kind, member[kind]>> : kind \in Held}
         /\ ~MayFree => member' = member /\ live' = live
<1> USE DEF ConnectionInv, TypeOK
<1>1. Freed(quiet) \subseteq Held /\ Held \subseteq Kinds
  BY DEF Freed, Held
<1>2. PassedToOCI(quiet) \subseteq Held
  BY <1>1 DEF PassedToOCI, Kinds
<1>3. misused' = misused
  BY <1>2 DEF CloseHandles
<1>4. live' = live \ {<<kind, member[kind]>> : kind \in Freed(quiet)}
  BY DEF CloseHandles
<1>5. member' = [kind \in Kinds |-> IF kind \in Reset(quiet) THEN NULL ELSE member[kind]]
  BY DEF CloseHandles
<1>6. ASSUME MayFree
      PROVE  Held' = {} /\ Freed(quiet) = Held
  <2>1. \A kind \in Kinds : FreeSucceeds(kind, quiet)
    BY DEF FreeSucceeds, Held
  <2>2. Freed(quiet) = Held
    BY <1>1, <1>6, <2>1 DEF Freed, ReachesFree
  <2>3. Held \subseteq Reset(quiet)
    BY <1>1, <2>1, <2>2 DEF Reset, Chained, Kinds
  <2>4. \A kind \in Kinds : member'[kind] = NULL
    BY <1>5, <2>3 DEF Held
  <2> QED
    BY <2>2, <2>4 DEF Held
<1>7. ASSUME ~MayFree
      PROVE  member' = member /\ Freed(quiet) = {}
  <2>1. Freed(quiet) = {}
    BY <1>7 DEF Freed, ReachesFree
  <2>2. Reset(quiet) = {}
    BY <2>1 DEF Reset
  <2> QED
    BY <1>5, <2>1, <2>2
<1> QED
  BY <1>3, <1>4, <1>6, <1>7

\* Close keeps the chain (epConnection.cpp:186-227).
LEMMA CloseStocked ==
  ASSUME ConnectionInv, Stocked, NEW quiet \in BOOLEAN, CloseHandles(quiet)
  PROVE  Stocked'
<1>1. stopped' = stopped
  BY DEF CloseHandles
<1> SUFFICES ASSUME stopped \cap SessionStages = {}
             PROVE  ~misused' /\ Chained' /\ \A kind \in Held' : IsLive(kind)'
  BY <1>1 DEF Stocked
<1>2. ~misused /\ Chained /\ \A kind \in Held : IsLive(kind)
  BY DEF Stocked
<1>3. ~misused'
  BY <1>2, CloseChain
<1>4. CASE MayFree
  <2>1. Held' = {}
    BY <1>2, <1>4, CloseChain
  <2> QED
    BY <1>3, <2>1 DEF Chained
<1>5. CASE ~MayFree
  <2>1. member' = member /\ live' = live
    BY <1>2, <1>5, CloseChain
  <2>2. Held' = Held
    BY <2>1 DEF Held
  <2> QED
    BY <1>2, <1>3, <2>1, <2>2 DEF Chained, IsLive
<1> QED
  BY <1>4, <1>5

\* Every step keeps the chain.
LEMMA StockedStep == ConnectionInv /\ Stocked /\ [Next]_vars => Stocked'
<1> SUFFICES ASSUME ConnectionInv, Stocked, [Next]_vars
             PROVE  Stocked'
  OBVIOUS
<1>1. ASSUME NEW nonBlockingMode \in BOOLEAN,
             ConstructOpen(nonBlockingMode) \/ Open(nonBlockingMode)
      PROVE  Stocked'
  <2>1. OpenSucceeds(nonBlockingMode) \/ OpenThrows(nonBlockingMode)
    BY <1>1 DEF ConstructOpen, Open
  <2>2. PICK done \in Stages :
          /\ Progress(done, nonBlockingMode)
          /\ (stopped' = stopped /\ done = Opened) \/ stopped' = stopped \cup {done}
    BY <2>1, ConnectionAssumption DEF OpenSucceeds, OpenThrows, Opened, Stages
  <2> QED
    BY <2>2, ProgressStocked
<1>2. CASE Close \/ Destroy
  <2>1. PICK quiet \in BOOLEAN : CloseHandles(quiet)
    BY <1>2 DEF Close, Destroy
  <2> QED
    BY <2>1, CloseStocked
<1>3. CASE Construct \/ (\E id \in Ids : LinkLost(id)) \/ UNCHANGED vars
  <2>1. UNCHANGED <<member, live, misused, stopped>>
    BY <1>3 DEF Construct, LinkLost, vars, client, oci
  <2> QED
    BY <2>1 DEF Stocked, Chained, Held, IsLive
<1> QED
  BY <1>1, <1>2, <1>3 DEF Next

\* No OCI call is given a handle that is not allocated, unless an Open threw
\* between the service context and the session handle
\* (epConnection.cpp:172-234).
THEOREM HandlesCorrect == Spec => []HandlesLiveWhenUsed
<1>1. Init => Stocked
  BY NullIsNoId DEF Init, Stocked, Chained, Held, IsLive
<1>2. Spec => [](ConnectionInv /\ Stocked)
  BY ConnectionInit, ConnectionStep, <1>1, StockedStep, PTL DEF Spec
<1>3. Stocked => HandlesLiveWhenUsed
  BY DEF Stocked, HandlesLiveWhenUsed
<1> QED
  BY <1>2, <1>3, PTL

-----------------------------------------------------------------------------
(* A tidy connection owns what its members hold and nothing else.          *)

Early == {"env", "server", "error"}
Owned == {<<kind, member[kind]>> : kind \in Held}
Owns ==
  /\ live = Owned
  /\ \/ Held \subseteq Early /\ attached = {} /\ begun = {}
     \/ \E id \in Ids : Usable(id) /\ attached = {id} /\ begun = {id}
TidyOwns == /\ object = "gone" => ~unclosed
            /\ Tidy => Owns /\ (~unclosed => Held = {})

\* An Open over nothing leaves the object owning what it reached, when it
\* throws before attaching or after linking (epConnection.cpp:89-168).
LEMMA ProgressOwns ==
  ASSUME ConnectionInv, Owns, Held = {}, NEW done \in Harmless, NEW nonBlockingMode \in BOOLEAN,
         Progress(done, nonBlockingMode)
  PROVE  Owns'
<1> USE DEF ConnectionInv, TypeOK
<1> DEFINE id == opens + 1
<1>1. id \in Ids /\ id # NULL
  BY ConnectionAssumption DEF Progress, Ids, NULL
<1>2. Allocated(done) \subseteq Kinds
  BY DEF Allocated
<1>3. member' = [kind \in Kinds |-> IF kind \in Allocated(done) THEN id ELSE member[kind]]
  BY DEF Progress
<1>4. \A kind \in Kinds : member[kind] = NULL
  BY DEF Held
<1>5. Held' = Allocated(done)
  BY <1>1, <1>2, <1>3, <1>4 DEF Held
<1>6. live = {} /\ live' = live \cup (Allocated(done) \X {id})
  BY DEF Owns, Owned, Progress
<1>7. live' = Owned'
  BY <1>2, <1>3, <1>5, <1>6 DEF Owned
<1>8. Early \cap {"svc"} = {} /\ attached = {} /\ begun = {}
  <2>1. ~ \E i \in Ids : Usable(i)
    BY <1>4, NullIsNoId DEF Usable, Kinds
  <2> QED
    BY <2>1 DEF Owns, Early
<1>9. CASE done \in 0 .. Attached - 1
  <2>1. done \in Int /\ done <= 3
    BY <1>9 DEF Attached
  <2>2. Allocated(done) \subseteq Early
    BY <2>1 DEF Allocated, Early, Kinds, StageOf
  <2>3. attached' = {} /\ begun' = {}
    BY <1>8, <2>1 DEF Progress, Once, Attached, Begun
  <2> QED
    BY <1>5, <1>7, <2>2, <2>3 DEF Owns
<1>10. CASE done \in {Linked, Opened}
  <2>1. Allocated(done) = Kinds
    BY <1>10 DEF Allocated, Linked, Opened, Kinds, StageOf
  <2>2. attached' = {id} /\ begun' = {id} /\ id \in linked'
    BY <1>8, <1>10 DEF Progress, Once, Attached, Begun, Linked, Opened
  <2>3. \A kind \in Kinds : member'[kind] = id /\ <<kind, id>> \in live'
    BY <1>3, <1>6, <2>1
  <2> QED
    BY <1>1, <1>7, <2>2, <2>3 DEF Owns, Usable
<1> QED
  BY <1>9, <1>10 DEF Harmless

\* Close of a tidy connection releases all it owns (epConnection.cpp:172-234).
LEMMA CloseOwns ==
  ASSUME ConnectionInv, Stocked, Owns, Tidy, NEW quiet \in BOOLEAN, CloseHandles(quiet)
  PROVE  Owns' /\ Held' = {} /\ live' = {} /\ attached' = {} /\ begun' = {}
<1> USE DEF ConnectionInv, TypeOK
<1>1. stopped \cap SessionStages = {}
  BY DEF Tidy, Harmless, SessionStages, StageOf, Attached, Linked, Opened
<1>2. Chained /\ \A kind \in Held : IsLive(kind)
  BY <1>1 DEF Stocked
<1>3. MayFree /\ attached' = {} /\ begun' = {}
  <2>1. CASE Held \subseteq Early /\ attached = {} /\ begun = {}
    <3>1. ~HasContext
      BY <2>1 DEF Held, HasContext, Early, Kinds
    <3>2. attached' \subseteq attached /\ begun' \subseteq begun
      BY DEF CloseHandles
    <3> QED
      BY <2>1, <3>1, <3>2 DEF MayFree
  <2>2. ASSUME NEW id \in Ids, Usable(id), attached = {id}, begun = {id}
        PROVE  MayFree /\ attached' = {} /\ begun' = {}
    <3>1. id # NULL /\ id \notin lost
      BY NullIsNoId DEF Tidy
    <3>2. /\ \A kind \in Kinds : member[kind] = id /\ IsLive(kind)
          /\ id \in attached /\ id \in begun /\ id \in linked
      BY <2>2 DEF Usable, IsLive
    <3>3. HasContext /\ member["session"] = id /\ member["server"] = id /\ member["svc"] = id
      BY <3>1, <3>2 DEF HasContext, Kinds
    <3>4. Detaches /\ SessionEnds
      BY <3>1, <3>2, <3>3 DEF Detaches, SessionEnds, Kinds
    <3>5. MayFree /\ EndsSession /\ ReachesDetach
      BY <3>1, <3>3, <3>4 DEF MayFree, EndsSession, ReachesDetach
    <3> QED
      BY <2>2, <3>3, <3>4, <3>5 DEF CloseHandles
  <2> QED
    BY <2>1, <2>2 DEF Owns
<1>4. Held' = {} /\ live' = live \ Owned
  BY <1>2, <1>3, CloseChain DEF Owned
<1>5. live' = {}
  BY <1>4 DEF Owns
<1>6. Owned' = {}
  BY <1>4 DEF Owned
<1> QED
  BY <1>3, <1>4, <1>5, <1>6 DEF Owns, Early

\* Every step keeps the account of a tidy connection.
LEMMA TidyStep == ConnectionInv /\ Stocked /\ TidyOwns /\ [Next]_vars => TidyOwns'
<1> SUFFICES ASSUME ConnectionInv, Stocked, TidyOwns, [Next]_vars
             PROVE  TidyOwns'
  OBVIOUS
<1>1. ASSUME NEW nonBlockingMode \in BOOLEAN,
             ConstructOpen(nonBlockingMode) \/ Open(nonBlockingMode)
      PROVE  TidyOwns'
  <2>1. object' # "gone"
    BY <1>1 DEF ConstructOpen, Open
  <2>2. OpenSucceeds(nonBlockingMode) \/ OpenThrows(nonBlockingMode)
    BY <1>1 DEF ConstructOpen, Open
  <2>3. PICK done \in Stages :
          /\ Progress(done, nonBlockingMode)
          /\ (stopped' = stopped /\ done = Opened) \/ stopped' = stopped \cup {done}
    BY <2>2, ConnectionAssumption DEF OpenSucceeds, OpenThrows, Opened, Stages
  <2>4. unclosed' /\ reopened' = (reopened \/ unclosed) /\ lost' = lost
    BY <2>3 DEF Progress
  <2>5. ASSUME Tidy'
        PROVE  Owns'
    <3>1. Tidy /\ ~unclosed /\ done \in Harmless
      BY <2>3, <2>4, <2>5 DEF Tidy, Harmless
    <3>2. Owns /\ Held = {}
      BY <3>1 DEF TidyOwns
    <3> QED
      BY <2>3, <3>1, <3>2, ProgressOwns
  <2> QED
    BY <2>1, <2>4, <2>5 DEF TidyOwns
<1>2. CASE Close \/ Destroy
  <2>1. PICK quiet \in BOOLEAN : CloseHandles(quiet)
    BY <1>2 DEF Close, Destroy
  <2>2. ~unclosed' /\ UNCHANGED <<stopped, reopened, lost>>
    BY <2>1 DEF CloseHandles
  <2>3. Tidy' => Tidy
    BY <2>2 DEF Tidy
  <2>4. Tidy => Owns' /\ Held' = {}
    BY <2>1, CloseOwns DEF TidyOwns
  <2> QED
    BY <2>2, <2>3, <2>4 DEF TidyOwns
<1>3. ASSUME NEW id \in Ids, LinkLost(id)
      PROVE  TidyOwns'
  <2>1. lost' # {} /\ UNCHANGED <<object, unclosed>>
    BY <1>3 DEF LinkLost, client
  <2> QED
    BY <2>1 DEF TidyOwns, Tidy
<1>4. CASE Construct \/ UNCHANGED vars
  <2>1. /\ UNCHANGED <<member, unclosed, stopped, reopened, live, attached, begun, linked, lost>>
        /\ object' = "gone" => object = "gone"
    BY <1>4 DEF Construct, vars, oci
  <2>2. UNCHANGED <<Held, Owned>>
    BY <2>1 DEF Held, Owned
  <2> QED
    BY <2>1, <2>2 DEF TidyOwns, Tidy, Owns, Usable
<1> QED
  BY <1>1, <1>2, <1>3, <1>4 DEF Next

\* Once a tidy connection is closed, or gone, OCI holds nothing of it
\* (epConnection.cpp:172-234, epConnection.h:182).
THEOREM TidyCorrect == Spec => []TidyLeavesNothing
<1>1. Init => Stocked
  BY NullIsNoId DEF Init, Stocked, Chained, Held, IsLive
<1>2. Init => TidyOwns
  <2> SUFFICES ASSUME Init
               PROVE  TidyOwns
    OBVIOUS
  <2>1. Held = {}
    BY DEF Init, Held
  <2>2. Owned = {}
    BY <2>1 DEF Owned
  <2> QED
    BY <2>1, <2>2 DEF Init, TidyOwns, Owns
<1>3. Spec => [](ConnectionInv /\ Stocked /\ TidyOwns)
  BY ConnectionInit, ConnectionStep, <1>1, StockedStep, <1>2, TidyStep, PTL DEF Spec
<1>4. TidyOwns => TidyLeavesNothing
  <2> SUFFICES ASSUME TidyOwns, Tidy, object = "gone" \/ ~unclosed
               PROVE  live = {} /\ attached = {} /\ begun = {}
    BY DEF TidyLeavesNothing, NothingLeaks
  <2>1. Owns /\ Held = {}
    BY DEF TidyOwns
  <2>2. ~ \E id \in Ids : Usable(id)
    BY <2>1, NullIsNoId DEF Usable, Held, Kinds
  <2> QED
    BY <2>1, <2>2 DEF Owns, Owned
<1> QED
  BY <1>3, <1>4, PTL
=============================================================================
