---------------------------- MODULE Connection ----------------------------
(***************************************************************************)
(* epol::Connection (epConnection.cpp): five OCI handles allocated one     *)
(* after the other by Open, released in a chain by Close, which runs again *)
(* from the destructor and from the catch of the opening constructor.      *)
(* A handle is named by its kind and by the Open that allocated it; NULL   *)
(* is 0.  The OCI side knows which handles are allocated, which servers    *)
(* are attached and which sessions are begun.                              *)
(***************************************************************************)
EXTENDS Integers

CONSTANTS
  MaxOpens,     \* bound on the calls of Open
  FailAt,       \* Open may throw after this many of its stages
  LinksFail     \* may the link of an attached server be lost

NULL == 0
Ids == 1 .. MaxOpens
Kinds == {"env", "server", "error", "svc", "session"}

\* The stages of Open, in order.  A stage that returns OCI_SUCCESS_WITH_INFO
\* has taken effect and still ends Open, as a failure of the next one does.
Stages == 0 .. 11
StageOf == [env |-> 1, server |-> 2, error |-> 3, svc |-> 5, session |-> 7]
Attached == 4      \* OCIServerAttach
Begun    == 9      \* OCISessionBegin, after 6 the server attribute of the
                   \* service context and 8 the credentials
Linked   == 10     \* the session attribute of the service context
Opened   == 11     \* OCI_ATTR_NONBLOCKING_MODE, if asked for

ASSUME ConnectionAssumption ==
  /\ MaxOpens \in Nat
  /\ FailAt \subseteq Stages
  /\ LinksFail \in BOOLEAN

VARIABLES
  object,       \* "none" | "alive" | "unwinding" | "gone": the C++ object
  member,       \* m_envHandle .. m_sessionHandle: kind -> id or NULL
  isOpened,     \* m_isOpened
  isBlocking,   \* m_isBlocking
  opens,        \* how many times Open has been called
  unclosed,     \* an Open has been called since the last Close
  stopped,      \* history: the stages after which an Open threw
  reopened,     \* history: Open was called again without a Close between
  live,         \* OCI: the allocated handles, <<kind, id>>
  attached,     \* OCI: server handles that are attached
  begun,        \* OCI: sessions that are begun
  linked,       \* OCI: service contexts with their server and session set
  nonblocking,  \* OCI: server handles in non-blocking mode
  lost,         \* OCI: server handles whose link is lost
  misused       \* a handle that is not allocated was passed to OCI

client == <<object, member, isOpened, isBlocking, opens, unclosed, stopped, reopened>>
oci == <<live, attached, begun, linked, nonblocking, lost, misused>>
vars == <<object, member, isOpened, isBlocking, opens, unclosed, stopped, reopened,
          live, attached, begun, linked, nonblocking, lost, misused>>

Init == /\ object = "none"
        /\ member = [kind \in Kinds |-> NULL]
        /\ isOpened = FALSE /\ isBlocking = FALSE
        /\ opens = 0 /\ unclosed = FALSE /\ stopped = {} /\ reopened = FALSE
        /\ live = {} /\ attached = {} /\ begun = {} /\ linked = {}
        /\ nonblocking = {} /\ lost = {}
        /\ misused = FALSE

-----------------------------------------------------------------------------
(* Opening.                                                                *)

Allocated(done) == {kind \in Kinds : StageOf[kind] <= done}
\* (Mutant: a stage that was not reached leaves a null handle.)
OnceOrNull(id, reached) == {IF reached THEN id ELSE NULL}
Once(id, reached) == IF reached THEN {id} ELSE {}

\* What the first `done' stages of Open leave behind: members that were not
\* reached keep the handle they had.
Progress(done, nonBlockingMode) ==
  LET id == opens + 1
  IN  /\ opens < MaxOpens
      /\ opens' = id
      /\ unclosed' = TRUE
      /\ reopened' = (reopened \/ unclosed)
      /\ member' = [kind \in Kinds |-> IF kind \in Allocated(done) THEN id ELSE member[kind]]
      /\ live' = live \cup (Allocated(done) \X {id})
      /\ attached' = attached \cup Once(id, done >= Attached)
      /\ begun' = begun \cup Once(id, done >= Begun)
      /\ linked' = linked \cup Once(id, done >= Linked)
      /\ nonblocking' = nonblocking \cup Once(id, done >= Opened /\ nonBlockingMode)
      /\ UNCHANGED <<lost, misused>>

\* EP_ASSERT (!m_isOpened) is the only thing Open asks for.
MayOpen == ~isOpened

\* (Mutant: the flag keeps its initial meaning, whatever was asked for.)
OpenSucceedsBlocking(nonBlockingMode) ==
  /\ MayOpen
  /\ Progress(Opened, nonBlockingMode)
  /\ isOpened' = TRUE
  /\ isBlocking' = TRUE
  /\ UNCHANGED stopped
OpenSucceeds(nonBlockingMode) ==
  /\ MayOpen
  /\ Progress(Opened, nonBlockingMode)
  /\ isOpened' = TRUE
  /\ isBlocking' = ~nonBlockingMode
  /\ UNCHANGED stopped

OpenThrows(nonBlockingMode) ==
  /\ MayOpen
  /\ \E done \in FailAt : /\ Progress(done, nonBlockingMode)
                         /\ stopped' = stopped \cup {done}
  /\ UNCHANGED <<isOpened, isBlocking>>

Open(nonBlockingMode) ==
  /\ object = "alive"
  /\ OpenSucceeds(nonBlockingMode) \/ OpenThrows(nonBlockingMode)
  /\ UNCHANGED object

\* Connection (): no handle yet.
Construct == /\ object = "none"
             /\ object' = "alive"
             /\ UNCHANGED <<member, isOpened, isBlocking, opens, unclosed, stopped,
                            reopened, oci>>

\* Connection (serviceName, ...): Open, and if it throws the catch block
\* closes before the object disappears, without its destructor.
ConstructOpen(nonBlockingMode) ==
  /\ object = "none"
  /\ \/ OpenSucceeds(nonBlockingMode) /\ object' = "alive"
     \/ OpenThrows(nonBlockingMode) /\ object' = "unwinding"

-----------------------------------------------------------------------------
(* Closing.                                                                *)

IsLive(kind) == <<kind, member[kind]>> \in live

\* OCISessionEnd: there must be a begun session and a server associated with
\* the service context (ociap.h:5946), and a link to tell the server.
SessionEnds ==
  /\ \A kind \in {"svc", "error", "session", "server"} : IsLive(kind)
  /\ member["svc"] = member["session"]
  /\ member["session"] \in begun \cap linked
  /\ member["session"] \notin lost

\* OCIServerDetach: only an attached server can be detached.
Detaches == IsLive("server") /\ IsLive("error") /\ member["server"] \in attached

\* Lines 186-197: the result that decides whether anything is freed.
HasContext == member["svc"] # NULL /\ member["error"] # NULL
EndsSession == HasContext /\ member["session"] # NULL /\ SessionEnds
ReachesDetach == HasContext /\ (member["session"] = NULL \/ SessionEnds)
\* (Mutants: the handles are freed whatever OCI answered; without a service
\* context the result of the attribute call is kept.)
FreesRegardless == TRUE
FreesWithContext == HasContext /\ ReachesDetach /\ Detaches
MayFree == HasContext => ReachesDetach /\ Detaches

\* Lines 199-227: handles are freed in this order, each only if the one
\* before it was; freeing a handle twice may be reported or not (`quiet').
FreeOrder == [svc |-> 1, session |-> 2, error |-> 3, server |-> 4, env |-> 5]
FreeSucceeds(kind, quiet) == member[kind] = NULL \/ IsLive(kind) \/ quiet
ReachesFree(kind, quiet) ==
  MayFree /\ \A k \in Kinds : FreeOrder[k] < FreeOrder[kind] => FreeSucceeds(k, quiet)
Held == {kind \in Kinds : member[kind] # NULL}
Freed(quiet) == {kind \in Held : ReachesFree(kind, quiet)}
\* (Mutant: m_isOpened is not reset.)
NeverAllFreed(quiet) == FALSE
AllFreed(quiet) == MayFree /\ \A kind \in Kinds : FreeSucceeds(kind, quiet)

\* A member is reset by the block of the next one, if that has a handle.
ResetBy == [svc |-> "session", session |-> "error", error |-> "server", server |-> "env"]
\* (Mutant: no member is reset.)
NeverReset(quiet) == {}
Reset(quiet) ==
  {kind \in Kinds \ {"env"} : ResetBy[kind] \in Freed(quiet)}
    \cup (IF "env" \in Freed(quiet) /\ FreeSucceeds("env", quiet) THEN {"env"} ELSE {})

\* The handles this Close passes to OCI.
PassedToOCI(quiet) ==
  ({"server"} \cap Held)
    \cup (IF HasContext THEN {"svc", "error", "session"} \cap Held ELSE {})
    \cup Freed(quiet)

CloseHandles(quiet) ==
  /\ nonblocking' = nonblocking \ {member["server"]}
  /\ begun' = IF EndsSession THEN begun \ {member["session"]} ELSE begun
  /\ attached' = IF ReachesDetach /\ Detaches THEN attached \ {member["server"]} ELSE attached
  /\ live' = live \ {<<kind, member[kind]>> : kind \in Freed(quiet)}
  /\ linked' = linked \ {member[kind] : kind \in Freed(quiet) \cap {"svc"}}
  /\ member' = [kind \in Kinds |-> IF kind \in Reset(quiet) THEN NULL ELSE member[kind]]
  /\ misused' = (misused \/ \E kind \in PassedToOCI(quiet) : ~IsLive(kind))
  /\ isOpened' = (isOpened /\ ~AllFreed(quiet))
  /\ isBlocking' = (isBlocking /\ ~AllFreed(quiet))
  /\ unclosed' = FALSE
  /\ UNCHANGED <<opens, stopped, reopened, lost>>

Close == /\ object = "alive"
         /\ \E quiet \in BOOLEAN : CloseHandles(quiet)
         /\ UNCHANGED object

\* ~Connection, and the catch block of the opening constructor.
Destroy == /\ object \in {"alive", "unwinding"}
           /\ object' = "gone"
           /\ \E quiet \in BOOLEAN : CloseHandles(quiet)

LinkLost(id) == /\ LinksFail
                /\ id \in attached \ lost
                /\ lost' = lost \cup {id}
                /\ UNCHANGED <<client, live, attached, begun, linked, nonblocking, misused>>

Next == \/ Construct
        \/ \E nonBlockingMode \in BOOLEAN :
             ConstructOpen(nonBlockingMode) \/ Open(nonBlockingMode)
        \/ Close
        \/ Destroy
        \/ \E id \in Ids : LinkLost(id)

Spec == Init /\ [][Next]_vars

-----------------------------------------------------------------------------
\* Every variable has its type.
TypeOK ==
  /\ object \in {"none", "alive", "unwinding", "gone"}
  /\ member \in [Kinds -> Ids \cup {NULL}]
  /\ isOpened \in BOOLEAN /\ isBlocking \in BOOLEAN
  /\ opens \in 0 .. MaxOpens /\ unclosed \in BOOLEAN
  /\ stopped \subseteq Stages /\ reopened \in BOOLEAN
  /\ live \subseteq Kinds \X Ids
  /\ attached \subseteq Ids /\ begun \subseteq Ids /\ linked \subseteq Ids
  /\ nonblocking \subseteq Ids /\ lost \subseteq Ids
  /\ misused \in BOOLEAN

\* IsConnected is "true if connected" (epConnection.h:137): the five members
\* are then the handles of one and the same Open, all still allocated, with
\* the server attached and the session begun, after any sequence of failed
\* and repeated calls of Open and Close.
ConnectedMeansUsable ==
  isOpened => \E id \in Ids :
    /\ \A kind \in Kinds : member[kind] = id /\ <<kind, id>> \in live
    /\ id \in attached \cap begun \cap linked

\* IsBlocking answers for the mode the server handle is in, as long as the
\* link has not been lost (epConnection.cpp:159, 165, 181, 232).
BlockingFlagAgrees ==
  isOpened /\ lost = {} => (isBlocking <=> member["server"] \notin nonblocking)

\* A Close that makes IsConnected false has released all that the Open
\* before it acquired (epConnection.cpp:172-234).
DisconnectReleasesAll ==
  [][isOpened /\ ~isOpened' =>
       LET id == member["env"]
       IN  /\ \A kind \in Kinds : <<kind, id>> \notin live'
           /\ id \notin attached' \cup begun']_vars

\* Once the object is gone OCI holds nothing of it: cleanUp is to "release
\* all resources allocated" (epConnection.h:182).
NothingLeaks == object = "gone" => live = {} /\ attached = {} /\ begun = {}

\* What Close needs to keep that promise, and to keep it after every Close of an
\* object that lives on: no Open threw between attaching the server and linking
\* the session, none was called over another without a Close, and no link was
\* lost (epConnection.cpp:186-199).
Harmless == (0 .. Attached - 1) \cup {Linked, Opened}
Tidy == stopped \subseteq Harmless /\ ~reopened /\ lost = {}
TidyLeavesNothing ==
  Tidy => /\ NothingLeaks
          /\ ~unclosed => live = {} /\ attached = {} /\ begun = {}

\* No handle is passed to OCI that is not allocated: "Handles must be
\* allocated [...] before they can be passed into an OCI call" (ociap.h:3281).
\* It takes an Open that threw with a service context handle and without a
\* session handle to break it (epConnection.cpp:199-206), never a lost link,
\* an Open over another or any sequence of Closes.
SessionStages == StageOf["svc"] .. StageOf["session"] - 1
HandlesLiveWhenUsed == stopped \cap SessionStages = {} => ~misused

\* After Close ("Close the connection", epConnection.h:95) IsConnected is
\* false until the next Open, whatever failed before, as long as the link has
\* not been lost.
CloseDisconnects == isOpened /\ lost = {} => unclosed
=============================================================================
