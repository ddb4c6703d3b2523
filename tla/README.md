# A TLA+ model of EpOraLibrary

EpOraLibrary wraps Oracle's C interface (OCI) in five C++ classes. The modules
here model what those classes do with OCI's handles, fetches and return codes;
TLC checks them on small instances and TLAPS proves their main properties for
every value of the constants. Paths below are relative to
`src/EpOraLibrary/EpOraLibrary/`.

## The system

| Component | State it keeps | Operations | Hard behaviour | What makes it correct |
|---|---|---|---|---|
| `Connection` (`Sources/epConnection.cpp`) | five OCI handles, `m_isOpened`, `m_isBlocking` | construct, `Open`, `Close`, destroy, `Prepare`, `Execute`, `Select`, `Commit`, `Rollback` | `Open` can stop after any of eleven OCI calls; `Close` runs from the client, the destructor and a `catch`; the link can be lost | connected means usable; disconnecting releases everything; no handle used after it was freed |
| `Statement` (`Sources/epStatement.cpp`) | statement handle, type, prepared/executed flags, its parameters | prepare, `Execute`, `Select`, `Bind`, lookup | exceptions half way; result sets and parameters that outlive it; non-blocking execution | each handle freed once, nobody uses it afterwards |
| `ResultSet` (`Sources/epResultSet.cpp`) | rows fetched, current row, end-of-data flag, columns | describe, define, `fetchRows`, `Next`, `IsEod`, lookup | rows come in batches into buffers that are overwritten; a fetch may throw between two state changes | every row presented once, in order; `IsEod` exact |
| `Column` (`Sources/epColumn.cpp`) | buffer, indicators, type | five readers | reads by `currentRow % fetchCount`, trusting the cursor | the value of the row the cursor stands on |
| `Parameter` (`Sources/epParameter.cpp`) | buffer, length, indicator, cached result set | bind, assignment, readers, `ToResultSet` | lengths at the buffer's limit; a cached result set that goes stale | nothing written past the buffer; the cursor returned is the current one |
| `OraError` (`Sources/epOraError.cpp`) | code, Oracle code, text | construction from an OCI result | the error handle is shared by all threads of a connection | the details are those of the failing call, or of one that came after it |
| `SmartObject` (`EpLibraryHeaders/epSmartObject.h`) | reference count under a lock | retain, release | concurrent release; a destructor that deletes its own lock | destroyed once, at zero, the lock free by then |
| `DateTime`, definitions | plain data | getters, setters | none | - |

Interaction: a `Connection` makes `Statement`s (raw pointer back to it); a
`Statement` makes `ResultSet`s over its own statement handle and `Parameter`s;
a `Parameter` bound to a cursor makes a `ResultSet` over its own handle; a
`ResultSet` makes `Column`s, whose buffers OCI writes on every fetch. Only
`Connection::Select` gives the result set a reference to its statement. Errors
travel as exceptions; the library starts no thread, but `OCI_THREADED` is the
default mode and objects may be shared by the client's threads.

There are no tests in the repository; its claims are the comments of its
headers and OCI's own documentation in `OciHeaders/ociap.h`.

## Modules

| Module | Models | How it corresponds to the code |
|---|---|---|
| `RowStream` | what a result set promises (`epResultSet.h:62-99`) | abstract: the row the client stands on, the row a read returns, `IsEod` |
| `ResultSet` | `ResultSet`, the readers of `Column`, `Statement::Select`'s first fetch | one variable per member (`rowsFetched`, `currentRow`, `isEod`), `slot` for a column's buffer, `served` for `OCI_ATTR_ROW_COUNT` |
| `MCResultSet` | instances | sets of query sizes, NULL rows, faults |
| `ResultSetProofs` | proofs | see below |
| `Connection` | `Connection`'s construction, `Open`, `Close`, destruction | `member` is the five handle members; the OCI side is the sets `live`, `attached`, `begun`, `linked`, `nonblocking`, `lost` |
| `MCConnection` | instances | which stages of `Open` may fail |
| `ConnectionProofs` | proofs | see below |
| `Ownership` | preparing, executing, `Bind`, both `Select`s, `ToResultSet`, `RetainObj`, `ReleaseObj` and every `cleanUp` | the pointers `m_parameters`, `m_stmt` (twice), `m_resultSet`, `m_rsHandle`; `refs` is `m_refCount`; the OCI side is `handles`, `bound` and `defined` |
| `MCOwnership` | instances | a query and a block with a cursor parameter |
| `Heap` | what counting references promises (`epSmartObject.h:106-138`) | abstract: the objects there are, those the client holds, which object keeps which; nothing is counted |
| `OwnershipProofs`, `HeapProofs`, `OrderlyProofs` | proofs | any client; the refinement of `Heap`; a client that releases statements last |
| `Parameter` | assignment, NULL, execution and reading of one bound value | `paramType`, `indicator`, `dataLen`, `buffer` are the members; a text is a model value and its characters are numbered |
| `MCParameter`, `ParameterProofs` | instances, proofs | texts around the buffer's size and around the wrap |
| `OraError` | the throws of the library and the two constructors of `OraError` they use | `diag` is what OCI keeps in a handle, `error` is `m_type`, `m_code`, `m_oraCode` of the exception a thread has in hand |
| `MCOraError`, `OraErrorProofs` | instances, proofs | two threads |
| `RefCounted` | what a shared object promises its threads | abstract: who holds which reference, and whether the object is there |
| `SmartObject` | `RetainObj`, `ReleaseObj`, `GetReferenceCount`, the destructor | `refCount` is `m_refCount`, `lock` the owner of `m_refCounterLock` and `depth` how often it has entered; each thread has a place in the code |
| `MCSmartObject`, `SmartObjectProofs` | instances, proofs | three threads, four references |

### ResultSet

`Select` is `Statement::Select` up to the first fetch. `Next` in the code is one
function with three ways through it; they are the actions `NextBuffered` (no
fetch: inside the batch, or past the end), `NextFetch` (a fetch that succeeds),
and `NextBlocked` and `NextPartial` (a fetch that throws). All of them move
`currentRow` first, as `epResultSet.cpp:248` does, and `NextBlocked` and
`NextPartial` leave it moved. `Read` is any of the readers: it looks only at the
slot `currentRow % FetchCount`, the type and the indicator. `FetchCount` is
`FETCH_SIZE` modulo 2^16, because the member is an unsigned short.

A row is its number in the query, and a slot holds the row last written to it:
the values themselves do not matter, which row they belong to does.
`presented`, the rows the client has stood on, is a history variable.

What OCI does is assumed, as follows. A fetch delivers the next
`FetchCount` rows or all that are left, into the first slots of the buffers. A
non-blocking fetch that answers `OCI_STILL_EXECUTING` has moved nothing. A fetch
that reports an error may have moved some rows, and `OCI_ATTR_ROW_COUNT`, "the
rows processed so far" (`oci.h:966`), counts those; the same action stands for
reading that attribute failing after a fetch that succeeded.

`m_nTotRow` (`epResultSet.cpp:132`) is left out: it is never initialised, adds up
cumulative counts, and nothing reads it.

### Connection

A handle is its kind and the number of the `Open` that allocated it. `Open` is
one action, parameterised by how many of its eleven stages took effect before it
threw; a stage that returns `OCI_SUCCESS_WITH_INFO` has taken effect and ends
`Open` like a failure of the next one. Members that a failing `Open` did not
reach keep their old value. `Close` is one action that follows the chain of
`epConnection.cpp:172-234`: what is passed to OCI (`PassedToOCI`), whether the
session is ended and the server detached, which handles are freed (`Freed`) and
which members are reset (`Reset`, each by the block of the next handle).
`Destroy` is `Close` and the end of the object. The constructor that opens is
`ConstructOpen`; if `Open` throws, its catch block is a `Destroy` of an object
that is `unwinding`, the only thing that can then happen to it.

OCI is assumed to answer by its own state: `OCISessionEnd` needs a begun session
associated with the service context and a link (`ociap.h:5946`),
`OCIServerDetach` an attached server, `OCIHandleFree` an allocated handle.
Freeing a handle again is undefined, so both answers are tried (`quiet`).
The result of the `OCIAttrSet` of `epConnection.cpp:181` never matters: every
path overwrites it.

Three history variables carry no state of the code: `misused` (OCI was given a
handle that is not allocated), `stopped` (the stages after which some `Open`
threw) and `reopened` (an `Open` followed another without a `Close`). They let
one run over all clients say under which condition a property holds.

### Ownership

Statements, parameters and result sets of one open connection, as objects that
are constructed once, counted, and destroyed. A member of a set stands for its
memory, so for the buffers OCI writes to: a result set for those of its columns
(which nobody else refers to), a parameter for its own. `bound` and `defined`
are what OCI remembers: the parameter whose buffer a statement handle is bound
to under a name, and the result set whose columns a handle fetches into. Binding
a name again, and defining again, replace what was there.

A client can use what it holds a reference to, the parameters of a statement it
holds, and the result sets `ToResultSet` returns. Constructors run whole: an
object whose constructor throws uses up its name and leaves what its `cleanUp`
leaves. `BindThrows` is an exception after `OCIBindByName` has succeeded, in
the character-set attribute, in `m_parameters` or in `m_parametersMap`
(`LateBindFaults`); `BindRefused` is any before. `SelectThrows` and
`ToResultSetThrows` may have defined buffers already or not. `ReleaseObj` is the
whole cascade: what each `cleanUp` releases in turn is computed by `StmtCalls`,
`ParamCalls` and `SetCalls`. An `Execute` that throws changes nothing here and
has no action.

Assumed of OCI: a cursor parameter's handle can be described and fetched only
after an execution has opened it; an execution with such a handle bound, or of
the query itself, starts its cursor anew; freeing a handle forgets its buffers.
A query has no cursor variables.

`Heap` is the abstract specification: an object lives exactly as long as the client
can reach it through references of its own and objects that keep one another.
`ImplementsHeap` maps the objects with a count above zero to `alive`, those the
client holds a reference to (`InHand`) to `roots`, and the counted pointers between
objects (`Kept`) to `keeps`. A release that is not the client's last reference is
invisible; the last one takes away, in one step, everything the client can no
longer reach, which the code finds by counting down one `cleanUp` at a time. That
each count can be read and written in one step here is what `SmartObject` shows
of the lock (`ImplementsRefCounted`).

`Orderly` and `OneSet` are rules a client may follow: release a statement after
everything obtained from it (the pointers from a result set of
`Statement::Select` and from a parameter to the statement are not counted), and
hold one result set of a statement at a time. Runs say which they assume. The
connection's `Close` with statements left is not modelled here: OCI keeps child
handles when the parent is freed (`ociap.h:3330`), and `m_conn` is then used
with NULL handles.

### Parameter

A parameter's buffer of `Units` characters, a terminator, and cells nobody has
written. `Kept` is the computation of lines 251 to 257: the length as the
unsigned short has it, cut if it is above the buffer's size. In the Unicode
build (the one modelled) all lengths in bytes are even, so a character is the
unit, `Units` stands for 4096 / 2 and `UShortSpan` for 65536 / 2. A number or a
date is one value; a conversion that fails leaves the buffer in a state OCI does
not describe (`Garbage`) and the indicator as it was. An assignment of the wrong
type throws and changes nothing, so it has no action; the empty text makes any
parameter NULL.

`Input` is an execution that takes the value in, `OutputText`, `OutputValue` and
`OutputNull` one that puts a value out. Assumed of OCI: a null-terminated text
ends at its terminator or at the length bound with it, whichever comes first; a
text put out is cut to leave room for a terminator, and the length reported may
count that or not. `stored`, `sent` and `beyond` are history.

### OraError

OCI keeps the diagnostics of a failure in the handle the call was given;
`OraError::oracleError` asks for them in a later step, between which and the
failing call other threads may act. `Call` is any call of OCI that the library
makes, with any result; it has failed unless the result is one the caller
accepts (`OCIStmtFetch` is the only one to accept more than `OCI_SUCCESS`). `Throw` is
the constructor from a result and a handle, `ThrowOraLib` the one from a code of
the library, `CleanUp` the calls of a `catch (...)` on the way out, whose
failures are ignored and overwrite the diagnostics. Which connection a thread
works on is chosen at the start, so connections may be shared or not. A failure
is its thread and code: the text is left out. `since` is a history variable: what
the calls on a thread's connection have recorded since its own failing call, up to
the throw. It goes by connection, as the client sees it, and not by the handle
that the calls were given. `OCIHandleAlloc` leaves no
diagnostics (`ociap.h:3279`), so an error that names the environment handle has
no details.

### SmartObject

The threads of a client and one object. The code of each call is cut where
another thread may come between: entering the lock, reading `m_refCount`, writing
it, testing it, leaving the lock. `ReleaseObj` of the last reference raises the
count again, leaves the lock and runs the destructor (`dying`, `destroy`), which
enters it once more. A reference is one of `Refs` and is held by one thread at a
time; `HandOver` passes it on. A thread calls only with a reference in its hands:
that is the client's part of the bargain, and without it no counter can work.

`m_refCount++` is a read and a write; what makes them one is the lock of the
policies `CRITICALSECTION` and `MUTEX`, whose own code is in the prebuilt library:
a critical section and a mutex of Windows (`epCriticalSectionEx.h:116`,
`epMutex.h:139`), which let their owner in again and are free when it has left as
often as it entered. No call enters twice, so `depth` never exceeds 1; that the
lock would not stop a thread that has kept it is what makes an `Unlock` missed on
the early return of `ReleaseObj` show only in the destructor, which would delete a
lock that is still owned (`LockFreeAtEnd`, mutant `UnlockLeaky`).
The policy `NONE` (`NoLock`) is the mutant `LockNone`, under which the count is
wrong, the object leaks, or is used after it was deleted. In release builds `RetainObj` and `ReleaseObj` are in
the prebuilt library too; the bodies modelled are those of the header.

`RefCounted` is the abstract object: `Retain`, `GiveUp`, `HandOver` in one step
each, and a `Delete` that follows the last `GiveUp`. `ImplementsRefCounted` says
that the counter implements it, the effect of a call being the write of the count.

## What the runs show

| Run | Question | Bounds |
|---|---|---|
| `result_set` | types; own row (`CursorOnRow`), own non-NULL value (`ReadsOwnValue`), exact end (`EodMeansExhausted`), every row before FALSE (`FalseMeansAllPresented`), the next row on TRUE (`NextPresentsNextRow`), the end is reached (`ReachesEnd`), refinement of `RowStream` | queries of 0 to 10 rows, batches of 3 (7 modulo 4, so the truncation is exercised), NULL in rows 1 and 5 |
| `result_set_faults` | what is read after any mixture of `OCI_STILL_EXECUTING` and of fetches that moved rows and failed was delivered (`ReadsDelivered`) | the same, `currentRow` up to 12 |
| `connection` | types, `ConnectedMeansUsable`, `BlockingFlagAgrees`, `DisconnectReleasesAll`; a Close disconnects unless a link was lost (`CloseDisconnects`); nothing is left at OCI after a Close or the end of the object unless `Tidy` fails (`TidyLeavesNothing`); no freed handle reaches OCI unless an `Open` stopped between the service context handle and the session handle (`HandlesLiveWhenUsed`) | 3 Opens, every stage failing, links lost, reopened without Close |
| `ownership` | types; counts exact (`ReferencesCounted`), nothing left behind (`NothingLeaked`), sets of `Connection::Select` keep their handle (`AttachedHandleLives`), refinement of `Heap` (`ImplementsHeap`), for clients that follow no rule | 2 statements, 2 parameters (one a cursor) of one name, 2 result sets, 2 references each; exceptions everywhere but in `m_parametersMap` |
| `ownership_orderly` | whatever the client can use stands on a handle and a statement (`StandsOnHandle`), fetches into its own buffers (`FetchesIntoOwnBuffers`), executes with live ones (`BoundBuffersLive`) | the same objects; both rules followed, no late fault in `Bind` |
| `smart_object` | types; nobody in a deleted object (`NoUseAfterDelete`), exact count returned (`CountReturnedExact`), both assertions (`AssertionsHold`), somebody to do it as soon as no reference is left (`LastReleaseDeletes`), its lock free when it goes (`LockFreeAtEnd`), no call that keeps the lock (`SomeoneGoesOn`), refinement of `RefCounted`, deletion after the last release (`DeletedAtLast`) | 3 threads, 4 references at a time |
| `parameter` | types; what fits is read back (`ReadsBackWhatFits`) and sent (`SendsWhatFits`) whole, nothing is a mixture (`NeverMixes`), terminators inside (`StaysInside`) | buffer of 4, lengths modulo 16, texts of 1 to 5 and 15 to 20 characters |
| `ora_error` | types; a thread is told of its own failure, or of what overtook it on its connection between the failing call and the throw, with all the details there are (`OwnOrLater`): of no older failure, no clean-up of its own, no other connection | 2 threads on one or two of 2 connections, 2 codes |

Queries of no row, less than a batch, exactly one, two and three batches and one
row more are all in 0..10: a longer query only repeats the step from a full
batch to the next, which is what the proofs make precise. Two Opens are enough
for a mixture of old and new handles; the third follows a mixture. In
`ownership` a chain of releases has at most three objects (result set,
statement, parameter, or statement, parameter, result set) and two objects of each kind let one be kept while the other dies; the proofs hold for
any number. Three threads let one come between two that release; four
references let each have one and one be retained. The lengths of `parameter` are
on both sides of the buffer's size, just below the wrap, and after it: wrapped to
nothing, to a text that fits, to exactly the buffer. Two codes tell a thread's
last failure from the one before.

Where the code does not do what the repository says, a run shows it:

| Run | What the code does |
|---|---|
| `retry_skips_a_row` | a `Next` repeated after `OCI_STILL_EXECUTING` skips a row |
| `login_refused` | a refused login leaves all five handles and the attached server for ever |
| `second_select` | a second `Select` of a statement redirects the fetches of its first result set into the buffers of the second |
| `cached_set` | after a `ToResultSet` whose first fetch threw, the next returns a set that was never fetched |

What else the models showed, without a run of its own:

* After a fetch that moved rows and failed, a retry sets `m_isEod` with rows left
  (`epResultSet.cpp:236` against `oci.h:966`): `EodMeansExhausted` fails with
  `Faults = {"partial"}`.
* With the real `FETCH_SIZE`, 200000, a fetch asks for 200000 % 65536 = 3392 rows
  (`epResultSet.cpp:95`).
* `ToResultSet` also returns the old set after the statement was executed again
  (`epParameter.cpp:388`), the second way `CachedSetCurrent` fails.
* If `m_parametersMap` throws, `Bind` releases a parameter that `m_parameters` still
  has and will release again (`epStatement.cpp:169-174`): `ReferencesCounted`
  fails with `LateBindFaults = {"map"}`.
* An `Open` that could not allocate the session handle (or failed right before)
  makes the second `Close`, or the destructor, free the service context handle
  again: `m_svcContextHandle` is reset only by the block that frees the session
  handle (`epConnection.cpp:199-206`). `~misused` fails there, which is the
  condition of `HandlesLiveWhenUsed`.
* A text of exactly the buffer's length is not cut and its terminator goes past
  the buffer (`epParameter.cpp:256-262`: `>` where the copy and the terminator
  need `>=`); `NeverMixes` and `StaysInside` except that one length.
  `MAX_OUTPUT_TEXT_BYTES` is said to count characters (`epOraDefines.h:110`) and
  counts bytes, so texts of 2049 characters and more are cut, and those of 32768
  and more to what is left after the wrap.
* `m_oraCode` is not written unless the result has details (`epOraError.cpp:183`).
* Two threads on one connection may be told of each other's failures
  (`epOraError.cpp:192`). `OwnOrLater` says how far that goes: to those recorded
  between the failing call and the throw. Without a second thread on the
  connection there are none, and the error is the thread's own
  (`AloneIsToldItsOwn`).
* After the link is lost `Close` does nothing and `IsConnected` stays TRUE
  (`epConnection.cpp:188-199`), which is why `CloseDisconnects` excludes that case.

**Fairness.** `ReachesEnd` assumes weak fairness of `CallNext`, a client that
keeps calling `Next` while it holds a result set. That is the loop every user of
a cursor writes; the library has no scheduling of its own. It is claimed without
faults only, since a client may stop retrying. `DeletedAtLast` assumes weak
fairness of each thread's next step inside a call, its `Lock` included: threads
are preempted, not stopped. Weak fairness of `Lock` is enough, for a thread that
waits for ever would need others to take the lock again and again, and after the
last release nobody can. No thread is made to call or to give a reference up.

**Deadlock** is not checked for `Connection`, where the object's life ends, nor
for `Ownership`, where the finite supply of objects does, nor for `SmartObject`,
where nothing is left to do once the object is deleted.

**Bounds.** `MaxRow` caps `m_currentRow`, which grows with every call past the
end (in the code it wraps after 2^32); `MaxOpens` caps the Opens of one object;
`MaxHeld` the references a client takes of one object; `Refs` the references of
all threads together.

## What is proved

For every value of the constants that the named assumptions
(`ResultSetAssumption`, `ConnectionAssumption`, `OwnershipAssumption`) allow:

* `ResultSetProofs`: `TypeCorrect` and `DeliveredCorrect` under every fault;
  `CursorCorrect`, `EodCorrect`, `ReadCorrect` as long as a failing fetch moves
  no row (`"partial" \notin Faults`), retries of blocked fetches included;
  `FalseCorrect`, `NextCorrect`, `InTimeCorrect` and `Refinement` without
  faults. `CursorOnRow` is not inductive: it must be known that the whole
  buffer, not only the current slot, holds one batch, that the cursor has not
  fallen behind that batch, and that only a batch that ends the data may be
  short. That is `BatchInv`: a base row `b` exists with slot `i` holding `b +
  i`. Bases are the numbers for which `(b + i) % FetchCount = i`; that `b +
  FetchCount` is again one is the lemma `ModPeriod`. `StreamInv` adds, for runs
  without faults, that the cursor stands on a row until the end is known and
  that the rows shown are exactly those up to the cursor; the refinement follows
  from both, and so does that the end is known in time (`EodInTime`, stated with
  the proofs). `DeliveredCorrect` rests on another invariant, `WrittenInv`: the
  slots a counted row falls into were written by a fetch, whatever was lost.
* `ConnectionProofs`: `ConnectedCorrect`, `BlockingCorrect`, `DisconnectCorrect`,
  `CloseCorrect`, for any set of failing stages and with links lost. The argument is
  `CloseAllOrNothing`: of a usable connection `Close` either releases everything
  or, if the session cannot be ended, nothing. `Fresh` says that the handles of
  Opens to come are not yet in use. `ConnectionTypes`.
  `HandlesCorrect` rests on `Stocked`: while no Open stopped at those stages, the
  members form a chain (`Chained`), each handle there only if the one that resets
  it is, and each of them is allocated. `TidyCorrect` adds `TidyOwns`: with such
  failures only as `Tidy` allows, what OCI has is exactly what the members name,
  and after a Close they name nothing.
* `OwnershipProofs`: `OwnershipTypes`; `CountsCorrect`, `LeaksCorrect` and
  `AttachedCorrect` as long as `Bind` does not throw between its two containers
  (`"map" \notin LateBindFaults`). The counts alone are not inductive: `OwnInv`
  says that an object has at most one owner, that only living objects own
  anything, and that a statement owned by a result set is unknown to the client
  and has no parameters. The step that matters is `OwnRelease`; its lemma
  `Cascade` says that every object a release reaches beyond the first has an
  owner that dies, and that everything a dying owner points to is reached.
* `HeapProofs`: `OwnershipRefines`, the refinement of `Heap`, under the same
  condition. Counts can be exact and still keep objects the client has lost: what
  is needed besides `OwnInv` is that no objects keep each other in a circle.
  `AliveReached` shows that by the shape of the pointers: whatever lives is held,
  or kept by one that is held, or is two such steps away. `ReleaseEffect` says
  what a `ReleaseObj` leaves of the pointers, `HeapRelease` that this is what
  `Heap`'s `Drop` leaves, in both directions: nothing unreachable stays, and
  nothing reachable goes.
* `OrderlyProofs`: `StandingCorrect` for clients that release statements last
  (`Orderly`), `BoundCorrect` for any order, and `DefinedCorrect` for clients that
  also hold one result set of a statement at a time (`OneSet`), each as long as
  `Bind` does not throw once OCI knows the buffer (`LateBindFaults = {}`).
  `StandInv` says of every parameter and every result set that lives on what it
  stands: a statement the client holds, one of its own, or a cursor parameter
  that lives and keeps it.
* `SmartObjectProofs`: `ObjectTypes`, `UseCorrect`, `CountCorrect`,
  `AssertionsCorrect`, `DestroyCorrect`, `LastReleaseCorrect`, `LockFreeCorrect`,
  `GoesOnCorrect` and the refinement `ObjectRefines`, for any threads and any finite set of references. `ObjectInv`: the lock's owner is the
  thread inside and has entered once, what it has read is still the count, the count is the number of
  references (`Counted`, but for the increment of line 130), and a thread on its way to
  the destructor is alone with the object. `LastReleaseDeletes` is inductive only
  together with it: the thread that leaves the lock could otherwise be the one
  that was to delete.
  `DestroyCorrect` (`OneDestroys`, stated with the proofs) says of every moment
  what `NoUseAfterDelete` shows once the first of two destructors has ended.
* `ParameterProofs`: `ParameterTypes`, `ReadBackCorrect`, `NoMixture`,
  `TerminatorInside`, `SendingCorrect`, for every buffer size, every width of the
  length and every text (`ParameterAssumption`: the width exceeds the buffer by
  more than one). `HoldsStored` says what the buffer holds of the text stored
  last and that `m_dataLen` does not end it early.
* `OraErrorProofs`: `ErrorTypes`, `DiagnosticsCorrect`, for any threads,
  connections and codes. `Recorded`: between a failing call and the throw the
  handle that the throw will name holds something of the thread's history, because
  whoever writes into it works on the same connection and its call is in that
  history too (`Overtaking`). `OwnHistory`: of a thread alone on its connection
  the history is its own failure, so the error is (`AloneIsToldItsOwn`, whose
  `OwnDiagnostics` is stated with the proofs).

Every invariant and action property of a passing run is proved, and the three
refinements. Model-checked only are the four violations and the two liveness
properties, `ReachesEnd` and `DeletedAtLast`: they need fairness, and so ENABLED,
which the provers do not have. What of them is safety is proved. For
`DeletedAtLast`, an object nobody holds has a thread that will delete it
(`LastReleaseDeletes`) and the threads inside do not block one another
(`SomeoneGoesOn`); for `ReachesEnd`, a cursor past the last row is at the end
(`EodInTime`), and every `Next` moves it. What is left to TLC is that each thread
and each client goes on. Conditions on the constants are
premises of the theorems named above and are met by the runs that check the same
property.

## Not modelled

* Values, SQL, the text of messages, and what conversions yield. `DateTime` is a
  record with getters and setters.
* The constructor of `OraError` for Windows errors, which nothing calls.
* Memory running out while an object is built (the constructor of `Column` then
  leaves its first arrays behind), and the name of a column read after its
  descriptor was freed (`epResultSet.cpp:172-178`): OCI's headers do not say what
  happens.
* A column that a client retains beyond its result set, whose readers then go
  through a dangling `m_resultSet`.
* A connection that is closed, opened again or destroyed below its statements:
  `Ownership` keeps it open. OCI does not free child handles with their parent
  (`ociap.h:3330`), and does not say what using one then does.
* Non-blocking execution beyond the fetches of `ResultSet`: what another call does
  while one is in progress is not described.
* The prebuilt EpLibrary and OCI itself, beyond the calls above. They are header
  files only and make up some 56,000 of the 59,700 lines in the repository's
  tree: the library's own sources have about 1,700 and its headers 1,900, most of
  them comments and declarations. A share of all lines therefore says little
  about how much of the library is modelled.
* Project files.

## Plan

What would come next, were it worth more than it costs:

1. `ResultSet` and `Ownership` composed for two result sets of one handle: which
   rows the first one then shows. Run: two queries of up to four rows, batches
   of two.
2. Columns as objects of `Ownership`, so that a retained one is covered.
3. `Ownership` over a connection that is closed and opened again, once it is
   known what OCI does with the statement handles left.
