----------------------------- MODULE Ownership -----------------------------
(***************************************************************************)
(* Who keeps what alive: the reference counts of statements, parameters    *)
(* and result sets (epSmartObject.h), the pointers between them, the OCI   *)
(* statement handles they own and the buffers OCI was told to use          *)
(* (epStatement.cpp, epParameter.cpp, epResultSet.cpp, epConnection.cpp:   *)
(* 237-268), over a connection that stays open.  An object stands for its  *)
(* memory: a result set for its columns' buffers too, a parameter for its  *)
(* own; a statement handle is named by the object that allocated it.       *)
(***************************************************************************)
EXTENDS Naturals, FiniteSets

CONSTANTS
  Stmts, SelectStmts,    \* statements, and those of type ST_SELECT
  Params, CursorParams,  \* parameters, and those of type DT_RESULT_SET
  Sets,                  \* result sets
  Names,                 \* names a parameter may be bound to
  NULL,
  LateBindFaults, \* where Bind may throw once OCI knows the buffer:
                  \*   "charset" the attribute, "push" m_parameters,
                  \*   "map" m_parametersMap
  MaxHeld,        \* bound on the references a client takes of one object
  Orderly,        \* does the client release a statement last
  OneSet          \* does it hold one result set of a statement at a time

ASSUME OwnershipAssumption ==
  /\ SelectStmts \subseteq Stmts /\ CursorParams \subseteq Params
  /\ Stmts \cap Params = {} /\ Stmts \cap Sets = {} /\ Params \cap Sets = {}
  /\ NULL \notin Stmts \cup Params \cup Sets
  /\ LateBindFaults \subseteq {"charset", "push", "map"}
  /\ MaxHeld \in Nat \ {0}
  /\ Orderly \in BOOLEAN /\ OneSet \in BOOLEAN

Objects == Stmts \cup Params \cup Sets
HandleOwners == Stmts \cup CursorParams

VARIABLES
  born,        \* the objects whose constructor has run
  refs,        \* m_refCount, 0 for what is not born or destroyed
  held,        \* how many of the references are the client's
  handles,     \* the statement handles allocated
  parameters,  \* Statement::m_parameters
  bound,       \* the buffers OCI is bound to: statement handle -> name -> parameter
  paramStmt,   \* Parameter::m_stmt
  resultSet,   \* Parameter::m_resultSet
  rsHandle,    \* ResultSet::m_rsHandle
  rsStmt,      \* ResultSet::m_stmt
  defined,     \* the buffers OCI fetches into: statement handle -> result set
  executed,    \* the statements with m_isExecuted
  opened,      \* the bound cursors that an execution has opened
  current      \* the result sets on a row of the latest cursor: the first
               \* fetch succeeded and nothing opened the cursor anew since

vars == <<born, refs, held, handles, parameters, bound, paramStmt, resultSet,
          rsHandle, rsStmt, defined, executed, opened, current>>

-----------------------------------------------------------------------------
(* What the client can use.                                                *)

Alive == {o \in Objects : refs[o] > 0}
InHand == {o \in Objects : held[o] > 0}

\* Bind and operator [] of a statement return its parameters by reference.
ParamsInReach ==
  (InHand \cap Params) \cup UNION {parameters[s] : s \in InHand \cap Stmts}

\* So does ToResultSet the result set a parameter keeps.
SetsInReach ==
  (InHand \cap Sets) \cup ({resultSet[p] : p \in ParamsInReach} \ {NULL})

\* What a client obtained through s and does not keep s alive itself.
ObtainedFrom(s) ==
  LET params == {p \in Params : paramStmt[p] = s}
  IN  params \cup {r \in Sets : rsStmt[r] = NULL /\ rsHandle[r] \in params \cup {s}}

-----------------------------------------------------------------------------
Init ==
  /\ born = {} /\ handles = {}
  /\ refs = [o \in Objects |-> 0]
  /\ held = [o \in Objects |-> 0]
  /\ parameters = [s \in Stmts |-> {}]
  /\ bound = [s \in Stmts |-> [n \in Names |-> NULL]]
  /\ paramStmt = [p \in Params |-> NULL]
  /\ resultSet = [p \in Params |-> NULL]
  /\ rsHandle = [r \in Sets |-> NULL]
  /\ rsStmt = [r \in Sets |-> NULL]
  /\ defined = [h \in HandleOwners |-> NULL]
  /\ executed = {} /\ opened = {} /\ current = {}

-----------------------------------------------------------------------------
(* Statements.                                                             *)

\* Connection::Prepare.
Prepare(s) ==
  /\ s \notin born
  /\ born' = born \cup {s}
  /\ refs' = [refs EXCEPT ![s] = 1]
  /\ held' = [held EXCEPT ![s] = 1]
  /\ handles' = handles \cup {s}
  /\ UNCHANGED <<parameters, bound, paramStmt, resultSet, rsHandle, rsStmt,
                 defined, executed, opened, current>>

\* A statement that is gone when the call ends, its handle freed by cleanUp:
\* one whose constructor throws, or the local one of Connection::Execute,
\* Commit and Rollback, whether executing it succeeds or throws.
Transient(s) ==
  /\ s \notin born
  /\ born' = born \cup {s}
  /\ handles' = handles \ {s}
  /\ UNCHANGED <<refs, held, parameters, bound, paramStmt, resultSet, rsHandle,
                 rsStmt, defined, executed, opened, current>>

\* OCIStmtExecute of s that succeeds opens the cursors bound to it and starts
\* anew the cursor of every result set over its handle or over one of those;
\* of a query, the result sets in shown are then put on its first row.
Executed(s, shown) ==
  LET cursors == CursorParams \cap {bound[s][n] : n \in Names}
  IN  /\ executed' = executed \cup {s}
      /\ opened' = opened \cup cursors
      /\ current' = {r \in current : rsHandle[r] \notin {s} \cup cursors} \cup shown

\* Statement::Execute.
Execute(s) ==
  /\ s \in InHand
  /\ Executed(s, {})
  /\ UNCHANGED <<born, refs, held, handles, parameters, bound, paramStmt,
                 resultSet, rsHandle, rsStmt, defined>>

\* Statement::Select: execute, describe, define, fetch.
Select(s, r) ==
  /\ s \in InHand \cap SelectStmts
  /\ OneSet => ~\E q \in InHand \cap Sets : rsHandle[q] = s
  /\ r \notin born
  /\ Executed(s, {r})
  /\ born' = born \cup {r}
  /\ refs' = [refs EXCEPT ![r] = 1]
  /\ held' = [held EXCEPT ![r] = 1]
  /\ rsHandle' = [rsHandle EXCEPT ![r] = s]
  /\ defined' = [defined EXCEPT ![s] = r]
  /\ UNCHANGED <<handles, parameters, bound, paramStmt, resultSet, rsStmt>>

\* Select that throws after executing: in describe, or in define or the first
\* fetch, when OCI already has the buffers of the object released.
SelectThrows(s, r) ==
  /\ s \in InHand \cap SelectStmts
  /\ OneSet => ~\E q \in InHand \cap Sets : rsHandle[q] = s
  /\ r \notin born
  /\ Executed(s, {})
  /\ born' = born \cup {r}
  /\ defined' \in {defined, [defined EXCEPT ![s] = r]}
  /\ UNCHANGED <<refs, held, handles, parameters, bound, paramStmt, resultSet,
                 rsHandle, rsStmt>>

\* Connection::Select: Prepare, Select, and the result set takes over the
\* reference to the statement, which the client never sees.
ConnectionSelect(s, r) ==
  /\ {s, r} \cap born = {}
  /\ s \in SelectStmts
  /\ born' = born \cup {s, r}
  /\ refs' = [refs EXCEPT ![s] = 1, ![r] = 1]
  /\ held' = [held EXCEPT ![r] = 1]
  /\ handles' = handles \cup {s}
  /\ rsHandle' = [rsHandle EXCEPT ![r] = s]
  /\ rsStmt' = [rsStmt EXCEPT ![r] = s]
  /\ defined' = [defined EXCEPT ![s] = r]
  /\ executed' = executed \cup {s}
  /\ current' = current \cup {r}
  /\ UNCHANGED <<parameters, bound, paramStmt, resultSet, opened>>

\* Connection::Select that throws in Statement::Select: the catch block
\* releases the only reference to the statement, which frees its handle.
ConnectionSelectThrows(s, r) ==
  /\ {s, r} \cap born = {}
  /\ s \in SelectStmts
  /\ born' = born \cup {s, r}
  /\ handles' = handles \ {s}
  /\ UNCHANGED <<refs, held, parameters, bound, paramStmt, resultSet, rsHandle,
                 rsStmt, defined, executed, opened, current>>

-----------------------------------------------------------------------------
(* Parameters.                                                             *)

\* May the client bind p to s: a query has no cursor variables.
Bindable(s, p) ==
  /\ s \in InHand
  /\ p \notin born
  /\ p \in CursorParams => s \notin SelectStmts

\* Only a DT_RESULT_SET parameter allocates a statement handle of its own.
\* (Mutant: any does.)
OwnHandleAlways(p) == {p}
OwnHandle(p) == {p} \cap CursorParams

\* Statement::Bind: a parameter with its buffer or its own statement handle,
\* known to OCI under the name, in m_parameters; a parameter bound before to
\* the same name stays there.
Bind(s, p, n) ==
  /\ Bindable(s, p)
  /\ born' = born \cup {p}
  /\ refs' = [refs EXCEPT ![p] = 1]
  /\ handles' = handles \cup OwnHandle(p)
  /\ bound' = [bound EXCEPT ![s][n] = p]
  /\ parameters' = [parameters EXCEPT ![s] = @ \cup {p}]
  /\ paramStmt' = [paramStmt EXCEPT ![p] = s]
  /\ UNCHANGED <<held, resultSet, rsHandle, rsStmt, defined, executed, opened,
                 current>>

\* The constructor throws before OCIBindByName succeeds.
BindRefused(s, p) ==
  /\ Bindable(s, p)
  /\ born' = born \cup {p}
  /\ UNCHANGED <<refs, held, handles, parameters, bound, paramStmt, resultSet,
                 rsHandle, rsStmt, defined, executed, opened, current>>

\* What is thrown later finds OCI bound to the buffer of a parameter that is
\* then destroyed; if the map is what failed, m_parameters has it too.
BindThrows(s, p, n, fault) ==
  /\ Bindable(s, p)
  /\ born' = born \cup {p}
  /\ bound' = [bound EXCEPT ![s][n] = p]
  /\ parameters' = [parameters EXCEPT ![s] = IF fault = "map" THEN @ \cup {p} ELSE @]
  /\ UNCHANGED <<refs, held, handles, paramStmt, resultSet, rsHandle, rsStmt,
                 defined, executed, opened, current>>

\* ToResultSet makes a result set the first time only.  (Mutant: every time.)
AlwaysNeedsSet(p) == TRUE
NeedsSet(p) == resultSet[p] = NULL

CanOpenCursor(p, r) ==
  /\ p \in ParamsInReach \cap CursorParams
  /\ paramStmt[p] \in executed
  /\ NeedsSet(p)
  /\ r \notin born

\* Parameter::ToResultSet, the first time.  m_resultSet is assigned before the
\* first fetch, and keeps the set if that throws.
ToResultSet(p, r, fetches) ==
  /\ CanOpenCursor(p, r)
  /\ p \in opened
  /\ born' = born \cup {r}
  /\ refs' = [refs EXCEPT ![r] = 1]
  /\ rsHandle' = [rsHandle EXCEPT ![r] = p]
  /\ resultSet' = [resultSet EXCEPT ![p] = r]
  /\ defined' = [defined EXCEPT ![p] = r]
  /\ current' = IF fetches THEN current \cup {r} ELSE current
  /\ UNCHANGED <<held, handles, parameters, bound, paramStmt, rsStmt, executed,
                 opened>>

\* The constructor of the result set throws in describe or define, as it does
\* when the cursor was never opened.
ToResultSetThrows(p, r) ==
  /\ CanOpenCursor(p, r)
  /\ born' = born \cup {r}
  /\ defined' \in {defined, [defined EXCEPT ![p] = r]}
  /\ UNCHANGED <<refs, held, handles, parameters, bound, paramStmt, resultSet,
                 rsHandle, rsStmt, executed, opened, current>>

-----------------------------------------------------------------------------
(* References.                                                             *)

\* The client takes a reference of its own to what it can use.
RetainObj(o) ==
  /\ o \in (InHand \cup ParamsInReach \cup SetsInReach) \cap Alive
  /\ held[o] < MaxHeld
  /\ refs' = [refs EXCEPT ![o] = @ + 1]
  /\ held' = [held EXCEPT ![o] = @ + 1]
  /\ UNCHANGED <<born, handles, parameters, bound, paramStmt, resultSet,
                 rsHandle, rsStmt, defined, executed, opened, current>>

\* ReleaseObj deletes an object when its count reaches zero.
\* (Mutant: whatever its count.)
DyingAlways(S) == S
Dying(S) == {o \in S : refs[o] = 1}

\* The objects that get a ReleaseObj when the client calls it for x, as the
\* cleanUp functions of those that die call it for what they refer to: a
\* result set for its statement, a statement for its parameters, a parameter
\* for its result set.  Columns, which nobody else refers to, go with their
\* result set.
\* (Mutants: a set that lives on releases its statement, a statement that
\* lives on its parameters; a statement, or a parameter, releases nothing.)
StmtCallsEager(x) ==
  ({x} \cap Stmts) \cup ({rsStmt[r] : r \in {x} \cap Sets} \ {NULL})
StmtCalls(x) ==
  ({x} \cap Stmts) \cup ({rsStmt[r] : r \in Dying({x} \cap Sets)} \ {NULL})
ParamCallsNone(x) == {x} \cap Params
ParamCallsEager(x) == ({x} \cap Params) \cup UNION {parameters[s] : s \in StmtCalls(x)}
ParamCalls(x) ==
  ({x} \cap Params) \cup UNION {parameters[s] : s \in Dying(StmtCalls(x))}
SetCallsNone(x) == {x} \cap Sets
SetCalls(x) ==
  ({x} \cap Sets) \cup ({resultSet[p] : p \in Dying(ParamCalls(x))} \ {NULL})
Calls(x) == StmtCalls(x) \cup ParamCalls(x) \cup SetCalls(x)

\* Destroyed objects free their statement handle, and with it what OCI kept
\* of buffers; pointers of others to them stay.
ReleaseObj(x) ==
  /\ x \in InHand
  /\ Orderly /\ x \in Stmts /\ held[x] = 1 => ObtainedFrom(x) \cap InHand = {}
  /\ LET gone == Dying(Calls(x))
         Without(f, nothing) ==
           [o \in DOMAIN f |-> IF o \in gone THEN nothing ELSE f[o]]
     IN  /\ refs' = [o \in Objects |-> IF o \in Calls(x) /\ refs[o] > 0
                                       THEN refs[o] - 1 ELSE refs[o]]
         /\ held' = [held EXCEPT ![x] = @ - 1]
         /\ handles' = handles \ gone
         /\ parameters' = Without(parameters, {})
         /\ bound' = Without(bound, [n \in Names |-> NULL])
         /\ paramStmt' = Without(paramStmt, NULL)
         /\ resultSet' = Without(resultSet, NULL)
         /\ rsHandle' = Without(rsHandle, NULL)
         /\ rsStmt' = Without(rsStmt, NULL)
         /\ defined' = Without(defined, NULL)
         /\ executed' = executed \ gone
         /\ opened' = opened \ gone
         /\ current' = current \ gone
  /\ UNCHANGED born

Next ==
  \/ \E s \in Stmts : Prepare(s) \/ Transient(s) \/ Execute(s)
  \/ \E s \in Stmts, r \in Sets :
       \/ Select(s, r) \/ SelectThrows(s, r)
       \/ ConnectionSelect(s, r) \/ ConnectionSelectThrows(s, r)
  \/ \E s \in Stmts, p \in Params : BindRefused(s, p)
  \/ \E s \in Stmts, p \in Params, n \in Names : Bind(s, p, n)
  \/ \E s \in Stmts, p \in Params, n \in Names, fault \in LateBindFaults :
       BindThrows(s, p, n, fault)
  \/ \E p \in Params, r \in Sets :
       \/ \E fetches \in BOOLEAN : ToResultSet(p, r, fetches)
       \/ ToResultSetThrows(p, r)
  \/ \E o \in Objects : RetainObj(o) \/ ReleaseObj(o)

Spec == Init /\ [][Next]_vars

-----------------------------------------------------------------------------
(* Types.                                                                  *)

\* Every variable has its type; a pointer may be NULL.
TypeOK ==
  /\ born \subseteq Objects
  /\ refs \in [Objects -> Nat]
  /\ held \in [Objects -> 0 .. MaxHeld]
  /\ handles \subseteq HandleOwners
  /\ parameters \in [Stmts -> SUBSET Params]
  /\ bound \in [Stmts -> [Names -> Params \cup {NULL}]]
  /\ paramStmt \in [Params -> Stmts \cup {NULL}]
  /\ resultSet \in [Params -> Sets \cup {NULL}]
  /\ rsHandle \in [Sets -> HandleOwners \cup {NULL}]
  /\ rsStmt \in [Sets -> Stmts \cup {NULL}]
  /\ defined \in [HandleOwners -> Sets \cup {NULL}]
  /\ executed \subseteq Stmts /\ opened \subseteq CursorParams
  /\ current \subseteq Sets

-----------------------------------------------------------------------------
(* Safety.                                                                 *)

\* x refers to o and will call its ReleaseObj.
Owns(x, o) == \/ x \in Stmts /\ o \in parameters[x]
              \/ x \in Params /\ resultSet[x] = o
              \/ x \in Sets /\ rsStmt[x] = o
Owners(o) == {x \in Objects : Owns(x, o)}

\* m_refCount is the number of the client's references and of the pointers
\* that cleanUp will release: none is released too often or too seldom
\* (epSmartObject.h:123-138; epStatement.cpp:79, epParameter.cpp:84,
\* epResultSet.cpp:77, 84).  In particular an owner's pointer is to an object
\* that is still alive.
ReferencesCounted ==
  \A o \in Objects : refs[o] = held[o] + Cardinality(Owners(o))

\* Nothing is left behind, whatever threw (epStatement.cpp:49, 151, 172,
\* epConnection.cpp:263): an object that lives is one the client can still
\* get at, or the statement of such a result set, and a statement handle is
\* allocated exactly as long as its owner lives.
NothingLeaked ==
  /\ Alive \subseteq InHand \cup ParamsInReach \cup SetsInReach
                       \cup {rsStmt[r] : r \in SetsInReach}
  /\ handles = Alive \cap HandleOwners

\* A result set of Connection::Select has its statement's handle as long as
\* it lives, for any client (epConnection.cpp:260, epResultSet.cpp:84).
AttachedHandleLives ==
  \A r \in Alive \cap Sets : rsStmt[r] # NULL => rsHandle[r] \in handles

\* With a client that releases statements last, every result set and every
\* parameter it can use stands on a handle and a statement that exist, whoever
\* keeps them alive (epResultSet.cpp:93, epParameter.cpp:208, 237).
StandsOnHandle ==
  /\ \A r \in SetsInReach : rsHandle[r] \in handles
  /\ \A p \in ParamsInReach : paramStmt[p] \in Alive

\* A fetch through a result set fills the buffers of that result set, not
\* those of another or of one destroyed (epResultSet.cpp:199, 232).
FetchesIntoOwnBuffers == \A r \in SetsInReach : defined[rsHandle[r]] = r

\* Executing a statement reads and writes buffers of its own parameters only,
\* none of which is destroyed (epParameter.cpp:196, 222).
BoundBuffersLive ==
  \A s \in InHand \cap Stmts, n \in Names :
    bound[s][n] # NULL => bound[s][n] \in parameters[s] \cap Alive

\* "Return the ResultSet for a cursor bound variable" (epParameter.h:98): a
\* set ToResultSet would return again has had the first fetch that puts a
\* result set on row 0, of the cursor that the latest execution opened
\* (epParameter.cpp:388-395).
CachedSetCurrent ==
  \A p \in ParamsInReach : resultSet[p] # NULL => resultSet[p] \in current

-----------------------------------------------------------------------------
(* Refinement: counting references is collecting what cannot be reached.   *)

Kept == [x \in Objects |-> {o \in Objects : Owns(x, o)}]

Lifetimes == INSTANCE Heap WITH
  used  <- born,
  roots <- InHand,
  keeps <- Kept,
  alive <- Alive

\* Whatever the client retains and releases and whatever throws, an object is
\* destroyed in the very call that makes it unreachable, and with it all that
\* only it kept (epSmartObject.h:123-138; epStatement.cpp:72-83,
\* epParameter.cpp:78-97, epResultSet.cpp:75-87).
ImplementsHeap == Lifetimes!Spec
=============================================================================
