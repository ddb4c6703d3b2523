-------------------------- MODULE OwnershipProofs --------------------------
(***************************************************************************)
(* Ownership, for every value of the constants: the types, and, as long as *)
(* no exception follows m_parameters.push_back in Bind ("map" is not among *)
(* LateBindFaults), that m_refCount counts the references and that a       *)
(* result set of Connection::Select keeps its statement's handle.          *)
(***************************************************************************)
EXTENDS Ownership, FiniteSetTheorems, TLAPS

USE OwnershipAssumption DEF Objects, HandleOwners

\* A new statement, result set and parameter have no object that owns them.
LEMMA TypeInit == Init => TypeOK
BY DEF Init, TypeOK

\* Every client call but ReleaseObj keeps the types.
LEMMA TypeCalls ==
  ASSUME TypeOK, Next, \A x \in Objects : ~ReleaseObj(x)
  PROVE  TypeOK'
<1>1. ASSUME NEW s \in Stmts, Prepare(s) PROVE TypeOK'
  BY <1>1 DEF Prepare, TypeOK
<1>2. ASSUME NEW s \in Stmts, Transient(s) PROVE TypeOK'
  BY <1>2 DEF Transient, TypeOK
<1>3. ASSUME NEW s \in Stmts, Execute(s) PROVE TypeOK'
  BY <1>3 DEF Execute, Executed, TypeOK
<1>4. ASSUME NEW s \in Stmts, NEW r \in Sets, Select(s, r) PROVE TypeOK'
  BY <1>4 DEF Select, Executed, TypeOK
<1>5. ASSUME NEW s \in Stmts, NEW r \in Sets, SelectThrows(s, r) PROVE TypeOK'
  <2>1. /\ executed' \subseteq Stmts /\ opened' \subseteq CursorParams
        /\ current' \subseteq Sets
    BY <1>5 DEF SelectThrows, Executed, TypeOK
  <2>2. defined' \in [HandleOwners -> Sets \cup {NULL}]
    BY <1>5 DEF SelectThrows, TypeOK
  <2>3. born' \subseteq Objects
    BY <1>5 DEF SelectThrows, Objects, TypeOK
  <2>4. QED
    BY <1>5, <2>1, <2>2, <2>3 DEF SelectThrows, TypeOK
<1>6. ASSUME NEW s \in Stmts, NEW r \in Sets, ConnectionSelect(s, r) PROVE TypeOK'
  BY <1>6 DEF ConnectionSelect, TypeOK
<1>7. ASSUME NEW s \in Stmts, NEW r \in Sets, ConnectionSelectThrows(s, r) PROVE TypeOK'
  BY <1>7 DEF ConnectionSelectThrows, TypeOK
<1>8. ASSUME NEW s \in Stmts, NEW p \in Params, BindRefused(s, p) PROVE TypeOK'
  BY <1>8 DEF BindRefused, Bindable, TypeOK
<1>9. ASSUME NEW s \in Stmts, NEW p \in Params, NEW n \in Names, Bind(s, p, n) PROVE TypeOK'
  BY <1>9 DEF Bind, Bindable, OwnHandle, TypeOK
<1>10. ASSUME NEW s \in Stmts, NEW p \in Params, NEW n \in Names,
              NEW fault \in LateBindFaults, BindThrows(s, p, n, fault)
       PROVE TypeOK'
  BY <1>10 DEF BindThrows, Bindable, TypeOK
<1>11. ASSUME NEW p \in Params, NEW r \in Sets, NEW f \in BOOLEAN, ToResultSet(p, r, f)
       PROVE TypeOK'
  BY <1>11 DEF ToResultSet, CanOpenCursor, TypeOK
<1>12. ASSUME NEW p \in Params, NEW r \in Sets, ToResultSetThrows(p, r) PROVE TypeOK'
  BY <1>12 DEF ToResultSetThrows, CanOpenCursor, TypeOK
<1>13. ASSUME NEW o \in Objects, RetainObj(o) PROVE TypeOK'
  BY <1>13 DEF RetainObj, TypeOK
<1>14. QED
  BY <1>1, <1>2, <1>3, <1>4, <1>5, <1>6, <1>7, <1>8, <1>9, <1>10, <1>11,
     <1>12, <1>13 DEF Next

\* The objects a ReleaseObj reaches are objects (epStatement.cpp:79,
\* epParameter.cpp:84, epResultSet.cpp:84).
LEMMA CallsType ==
  ASSUME TypeOK, NEW x \in Objects
  PROVE  /\ StmtCalls(x) \subseteq Stmts
         /\ ParamCalls(x) \subseteq Params
         /\ SetCalls(x) \subseteq Sets
<1>1. StmtCalls(x) \subseteq Stmts
  BY DEF StmtCalls, Dying, TypeOK
<1>2. ParamCalls(x) \subseteq Params
  BY <1>1 DEF ParamCalls, Dying, TypeOK
<1>3. SetCalls(x) \subseteq Sets
  BY <1>2 DEF SetCalls, Dying, TypeOK
<1>4. QED
  BY <1>1, <1>2, <1>3

\* ReleaseObj keeps the types.
LEMMA TypeRelease ==
  ASSUME TypeOK, NEW x \in Objects, ReleaseObj(x)
  PROVE  TypeOK'
<1> DEFINE gone == Dying(Calls(x))
<1>1. /\ refs' = [o \in Objects |-> IF o \in Calls(x) /\ refs[o] > 0
                                    THEN refs[o] - 1 ELSE refs[o]]
      /\ held' = [held EXCEPT ![x] = @ - 1]
      /\ x \in InHand
      /\ handles' = handles \ gone
      /\ born' = born
  BY DEF ReleaseObj
<1>2. /\ parameters' = [s \in Stmts |-> IF s \in gone THEN {} ELSE parameters[s]]
      /\ bound' = [s \in Stmts |-> IF s \in gone THEN [n \in Names |-> NULL] ELSE bound[s]]
      /\ paramStmt' = [p \in Params |-> IF p \in gone THEN NULL ELSE paramStmt[p]]
      /\ resultSet' = [p \in Params |-> IF p \in gone THEN NULL ELSE resultSet[p]]
      /\ rsHandle' = [r \in Sets |-> IF r \in gone THEN NULL ELSE rsHandle[r]]
      /\ rsStmt' = [r \in Sets |-> IF r \in gone THEN NULL ELSE rsStmt[r]]
      /\ defined' = [h \in HandleOwners |-> IF h \in gone THEN NULL ELSE defined[h]]
      /\ executed' = executed \ gone
      /\ opened' = opened \ gone
      /\ current' = current \ gone
  BY DEF ReleaseObj, TypeOK
<1> HIDE DEF gone
<1>3. refs' \in [Objects -> Nat]
  BY <1>1 DEF TypeOK
<1>4. held' \in [Objects -> 0 .. MaxHeld]
  BY <1>1 DEF TypeOK, InHand
<1>5. /\ parameters' \in [Stmts -> SUBSET Params]
      /\ bound' \in [Stmts -> [Names -> Params \cup {NULL}]]
      /\ paramStmt' \in [Params -> Stmts \cup {NULL}]
      /\ resultSet' \in [Params -> Sets \cup {NULL}]
      /\ rsHandle' \in [Sets -> HandleOwners \cup {NULL}]
      /\ rsStmt' \in [Sets -> Stmts \cup {NULL}]
      /\ defined' \in [HandleOwners -> Sets \cup {NULL}]
  BY <1>2 DEF TypeOK
<1>6. QED
  BY <1>1, <1>2, <1>3, <1>4, <1>5 DEF TypeOK

\* Every variable keeps its type, whatever the client calls and Bind throws.
THEOREM OwnershipTypes == Spec => []TypeOK
<1>1. TypeOK /\ [Next]_vars => TypeOK'
  <2>1. CASE UNCHANGED vars
    BY <2>1 DEF vars, TypeOK
  <2>2. CASE Next
    BY <2>2, TypeCalls, TypeRelease
  <2>3. QED
    BY <2>1, <2>2
<1>2. QED
  BY <1>1, TypeInit, PTL DEF Spec

-----------------------------------------------------------------------------
(* References.  An object has at most one owner, and its count is one more *)
(* than the client's references if it has one.                             *)

Counted(o) ==
  \/ Owners(o) = {} /\ refs[o] = held[o]
  \/ \E x \in Objects : Owners(o) = {x} /\ refs[o] = held[o] + 1

\* A result set that owns a statement is one the client got from
\* Connection::Select and no parameter keeps; the client has no reference to
\* that statement and never bound anything to it.
Attached(r) ==
  rsStmt[r] # NULL => /\ rsHandle[r] = rsStmt[r]
                      /\ held[rsStmt[r]] = 0
                      /\ parameters[rsStmt[r]] = {}
                      /\ \A p \in Params : resultSet[p] # r

\* What an object points to is released when it dies, so a dead or unborn
\* object points to nothing.
OwnInv ==
  /\ TypeOK
  /\ \A o \in Objects : Counted(o)
  /\ \A o \in Objects : o \notin born => refs[o] = 0
  /\ \A x, o \in Objects : Owns(x, o) => refs[x] > 0
  /\ \A r \in Sets : Attached(r)
  /\ handles = Alive \cap HandleOwners

\* Nobody refers to an object not yet constructed, nor does it to anything.
LEMMA Unborn ==
  ASSUME OwnInv, NEW o \in Objects, o \notin born
  PROVE  /\ refs[o] = 0 /\ held[o] = 0 /\ Owners(o) = {}
         /\ o \in Stmts => parameters[o] = {}
         /\ o \in Params => resultSet[o] = NULL
         /\ o \in Sets => rsStmt[o] = NULL /\ \A p \in Params : resultSet[p] # o
<1>1. refs[o] = 0
  BY DEF OwnInv
<1>2. held[o] = 0 /\ Owners(o) = {}
  BY <1>1 DEF OwnInv, Counted, TypeOK
<1>3. \A y \in Objects : ~Owns(o, y)
  BY <1>1 DEF OwnInv
<1>4. o \in Stmts => parameters[o] = {}
  BY <1>3 DEF Owns, OwnInv, TypeOK
<1>5. o \in Params => resultSet[o] = NULL
  BY <1>3 DEF Owns, OwnInv, TypeOK
<1>6. o \in Sets => rsStmt[o] = NULL
  BY <1>3 DEF Owns, OwnInv, TypeOK
<1>7. \A p \in Params : resultSet[p] # o
  BY <1>2 DEF Owners, Owns
<1>8. QED
  BY <1>1, <1>2, <1>4, <1>5, <1>6, <1>7

\* What is held or owned is alive.
LEMMA InReachAlive ==
  ASSUME OwnInv
  PROVE  /\ \A o \in InHand : refs[o] > 0
         /\ \A x, o \in Objects : Owns(x, o) => refs[o] > 0
         /\ \A p \in ParamsInReach : p \in Params /\ refs[p] > 0
<1>1. \A o \in InHand : refs[o] > 0
  BY DEF OwnInv, Counted, TypeOK, InHand
<1>2. \A x, o \in Objects : Owns(x, o) => refs[o] > 0
  <2>1. SUFFICES ASSUME NEW x \in Objects, NEW o \in Objects, Owns(x, o)
                 PROVE  refs[o] > 0
    OBVIOUS
  <2>2. Owners(o) # {}
    BY <2>1 DEF Owners
  <2>3. QED
    BY <2>2 DEF OwnInv, Counted, TypeOK
<1>3. \A p \in ParamsInReach : p \in Params /\ refs[p] > 0
  <2>1. SUFFICES ASSUME NEW p \in ParamsInReach PROVE p \in Params /\ refs[p] > 0
    OBVIOUS
  <2>2. CASE p \in InHand \cap Params
    BY <1>1, <2>2
  <2>3. CASE \E s \in InHand \cap Stmts : p \in parameters[s]
    BY <1>2, <2>3 DEF Owns, OwnInv, TypeOK
  <2>4. QED
    BY <2>1, <2>2, <2>3 DEF ParamsInReach
<1>4. QED
  BY <1>1, <1>2, <1>3

\* A call that leaves the pointers alone and gives the client every reference
\* it makes keeps the counts.
LEMMA SamePointers ==
  ASSUME OwnInv, TypeOK', UNCHANGED <<parameters, resultSet, rsStmt>>,
         \A o \in Objects : /\ refs'[o] + held[o] = refs[o] + held'[o]
                            /\ refs'[o] >= refs[o]
  PROVE  /\ \A o \in Objects : Counted(o)'
         /\ \A x, o \in Objects : Owns(x, o)' => refs'[x] > 0
<1>1. \A x, o \in Objects : Owns(x, o)' <=> Owns(x, o)
  BY DEF Owns
<1>2. \A o \in Objects : Owners(o)' = Owners(o)
  BY <1>1 DEF Owners
<1>3. ASSUME NEW o \in Objects PROVE Counted(o)'
  <2>1. refs[o] \in Nat /\ held[o] \in Nat /\ refs'[o] \in Nat /\ held'[o] \in Nat
    BY DEF OwnInv, TypeOK
  <2>2. refs'[o] + held[o] = refs[o] + held'[o]
    OBVIOUS
  <2>3. Counted(o)
    BY DEF OwnInv
  <2>4. QED
    BY <1>2, <2>1, <2>2, <2>3 DEF Counted
<1>4. ASSUME NEW x \in Objects, NEW o \in Objects, Owns(x, o)' PROVE refs'[x] > 0
  BY <1>1, <1>4 DEF OwnInv, TypeOK
<1>5. QED
  BY <1>3, <1>4

\* A call that makes y, new, the only thing x is given to own keeps the counts.
LEMMA NewPointer ==
  ASSUME OwnInv, TypeOK', NEW x \in Objects, NEW y \in Objects,
         Owners(y) = {}, refs'[y] = held'[y] + 1, refs'[x] > 0,
         \A o \in Objects \ {y} : /\ refs'[o] + held[o] = refs[o] + held'[o]
                                  /\ refs'[o] >= refs[o],
         \A z, o \in Objects : Owns(z, o)' <=> (Owns(z, o) \/ (z = x /\ o = y))
  PROVE  /\ \A o \in Objects : Counted(o)'
         /\ \A z, o \in Objects : Owns(z, o)' => refs'[z] > 0
<1>1. Owners(y)' = {x}
  BY DEF Owners
<1>2. \A o \in Objects \ {y} : Owners(o)' = Owners(o)
  BY DEF Owners
<1>3. Counted(y)'
  BY <1>1 DEF Counted
<1>4. ASSUME NEW o \in Objects \ {y} PROVE Counted(o)'
  <2>1. refs[o] \in Nat /\ held[o] \in Nat /\ refs'[o] \in Nat /\ held'[o] \in Nat
    BY DEF OwnInv, TypeOK
  <2>2. refs'[o] + held[o] = refs[o] + held'[o]
    OBVIOUS
  <2>3. Counted(o)
    BY DEF OwnInv
  <2>4. QED
    BY <1>2, <2>1, <2>2, <2>3 DEF Counted
<1>5. ASSUME NEW z \in Objects, NEW o \in Objects, Owns(z, o)' PROVE refs'[z] > 0
  <2>1. CASE z = x
    BY <2>1
  <2>2. CASE z # x
    <3>1. Owns(z, o)
      BY <1>5, <2>2
    <3>2. refs[z] > 0 /\ refs[z] \in Nat /\ refs'[z] \in Nat
      BY <3>1 DEF OwnInv, TypeOK
    <3>3. CASE z = y
      BY <3>3, <3>2 DEF OwnInv, TypeOK
    <3>4. CASE z # y
      BY <3>4, <3>2
    <3>5. QED
      BY <3>3, <3>4
  <2>3. QED
    BY <2>1, <2>2
<1>6. QED
  BY <1>3, <1>4, <1>5

\* The empty state has no references to count.
LEMMA OwnInit == Init => OwnInv
<1>1. SUFFICES ASSUME Init PROVE OwnInv
  OBVIOUS
<1>2. \A x, o \in Objects : ~Owns(x, o)
  BY <1>1 DEF Init, Owns
<1>3. \A o \in Objects : Counted(o)
  BY <1>1, <1>2 DEF Init, Counted, Owners
<1>4. handles = Alive \cap HandleOwners
  BY <1>1 DEF Init, Alive
<1>5. QED
  <2>1. \A r \in Sets : Attached(r)
    BY <1>1 DEF Init, Attached
  <2>2. \A o \in Objects : refs[o] = 0
    BY <1>1 DEF Init
  <2>3. QED
    BY <1>1, <1>2, <1>3, <1>4, <2>1, <2>2, TypeInit DEF OwnInv

\* Calls that make no object a client could use or none at all.
LEMMA OwnPlain ==
  ASSUME OwnInv, TypeOK', born \subseteq born',
         UNCHANGED <<refs, held, parameters, resultSet, rsHandle, rsStmt>>,
         handles' = handles
  PROVE  OwnInv'
<1>1. /\ \A o \in Objects : Counted(o)'
      /\ \A x, o \in Objects : Owns(x, o)' => refs'[x] > 0
  BY SamePointers DEF OwnInv, TypeOK
<1>2. \A o \in Objects : o \notin born' => refs'[o] = 0
  BY DEF OwnInv
<1>3. \A r \in Sets : Attached(r)'
  BY DEF OwnInv, Attached
<1>4. handles' = Alive' \cap HandleOwners
  BY DEF OwnInv, Alive
<1>5. QED
  BY <1>1, <1>2, <1>3, <1>4 DEF OwnInv

\* The statement's own calls (epStatement.cpp:41-157, epConnection.cpp:237-249).
LEMMA OwnStatement ==
  ASSUME OwnInv, TypeOK', NEW s \in Stmts,
         Prepare(s) \/ Transient(s) \/ Execute(s) \/ \E r \in Sets :
           Select(s, r) \/ SelectThrows(s, r) \/ ConnectionSelectThrows(s, r)
  PROVE  OwnInv'
<1>1. CASE Prepare(s)
  <2>1. refs[s] = 0 /\ held[s] = 0
    BY <1>1, Unborn DEF Prepare
  <2>2. refs' = [refs EXCEPT ![s] = 1] /\ held' = [held EXCEPT ![s] = 1]
    BY <1>1 DEF Prepare
  <2>3. /\ \A o \in Objects : Counted(o)'
        /\ \A x, o \in Objects : Owns(x, o)' => refs'[x] > 0
    BY <1>1, <2>1, <2>2, SamePointers DEF Prepare, OwnInv, TypeOK
  <2>4. \A o \in Objects : o \notin born' => refs'[o] = 0
    BY <1>1, <2>2 DEF Prepare, OwnInv, TypeOK
  <2>5. ASSUME NEW r \in Sets PROVE Attached(r)'
    <3>1. rsStmt[r] # s
      BY <1>1, Unborn DEF Prepare, Owners, Owns
    <3>2. rsStmt[r] # NULL => held'[rsStmt[r]] = held[rsStmt[r]]
      BY <2>2, <3>1 DEF OwnInv, TypeOK
    <3>3. UNCHANGED <<rsStmt, rsHandle, parameters, resultSet>>
      BY <1>1 DEF Prepare
    <3>4. QED
      BY <3>2, <3>3 DEF OwnInv, Attached
  <2>6. handles' = Alive' \cap HandleOwners
    BY <1>1, <2>2 DEF Prepare, OwnInv, Alive, TypeOK
  <2>7. QED
    BY <2>3, <2>4, <2>5, <2>6 DEF OwnInv
<1>2. CASE Transient(s)
  <2>1. s \notin handles
    BY <1>2, Unborn DEF Transient, OwnInv, Alive
  <2>2. QED
    BY <1>2, <2>1, OwnPlain DEF Transient
<1>3. CASE Execute(s)
  BY <1>3, OwnPlain DEF Execute, Executed
<1>4. ASSUME NEW r \in Sets, Select(s, r) PROVE OwnInv'
  <2>1. refs[r] = 0 /\ held[r] = 0 /\ rsStmt[r] = NULL
    BY <1>4, Unborn DEF Select
  <2>2. /\ refs' = [refs EXCEPT ![r] = 1] /\ held' = [held EXCEPT ![r] = 1]
        /\ rsHandle' = [rsHandle EXCEPT ![r] = s]
    BY <1>4 DEF Select
  <2>3. /\ \A o \in Objects : Counted(o)'
        /\ \A x, o \in Objects : Owns(x, o)' => refs'[x] > 0
    BY <1>4, <2>1, <2>2, SamePointers DEF Select, OwnInv, TypeOK
  <2>4. \A o \in Objects : o \notin born' => refs'[o] = 0
    BY <1>4, <2>2 DEF Select, OwnInv, TypeOK
  <2>5. \A q \in Sets : Attached(q)'
    BY <1>4, <2>1, <2>2 DEF Select, OwnInv, TypeOK, Attached
  <2>6. handles' = Alive' \cap HandleOwners
    BY <1>4, <2>2 DEF Select, OwnInv, Alive, TypeOK
  <2>7. QED
    BY <2>3, <2>4, <2>5, <2>6 DEF OwnInv
<1>5. ASSUME NEW r \in Sets, SelectThrows(s, r) PROVE OwnInv'
  BY <1>5, OwnPlain DEF SelectThrows
<1>6. ASSUME NEW r \in Sets, ConnectionSelectThrows(s, r) PROVE OwnInv'
  <2>1. s \notin handles
    BY <1>6, Unborn DEF ConnectionSelectThrows, OwnInv, Alive
  <2>2. QED
    BY <1>6, <2>1, OwnPlain DEF ConnectionSelectThrows
<1>7. QED
  BY <1>1, <1>2, <1>3, <1>4, <1>5, <1>6

\* Connection::Select gives the only reference to the statement to the result
\* set (epConnection.cpp:252-268, epResultSet.cpp:217-222).
LEMMA OwnConnectionSelect ==
  ASSUME OwnInv, TypeOK', NEW s \in Stmts, NEW r \in Sets, ConnectionSelect(s, r)
  PROVE  OwnInv'
<1>1. /\ refs[s] = 0 /\ held[s] = 0 /\ Owners(s) = {}
      /\ refs[r] = 0 /\ held[r] = 0 /\ Owners(r) = {}
      /\ rsStmt[r] = NULL /\ \A p \in Params : resultSet[p] # r
  BY Unborn DEF ConnectionSelect
<1>2. /\ refs' = [refs EXCEPT ![s] = 1, ![r] = 1]
      /\ held' = [held EXCEPT ![r] = 1]
      /\ rsHandle' = [rsHandle EXCEPT ![r] = s]
      /\ rsStmt' = [rsStmt EXCEPT ![r] = s]
      /\ UNCHANGED <<parameters, resultSet>>
      /\ handles' = handles \cup {s}
      /\ born' = born \cup {s, r}
  BY DEF ConnectionSelect
<1>3. \A z, o \in Objects : Owns(z, o)' <=> (Owns(z, o) \/ (z = r /\ o = s))
  BY <1>1, <1>2 DEF Owns, OwnInv, TypeOK
<1>4. /\ refs'[s] = 1 /\ held'[s] = 0 /\ refs'[r] = 1 /\ held'[r] = 1
      /\ \A o \in Objects \ {s, r} : refs'[o] = refs[o] /\ held'[o] = held[o]
  BY <1>1, <1>2 DEF OwnInv, TypeOK
<1>5. \A o \in Objects \ {s} : /\ refs'[o] + held[o] = refs[o] + held'[o]
                               /\ refs'[o] >= refs[o]
  <2>1. ASSUME NEW o \in Objects \ {s}
        PROVE  refs'[o] + held[o] = refs[o] + held'[o] /\ refs'[o] >= refs[o]
    <3>1. refs[o] \in Nat /\ held[o] \in Nat
      BY DEF OwnInv, TypeOK
    <3>2. CASE o = r
      BY <1>1, <1>4, <3>2
    <3>3. CASE o # r
      BY <1>4, <3>1, <3>3
    <3>4. QED
      BY <3>2, <3>3
  <2>2. QED
    BY <2>1
<1>6. /\ \A o \in Objects : Counted(o)'
      /\ \A z, o \in Objects : Owns(z, o)' => refs'[z] > 0
  BY <1>1, <1>3, <1>4, <1>5, NewPointer
<1>7. \A o \in Objects : o \notin born' => refs'[o] = 0
  BY <1>2, <1>4 DEF OwnInv
<1>8. ASSUME NEW q \in Sets PROVE Attached(q)'
  <2>1. CASE q = r
    <3>1. parameters[s] = {}
      BY Unborn DEF ConnectionSelect
    <3>2. rsStmt'[q] = s /\ rsHandle'[q] = s
      BY <1>2, <2>1 DEF OwnInv, TypeOK
    <3>3. QED
      BY <1>1, <1>2, <1>4, <2>1, <3>1, <3>2 DEF Attached
  <2>2. CASE q # r
    <3>1. rsStmt'[q] = rsStmt[q] /\ rsHandle'[q] = rsHandle[q]
      BY <1>2, <2>2 DEF OwnInv, TypeOK
    <3>2. rsStmt[q] # NULL => held'[rsStmt[q]] = held[rsStmt[q]]
      BY <1>2 DEF OwnInv, TypeOK
    <3>3. QED
      BY <1>2, <3>1, <3>2 DEF OwnInv, Attached
  <2>3. QED
    BY <2>1, <2>2
<1>9. handles' = Alive' \cap HandleOwners
  <2>1. Alive' = Alive \cup {s, r}
    BY <1>4 DEF Alive
  <2>2. handles = Alive \cap HandleOwners
    BY DEF OwnInv
  <2>3. QED
    BY <1>2, <2>1, <2>2
<1>10. QED
  BY <1>6, <1>7, <1>8, <1>9 DEF OwnInv

\* Bind gives the statement the only reference to the parameter; when it
\* throws before push_back nothing refers to it (epStatement.cpp:160-178).
LEMMA OwnBind ==
  ASSUME OwnInv, TypeOK', "map" \notin LateBindFaults,
         NEW s \in Stmts, NEW p \in Params,
         BindRefused(s, p) \/ \E n \in Names :
           Bind(s, p, n) \/ \E fault \in LateBindFaults : BindThrows(s, p, n, fault)
  PROVE  OwnInv'
<1>1. CASE BindRefused(s, p)
  BY <1>1, OwnPlain DEF BindRefused
<1>2. ASSUME NEW n \in Names, NEW fault \in LateBindFaults, BindThrows(s, p, n, fault)
      PROVE  OwnInv'
  <2>1. parameters' = parameters
    BY <1>2 DEF BindThrows, OwnInv, TypeOK
  <2>2. QED
    BY <1>2, <2>1, OwnPlain DEF BindThrows
<1>3. ASSUME NEW n \in Names, Bind(s, p, n) PROVE OwnInv'
  <2>1. refs[p] = 0 /\ held[p] = 0 /\ Owners(p) = {}
    BY <1>3, Unborn DEF Bind, Bindable
  <2>2. /\ refs' = [refs EXCEPT ![p] = 1]
        /\ UNCHANGED <<held, resultSet, rsStmt, rsHandle>>
        /\ parameters' = [parameters EXCEPT ![s] = @ \cup {p}]
        /\ handles' = handles \cup ({p} \cap CursorParams)
        /\ born' = born \cup {p}
    BY <1>3 DEF Bind, OwnHandle
  <2>3. refs[s] > 0
    BY <1>3, InReachAlive DEF Bind, Bindable
  <2>4. \A z, o \in Objects : Owns(z, o)' <=> (Owns(z, o) \/ (z = s /\ o = p))
    BY <2>2 DEF Owns, OwnInv, TypeOK
  <2>5. refs'[p] = 1 /\ \A o \in Objects \ {p} : refs'[o] = refs[o]
    BY <2>2 DEF OwnInv, TypeOK
  <2>6. refs'[s] > 0 /\ refs'[p] = held'[p] + 1
    BY <2>1, <2>2, <2>3, <2>5
  <2>7. \A o \in Objects \ {p} : /\ refs'[o] + held[o] = refs[o] + held'[o]
                                 /\ refs'[o] >= refs[o]
    BY <2>2, <2>5 DEF OwnInv, TypeOK
  <2>8. /\ \A o \in Objects : Counted(o)'
        /\ \A z, o \in Objects : Owns(z, o)' => refs'[z] > 0
    BY <2>1, <2>4, <2>6, <2>7, NewPointer
  <2>9. \A o \in Objects : o \notin born' => refs'[o] = 0
    BY <2>2, <2>5 DEF OwnInv
  <2>10. ASSUME NEW q \in Sets PROVE Attached(q)'
    <3>1. held[s] # 0
      BY <1>3 DEF Bind, Bindable, InHand
    <3>2. rsStmt[q] # NULL =>
            rsStmt[q] # s /\ parameters'[rsStmt[q]] = parameters[rsStmt[q]]
      BY <2>2, <3>1 DEF OwnInv, TypeOK, Attached
    <3>3. QED
      BY <2>2, <3>2 DEF OwnInv, Attached
  <2>11. handles' = Alive' \cap HandleOwners
    BY <2>2, <2>5 DEF OwnInv, Alive
  <2>12. QED
    BY <2>8, <2>9, <2>10, <2>11 DEF OwnInv
<1>4. QED
  BY <1>1, <1>2, <1>3

\* ToResultSet gives the parameter the only reference to the result set,
\* whether its first fetch throws or not (epParameter.cpp:382-399).
LEMMA OwnToResultSet ==
  ASSUME OwnInv, TypeOK', NEW p \in Params, NEW r \in Sets,
         ToResultSetThrows(p, r) \/ \E f \in BOOLEAN : ToResultSet(p, r, f)
  PROVE  OwnInv'
<1>1. CASE ToResultSetThrows(p, r)
  BY <1>1, OwnPlain DEF ToResultSetThrows
<1>2. ASSUME NEW f \in BOOLEAN, ToResultSet(p, r, f) PROVE OwnInv'
  <2>1. refs[r] = 0 /\ held[r] = 0 /\ Owners(r) = {} /\ rsStmt[r] = NULL
    BY <1>2, Unborn DEF ToResultSet, CanOpenCursor
  <2>2. /\ refs' = [refs EXCEPT ![r] = 1]
        /\ UNCHANGED <<held, handles, parameters, rsStmt>>
        /\ resultSet' = [resultSet EXCEPT ![p] = r]
        /\ rsHandle' = [rsHandle EXCEPT ![r] = p]
        /\ born' = born \cup {r}
    BY <1>2 DEF ToResultSet
  <2>3. resultSet[p] = NULL /\ refs[p] > 0
    BY <1>2, InReachAlive DEF ToResultSet, CanOpenCursor, NeedsSet
  <2>4. \A z, o \in Objects : Owns(z, o)' <=> (Owns(z, o) \/ (z = p /\ o = r))
    BY <2>2, <2>3 DEF Owns, OwnInv, TypeOK
  <2>5. refs'[r] = 1 /\ \A o \in Objects \ {r} : refs'[o] = refs[o]
    BY <2>2 DEF OwnInv, TypeOK
  <2>6. refs'[p] > 0 /\ refs'[r] = held'[r] + 1
    BY <2>1, <2>2, <2>3, <2>5
  <2>7. \A o \in Objects \ {r} : /\ refs'[o] + held[o] = refs[o] + held'[o]
                                 /\ refs'[o] >= refs[o]
    BY <2>2, <2>5 DEF OwnInv, TypeOK
  <2>8. /\ \A o \in Objects : Counted(o)'
        /\ \A z, o \in Objects : Owns(z, o)' => refs'[z] > 0
    BY <2>1, <2>4, <2>6, <2>7, NewPointer
  <2>9. \A o \in Objects : o \notin born' => refs'[o] = 0
    BY <2>2, <2>5 DEF OwnInv
  <2>10. \A q \in Sets : Attached(q)'
    BY <2>1, <2>2 DEF OwnInv, TypeOK, Attached
  <2>11. handles' = Alive' \cap HandleOwners
    BY <2>2, <2>5 DEF OwnInv, Alive
  <2>12. QED
    BY <2>8, <2>9, <2>10, <2>11 DEF OwnInv
<1>3. QED
  BY <1>1, <1>2

\* RetainObj counts the client's new reference (epSmartObject.h:112-117).
LEMMA OwnRetain ==
  ASSUME OwnInv, TypeOK', NEW x \in Objects, RetainObj(x)
  PROVE  OwnInv'
<1>1. /\ refs[x] > 0
      /\ refs' = [refs EXCEPT ![x] = @ + 1] /\ held' = [held EXCEPT ![x] = @ + 1]
      /\ UNCHANGED <<born, handles, parameters, resultSet, rsHandle, rsStmt>>
  BY DEF RetainObj, Alive
<1>2. /\ \A o \in Objects : Counted(o)'
      /\ \A z, o \in Objects : Owns(z, o)' => refs'[z] > 0
  <2>1. /\ refs'[x] = refs[x] + 1 /\ held'[x] = held[x] + 1
        /\ \A o \in Objects \ {x} : refs'[o] = refs[o] /\ held'[o] = held[o]
    BY <1>1 DEF OwnInv, TypeOK
  <2>2. \A o \in Objects : refs[o] \in Nat /\ held[o] \in Nat
    BY DEF OwnInv, TypeOK
  <2>3. \A o \in Objects : /\ refs'[o] + held[o] = refs[o] + held'[o]
                           /\ refs'[o] >= refs[o]
    BY <2>1, <2>2
  <2>4. QED
    BY <1>1, <2>3, SamePointers
<1>3. \A o \in Objects : o \notin born' => refs'[o] = 0
  BY <1>1 DEF OwnInv, TypeOK
<1>4. Alive' = Alive
  BY <1>1 DEF OwnInv, TypeOK, Alive
<1>5. ASSUME NEW r \in Sets PROVE Attached(r)'
  <2>1. ASSUME rsStmt[r] # NULL PROVE held'[rsStmt[r]] = 0
    <3>1. rsStmt[r] \in Stmts /\ held[rsStmt[r]] = 0
      BY <2>1 DEF OwnInv, TypeOK, Attached
    <3>2. x # rsStmt[r]
      BY <3>1, InReachAlive DEF RetainObj, InHand, SetsInReach, OwnInv, TypeOK
    <3>3. QED
      BY <1>1, <3>1, <3>2 DEF OwnInv, TypeOK
  <2>2. QED
    BY <1>1, <2>1 DEF OwnInv, Attached
<1>6. QED
  BY <1>1, <1>2, <1>3, <1>4, <1>5 DEF OwnInv

-----------------------------------------------------------------------------
(* Releasing.                                                              *)

\* A release that reaches another object than its own comes from an owner
\* that dies, and a dying owner releases everything it points to.
LEMMA Cascade ==
  ASSUME OwnInv, NEW x \in Objects, refs[x] > 0
  PROVE  /\ Calls(x) \subseteq Objects
         /\ x \in Calls(x)
         /\ Calls(x) # {x} => refs[x] = 1
         /\ \A o \in Calls(x) \ {x} : \E y \in Dying(Calls(x)) : Owns(y, o)
         /\ \A y \in Dying(Calls(x)), o \in Objects : Owns(y, o) => o \in Calls(x)
<1> DEFINE S == StmtCalls(x)
           P == ParamCalls(x)
           R == SetCalls(x)
<1>1. S \subseteq Stmts /\ P \subseteq Params /\ R \subseteq Sets
  BY CallsType DEF OwnInv
<1>2. Calls(x) \subseteq Objects /\ x \in Calls(x)
  BY <1>1 DEF Calls, StmtCalls, ParamCalls, SetCalls
<1>3. \A o \in S \ {x} : x \in Sets /\ refs[x] = 1 /\ Owns(x, o)
  BY DEF StmtCalls, Dying, Owns
<1>4. \A o \in P \ {x} : \E y \in S : refs[y] = 1 /\ Owns(y, o)
  BY <1>1 DEF ParamCalls, Dying, Owns
<1>5. \A o \in R \ {x} : \E y \in P : refs[y] = 1 /\ Owns(y, o)
  BY <1>1 DEF SetCalls, Dying, Owns
<1>6. \A o \in Calls(x) \ {x} : \E y \in Dying(Calls(x)) : Owns(y, o)
  <2>1. SUFFICES ASSUME NEW o \in Calls(x) \ {x}
                 PROVE  \E y \in Calls(x) : refs[y] = 1 /\ Owns(y, o)
    BY DEF Dying
  <2>2. CASE o \in S
    BY <1>2, <1>3, <2>2
  <2>3. CASE o \in P
    BY <1>4, <2>3 DEF Calls
  <2>4. CASE o \in R
    BY <1>5, <2>4 DEF Calls
  <2>5. QED
    BY <2>2, <2>3, <2>4 DEF Calls
<1>7. \A y \in Dying(Calls(x)), o \in Objects : Owns(y, o) => o \in Calls(x)
  <2>1. SUFFICES ASSUME NEW y \in Calls(x), refs[y] = 1,
                        NEW o \in Objects, Owns(y, o)
                 PROVE  o \in Calls(x)
    BY DEF Dying
  <2>2. CASE y \in S
    <3>1. o \in parameters[y]
      BY <1>1, <2>1, <2>2 DEF Owns
    <3>2. o \in P
      BY <2>1, <2>2, <3>1 DEF ParamCalls, Dying
    <3>3. QED
      BY <3>2 DEF Calls
  <2>3. CASE y \in P
    <3>1. resultSet[y] = o
      BY <1>1, <2>1, <2>3 DEF Owns
    <3>2. o \in R
      BY <2>1, <2>3, <3>1 DEF SetCalls, Dying
    <3>3. QED
      BY <3>2 DEF Calls
  <2>4. CASE y \in R
    <3>1. rsStmt[y] = o
      BY <1>1, <2>1, <2>4 DEF Owns
    <3>2. CASE y = x
      <4>1. o \in S
        BY <1>1, <2>1, <2>4, <3>1, <3>2 DEF StmtCalls, Dying
      <4>2. QED
        BY <4>1 DEF Calls
    <3>3. CASE y # x
      <4>1. \E p \in Params : resultSet[p] = y
        BY <1>1, <1>5, <2>4, <3>3 DEF Owns
      <4>2. rsStmt[y] = NULL
        BY <1>1, <2>4, <4>1 DEF OwnInv, Attached
      <4>3. QED
        BY <3>1, <4>2
    <3>4. QED
      BY <3>2, <3>3
  <2>5. QED
    BY <2>1, <2>2, <2>3, <2>4 DEF Calls
<1>8. Calls(x) # {x} => refs[x] = 1
  <2>1. SUFFICES ASSUME NEW o \in Calls(x) \ {x} PROVE refs[x] = 1
    BY <1>2
  <2>2. \A c \in S \ {x} : refs[x] = 1
    BY <1>3
  <2>3. \A c \in P \ {x} : refs[x] = 1
    BY <1>4, <2>2
  <2>4. \A c \in R \ {x} : refs[x] = 1
    BY <1>5, <2>3
  <2>5. QED
    BY <2>2, <2>3, <2>4 DEF Calls
<1>9. QED
  BY <1>2, <1>6, <1>7, <1>8

\* ReleaseObj keeps the counts, however far the destruction goes: what dies had
\* one reference left, and what it pointed to loses exactly that reference
\* (epSmartObject.h:123-138).
LEMMA OwnRelease ==
  ASSUME OwnInv, TypeOK', NEW x \in Objects, ReleaseObj(x)
  PROVE  OwnInv'
<1> DEFINE gone == Dying(Calls(x))
<1>1. /\ refs' = [o \in Objects |-> IF o \in Calls(x) /\ refs[o] > 0
                                    THEN refs[o] - 1 ELSE refs[o]]
      /\ held' = [held EXCEPT ![x] = @ - 1]
      /\ x \in InHand
      /\ handles' = handles \ gone
      /\ born' = born
  BY DEF ReleaseObj
<1>2. /\ parameters' = [s \in Stmts |-> IF s \in gone THEN {} ELSE parameters[s]]
      /\ resultSet' = [p \in Params |-> IF p \in gone THEN NULL ELSE resultSet[p]]
      /\ rsHandle' = [r \in Sets |-> IF r \in gone THEN NULL ELSE rsHandle[r]]
      /\ rsStmt' = [r \in Sets |-> IF r \in gone THEN NULL ELSE rsStmt[r]]
  BY DEF ReleaseObj, OwnInv, TypeOK
<1>3. refs[x] > 0 /\ held[x] > 0
  BY <1>1, InReachAlive DEF InHand
<1>4. /\ Calls(x) \subseteq Objects /\ x \in Calls(x)
      /\ Calls(x) # {x} => refs[x] = 1
      /\ \A o \in Calls(x) \ {x} : \E y \in gone : Owns(y, o)
      /\ \A y \in gone, o \in Objects : Owns(y, o) => o \in Calls(x)
  BY <1>3, Cascade
<1>5. \A o \in Objects : o \in gone <=> o \in Calls(x) /\ refs[o] = 1
  BY DEF Dying
<1>6. gone \subseteq Calls(x)
  BY DEF Dying
<1> HIDE DEF gone
<1>7. \A o \in Objects : refs[o] \in Nat /\ held[o] \in Nat
  BY DEF OwnInv, TypeOK
<1>8. \A y, o \in Objects : Owns(y, o)' <=> (Owns(y, o) /\ y \notin gone)
  BY <1>2 DEF Owns, OwnInv, TypeOK
<1>9. \A o \in Objects : Owners(o)' = Owners(o) \ gone
  BY <1>8 DEF Owners
<1>10. held'[x] = held[x] - 1 /\ \A o \in Objects \ {x} : held'[o] = held[o]
  BY <1>1 DEF OwnInv, TypeOK
<1>11. ASSUME NEW o \in Objects PROVE Counted(o)'
  <2>1. Counted(o)
    BY DEF OwnInv
  <2>2. CASE o = x
    <3>1. Owners(x) \cap gone = {}
      <4>1. SUFFICES ASSUME NEW y \in gone, Owns(y, x) PROVE FALSE
        BY DEF Owners
      <4>2. y # x
        BY <4>1 DEF Owns, OwnInv, TypeOK
      <4>3. refs[x] = 1
        BY <1>4, <1>6, <4>2
      <4>4. Owners(x) = {}
        BY <1>3, <1>7, <2>1, <2>2, <4>3 DEF Counted
      <4>5. QED
        BY <1>4, <1>6, <4>1, <4>4 DEF Owners
    <3>2. Owners(x)' = Owners(x)
      BY <1>9, <3>1
    <3>3. refs'[x] = refs[x] - 1
      BY <1>1, <1>3, <1>4
    <3>4. QED
      BY <1>3, <1>7, <1>10, <2>1, <2>2, <3>2, <3>3 DEF Counted
  <2>3. CASE o \in Calls(x) \ {x}
    <3>1. PICK y \in gone : Owns(y, o)
      BY <1>4, <2>3
    <3>2. y \in Owners(o)
      BY <1>4, <1>6, <3>1 DEF Owners
    <3>3. Owners(o) = {y} /\ refs[o] = held[o] + 1
      BY <2>1, <3>2 DEF Counted
    <3>4. Owners(o)' = {}
      BY <1>9, <3>3
    <3>5. refs'[o] = held'[o]
      BY <1>1, <1>7, <1>10, <2>3, <3>3
    <3>6. QED
      BY <3>4, <3>5 DEF Counted
  <2>4. CASE o \notin Calls(x)
    <3>1. Owners(o)' = Owners(o)
      BY <1>4, <1>9, <2>4 DEF Owners
    <3>2. refs'[o] = refs[o] /\ held'[o] = held[o]
      BY <1>1, <1>4, <1>10, <2>4
    <3>3. QED
      BY <2>1, <3>1, <3>2 DEF Counted
  <2>5. QED
    BY <2>2, <2>3, <2>4
<1>12. \A o \in Objects : refs'[o] > 0 <=> refs[o] > 0 /\ o \notin gone
  BY <1>1, <1>5, <1>7
<1>13. \A o \in Objects : o \notin born' => refs'[o] = 0
  BY <1>1 DEF OwnInv
<1>14. \A z, o \in Objects : Owns(z, o)' => refs'[z] > 0
  BY <1>8, <1>12 DEF OwnInv
<1>15. ASSUME NEW r \in Sets PROVE Attached(r)'
  <2>1. SUFFICES ASSUME rsStmt'[r] # NULL PROVE Attached(r)'
    BY DEF Attached
  <2>2. /\ rsStmt'[r] = rsStmt[r] /\ rsHandle'[r] = rsHandle[r]
        /\ rsStmt[r] \in Stmts
    BY <1>2, <2>1 DEF OwnInv, TypeOK
  <2>3. /\ rsHandle[r] = rsStmt[r] /\ held[rsStmt[r]] = 0
        /\ parameters[rsStmt[r]] = {} /\ \A p \in Params : resultSet[p] # r
    BY <2>1, <2>2 DEF OwnInv, Attached
  <2>4. held'[rsStmt[r]] = 0
    BY <1>3, <1>10, <2>2, <2>3
  <2>5. parameters'[rsStmt[r]] = {}
    BY <1>2, <2>2, <2>3
  <2>6. \A p \in Params : resultSet'[p] # r
    BY <1>2, <2>3
  <2>7. QED
    BY <2>2, <2>3, <2>4, <2>5, <2>6 DEF Attached
<1>16. handles' = Alive' \cap HandleOwners
  <2>1. Alive' = Alive \ gone
    BY <1>12 DEF Alive
  <2>2. handles = Alive \cap HandleOwners
    BY DEF OwnInv
  <2>3. QED
    BY <1>1, <2>1, <2>2
<1>17. QED
  BY <1>11, <1>13, <1>14, <1>15, <1>16 DEF OwnInv

\* Every step keeps the counts.
LEMMA OwnStep ==
  ASSUME "map" \notin LateBindFaults, OwnInv, [Next]_vars
  PROVE  OwnInv'
<1>1. TypeOK'
  <2>1. TypeOK
    BY DEF OwnInv
  <2>2. CASE UNCHANGED vars
    BY <2>1, <2>2 DEF vars, TypeOK
  <2>3. CASE Next
    BY <2>1, <2>3, TypeCalls, TypeRelease
  <2>4. QED
    BY <2>2, <2>3
<1>2. CASE UNCHANGED vars
  BY <1>1, <1>2, OwnPlain DEF vars
<1>3. CASE Next
  BY <1>1, <1>3, OwnStatement, OwnConnectionSelect, OwnBind, OwnToResultSet,
     OwnRetain, OwnRelease DEF Next
<1>4. QED
  BY <1>2, <1>3

\* The invariant holds in every behaviour in which Bind never throws between
\* the two containers of a statement (epStatement.cpp:169-170).
LEMMA OwnInvariant ==
  ASSUME "map" \notin LateBindFaults
  PROVE  Spec => []OwnInv
<1>1. OwnInv /\ [Next]_vars => OwnInv'
  BY OwnStep
<1>2. QED
  BY <1>1, OwnInit, PTL DEF Spec

\* For any number of objects and any client, m_refCount of each object is the
\* number of references the client has and of the pointers that will be
\* released: nothing is destroyed while somebody counts on it, nor kept when
\* nobody does (epSmartObject.h:123-138).
THEOREM CountsCorrect ==
  ASSUME "map" \notin LateBindFaults
  PROVE  Spec => []ReferencesCounted
<1>1. OwnInv => ReferencesCounted
  <2>1. SUFFICES ASSUME OwnInv, NEW o \in Objects
                 PROVE  refs[o] = held[o] + Cardinality(Owners(o))
    BY DEF ReferencesCounted
  <2>2. refs[o] \in Nat /\ held[o] \in Nat /\ Counted(o)
    BY <2>1 DEF OwnInv, TypeOK
  <2>3. CASE Owners(o) = {} /\ refs[o] = held[o]
    BY <2>2, <2>3, FS_EmptySet
  <2>4. ASSUME NEW x \in Objects, Owners(o) = {x}, refs[o] = held[o] + 1
        PROVE  refs[o] = held[o] + Cardinality(Owners(o))
    <3>1. Cardinality({x}) = 1
      BY FS_Singleton
    <3>2. QED
      BY <2>4, <3>1
  <2>5. QED
    BY <2>2, <2>3, <2>4 DEF Counted
<1>2. QED
  BY <1>1, OwnInvariant, PTL

\* A result set of Connection::Select keeps the handle it fetches from, however
\* the client retains and releases (epConnection.cpp:260, epResultSet.cpp:84).
THEOREM AttachedCorrect ==
  ASSUME "map" \notin LateBindFaults
  PROVE  Spec => []AttachedHandleLives
<1>1. OwnInv => AttachedHandleLives
  <2>1. SUFFICES ASSUME OwnInv, NEW r \in Sets, rsStmt[r] # NULL
                 PROVE  rsHandle[r] \in handles
    BY DEF AttachedHandleLives
  <2>2. rsStmt[r] \in Stmts /\ rsHandle[r] = rsStmt[r]
    BY <2>1 DEF OwnInv, TypeOK, Attached
  <2>3. refs[rsStmt[r]] > 0
    BY <2>1, <2>2, InReachAlive DEF Owns
  <2>4. QED
    BY <2>1, <2>2, <2>3 DEF OwnInv, Alive
<1>2. QED
  BY <1>1, OwnInvariant, PTL

\* For any number of objects and any client, nothing lives that nobody can
\* reach, and no statement handle outlives the object that allocated it,
\* whatever threw on the way (epStatement.cpp:49-83, 151-156,
\* epParameter.cpp:49-97, epConnection.cpp:263-267).
THEOREM LeaksCorrect ==
  ASSUME "map" \notin LateBindFaults
  PROVE  Spec => []NothingLeaked
<1>1. OwnInv => NothingLeaked
  <2> SUFFICES ASSUME OwnInv, NEW o \in Objects, refs[o] > 0
               PROVE  o \in InHand \cup ParamsInReach \cup SetsInReach
                              \cup {rsStmt[r] : r \in SetsInReach}
    BY DEF NothingLeaked, OwnInv, Alive
  <2>1. \A c \in Objects : refs[c] > 0 => c \in InHand \/ Owners(c) # {}
    <3>1. SUFFICES ASSUME NEW c \in Objects, refs[c] > 0, Owners(c) = {}
                   PROVE  held[c] > 0
      BY DEF InHand
    <3>2. refs[c] = held[c]
      BY <3>1 DEF OwnInv, Counted
    <3>3. QED
      BY <3>1, <3>2
  <2>2. \A r \in Sets : rsStmt[r] # NULL => r \in SetsInReach
    <3>1. SUFFICES ASSUME NEW r \in Sets, rsStmt[r] # NULL PROVE r \in InHand
      BY DEF SetsInReach
    <3>2. rsStmt[r] \in Stmts /\ \A p \in Params : resultSet[p] # r
      BY <3>1 DEF OwnInv, TypeOK, Attached
    <3>3. refs[r] > 0
      BY <3>1, <3>2 DEF OwnInv, Owns
    <3>4. Owners(r) = {}
      BY <3>2 DEF Owners, Owns, OwnInv, TypeOK
    <3>5. QED
      BY <2>1, <3>3, <3>4
  <2>3. \A p \in Params : refs[p] > 0 => p \in ParamsInReach
    <3>1. SUFFICES ASSUME NEW p \in Params, refs[p] > 0, p \notin InHand
                   PROVE  p \in ParamsInReach
      BY DEF ParamsInReach
    <3>2. PICK s \in Stmts : p \in parameters[s]
      BY <2>1, <3>1 DEF Owners, Owns, OwnInv, TypeOK
    <3>3. refs[s] > 0
      BY <3>2 DEF OwnInv, Owns
    <3>4. Owners(s) = {}
      BY <3>2 DEF Owners, Owns, OwnInv, TypeOK, Attached
    <3>5. QED
      BY <2>1, <3>2, <3>3, <3>4 DEF ParamsInReach
  <2>4. CASE o \in InHand
    BY <2>4
  <2>5. CASE o \notin InHand
    <3>1. PICK y \in Objects : Owns(y, o)
      BY <2>1, <2>5 DEF Owners
    <3>2. refs[y] > 0
      BY <3>1 DEF OwnInv
    <3>3. CASE y \in Stmts
      BY <2>3, <3>1, <3>3 DEF Owns, OwnInv, TypeOK
    <3>4. CASE y \in Params
      BY <2>3, <3>1, <3>2, <3>4 DEF Owns, SetsInReach
    <3>5. CASE y \in Sets
      BY <2>2, <3>1, <3>5 DEF Owns
    <3>6. QED
      BY <3>3, <3>4, <3>5
  <2>6. QED
    BY <2>4, <2>5
<1>2. QED
  BY <1>1, OwnInvariant, PTL
=============================================================================
