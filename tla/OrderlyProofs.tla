--------------------------- MODULE OrderlyProofs ---------------------------
(***************************************************************************)
(* Ownership with a client that releases statements last (Orderly) and     *)
(* Bind never throwing once OCI knows the buffer: what the client can use  *)
(* stands on something that exists, for any number of objects.             *)
(***************************************************************************)
EXTENDS OwnershipProofs

USE OwnershipAssumption DEF Objects, HandleOwners

\* A parameter that lives is one of a statement the client holds.
ParamStands(p) ==
  refs[p] > 0 => /\ paramStmt[p] \in Stmts
                 /\ held[paramStmt[p]] > 0
                 /\ p \in parameters[paramStmt[p]]

\* A result set that lives and does not keep its statement alive is over a
\* statement the client holds, or the one set of a cursor parameter that lives.
SetStands(r) ==
  refs[r] > 0 /\ rsStmt[r] = NULL =>
    \/ /\ rsHandle[r] \in Stmts
       /\ held[rsHandle[r]] > 0
       /\ \A p \in Params : resultSet[p] # r
    \/ /\ rsHandle[r] \in CursorParams
       /\ refs[rsHandle[r]] > 0
       /\ resultSet[rsHandle[r]] = r

StandInv == /\ OwnInv
            /\ \A p \in Params : ParamStands(p)
            /\ \A r \in Sets : SetStands(r)

\* OCI is bound to buffers of the statement's own parameters.
BuffersBound ==
  \A s \in Stmts, n \in Names : bound[s][n] # NULL => bound[s][n] \in parameters[s]

\* OCI fetches into the buffers of the one result set that lives.
BuffersDefined == \A r \in Sets : refs[r] > 0 => defined[rsHandle[r]] = r

-----------------------------------------------------------------------------
(* Standing.                                                               *)

\* A call that destroys nothing keeps everything but the objects it makes (N)
\* standing.
LEMMA StandGrow ==
  ASSUME StandInv, NEW N,
         \A o \in Objects : /\ held'[o] >= held[o]
                            /\ refs[o] > 0 => refs'[o] > 0
                            /\ o \notin N /\ refs'[o] > 0 => refs[o] > 0,
         \A p \in Params \ N : paramStmt'[p] = paramStmt[p],
         \A s \in Stmts : parameters[s] \subseteq parameters'[s],
         \A r \in Sets \ N : rsHandle'[r] = rsHandle[r] /\ rsStmt'[r] = rsStmt[r],
         \A p \in Params : \/ resultSet'[p] = resultSet[p]
                           \/ resultSet[p] = NULL /\ resultSet'[p] \in N,
         TypeOK'
  PROVE  /\ \A p \in Params \ N : ParamStands(p)'
         /\ \A r \in Sets \ N : SetStands(r)'
<1>0. \A o \in Objects : held[o] \in Nat /\ held'[o] \in Nat
  BY DEF StandInv, OwnInv, TypeOK
<1>1. ASSUME NEW p \in Params \ N PROVE ParamStands(p)'
  <2>1. refs'[p] > 0 => refs[p] > 0
    OBVIOUS
  <2>2. ParamStands(p)
    BY DEF StandInv
  <2>3. QED
    BY <1>0, <2>1, <2>2 DEF ParamStands
<1>2. ASSUME NEW r \in Sets \ N PROVE SetStands(r)'
  <2>1. refs'[r] > 0 => refs[r] > 0
    OBVIOUS
  <2>2. SetStands(r) /\ r # NULL
    BY DEF StandInv
  <2>3. \A p \in Params : resultSet[p] # r => resultSet'[p] # r
    OBVIOUS
  <2>4. \A p \in Params : resultSet[p] = r => resultSet'[p] = r
    BY <2>2
  <2>5. QED
    BY <1>0, <2>1, <2>2, <2>3, <2>4 DEF SetStands
<1>3. QED
  BY <1>1, <1>2

\* The calls that leave references and pointers alone.
LEMMA StandPlain ==
  ASSUME StandInv, OwnInv',
         UNCHANGED <<refs, held, parameters, paramStmt, resultSet, rsHandle, rsStmt>>
  PROVE  StandInv'
BY DEF StandInv, ParamStands, SetStands

\* Prepare.
LEMMA StandPrepare ==
  ASSUME StandInv, OwnInv', NEW s \in Stmts, Prepare(s)
  PROVE  StandInv'
<1>1. s \notin born /\ refs[s] = 0 /\ held[s] = 0
  BY Unborn DEF Prepare, StandInv
<1>2. /\ \A o \in Objects : /\ held'[o] >= held[o]
                            /\ refs[o] > 0 => refs'[o] > 0
                            /\ o \notin {s} /\ refs'[o] > 0 => refs[o] > 0
      /\ UNCHANGED <<paramStmt, parameters, rsHandle, rsStmt, resultSet>>
  BY <1>1 DEF Prepare, StandInv, OwnInv, TypeOK
<1>3. /\ \A p \in Params \ {s} : ParamStands(p)'
      /\ \A r \in Sets \ {s} : SetStands(r)'
  BY <1>2, StandGrow DEF OwnInv
<1>4. QED
  BY <1>3 DEF StandInv

\* Statement::Select.
LEMMA StandSelect ==
  ASSUME StandInv, OwnInv', NEW s \in Stmts, NEW r \in Sets, Select(s, r)
  PROVE  StandInv'
<1>1. /\ r \notin born /\ refs[r] = 0 /\ held[r] = 0 /\ rsStmt[r] = NULL
      /\ \A p \in Params : resultSet[p] # r
  BY Unborn DEF Select, StandInv
<1>2. /\ \A o \in Objects : /\ held'[o] >= held[o]
                            /\ refs[o] > 0 => refs'[o] > 0
                            /\ o \notin {r} /\ refs'[o] > 0 => refs[o] > 0
      /\ UNCHANGED <<paramStmt, parameters, rsStmt, resultSet>>
      /\ \A q \in Sets \ {r} : rsHandle'[q] = rsHandle[q]
      /\ rsHandle'[r] = s /\ held[s] > 0
  BY <1>1 DEF Select, InHand, StandInv, OwnInv, TypeOK
<1>3. /\ \A p \in Params \ {r} : ParamStands(p)'
      /\ \A q \in Sets \ {r} : SetStands(q)'
  BY <1>2, StandGrow DEF OwnInv
<1>4. held[s] \in Nat /\ held'[s] \in Nat
  BY DEF StandInv, OwnInv, TypeOK
<1>5. SetStands(r)'
  BY <1>1, <1>2, <1>4 DEF SetStands
<1>6. QED
  BY <1>3, <1>5 DEF StandInv

\* Connection::Select.
LEMMA StandConnectionSelect ==
  ASSUME StandInv, OwnInv', NEW s \in Stmts, NEW r \in Sets, ConnectionSelect(s, r)
  PROVE  StandInv'
<1>1. /\ s \notin born /\ r \notin born /\ refs[s] = 0 /\ refs[r] = 0 /\ held[r] = 0
  BY Unborn DEF ConnectionSelect, StandInv
<1>2. /\ \A o \in Objects : /\ held'[o] >= held[o]
                            /\ refs[o] > 0 => refs'[o] > 0
                            /\ o \notin {s, r} /\ refs'[o] > 0 => refs[o] > 0
      /\ UNCHANGED <<paramStmt, parameters, resultSet>>
      /\ \A q \in Sets \ {s, r} : rsHandle'[q] = rsHandle[q] /\ rsStmt'[q] = rsStmt[q]
      /\ rsStmt'[r] # NULL
  BY <1>1 DEF ConnectionSelect, StandInv, OwnInv, TypeOK
<1>3. /\ \A p \in Params \ {s, r} : ParamStands(p)'
      /\ \A q \in Sets \ {s, r} : SetStands(q)'
  BY <1>2, StandGrow DEF OwnInv
<1>4. SetStands(r)'
  BY <1>2 DEF SetStands
<1>5. QED
  BY <1>3, <1>4 DEF StandInv

\* Bind.
LEMMA StandBind ==
  ASSUME StandInv, OwnInv', NEW s \in Stmts, NEW p \in Params, NEW n \in Names,
         Bind(s, p, n)
  PROVE  StandInv'
<1>1. p \notin born /\ refs[p] = 0 /\ held[s] > 0
  BY Unborn DEF Bind, Bindable, InHand, StandInv
<1>2. /\ \A o \in Objects : /\ held'[o] >= held[o]
                            /\ refs[o] > 0 => refs'[o] > 0
                            /\ o \notin {p} /\ refs'[o] > 0 => refs[o] > 0
      /\ UNCHANGED <<held, rsHandle, rsStmt, resultSet>>
      /\ \A t \in Stmts : parameters[t] \subseteq parameters'[t]
      /\ \A q \in Params \ {p} : paramStmt'[q] = paramStmt[q]
      /\ paramStmt'[p] = s /\ p \in parameters'[s]
  BY <1>1 DEF Bind, StandInv, OwnInv, TypeOK
<1>3. /\ \A q \in Params \ {p} : ParamStands(q)'
      /\ \A r \in Sets \ {p} : SetStands(r)'
  BY <1>2, StandGrow DEF OwnInv
<1>4. ParamStands(p)'
  BY <1>1, <1>2 DEF ParamStands
<1>5. QED
  BY <1>3, <1>4 DEF StandInv

\* ToResultSet, the first time.
LEMMA StandToResultSet ==
  ASSUME StandInv, OwnInv', NEW p \in Params, NEW r \in Sets, NEW f \in BOOLEAN,
         ToResultSet(p, r, f)
  PROVE  StandInv'
<1>1. /\ r \notin born /\ refs[r] = 0 /\ rsStmt[r] = NULL
      /\ p \in CursorParams /\ resultSet[p] = NULL /\ p \in ParamsInReach
  BY Unborn DEF ToResultSet, CanOpenCursor, NeedsSet, StandInv
<1>2. refs[p] > 0
  BY <1>1, InReachAlive DEF StandInv
<1>3. /\ \A o \in Objects : /\ held'[o] >= held[o]
                            /\ refs[o] > 0 => refs'[o] > 0
                            /\ o \notin {r} /\ refs'[o] > 0 => refs[o] > 0
      /\ UNCHANGED <<parameters, paramStmt, rsStmt>>
      /\ \A q \in Sets \ {r} : rsHandle'[q] = rsHandle[q]
      /\ \A q \in Params \ {p} : resultSet'[q] = resultSet[q]
      /\ rsHandle'[r] = p /\ resultSet'[p] = r
  BY <1>1 DEF ToResultSet, StandInv, OwnInv, TypeOK
<1>4. /\ \A q \in Params \ {r} : ParamStands(q)'
      /\ \A q \in Sets \ {r} : SetStands(q)'
  BY <1>1, <1>3, StandGrow DEF OwnInv
<1>5. SetStands(r)'
  BY <1>1, <1>2, <1>3 DEF SetStands
<1>6. QED
  BY <1>4, <1>5 DEF StandInv

\* RetainObj.
LEMMA StandRetain ==
  ASSUME StandInv, OwnInv', NEW o \in Objects, RetainObj(o)
  PROVE  StandInv'
<1>1. refs[o] > 0
  BY DEF RetainObj, Alive
<1>2. /\ \A x \in Objects : /\ held'[x] >= held[x]
                            /\ refs[x] > 0 => refs'[x] > 0
                            /\ x \notin {} /\ refs'[x] > 0 => refs[x] > 0
      /\ UNCHANGED <<parameters, paramStmt, resultSet, rsHandle, rsStmt>>
  BY <1>1 DEF RetainObj, StandInv, OwnInv, TypeOK
<1>3. /\ \A p \in Params \ {} : ParamStands(p)'
      /\ \A r \in Sets \ {} : SetStands(r)'
  BY <1>2, StandGrow DEF OwnInv
<1>4. QED
  BY <1>3 DEF StandInv

\* A statement the client holds dies of its own last release only, and takes its
\* parameters with it; a release of something else leaves it and its references.
LEMMA StatementDies ==
  ASSUME StandInv, NEW x \in Objects, NEW s \in Stmts, held[x] > 0, held[s] > 0
  PROVE  /\ Owners(s) = {} /\ refs[s] = held[s]
         /\ s \in Dying(Calls(x)) => s = x /\ held[s] = 1
         /\ s = x /\ held[s] = 1 => s \in Dying(StmtCalls(x))
<1>1. held[s] \in Nat /\ refs[s] \in Nat /\ Counted(s)
  BY DEF StandInv, OwnInv, TypeOK
<1>2. Owners(s) = {}
  <2>1. SUFFICES ASSUME NEW y \in Objects, Owns(y, s) PROVE FALSE
    BY DEF Owners
  <2>2. y \in Sets /\ rsStmt[y] = s
    BY <2>1 DEF Owns, StandInv, OwnInv, TypeOK
  <2>3. held[s] = 0
    BY <2>2 DEF StandInv, OwnInv, Attached
  <2>4. QED
    BY <2>3
<1>3. refs[s] = held[s]
  BY <1>1, <1>2 DEF Counted
<1>4. s \in Calls(x) => s = x
  <2>1. SUFFICES ASSUME s \in Calls(x), s # x PROVE FALSE
    OBVIOUS
  <2>2. s \in StmtCalls(x)
    <3>1. ParamCalls(x) \subseteq Params /\ SetCalls(x) \subseteq Sets
      BY CallsType DEF StandInv, OwnInv
    <3>2. QED
      BY <2>1, <3>1 DEF Calls
  <2>3. x \in Sets /\ rsStmt[x] = s
    BY <2>1, <2>2 DEF StmtCalls, Dying
  <2>4. x \in Owners(s)
    BY <2>3 DEF Owners, Owns
  <2>5. QED
    BY <1>2, <2>4
<1>5. QED
  BY <1>1, <1>2, <1>3, <1>4 DEF Dying, StmtCalls

\* A parameter that lives dies of the last release of its statement only; it
\* does then unless the client holds it, and its result set with it.
LEMMA ParameterDies ==
  ASSUME StandInv, NEW x \in Objects, held[x] > 0, NEW p \in Params, refs[p] > 0
  PROVE  /\ p \in Dying(Calls(x)) => x = paramStmt[p] /\ held[x] = 1
         /\ x = paramStmt[p] /\ held[x] = 1 /\ held[p] = 0 => p \in Dying(ParamCalls(x))
<1> DEFINE s == paramStmt[p]
<1>1. s \in Stmts /\ held[s] > 0 /\ p \in parameters[s]
  BY DEF StandInv, ParamStands
<1>2. s \in Owners(p) /\ held[p] \in Nat
  BY <1>1 DEF Owners, Owns, StandInv, OwnInv, TypeOK
<1>3. Owners(p) = {s} /\ refs[p] = held[p] + 1
  BY <1>2 DEF StandInv, OwnInv, Counted
<1>4. ASSUME p \in Dying(Calls(x)) PROVE x = s /\ held[x] = 1
  <2>1. refs[p] = 1 /\ held[p] = 0 /\ p # x
    BY <1>2, <1>3, <1>4 DEF Dying
  <2>2. p \in ParamCalls(x)
    <3>1. StmtCalls(x) \subseteq Stmts /\ SetCalls(x) \subseteq Sets
      BY CallsType DEF StandInv, OwnInv
    <3>2. QED
      BY <1>4, <3>1 DEF Calls, Dying
  <2>3. PICK t \in Dying(StmtCalls(x)) : p \in parameters[t]
    BY <2>1, <2>2 DEF ParamCalls
  <2>4. t \in Stmts /\ t \in Dying(Calls(x))
    BY <2>3, CallsType DEF Calls, Dying, StandInv, OwnInv
  <2>5. t = s
    BY <1>3, <2>3, <2>4 DEF Owners, Owns
  <2>6. QED
    BY <1>1, <2>4, <2>5, StatementDies
<1>5. ASSUME x = s, held[x] = 1, held[p] = 0 PROVE p \in Dying(ParamCalls(x))
  <2>1. s \in Dying(StmtCalls(x))
    BY <1>1, <1>5, StatementDies
  <2>2. QED
    BY <1>1, <1>3, <1>5, <2>1 DEF ParamCalls, Dying
<1>6. QED
  BY <1>4, <1>5

\* ReleaseObj by a client that releases statements last.
LEMMA StandRelease ==
  ASSUME StandInv, OwnInv', NEW x \in Objects, Orderly, ReleaseObj(x)
  PROVE  StandInv'
<1> DEFINE gone == Dying(Calls(x))
<1>1. /\ refs' = [o \in Objects |-> IF o \in Calls(x) /\ refs[o] > 0
                                    THEN refs[o] - 1 ELSE refs[o]]
      /\ held' = [held EXCEPT ![x] = @ - 1]
      /\ held[x] > 0
      /\ x \in Stmts /\ held[x] = 1 => ObtainedFrom(x) \cap InHand = {}
  BY DEF ReleaseObj, InHand
<1>2. /\ parameters' = [s \in Stmts |-> IF s \in gone THEN {} ELSE parameters[s]]
      /\ paramStmt' = [p \in Params |-> IF p \in gone THEN NULL ELSE paramStmt[p]]
      /\ resultSet' = [p \in Params |-> IF p \in gone THEN NULL ELSE resultSet[p]]
      /\ rsHandle' = [r \in Sets |-> IF r \in gone THEN NULL ELSE rsHandle[r]]
      /\ rsStmt' = [r \in Sets |-> IF r \in gone THEN NULL ELSE rsStmt[r]]
  BY DEF ReleaseObj, StandInv, OwnInv, TypeOK
<1>3. \A o \in Objects : refs[o] \in Nat /\ held[o] \in Nat
  BY DEF StandInv, OwnInv, TypeOK
<1>4. \A o \in Objects : o \in gone <=> o \in Calls(x) /\ refs[o] = 1
  BY DEF Dying
<1>5. \A s \in Stmts : held[s] > 0 => (s \in gone => s = x /\ held[s] = 1)
  BY <1>1, StatementDies
<1>6. \A p \in Params : refs[p] > 0 => (p \in gone => x = paramStmt[p] /\ held[x] = 1)
  BY <1>1, ParameterDies
<1>7. \A p \in Params :
        refs[p] > 0 /\ x = paramStmt[p] /\ held[x] = 1 /\ held[p] = 0
          => p \in gone /\ p \in Dying(ParamCalls(x))
  BY <1>1, ParameterDies DEF Calls, Dying
<1> HIDE DEF gone
<1>8. \A o \in Objects : refs'[o] > 0 <=> refs[o] > 0 /\ o \notin gone
  BY <1>1, <1>3, <1>4
<1>9. \A s \in Stmts : held[s] > 0 /\ ~(s = x /\ held[s] = 1)
                         => held'[s] > 0 /\ s \notin gone
  <2>1. SUFFICES ASSUME NEW s \in Stmts, held[s] > 0, ~(s = x /\ held[s] = 1)
                 PROVE  held'[s] > 0 /\ s \notin gone
    OBVIOUS
  <2>2. s \notin gone
    BY <1>5, <2>1
  <2>3. CASE s = x
    <3>1. held'[s] = held[s] - 1 /\ held[s] \in Nat
      BY <1>1, <1>3, <2>3 DEF StandInv, OwnInv, TypeOK
    <3>2. QED
      BY <2>1, <2>2, <2>3, <3>1
  <2>4. CASE s # x
    <3>1. held'[s] = held[s]
      BY <1>1, <2>4 DEF StandInv, OwnInv, TypeOK
    <3>2. QED
      BY <2>1, <2>2, <3>1
  <2>5. QED
    BY <2>3, <2>4
<1>10. ASSUME NEW p \in Params PROVE ParamStands(p)'
  <2>1. SUFFICES ASSUME refs[p] > 0, p \notin gone
                 PROVE  /\ paramStmt'[p] \in Stmts
                        /\ held'[paramStmt'[p]] > 0
                        /\ p \in parameters'[paramStmt'[p]]
    BY <1>8 DEF ParamStands
  <2>2. paramStmt[p] \in Stmts /\ held[paramStmt[p]] > 0 /\ p \in parameters[paramStmt[p]]
    BY <2>1 DEF StandInv, ParamStands
  <2>3. ~(paramStmt[p] = x /\ held[x] = 1)
    <3>1. SUFFICES ASSUME paramStmt[p] = x, held[x] = 1 PROVE FALSE
      OBVIOUS
    <3>2. p \in ObtainedFrom(x)
      BY <3>1 DEF ObtainedFrom
    <3>3. held[p] = 0
      BY <1>1, <1>3, <2>2, <3>1, <3>2 DEF InHand
    <3>4. QED
      BY <1>7, <2>1, <3>1, <3>3
  <2>4. held'[paramStmt[p]] > 0 /\ paramStmt[p] \notin gone
    BY <1>9, <2>2, <2>3
  <2>5. QED
    BY <1>2, <2>1, <2>2, <2>4
<1>11. ASSUME NEW r \in Sets PROVE SetStands(r)'
  <2>1. SUFFICES ASSUME refs[r] > 0, r \notin gone, rsStmt[r] = NULL
                 PROVE  \/ /\ rsHandle'[r] \in Stmts
                           /\ held'[rsHandle'[r]] > 0
                           /\ \A p \in Params : resultSet'[p] # r
                        \/ /\ rsHandle'[r] \in CursorParams
                           /\ refs'[rsHandle'[r]] > 0
                           /\ resultSet'[rsHandle'[r]] = r
    BY <1>2, <1>8 DEF SetStands
  <2>2. rsHandle'[r] = rsHandle[r] /\ r # NULL
    BY <1>2, <2>1
  <2>3. CASE /\ rsHandle[r] \in Stmts
             /\ held[rsHandle[r]] > 0
             /\ \A p \in Params : resultSet[p] # r
    <3>1. \A p \in Params : resultSet'[p] # r
      BY <1>2, <2>2, <2>3
    <3>2. held[r] > 0
      <4>1. Owners(r) = {}
        BY <2>3 DEF Owners, Owns, StandInv, OwnInv, TypeOK
      <4>2. QED
        BY <2>1, <4>1 DEF StandInv, OwnInv, Counted
    <3>3. ~(rsHandle[r] = x /\ held[x] = 1)
      <4>1. rsHandle[r] = x => r \in ObtainedFrom(x)
        BY <2>1 DEF ObtainedFrom
      <4>2. QED
        BY <1>1, <2>3, <3>2, <4>1 DEF InHand
    <3>4. held'[rsHandle[r]] > 0
      BY <1>9, <2>3, <3>3
    <3>5. QED
      BY <2>2, <2>3, <3>1, <3>4
  <2>4. CASE /\ rsHandle[r] \in CursorParams
             /\ refs[rsHandle[r]] > 0
             /\ resultSet[rsHandle[r]] = r
    <3> DEFINE p == rsHandle[r]
    <3>1. p \in Params /\ refs[p] > 0 /\ resultSet[p] = r
      BY <2>4
    <3>2. p \notin gone
      <4>1. SUFFICES ASSUME p \in gone PROVE FALSE
        OBVIOUS
      <4>2. x = paramStmt[p] /\ held[x] = 1 /\ x \in Stmts
        BY <1>6, <3>1, <4>1 DEF StandInv, ParamStands
      <4>3. r \in ObtainedFrom(x) /\ p \in ObtainedFrom(x)
        BY <2>1, <3>1, <4>2 DEF ObtainedFrom
      <4>4. held[r] = 0 /\ held[p] = 0
        BY <1>1, <1>3, <3>1, <4>2, <4>3 DEF InHand
      <4>5. p \in Dying(ParamCalls(x))
        BY <1>7, <3>1, <4>2, <4>4
      <4>6. r \in SetCalls(x)
        BY <2>2, <3>1, <4>5 DEF SetCalls
      <4>7. p \in Owners(r)
        BY <3>1 DEF Owners, Owns
      <4>8. refs[r] = 1
        <5>1. Counted(r)
          BY DEF StandInv, OwnInv
        <5>2. refs[r] = held[r] + 1
          BY <4>7, <5>1 DEF Counted
        <5>3. QED
          BY <4>4, <5>2
      <4>9. QED
        BY <1>4, <2>1, <4>6, <4>8 DEF Calls
    <3>3. refs'[p] > 0 /\ resultSet'[p] = r
      BY <1>2, <1>8, <3>1, <3>2
    <3>4. QED
      BY <2>2, <2>4, <3>3
  <2>5. QED
    BY <2>1, <2>3, <2>4 DEF StandInv, SetStands
<1>12. QED
  BY <1>10, <1>11 DEF StandInv

\* Every step keeps what the client can use standing.
LEMMA StandStep ==
  ASSUME Orderly, LateBindFaults = {}, StandInv, [Next]_vars
  PROVE  StandInv'
<1>1. OwnInv'
  BY OwnStep DEF StandInv
<1>2. CASE UNCHANGED vars
  BY <1>1, <1>2, StandPlain DEF vars
<1>3. CASE Next
  <2>1. ASSUME NEW s \in Stmts, Transient(s) \/ Execute(s) PROVE StandInv'
    BY <1>1, <2>1, StandPlain DEF Transient, Execute
  <2>2. ASSUME NEW s \in Stmts, NEW r \in Sets,
               SelectThrows(s, r) \/ ConnectionSelectThrows(s, r)
        PROVE  StandInv'
    BY <1>1, <2>2, StandPlain DEF SelectThrows, ConnectionSelectThrows
  <2>3. ASSUME NEW s \in Stmts, NEW p \in Params, BindRefused(s, p) PROVE StandInv'
    BY <1>1, <2>3, StandPlain DEF BindRefused
  <2>4. ASSUME NEW p \in Params, NEW r \in Sets, ToResultSetThrows(p, r) PROVE StandInv'
    BY <1>1, <2>4, StandPlain DEF ToResultSetThrows
  <2>5. QED
    BY <1>1, <1>3, <2>1, <2>2, <2>3, <2>4, StandPrepare, StandSelect,
       StandConnectionSelect, StandBind, StandToResultSet, StandRetain,
       StandRelease DEF Next
<1>4. QED
  BY <1>2, <1>3

\* Nothing lives at first.
LEMMA StandInit == Init => StandInv
<1>1. Init => OwnInv
  BY OwnInit
<1>2. QED
  BY <1>1 DEF StandInv, ParamStands, SetStands, Init

\* The invariant holds in every behaviour of such a client.
LEMMA StandInvariant ==
  ASSUME Orderly, LateBindFaults = {}
  PROVE  Spec => []StandInv
<1>1. StandInv /\ [Next]_vars => StandInv'
  BY StandStep
<1>2. QED
  BY <1>1, StandInit, PTL DEF Spec

\* A result set the client can use lives.
LEMMA ReachedLives ==
  ASSUME StandInv, NEW r \in SetsInReach
  PROVE  r \in Sets /\ refs[r] > 0
<1>1. CASE r \in InHand \cap Sets
  BY <1>1, InReachAlive DEF StandInv
<1>2. CASE r \notin InHand \cap Sets
  <2>1. PICK p \in ParamsInReach : resultSet[p] = r /\ r # NULL
    BY <1>2 DEF SetsInReach
  <2>2. p \in Params
    BY InReachAlive DEF StandInv
  <2>3. r \in Sets /\ Owns(p, r)
    BY <2>1, <2>2 DEF Owns, StandInv, OwnInv, TypeOK
  <2>4. QED
    BY <2>2, <2>3, InReachAlive DEF StandInv
<1>3. QED
  BY <1>1, <1>2

\* With a client that releases statements last, every result set and parameter
\* it can use has its handle and its statement, however many there are
\* (epResultSet.cpp:93, epParameter.cpp:208, 237).
THEOREM StandingCorrect ==
  ASSUME Orderly, LateBindFaults = {}
  PROVE  Spec => []StandsOnHandle
<1>1. StandInv => StandsOnHandle
  <2> SUFFICES ASSUME StandInv PROVE StandsOnHandle
    OBVIOUS
  <2>1. ASSUME NEW p \in ParamsInReach PROVE paramStmt[p] \in Alive
    <3>1. p \in Params /\ refs[p] > 0
      BY InReachAlive DEF StandInv
    <3>2. paramStmt[p] \in Stmts /\ held[paramStmt[p]] > 0
      BY <3>1 DEF StandInv, ParamStands
    <3>3. QED
      BY <3>2, StatementDies DEF Alive
  <2>2. ASSUME NEW r \in SetsInReach PROVE rsHandle[r] \in handles
    <3>1. r \in Sets /\ refs[r] > 0
      BY ReachedLives
    <3>2. CASE rsStmt[r] # NULL
      <4>1. rsStmt[r] \in Stmts /\ rsHandle[r] = rsStmt[r] /\ Owns(r, rsStmt[r])
        BY <3>1, <3>2 DEF Owns, Attached, StandInv, OwnInv, TypeOK
      <4>2. QED
        BY <3>1, <4>1, InReachAlive DEF StandInv, OwnInv, Alive
    <3>3. CASE rsStmt[r] = NULL /\ rsHandle[r] \in Stmts /\ held[rsHandle[r]] > 0
      BY <3>3, StatementDies DEF StandInv, OwnInv, Alive
    <3>4. CASE rsHandle[r] \in CursorParams /\ refs[rsHandle[r]] > 0
      BY <3>4 DEF StandInv, OwnInv, Alive
    <3>5. QED
      BY <3>1, <3>2, <3>3, <3>4 DEF StandInv, SetStands
  <2>3. QED
    BY <2>1, <2>2 DEF StandsOnHandle
<1>2. QED
  BY <1>1, StandInvariant, PTL

-----------------------------------------------------------------------------
(* Bound buffers, for a client that releases in any order.                 *)

\* A step binds OCI to a new parameter of the statement, or to none.
LEMMA BoundStep ==
  ASSUME LateBindFaults = {}, OwnInv, BuffersBound, [Next]_vars
  PROVE  BuffersBound'
<1>0. TypeOK
  BY DEF OwnInv
<1>1. CASE UNCHANGED <<bound, parameters>>
  BY <1>1 DEF BuffersBound
<1>2. ASSUME NEW s \in Stmts, NEW p \in Params, NEW n \in Names, Bind(s, p, n)
      PROVE  BuffersBound'
  <2>1. /\ bound' = [bound EXCEPT ![s][n] = p]
        /\ parameters' = [parameters EXCEPT ![s] = @ \cup {p}]
        /\ bound \in [Stmts -> [Names -> Params \cup {NULL}]]
        /\ parameters \in [Stmts -> SUBSET Params]
    BY <1>0, <1>2 DEF Bind, TypeOK
  <2>2. SUFFICES ASSUME NEW t \in Stmts, NEW m \in Names, bound'[t][m] # NULL
                 PROVE  bound'[t][m] \in parameters'[t]
    BY DEF BuffersBound
  <2>3. CASE t = s /\ m = n
    BY <2>1, <2>3
  <2>4. CASE ~(t = s /\ m = n)
    <3>1. bound'[t][m] = bound[t][m] /\ parameters[t] \subseteq parameters'[t]
      BY <2>1, <2>4
    <3>2. QED
      BY <2>2, <3>1 DEF BuffersBound
  <2>5. QED
    BY <2>3, <2>4
<1>3. ASSUME NEW x \in Objects, ReleaseObj(x) PROVE BuffersBound'
  <2> DEFINE gone == Dying(Calls(x))
  <2>1. /\ parameters' = [s \in Stmts |-> IF s \in gone THEN {} ELSE parameters[s]]
        /\ bound' = [s \in Stmts |-> IF s \in gone THEN [n \in Names |-> NULL] ELSE bound[s]]
    BY <1>0, <1>3 DEF ReleaseObj, TypeOK
  <2> HIDE DEF gone
  <2>2. QED
    BY <2>1 DEF BuffersBound
<1>4. QED
  BY <1>1, <1>2, <1>3 DEF Next, vars, Prepare, Transient, Execute, Select, SelectThrows,
     ConnectionSelect, ConnectionSelectThrows, BindRefused, ToResultSet,
     ToResultSetThrows, RetainObj

\* A statement's execution reads and writes buffers of its own parameters, none
\* of which is destroyed, whatever the client releases, as long as Bind does
\* not throw once OCI knows the buffer (epParameter.cpp:196, 222).
THEOREM BoundCorrect ==
  ASSUME LateBindFaults = {}
  PROVE  Spec => []BoundBuffersLive
<1>1. Init => BuffersBound
  BY DEF Init, BuffersBound
<1>2. OwnInv /\ BuffersBound /\ [Next]_vars => BuffersBound'
  BY BoundStep
<1>3. OwnInv /\ BuffersBound => BoundBuffersLive
  <2> SUFFICES ASSUME OwnInv, BuffersBound, NEW s \in Stmts, NEW n \in Names,
                      bound[s][n] # NULL
               PROVE  bound[s][n] \in parameters[s] \cap Alive
    BY DEF BoundBuffersLive
  <2>1. bound[s][n] \in parameters[s] /\ parameters[s] \subseteq Params
    BY DEF BuffersBound, OwnInv, TypeOK
  <2>2. Owns(s, bound[s][n])
    BY <2>1 DEF Owns
  <2>3. refs[bound[s][n]] > 0
    BY <2>1, <2>2, InReachAlive
  <2>4. QED
    BY <2>1, <2>3 DEF Alive
<1>4. Spec => []OwnInv
  BY OwnInvariant
<1>5. QED
  BY <1>1, <1>2, <1>3, <1>4, PTL DEF Spec

-----------------------------------------------------------------------------
(* Defined buffers, for a client that holds one result set of a statement. *)

\* A set of a statement the client holds is one the client holds, and the only
\* one of a cursor parameter is the one it keeps.
LEMMA SetsOver ==
  ASSUME StandInv, NEW r \in Sets, refs[r] > 0
  PROVE  /\ rsHandle[r] \in HandleOwners /\ refs[rsHandle[r]] > 0
         /\ rsHandle[r] \in InHand \cap Stmts => r \in InHand
         /\ rsHandle[r] \in Params => resultSet[rsHandle[r]] = r
<1>1. CASE rsStmt[r] # NULL
  <2>1. rsStmt[r] \in Stmts /\ rsHandle[r] = rsStmt[r] /\ held[rsStmt[r]] = 0
    BY <1>1 DEF StandInv, OwnInv, TypeOK, Attached
  <2>2. refs[rsStmt[r]] > 0
    BY <2>1, InReachAlive DEF Owns, StandInv
  <2>3. QED
    BY <2>1, <2>2 DEF InHand
<1>2. CASE rsStmt[r] = NULL /\ rsHandle[r] \in Stmts /\ held[rsHandle[r]] > 0
           /\ \A p \in Params : resultSet[p] # r
  <2>1. refs[rsHandle[r]] > 0
    BY <1>2, InReachAlive DEF InHand, StandInv
  <2>2. Owners(r) = {}
    BY <1>2 DEF Owners, Owns, StandInv, OwnInv, TypeOK
  <2>3. held[r] > 0
    BY <2>2 DEF StandInv, OwnInv, Counted
  <2>4. QED
    BY <1>2, <2>1, <2>3 DEF InHand
<1>3. CASE /\ rsHandle[r] \in CursorParams /\ refs[rsHandle[r]] > 0
           /\ resultSet[rsHandle[r]] = r
  BY <1>3
<1>4. QED
  BY <1>1, <1>2, <1>3 DEF StandInv, SetStands

\* Every set that lives is over the handle of something that lives.
SetsPlaced ==
  \A r \in Sets : refs[r] > 0 => rsHandle[r] \in HandleOwners /\ refs[rsHandle[r]] > 0

\* The same of every state.
LEMMA PlacedLemma == StandInv => SetsPlaced
BY SetsOver DEF SetsPlaced

\* Making a result set over a handle that no living one is over keeps the
\* buffers of the others; so does a call that fails there.
LEMMA DefineNew ==
  ASSUME StandInv, BuffersDefined, NEW h \in HandleOwners, NEW r \in Sets,
         \A q \in Sets : refs[q] > 0 => rsHandle[q] # h,
         defined' = defined \/ defined' = [defined EXCEPT ![h] = r],
         \A q \in Sets : refs'[q] > 0 =>
           \/ refs[q] > 0 /\ rsHandle'[q] = rsHandle[q]
           \/ q = r /\ rsHandle'[q] = h /\ defined' = [defined EXCEPT ![h] = r]
  PROVE  BuffersDefined'
<1>1. SUFFICES ASSUME NEW q \in Sets, refs'[q] > 0 PROVE defined'[rsHandle'[q]] = q
  BY DEF BuffersDefined
<1>2. defined \in [HandleOwners -> Sets \cup {NULL}]
  BY DEF StandInv, OwnInv, TypeOK
<1>3. CASE refs[q] > 0 /\ rsHandle'[q] = rsHandle[q]
  <2>1. rsHandle[q] \in HandleOwners /\ rsHandle[q] # h /\ defined[rsHandle[q]] = q
    BY <1>3, SetsOver DEF BuffersDefined
  <2>2. QED
    BY <1>2, <1>3, <2>1
<1>4. CASE q = r /\ rsHandle'[q] = h /\ defined' = [defined EXCEPT ![h] = r]
  BY <1>2, <1>4
<1>5. QED
  BY <1>1, <1>3, <1>4

\* Every step keeps the buffers of the sets that live.
LEMMA DefinedStep ==
  ASSUME Orderly, OneSet, LateBindFaults = {}, StandInv, StandInv', BuffersDefined,
         [Next]_vars
  PROVE  BuffersDefined'
<1>0. TypeOK
  BY DEF StandInv, OwnInv
<1>1. CASE UNCHANGED <<defined, rsHandle>> /\ \A r \in Sets : refs'[r] > 0 => refs[r] > 0
  BY <1>1 DEF BuffersDefined
<1>2. ASSUME NEW s \in Stmts, NEW r \in Sets, Select(s, r) \/ SelectThrows(s, r)
      PROVE  BuffersDefined'
  <2>1. \A q \in Sets : refs[q] > 0 => rsHandle[q] # s
    <3>1. s \in InHand /\ ~\E q \in InHand \cap Sets : rsHandle[q] = s
      BY <1>2 DEF Select, SelectThrows
    <3>2. QED
      BY <3>1, SetsOver
  <2>2. \/ defined' = [defined EXCEPT ![s] = r] /\ rsHandle' = [rsHandle EXCEPT ![r] = s]
           /\ refs' = [refs EXCEPT ![r] = 1]
        \/ (defined' = defined \/ defined' = [defined EXCEPT ![s] = r])
           /\ UNCHANGED <<rsHandle, refs>>
    BY <1>2 DEF Select, SelectThrows
  <2>3. \A q \in Sets : refs'[q] > 0 =>
           \/ refs[q] > 0 /\ rsHandle'[q] = rsHandle[q]
           \/ q = r /\ rsHandle'[q] = s /\ defined' = [defined EXCEPT ![s] = r]
    BY <1>0, <2>2 DEF TypeOK
  <2>4. defined' = defined \/ defined' = [defined EXCEPT ![s] = r]
    BY <2>2
  <2>5. QED
    BY <2>1, <2>3, <2>4, DefineNew
<1>3. ASSUME NEW s \in Stmts, NEW r \in Sets, ConnectionSelect(s, r)
      PROVE  BuffersDefined'
  <2>1. \A q \in Sets : refs[q] > 0 => rsHandle[q] # s
    BY <1>3, Unborn, SetsOver DEF ConnectionSelect, StandInv
  <2>2. /\ defined' = [defined EXCEPT ![s] = r] /\ rsHandle' = [rsHandle EXCEPT ![r] = s]
        /\ refs' = [refs EXCEPT ![s] = 1, ![r] = 1]
    BY <1>3 DEF ConnectionSelect
  <2>3. \A q \in Sets : refs'[q] > 0 =>
           \/ refs[q] > 0 /\ rsHandle'[q] = rsHandle[q]
           \/ q = r /\ rsHandle'[q] = s /\ defined' = [defined EXCEPT ![s] = r]
    BY <1>0, <2>2 DEF TypeOK
  <2>4. QED
    BY <2>1, <2>2, <2>3, DefineNew
<1>4. ASSUME NEW p \in Params, NEW r \in Sets, NEW f \in BOOLEAN,
             ToResultSet(p, r, f) \/ ToResultSetThrows(p, r)
      PROVE  BuffersDefined'
  <2>1. p \in CursorParams /\ resultSet[p] = NULL
    BY <1>4 DEF ToResultSet, ToResultSetThrows, CanOpenCursor, NeedsSet
  <2>2. \A q \in Sets : refs[q] > 0 => rsHandle[q] # p
    BY <2>1, SetsOver
  <2>3. \/ defined' = [defined EXCEPT ![p] = r] /\ rsHandle' = [rsHandle EXCEPT ![r] = p]
           /\ refs' = [refs EXCEPT ![r] = 1]
        \/ (defined' = defined \/ defined' = [defined EXCEPT ![p] = r])
           /\ UNCHANGED <<rsHandle, refs>>
    BY <1>4 DEF ToResultSet, ToResultSetThrows
  <2>4. \A q \in Sets : refs'[q] > 0 =>
           \/ refs[q] > 0 /\ rsHandle'[q] = rsHandle[q]
           \/ q = r /\ rsHandle'[q] = p /\ defined' = [defined EXCEPT ![p] = r]
    BY <1>0, <2>3 DEF TypeOK
  <2>5. defined' = defined \/ defined' = [defined EXCEPT ![p] = r]
    BY <2>3
  <2>6. QED
    BY <2>1, <2>2, <2>4, <2>5, DefineNew
<1>5. ASSUME NEW x \in Objects, ReleaseObj(x) PROVE BuffersDefined'
  <2> DEFINE gone == Dying(Calls(x))
  <2>1. /\ refs' = [o \in Objects |-> IF o \in Calls(x) /\ refs[o] > 0
                                      THEN refs[o] - 1 ELSE refs[o]]
        /\ rsHandle' = [r \in Sets |-> IF r \in gone THEN NULL ELSE rsHandle[r]]
        /\ defined' = [h \in HandleOwners |-> IF h \in gone THEN NULL ELSE defined[h]]
    BY <1>0, <1>5 DEF ReleaseObj, TypeOK
  <2>2. \A o \in gone : refs[o] = 1 /\ o \in Calls(x)
    BY DEF Dying
  <2> HIDE DEF gone
  <2>3. SUFFICES ASSUME NEW r \in Sets, refs'[r] > 0 PROVE defined'[rsHandle'[r]] = r
    BY DEF BuffersDefined
  <2>4. \A o \in Objects : refs[o] \in Nat
    BY <1>0 DEF TypeOK
  <2>5. refs[r] > 0 /\ r \notin gone
    BY <2>1, <2>2, <2>3, <2>4
  <2>6. rsHandle'[r] = rsHandle[r] /\ rsHandle[r] \in HandleOwners /\ defined[rsHandle[r]] = r
    BY <2>1, <2>5, SetsOver DEF BuffersDefined
  <2>7. rsHandle'[r] \in HandleOwners /\ refs'[rsHandle'[r]] > 0
    <3>1. (StandInv => SetsPlaced)'
      BY PlacedLemma, PTL
    <3>2. QED
      BY <2>3, <3>1 DEF SetsPlaced
  <2>8. rsHandle[r] \notin gone
    BY <2>1, <2>2, <2>4, <2>6, <2>7
  <2>9. QED
    BY <2>1, <2>6, <2>8
<1>6. ASSUME NEW s \in Stmts, Prepare(s) PROVE BuffersDefined'
  BY <1>0, <1>1, <1>6 DEF Prepare, TypeOK
<1>7. ASSUME NEW s \in Stmts, NEW p \in Params, NEW n \in Names, Bind(s, p, n)
      PROVE  BuffersDefined'
  BY <1>0, <1>1, <1>7 DEF Bind, TypeOK
<1>8. ASSUME NEW o \in Objects, RetainObj(o) PROVE BuffersDefined'
  <2>1. refs[o] > 0
    BY <1>8 DEF RetainObj, Alive
  <2>2. QED
    BY <1>0, <1>1, <1>8, <2>1 DEF RetainObj, TypeOK
<1>9. QED
  BY <1>1, <1>2, <1>3, <1>4, <1>5, <1>6, <1>7, <1>8 DEF Next, vars, Transient, Execute,
     ConnectionSelectThrows, BindRefused

\* With a client that releases statements last and holds one result set of a
\* statement at a time, a fetch fills the buffers of the result set it goes
\* through (epResultSet.cpp:199, 232).
THEOREM DefinedCorrect ==
  ASSUME Orderly, OneSet, LateBindFaults = {}
  PROVE  Spec => []FetchesIntoOwnBuffers
<1>1. Init => BuffersDefined
  BY DEF Init, BuffersDefined
<1>2. StandInv /\ StandInv' /\ BuffersDefined /\ [Next]_vars => BuffersDefined'
  BY DefinedStep
<1>3. StandInv /\ BuffersDefined => FetchesIntoOwnBuffers
  <2> SUFFICES ASSUME StandInv, BuffersDefined, NEW r \in SetsInReach
               PROVE  defined[rsHandle[r]] = r
    BY DEF FetchesIntoOwnBuffers
  <2>1. r \in Sets /\ refs[r] > 0
    BY ReachedLives
  <2>2. QED
    BY <2>1 DEF BuffersDefined
<1>4. Spec => []StandInv
  BY StandInvariant
<1>5. QED
  BY <1>1, <1>2, <1>3, <1>4, PTL DEF Spec
=============================================================================
