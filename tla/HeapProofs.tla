----------------------------- MODULE HeapProofs -----------------------------
(***************************************************************************)
(* Counting references is collecting what cannot be reached: Ownership     *)
(* implements Heap, for any number of objects and any client, as long as   *)
(* Bind does not throw between its two containers ("map" is not among      *)
(* LateBindFaults).                                                        *)
(***************************************************************************)
EXTENDS OwnershipProofs

USE OwnershipAssumption DEF Objects, HandleOwners

\* A heap without objects.
LEMMA HeapInit == Init => Lifetimes!Init
<1>1. SUFFICES ASSUME Init PROVE Lifetimes!Init
  OBVIOUS
<1>2. born = {} /\ InHand = {} /\ Alive = {}
  BY <1>1 DEF Init, InHand, Alive
<1>3. \A x, o \in Objects : ~Owns(x, o)
  BY <1>1 DEF Init, Owns
<1>4. Kept = [o \in Objects |-> {}]
  BY <1>3 DEF Kept
<1>5. QED
  BY <1>2, <1>4 DEF Lifetimes!Init

\* Everything alive is in each set that has what the client holds and whatever
\* its members keep: an object that is not held has an owner, whose owner is
\* at most one more away from the client.
AllReached ==
  \A S \in SUBSET Objects :
    InHand \subseteq S /\ Lifetimes!Closed(S, Kept) => Alive \subseteq S
LEMMA AliveReached == OwnInv => AllReached
<1>1. SUFFICES ASSUME OwnInv, NEW S \in SUBSET Objects,
                      InHand \subseteq S, Lifetimes!Closed(S, Kept)
               PROVE  \A o \in Objects : refs[o] > 0 => o \in S
  BY DEF Alive, AllReached
<1>2. \A x, o \in Objects : x \in S /\ Owns(x, o) => o \in S
  BY <1>1 DEF Lifetimes!Closed, Kept
<1>3. \A o \in Objects : refs[o] > 0 => o \in S \/ \E x \in Objects : Owns(x, o) /\ refs[x] > 0
  <2>1. SUFFICES ASSUME NEW o \in Objects, refs[o] > 0, held[o] = 0
                 PROVE  \E x \in Objects : Owns(x, o) /\ refs[x] > 0
    BY <1>1 DEF InHand, OwnInv, TypeOK
  <2>2. Owners(o) # {}
    BY <1>1, <2>1 DEF OwnInv, Counted
  <2>3. QED
    BY <1>1, <2>2 DEF Owners, OwnInv
<1>4. \A r \in Sets : refs[r] > 0 /\ rsStmt[r] # NULL => r \in S
  <2>1. SUFFICES ASSUME NEW r \in Sets, refs[r] > 0, rsStmt[r] # NULL
                 PROVE  ~\E x \in Objects : Owns(x, r)
    BY <1>3
  <2>2. QED
    BY <1>1, <2>1 DEF Owns, OwnInv, TypeOK, Attached
<1>5. \A s \in Stmts : refs[s] > 0 => s \in S
  <2>1. SUFFICES ASSUME NEW s \in Stmts, NEW x \in Objects, Owns(x, s), refs[x] > 0
                 PROVE  s \in S
    BY <1>3
  <2>2. x \in Sets /\ rsStmt[x] = s
    BY <1>1, <2>1 DEF Owns, OwnInv, TypeOK
  <2>3. QED
    BY <1>2, <1>4, <2>1, <2>2
<1>6. \A p \in Params : refs[p] > 0 => p \in S
  <2>1. SUFFICES ASSUME NEW p \in Params, NEW x \in Objects, Owns(x, p), refs[x] > 0
                 PROVE  p \in S
    BY <1>3
  <2>2. x \in Stmts
    BY <1>1, <2>1 DEF Owns, OwnInv, TypeOK
  <2>3. QED
    BY <1>2, <1>5, <2>1, <2>2
<1>7. \A r \in Sets : refs[r] > 0 => r \in S
  <2>1. SUFFICES ASSUME NEW r \in Sets, NEW x \in Objects, Owns(x, r), refs[x] > 0
                 PROVE  r \in S
    BY <1>3
  <2>2. x \in Params
    BY <1>1, <2>1 DEF Owns, OwnInv, TypeOK
  <2>3. QED
    BY <1>2, <1>6, <2>1, <2>2
<1>8. QED
  BY <1>5, <1>6, <1>7

\* What is held or kept is alive.
LEMMA LiveReach ==
  OwnInv => /\ \A o \in InHand : refs[o] > 0
            /\ \A y, o \in Objects : Owns(y, o) => refs[o] > 0
BY InReachAlive

\* Objects made and destroyed within the call.
LEMMA HeapPass ==
  ASSUME OwnInv, NEW N \in SUBSET Objects, N \cap born = {}, born' = born \cup N,
         UNCHANGED <<refs, held, parameters, resultSet, rsStmt>>
  PROVE  Lifetimes!Next
<1>1. InHand' = InHand /\ Alive' = Alive
  BY DEF InHand, Alive
<1>2. \A x, o \in Objects : Owns(x, o)' <=> Owns(x, o)
  BY DEF Owns
<1>3. Kept' = Kept
  BY <1>2 DEF Kept
<1>4. Lifetimes!Pass(N)
  BY <1>1, <1>3 DEF Lifetimes!Pass
<1>5. QED
  BY <1>4 DEF Lifetimes!Next, Lifetimes!Unused

\* A new object with one reference, the client's, and the new ones it owns.
LEMMA HeapCreate ==
  ASSUME OwnInv, NEW y \in Objects \ born, NEW N \in SUBSET (Objects \ born),
         born' = born \cup {y} \cup N,
         held' = [held EXCEPT ![y] = 1],
         \A o \in Objects : refs'[o] = IF o \in {y} \cup N THEN 1 ELSE refs[o],
         \A x, o \in Objects : Owns(x, o)' <=> Owns(x, o) \/ (x = y /\ o \in N)
  PROVE  Lifetimes!Next
<1>1. InHand' = InHand \cup {y}
  BY DEF InHand, OwnInv, TypeOK
<1>2. Alive' = Alive \cup {y} \cup N
  BY DEF Alive
<1>3. \A o \in Objects : ~Owns(y, o)
  BY Unborn DEF OwnInv
<1>4. Kept' = [Kept EXCEPT ![y] = N]
  <2>1. Kept' = [x \in Objects |-> IF x = y THEN N ELSE Kept[x]]
    BY <1>3 DEF Kept
  <2>2. QED
    BY <2>1 DEF Kept
<1>5. Lifetimes!Create(y, N)
  BY <1>1, <1>2, <1>4 DEF Lifetimes!Create
<1>6. QED
  BY <1>5 DEF Lifetimes!Next, Lifetimes!Unused

\* A new object with one reference, of x.
LEMMA HeapAttach ==
  ASSUME OwnInv, NEW x \in Objects, NEW y \in Objects \ born, refs[x] > 0,
         born' = born \cup {y}, held' = held, refs' = [refs EXCEPT ![y] = 1],
         \A z, o \in Objects : Owns(z, o)' <=> Owns(z, o) \/ (z = x /\ o = y)
  PROVE  Lifetimes!Next
<1>1. InHand' = InHand
  BY DEF InHand
<1>2. Alive' = Alive \cup {y} /\ x \in Alive
  BY DEF Alive, OwnInv, TypeOK
<1>3. Kept' = [Kept EXCEPT ![x] = @ \cup {y}]
  <2>1. Kept' = [z \in Objects |-> IF z = x THEN Kept[z] \cup {y} ELSE Kept[z]]
    BY DEF Kept
  <2>2. QED
    BY <2>1 DEF Kept
<1>4. Lifetimes!Attach(x, y)
  BY <1>1, <1>2, <1>3 DEF Lifetimes!Attach
<1>5. QED
  BY <1>4 DEF Lifetimes!Next, Lifetimes!Unused

-----------------------------------------------------------------------------
(* Releasing.                                                              *)

\* What a release changes: those that die, no others, lose their life and
\* what they kept, and the client has one reference less.
LEMMA ReleaseEffect ==
  ASSUME OwnInv, NEW x \in Objects, ReleaseObj(x)
  PROVE  \E gone \in SUBSET Objects :
           /\ held[x] > 1 => gone = {}
           /\ held' = [held EXCEPT ![x] = @ - 1] /\ held[x] > 0
           /\ born' = born
           /\ Alive' = Alive \ gone
           /\ Kept' = [y \in Objects |-> IF y \in gone THEN {} ELSE Kept[y]]
<1> DEFINE gone == Dying(Calls(x))
<1>1. /\ refs' = [o \in Objects |-> IF o \in Calls(x) /\ refs[o] > 0
                                    THEN refs[o] - 1 ELSE refs[o]]
      /\ held' = [held EXCEPT ![x] = @ - 1]
      /\ x \in InHand
      /\ born' = born
  BY DEF ReleaseObj
<1>2. /\ parameters' = [s \in Stmts |-> IF s \in gone THEN {} ELSE parameters[s]]
      /\ resultSet' = [p \in Params |-> IF p \in gone THEN NULL ELSE resultSet[p]]
      /\ rsStmt' = [r \in Sets |-> IF r \in gone THEN NULL ELSE rsStmt[r]]
  BY DEF ReleaseObj, OwnInv, TypeOK
<1>3. refs[x] > 0 /\ held[x] > 0
  BY <1>1, InReachAlive DEF InHand
<1>4. Calls(x) \subseteq Objects /\ (Calls(x) # {x} => refs[x] = 1)
  BY <1>3, Cascade
<1>5. gone \in SUBSET Objects /\ \A o \in Objects : o \in gone <=> o \in Calls(x) /\ refs[o] = 1
  BY <1>4 DEF Dying
<1> HIDE DEF gone
<1>6. \A o \in Objects : refs[o] \in Nat /\ held[o] \in Nat
  BY DEF OwnInv, TypeOK
<1>7. held[x] > 1 => gone = {}
  <2>1. held[x] > 1 => refs[x] > 1
    BY <1>6 DEF OwnInv, Counted
  <2>2. QED
    BY <1>4, <1>5, <1>6, <2>1
<1>8. Alive' = Alive \ gone
  <2>1. \A o \in Objects : refs'[o] > 0 <=> refs[o] > 0 /\ o \notin gone
    BY <1>1, <1>5, <1>6
  <2>2. QED
    BY <2>1 DEF Alive
<1>9. \A y, o \in Objects : Owns(y, o)' <=> (Owns(y, o) /\ y \notin gone)
  BY <1>2 DEF Owns, OwnInv, TypeOK
<1>10. Kept' = [y \in Objects |-> IF y \in gone THEN {} ELSE Kept[y]]
  BY <1>9 DEF Kept
<1>11. QED
  BY <1>1, <1>3, <1>5, <1>7, <1>8, <1>10

\* What lives after the last reference to an object was given up is what can
\* be reached then.
LEMMA HeapRelease ==
  ASSUME OwnInv, OwnInv', NEW x \in Objects, ReleaseObj(x)
  PROVE  Lifetimes!Next \/ UNCHANGED Lifetimes!vars
<1>1. PICK gone \in SUBSET Objects :
        /\ held[x] > 1 => gone = {}
        /\ held' = [held EXCEPT ![x] = @ - 1] /\ held[x] > 0
        /\ born' = born
        /\ Alive' = Alive \ gone
        /\ Kept' = [y \in Objects |-> IF y \in gone THEN {} ELSE Kept[y]]
  BY ReleaseEffect
<1>2. InHand' = IF held[x] > 1 THEN InHand ELSE InHand \ {x}
  BY <1>1 DEF InHand, OwnInv, TypeOK
<1>3. CASE held[x] > 1
  <2>1. Kept' = Kept
    BY <1>1, <1>3 DEF Kept
  <2>2. QED
    BY <1>1, <1>2, <1>3, <2>1 DEF Lifetimes!vars
<1>4. CASE ~(held[x] > 1)
  <2>1. x \in InHand /\ InHand' = InHand \ {x}
    BY <1>1, <1>2, <1>4 DEF InHand
  <2>2. \A o \in Alive' : Kept'[o] = Kept[o]
    BY <1>1 DEF Alive
  <2>3. Alive' \in SUBSET Objects
    BY DEF Alive
  <2>4. \A S \in SUBSET Objects :
          InHand' \subseteq S /\ Lifetimes!Closed(S, Kept) => Alive' \subseteq S
    <3>1. SUFFICES ASSUME NEW S \in SUBSET Objects,
                          InHand' \subseteq S, Lifetimes!Closed(S, Kept)
                   PROVE  Alive' \subseteq S
      OBVIOUS
    <3>2. Lifetimes!Closed(S, Kept')
      BY <1>1, <3>1 DEF Lifetimes!Closed, Kept
    <3>3. (OwnInv => AllReached)'
      BY AliveReached, PTL
    <3>4. QED
      BY <3>1, <3>2, <3>3 DEF AllReached, Lifetimes!Closed
  <2>5. InHand' \subseteq Alive' /\ Lifetimes!Closed(Alive', Kept)
    <3>1. (OwnInv => /\ \A o \in InHand : refs[o] > 0
                     /\ \A y, o \in Objects : Owns(y, o) => refs[o] > 0)'
      BY LiveReach, PTL
    <3>2. InHand' \subseteq Alive'
      BY <3>1 DEF InHand, Alive
    <3>3. \A y \in Alive' : Kept'[y] \subseteq Alive'
      BY <2>3, <3>1 DEF Kept, Alive
    <3>4. QED
      BY <2>2, <3>2, <3>3 DEF Lifetimes!Closed
  <2>6. Alive' = Lifetimes!Reachable(InHand', Kept)
    BY <2>3, <2>4, <2>5 DEF Lifetimes!Reachable
  <2>7. Kept' = [y \in Objects |-> IF y \in Alive' THEN Kept[y] ELSE {}]
    <3>1. \A y \in Objects : y \notin Alive' => Kept'[y] = {}
      BY DEF OwnInv, Kept, Alive
    <3>2. QED
      BY <1>1, <2>2, <3>1
  <2>8. Lifetimes!Drop(x)
    BY <1>1, <2>1, <2>6, <2>7 DEF Lifetimes!Drop
  <2>9. QED
    BY <2>8 DEF Lifetimes!Next
<1>5. QED
  BY <1>3, <1>4

-----------------------------------------------------------------------------
(* The refinement.                                                         *)

\* The client takes a reference to what it can get at.
LEMMA HeapRetain ==
  ASSUME OwnInv, NEW x \in Objects, RetainObj(x)
  PROVE  Lifetimes!Next
<1>1. /\ x \in Alive
      /\ refs' = [refs EXCEPT ![x] = @ + 1] /\ held' = [held EXCEPT ![x] = @ + 1]
      /\ UNCHANGED <<born, parameters, resultSet, rsStmt>>
  BY DEF RetainObj
<1>2. InHand' = InHand \cup {x}
  BY <1>1 DEF InHand, OwnInv, TypeOK
<1>3. Alive' = Alive
  BY <1>1 DEF Alive, OwnInv, TypeOK
<1>4. \A y, o \in Objects : Owns(y, o)' <=> Owns(y, o)
  BY <1>1 DEF Owns
<1>5. Kept' = Kept
  BY <1>4 DEF Kept
<1>6. QED
  BY <1>1, <1>2, <1>3, <1>5 DEF Lifetimes!Next, Lifetimes!Take

\* Every step of the library is one of the heap, or none.
LEMMA HeapStep ==
  ASSUME "map" \notin LateBindFaults, OwnInv, OwnInv', [Next]_vars
  PROVE  Lifetimes!Next \/ UNCHANGED Lifetimes!vars
<1>0. TypeOK
  BY DEF OwnInv
<1>1. ASSUME UNCHANGED <<born, refs, held, parameters, resultSet, rsStmt>>
      PROVE  UNCHANGED Lifetimes!vars
  <2>1. \A y, o \in Objects : Owns(y, o)' <=> Owns(y, o)
    BY <1>1 DEF Owns
  <2>2. QED
    BY <1>1, <2>1 DEF Lifetimes!vars, InHand, Alive, Kept
<1>2. ASSUME NEW s \in Stmts, Prepare(s) PROVE Lifetimes!Next
  <2> DEFINE N == {}
  <2>1. \A y, o \in Objects : Owns(y, o)' <=> Owns(y, o) \/ (y = s /\ o \in N)
    BY <1>2 DEF Prepare, Owns
  <2>2. \A o \in Objects : refs'[o] = IF o \in {s} \cup N THEN 1 ELSE refs[o]
    BY <1>0, <1>2 DEF Prepare, TypeOK
  <2>3. /\ s \in Objects \ born /\ N \in SUBSET (Objects \ born)
        /\ born' = born \cup {s} \cup N
        /\ held' = [held EXCEPT ![s] = 1]
    BY <1>2 DEF Prepare
  <2> HIDE DEF N
  <2>4. QED
    BY <2>1, <2>2, <2>3, HeapCreate
<1>3. ASSUME NEW s \in Stmts, Transient(s) PROVE Lifetimes!Next
  BY <1>3, HeapPass DEF Transient
<1>4. ASSUME NEW s \in Stmts, Execute(s) PROVE UNCHANGED Lifetimes!vars
  BY <1>1, <1>4 DEF Execute
<1>5. ASSUME NEW s \in Stmts, NEW r \in Sets, Select(s, r) PROVE Lifetimes!Next
  <2> DEFINE N == {}
  <2>1. \A y, o \in Objects : Owns(y, o)' <=> Owns(y, o) \/ (y = r /\ o \in N)
    BY <1>5 DEF Select, Owns
  <2>2. \A o \in Objects : refs'[o] = IF o \in {r} \cup N THEN 1 ELSE refs[o]
    BY <1>0, <1>5 DEF Select, TypeOK
  <2>3. /\ r \in Objects \ born /\ N \in SUBSET (Objects \ born)
        /\ born' = born \cup {r} \cup N
        /\ held' = [held EXCEPT ![r] = 1]
    BY <1>5 DEF Select
  <2> HIDE DEF N
  <2>4. QED
    BY <2>1, <2>2, <2>3, HeapCreate
<1>6. ASSUME NEW s \in Stmts, NEW r \in Sets, SelectThrows(s, r) PROVE Lifetimes!Next
  <2>1. /\ r \notin born /\ born' = born \cup {r}
        /\ UNCHANGED <<refs, held, parameters, resultSet, rsStmt>>
    BY <1>6 DEF SelectThrows
  <2>2. QED
    BY <2>1, HeapPass
<1>7. ASSUME NEW s \in Stmts, NEW r \in Sets, ConnectionSelect(s, r) PROVE Lifetimes!Next
  <2> DEFINE N == {s}
  <2>1. rsStmt[r] = NULL /\ s \notin born /\ r \notin born
    BY <1>7, Unborn DEF ConnectionSelect
  <2>2. \A y, o \in Objects : Owns(y, o)' <=> Owns(y, o) \/ (y = r /\ o \in N)
    BY <1>0, <1>7, <2>1 DEF ConnectionSelect, Owns, TypeOK
  <2>3. \A o \in Objects : refs'[o] = IF o \in {r} \cup N THEN 1 ELSE refs[o]
    BY <1>0, <1>7 DEF ConnectionSelect, TypeOK
  <2>4. /\ r \in Objects \ born /\ N \in SUBSET (Objects \ born)
        /\ born' = born \cup {r} \cup N
        /\ held' = [held EXCEPT ![r] = 1]
    BY <1>7, <2>1 DEF ConnectionSelect
  <2> HIDE DEF N
  <2>5. QED
    BY <2>2, <2>3, <2>4, HeapCreate
<1>8. ASSUME NEW s \in Stmts, NEW r \in Sets, ConnectionSelectThrows(s, r)
      PROVE  Lifetimes!Next
  BY <1>8, HeapPass DEF ConnectionSelectThrows
<1>9. ASSUME NEW s \in Stmts, NEW p \in Params, BindRefused(s, p) PROVE Lifetimes!Next
  BY <1>9, HeapPass DEF BindRefused, Bindable
<1>10. ASSUME NEW s \in Stmts, NEW p \in Params, NEW n \in Names, Bind(s, p, n)
       PROVE  Lifetimes!Next
  <2>1. refs[s] > 0 /\ p \notin born
    BY <1>10, InReachAlive DEF Bind, Bindable
  <2>2. \A y, o \in Objects : Owns(y, o)' <=> Owns(y, o) \/ (y = s /\ o = p)
    BY <1>0, <1>10 DEF Bind, Owns, TypeOK
  <2>3. QED
    BY <1>10, <2>1, <2>2, HeapAttach DEF Bind
<1>11. ASSUME NEW s \in Stmts, NEW p \in Params, NEW n \in Names,
              NEW fault \in LateBindFaults, BindThrows(s, p, n, fault)
       PROVE  Lifetimes!Next
  <2>1. parameters' = parameters
    BY <1>0, <1>11 DEF BindThrows, TypeOK
  <2>2. QED
    BY <1>11, <2>1, HeapPass DEF BindThrows, Bindable
<1>12. ASSUME NEW p \in Params, NEW r \in Sets, NEW f \in BOOLEAN, ToResultSet(p, r, f)
       PROVE  Lifetimes!Next
  <2>1. refs[p] > 0 /\ r \notin born /\ resultSet[p] = NULL
    BY <1>12, InReachAlive DEF ToResultSet, CanOpenCursor, NeedsSet
  <2>2. \A y, o \in Objects : Owns(y, o)' <=> Owns(y, o) \/ (y = p /\ o = r)
    BY <1>0, <1>12, <2>1 DEF ToResultSet, Owns, TypeOK
  <2>3. QED
    BY <1>12, <2>1, <2>2, HeapAttach DEF ToResultSet
<1>13. ASSUME NEW p \in Params, NEW r \in Sets, ToResultSetThrows(p, r)
       PROVE  Lifetimes!Next
  <2>1. /\ r \notin born /\ born' = born \cup {r}
        /\ UNCHANGED <<refs, held, parameters, resultSet, rsStmt>>
    BY <1>13 DEF ToResultSetThrows, CanOpenCursor
  <2>2. QED
    BY <2>1, HeapPass
<1>14. CASE UNCHANGED vars
  BY <1>1, <1>14 DEF vars
<1>15. QED
  BY <1>2, <1>3, <1>4, <1>5, <1>6, <1>7, <1>8, <1>9, <1>10, <1>11, <1>12, <1>13,
     <1>14, HeapRetain, HeapRelease DEF Next

\* Counting references is collecting what cannot be reached: for any number of
\* objects, any client and whatever throws, each call destroys exactly the
\* objects it makes unreachable (epSmartObject.h:123-138; epStatement.cpp:
\* 72-83, epParameter.cpp:78-97, epResultSet.cpp:75-87).
THEOREM OwnershipRefines ==
  ASSUME "map" \notin LateBindFaults
  PROVE  Spec => ImplementsHeap
<1>1. OwnInv /\ OwnInv' /\ [Next]_vars => [Lifetimes!Next]_(Lifetimes!vars)
  BY HeapStep
<1>2. QED
  BY <1>1, HeapInit, OwnInvariant, PTL DEF Spec, ImplementsHeap, Lifetimes!Spec
=============================================================================
