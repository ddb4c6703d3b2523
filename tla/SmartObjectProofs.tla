------------------------- MODULE SmartObjectProofs -------------------------
(***************************************************************************)
(* Proofs about SmartObject for any set of threads and any finite set of   *)
(* references.                                                             *)
(***************************************************************************)
EXTENDS SmartObject, FiniteSetTheorems, TLAPS

Ending == {"dying", "destroy"}
Inside == {"load", "store", "test", "unlock"}

\* Where in a call a thread can be.
PlacesOf ==
  \A t \in Threads :
    \/ call[t] = "none" /\ at[t] = "out"
    \/ call[t] = "retain" /\ at[t] \in {"lock", "load", "store", "unlock"}
    \/ call[t] = "release" /\ at[t] \in {"lock", "load", "store", "test", "unlock"}
    \/ call[t] = "count" /\ at[t] \in {"lock", "load", "unlock"}
    \/ call[t] = "dying" /\ at[t] = "unlock"
    \/ call[t] = "destroy" /\ at[t] \in {"lock", "load", "store", "unlock", "free"}

\* The lock is entered once at a time and keeps what was read true until it is
\* written.
LockHeld == /\ \A t \in Threads : lock = t <=> at[t] \in Inside
            /\ depth = IF lock = Nobody THEN 0 ELSE 1
LoadedFresh ==
  \A t \in Threads : at[t] = "store" \/ (call[t] = "count" /\ at[t] = "unlock")
                       => loaded[t] = refCount

\* A call that has not given up its reference stands on it.
Before == {"lock", "load", "store"}
References ==
  \A t \in Threads :
    /\ call[t] = "retain" => /\ ref[t] \in Refs /\ \E x \in Refs : holder[x] = t
                             /\ at[t] \in Before => holder[ref[t]] = Nobody
                             /\ \A u \in Threads : call[u] = "retain" /\ u # t => ref[u] # ref[t]
    /\ call[t] = "release" /\ at[t] \in Before => ref[t] \in Refs /\ holder[ref[t]] = t
    /\ call[t] = "count" => ref[t] \in Refs /\ holder[ref[t]] = t

\* Who deletes the object is alone with it.
Alone ==
  \A t \in Threads :
    call[t] \in Ending => /\ Held = {} /\ allocated
                          /\ \A u \in Threads : u # t => call[u] = "none"
Gone == ~allocated => Held = {} /\ \A t \in Threads : call[t] = "none"

\* m_refCount is the number of references, but for the increment of line 129.
Counted ==
  /\ (\A t \in Threads : call[t] \notin Ending) => refCount = Cardinality(Held)
  /\ \A t \in Threads : call[t] \in Ending =>
       refCount = IF call[t] = "dying" \/ at[t] \in Before THEN 1 ELSE 0

ObjectInv == /\ TypeOK /\ PlacesOf /\ LockHeld /\ LoadedFresh
             /\ References /\ Alone /\ Gone /\ Counted

\* The references held are finitely many.
LEMMA HeldFinite == /\ IsFiniteSet(Held)
                    /\ Cardinality(Held) \in Nat
                    /\ Cardinality(Held) = 0 <=> Held = {}
<1>1. Held \subseteq Refs
  BY DEF Held
<1>2. IsFiniteSet(Held)
  BY <1>1, SmartObjectAssumption, FS_Subset
<1> QED
  BY <1>2, FS_CardinalityType, FS_EmptySet

\* The constructing thread holds the one reference (epSmartObject.h:143-147).
LEMMA ObjectInit == Init => ObjectInv
<1> SUFFICES ASSUME Init
             PROVE  ObjectInv
  OBVIOUS
<1>1. PICK t \in Threads, r \in Refs :
        holder = [x \in Refs |-> IF x = r THEN t ELSE Nobody]
  BY DEF Init
<1>2. Held = {r}
  BY <1>1, SmartObjectAssumption DEF Held
<1>3. Cardinality(Held) = 1
  BY <1>2, FS_Singleton
<1>4. \A u \in Threads : call[u] = "none" /\ at[u] = "out"
  BY DEF Init
<1>5. TypeOK
  BY <1>1, SmartObjectAssumption DEF Init, TypeOK, Calls, Places
<1>6. PlacesOf /\ LoadedFresh /\ References /\ Alone
  BY <1>4 DEF PlacesOf, LoadedFresh, References, Alone, Ending
<1>7. LockHeld
  BY <1>4, SmartObjectAssumption DEF Init, LockHeld, Inside
<1>8. Gone /\ Counted
  BY <1>3, <1>4 DEF Init, Gone, Counted, Ending
<1> QED
  BY <1>5, <1>6, <1>7, <1>8 DEF ObjectInv

-----------------------------------------------------------------------------
(* The client's calls.                                                     *)

\* While a thread holds a reference the object is there and nobody is about
\* to delete it.
LEMMA HeldMeansSafe ==
  ASSUME ObjectInv, NEW t \in Threads, NEW r \in Refs, holder[r] = t
  PROVE  allocated /\ \A u \in Threads : call[u] \notin Ending
<1>1. r \in Held
  BY SmartObjectAssumption DEF Held
<1> QED
  BY <1>1 DEF ObjectInv, Alone, Gone

\* A call that begins finds the object as it was.
LEMMA CallStep ==
  ASSUME ObjectInv, NEW t \in Threads, NEW r \in Refs,
         RetainObj(t, r) \/ ReleaseObj(t, r) \/ GetReferenceCount(t, r)
  PROVE  ObjectInv'
<1>1. PICK name \in {"retain", "release", "count"} :
        /\ Calling(t, name, r)
        /\ name = "retain" => /\ \E x \in Refs : holder[x] = t
                              /\ holder[r] = Nobody
                              /\ \A u \in Threads : call[u] = "retain" => ref[u] # r
        /\ name # "retain" => holder[r] = t
  BY DEF RetainObj, ReleaseObj, GetReferenceCount
<1>2. allocated /\ \A u \in Threads : call[u] \notin Ending
  BY <1>1, HeldMeansSafe
<1>3. /\ call' = [call EXCEPT ![t] = name] /\ at' = [at EXCEPT ![t] = "lock"]
      /\ ref' = [ref EXCEPT ![t] = r] /\ call[t] = "none"
      /\ UNCHANGED <<refCount, lock, depth, allocated, holder, loaded>>
  BY <1>1 DEF Calling
<1>4. TypeOK'
  BY <1>3 DEF ObjectInv, TypeOK, Calls, Places
<1>5. /\ call'[t] = name /\ at'[t] = "lock" /\ ref'[t] = r
      /\ \A u \in Threads \ {t} : call'[u] = call[u] /\ at'[u] = at[u] /\ ref'[u] = ref[u]
  BY <1>3 DEF ObjectInv, TypeOK
<1>6. PlacesOf'
  BY <1>5 DEF ObjectInv, PlacesOf
<1>7. at[t] \notin Inside
  BY <1>3 DEF ObjectInv, PlacesOf, Inside
<1>8. LockHeld' /\ LoadedFresh'
  BY <1>3, <1>5, <1>7 DEF ObjectInv, LockHeld, LoadedFresh, Inside
<1>9. References'
  BY <1>1, <1>3, <1>5 DEF ObjectInv, References, Before
<1>10. \A u \in Threads : call'[u] \notin Ending
  BY <1>2, <1>5 DEF Ending
<1>11. Held' = Held
  BY <1>3 DEF Held
<1>12. Alone' /\ Gone' /\ Counted'
  BY <1>2, <1>3, <1>10, <1>11 DEF ObjectInv, Alone, Gone, Counted
<1> QED
  BY <1>4, <1>6, <1>8, <1>9, <1>12 DEF ObjectInv

\* A reference that changes hands is still held.
LEMMA HandOverStep ==
  ASSUME ObjectInv, NEW t \in Threads, NEW u \in Threads, NEW r \in Refs, HandOver(t, u, r)
  PROVE  ObjectInv'
<1>1. /\ holder[r] = t /\ call[t] = "none" /\ holder' = [holder EXCEPT ![r] = u]
      /\ UNCHANGED <<refCount, lock, depth, allocated, call, at, loaded, ref>>
  BY DEF HandOver
<1>2. /\ holder'[r] = u /\ \A x \in Refs \ {r} : holder'[x] = holder[x]
      /\ t # Nobody /\ u # Nobody
  BY <1>1, SmartObjectAssumption DEF ObjectInv, TypeOK
<1>3. Held' = Held
  BY <1>1, <1>2 DEF Held
<1>4. TypeOK'
  BY <1>1 DEF ObjectInv, TypeOK
<1>5. References'
  BY <1>1, <1>2 DEF ObjectInv, References
<1>6. PlacesOf' /\ LockHeld' /\ LoadedFresh'
  BY <1>1 DEF ObjectInv, PlacesOf, LockHeld, LoadedFresh
<1>7. Alone' /\ Gone' /\ Counted'
  BY <1>1, <1>3 DEF ObjectInv, Alone, Gone, Counted
<1> QED
  BY <1>4, <1>5, <1>6, <1>7 DEF ObjectInv

-----------------------------------------------------------------------------
(* The steps of a call.                                                    *)

\* The lock lets one thread in.
LEMMA LockStep ==
  ASSUME ObjectInv, NEW t \in Threads, Lock(t)
  PROVE  ObjectInv'
<1>0. at[t] = "lock" /\ lock \in {Nobody, t}
  BY DEF Lock
<1>1. /\ at[t] = "lock" /\ lock = Nobody /\ lock' = t /\ depth' = 1
      /\ at' = [at EXCEPT ![t] = "load"]
      /\ UNCHANGED <<refCount, allocated, holder, call, loaded, ref>>
  <2>1. lock = Nobody
    BY <1>0 DEF ObjectInv, LockHeld, Inside
  <2>2. depth = 0
    BY <2>1 DEF ObjectInv, LockHeld
  <2> QED
    BY <1>0, <2>1, <2>2 DEF Lock
<1>2. at'[t] = "load" /\ \A u \in Threads \ {t} : at'[u] = at[u]
  BY <1>1 DEF ObjectInv, TypeOK
<1>3. TypeOK'
  BY <1>1 DEF ObjectInv, TypeOK, Places
<1>4. Held' = Held
  BY <1>1 DEF Held
<1>5. PlacesOf'
  BY <1>1, <1>2 DEF ObjectInv, PlacesOf
<1>6. LockHeld' /\ LoadedFresh'
  BY <1>1, <1>2, SmartObjectAssumption DEF ObjectInv, LockHeld, LoadedFresh, Inside
<1>7. References'
  BY <1>1, <1>2 DEF ObjectInv, References, Before
<1>8. Alone' /\ Gone'
  BY <1>1, <1>4 DEF ObjectInv, Alone, Gone
<1>9. Counted'
  BY <1>1, <1>2, <1>4 DEF ObjectInv, Counted, Before
<1> QED
  BY <1>3, <1>5, <1>6, <1>7, <1>8, <1>9 DEF ObjectInv

\* What is read under the lock is current.
LEMMA LoadStep ==
  ASSUME ObjectInv, NEW t \in Threads, Load(t)
  PROVE  ObjectInv'
<1>1. /\ at[t] = "load" /\ loaded' = [loaded EXCEPT ![t] = refCount]
      /\ at' = [at EXCEPT ![t] = IF call[t] = "count" THEN "unlock" ELSE "store"]
      /\ UNCHANGED <<refCount, lock, depth, allocated, holder, call, ref>>
  BY DEF Load
<1>2. /\ at'[t] = (IF call[t] = "count" THEN "unlock" ELSE "store")
      /\ loaded'[t] = refCount
      /\ \A u \in Threads \ {t} : at'[u] = at[u] /\ loaded'[u] = loaded[u]
  BY <1>1 DEF ObjectInv, TypeOK
<1>3. TypeOK'
  BY <1>1 DEF ObjectInv, TypeOK, Places
<1>4. Held' = Held
  BY <1>1 DEF Held
<1>5. PlacesOf'
  BY <1>1, <1>2 DEF ObjectInv, PlacesOf
<1>6. LockHeld' /\ LoadedFresh'
  BY <1>1, <1>2 DEF ObjectInv, LockHeld, LoadedFresh, Inside
<1>7. References'
  BY <1>1, <1>2 DEF ObjectInv, References, Before
<1>8. Alone' /\ Gone'
  BY <1>1, <1>4 DEF ObjectInv, Alone, Gone
<1>9. Counted'
  <2>1. call[t] # "dying" /\ (call[t] = "destroy" => at'[t] \in Before)
    BY <1>1, <1>2 DEF ObjectInv, PlacesOf, Before
  <2>2. \A u \in Threads : call[u] \in Ending =>
          (call'[u] = "dying" \/ at'[u] \in Before <=> call[u] = "dying" \/ at[u] \in Before)
    BY <1>1, <1>2, <2>1 DEF Before, Ending
  <2>3. call' = call /\ refCount' = refCount
    BY <1>1
  <2> QED
    BY <1>4, <2>2, <2>3 DEF ObjectInv, Counted
<1> QED
  BY <1>3, <1>5, <1>6, <1>7, <1>8, <1>9 DEF ObjectInv

\* What every Store changes, whatever the call.
LEMMA StorePlaces ==
  ASSUME ObjectInv, NEW t \in Threads, Store(t)
  PROVE  /\ PlacesOf' /\ LockHeld' /\ LoadedFresh'
         /\ call[t] \in {"retain", "release", "destroy"}
         /\ loaded[t] = refCount
         /\ at'[t] = (IF call[t] = "release" THEN "test" ELSE "unlock")
         /\ \A u \in Threads \ {t} : at'[u] = at[u] /\ at[u] \notin Inside
         /\ at' \in [Threads -> Places]
<1>1. /\ at[t] = "store"
      /\ at' = [at EXCEPT ![t] = IF call[t] = "release" THEN "test" ELSE "unlock"]
      /\ UNCHANGED <<lock, depth, allocated, call, loaded, ref>>
  BY DEF Store
<1>2. /\ at'[t] = (IF call[t] = "release" THEN "test" ELSE "unlock")
      /\ \A u \in Threads \ {t} : at'[u] = at[u]
      /\ at' \in [Threads -> Places]
  BY <1>1 DEF ObjectInv, TypeOK, Places
<1>3. call[t] \in {"retain", "release", "destroy"}
  BY <1>1 DEF ObjectInv, PlacesOf
<1>4. PlacesOf'
  BY <1>1, <1>2 DEF ObjectInv, PlacesOf
<1>5. lock = t
  BY <1>1 DEF ObjectInv, LockHeld, Inside
<1>6. \A u \in Threads \ {t} : at[u] \notin Inside
  BY <1>5 DEF ObjectInv, LockHeld
<1>7. LockHeld'
  BY <1>1, <1>2, <1>5 DEF ObjectInv, LockHeld, Inside
<1>8. LoadedFresh'
  BY <1>1, <1>2, <1>3, <1>6 DEF LoadedFresh, Inside
<1> QED
  BY <1>1, <1>2, <1>3, <1>4, <1>6, <1>7, <1>8 DEF ObjectInv, LoadedFresh

\* RetainObj adds one to the count and one to the references.
LEMMA StoreRetain ==
  ASSUME ObjectInv, NEW t \in Threads, Store(t), call[t] = "retain"
  PROVE  ObjectInv'
<1>1. /\ at[t] = "store" /\ refCount' = loaded[t] + 1
      /\ holder' = [holder EXCEPT ![ref[t]] = t]
      /\ UNCHANGED <<lock, depth, allocated, call, loaded, ref>>
  BY DEF Store, Change, HolderAfter
<1>2. PICK x \in Refs : holder[x] = t
  BY DEF ObjectInv, References
<1>3. allocated /\ \A u \in Threads : call[u] \notin Ending
  BY <1>2, HeldMeansSafe
<1>4. /\ ref[t] \in Refs /\ holder[ref[t]] = Nobody
      /\ \A u \in Threads : call[u] = "retain" /\ u # t => ref[u] # ref[t]
  BY <1>1 DEF ObjectInv, References, Before
<1>5. /\ holder'[ref[t]] = t /\ \A y \in Refs \ {ref[t]} : holder'[y] = holder[y]
      /\ holder' \in [Refs -> Threads \cup {Nobody}]
  BY <1>1, <1>4 DEF ObjectInv, TypeOK
<1>6. Held' = Held \cup {ref[t]} /\ ref[t] \notin Held
  BY <1>4, <1>5, SmartObjectAssumption DEF Held
<1>7. Cardinality(Held') = Cardinality(Held) + 1
  BY <1>6, HeldFinite, FS_AddElement
<1>8. refCount = Cardinality(Held) /\ loaded[t] = refCount
  BY <1>3, StorePlaces DEF ObjectInv, Counted
<1>9. refCount' = Cardinality(Held')
  BY <1>1, <1>7, <1>8
<1>10. TypeOK'
  <2>1. refCount' \in Nat
    BY <1>1, <1>8, HeldFinite
  <2> QED
    BY <1>1, <1>5, <2>1, StorePlaces DEF ObjectInv, TypeOK
<1>11. References'
  <2>1. ASSUME NEW u \in Threads, call[u] = "retain", u # t
        PROVE  /\ ref[u] \in Refs /\ \E y \in Refs : holder'[y] = u
               /\ at'[u] \in Before => holder'[ref[u]] = Nobody
               /\ \A w \in Threads : call[w] = "retain" /\ w # u => ref[w] # ref[u]
    <3>1. /\ ref[u] \in Refs
          /\ at[u] \in Before => holder[ref[u]] = Nobody
          /\ \A w \in Threads : call[w] = "retain" /\ w # u => ref[w] # ref[u]
      BY <2>1 DEF ObjectInv, References
    <3>2. PICK y \in Refs : holder[y] = u
      BY <2>1 DEF ObjectInv, References
    <3>3. y # ref[t]
      BY <1>4, <3>2, SmartObjectAssumption
    <3>4. at'[u] = at[u]
      BY <2>1, StorePlaces
    <3> QED
      BY <1>4, <1>5, <2>1, <3>1, <3>2, <3>3, <3>4
  <2>2. ASSUME NEW u \in Threads, call[u] \in {"release", "count"}
        PROVE  /\ call[u] = "release" /\ at'[u] \in Before => ref[u] \in Refs /\ holder'[ref[u]] = u
               /\ call[u] = "count" => ref[u] \in Refs /\ holder'[ref[u]] = u
    <3>1. u # t /\ at'[u] = at[u]
      BY <2>2, StorePlaces
    <3>2. /\ call[u] = "release" /\ at[u] \in Before => ref[u] \in Refs /\ holder[ref[u]] = u
          /\ call[u] = "count" => ref[u] \in Refs /\ holder[ref[u]] = u
      BY DEF ObjectInv, References
    <3> QED
      BY <1>4, <1>5, <3>1, <3>2, SmartObjectAssumption
  <2>3. /\ at'[t] = "unlock" /\ ref[t] \in Refs /\ \E y \in Refs : holder'[y] = t
        /\ at'[t] \notin Before
    BY <1>4, <1>5, StorePlaces DEF Before
  <2> QED
    BY <1>1, <1>4, <2>1, <2>2, <2>3 DEF References
<1>12. Alone' /\ Gone' /\ Counted'
  BY <1>1, <1>3, <1>9 DEF Alone, Gone, Counted
<1> QED
  BY <1>10, <1>11, <1>12, StorePlaces DEF ObjectInv

\* ReleaseObj takes one from both.
LEMMA StoreRelease ==
  ASSUME ObjectInv, NEW t \in Threads, Store(t), call[t] = "release"
  PROVE  ObjectInv'
<1>1. /\ at[t] = "store" /\ refCount' = loaded[t] + (-1)
      /\ holder' = [holder EXCEPT ![ref[t]] = Nobody]
      /\ UNCHANGED <<lock, depth, allocated, call, loaded, ref>>
  BY DEF Store, Change, HolderAfter
<1>2. ref[t] \in Refs /\ holder[ref[t]] = t
  BY <1>1 DEF ObjectInv, References, Before
<1>3. allocated /\ \A u \in Threads : call[u] \notin Ending
  BY <1>2, HeldMeansSafe
<1>5. /\ holder'[ref[t]] = Nobody /\ \A y \in Refs \ {ref[t]} : holder'[y] = holder[y]
      /\ holder' \in [Refs -> Threads \cup {Nobody}]
  BY <1>1, <1>2 DEF ObjectInv, TypeOK
<1>6. Held' = Held \ {ref[t]} /\ ref[t] \in Held
  BY <1>2, <1>5, SmartObjectAssumption DEF Held
<1>7. Cardinality(Held') = Cardinality(Held) - 1 /\ Cardinality(Held) # 0
  BY <1>6, HeldFinite, FS_RemoveElement
<1>8. refCount = Cardinality(Held) /\ loaded[t] = refCount
  BY <1>3, StorePlaces DEF ObjectInv, Counted
<1>9. refCount' = Cardinality(Held') /\ refCount' \in Nat
  BY <1>1, <1>7, <1>8, HeldFinite
<1>10. TypeOK'
  BY <1>1, <1>5, <1>9, StorePlaces DEF ObjectInv, TypeOK
<1>11. References'
  <2>1. ASSUME NEW u \in Threads, u # t
        PROVE  /\ call[u] = "retain" =>
                    /\ ref[u] \in Refs /\ \E y \in Refs : holder'[y] = u
                    /\ at'[u] \in Before => holder'[ref[u]] = Nobody
                    /\ \A w \in Threads : call[w] = "retain" /\ w # u => ref[w] # ref[u]
               /\ call[u] = "release" /\ at'[u] \in Before => ref[u] \in Refs /\ holder'[ref[u]] = u
               /\ call[u] = "count" => ref[u] \in Refs /\ holder'[ref[u]] = u
    <3>1. at'[u] = at[u]
      BY <2>1, StorePlaces
    <3>2. \A y \in Refs : holder[y] = u => holder'[y] = u
      BY <1>2, <1>5, <2>1
    <3>3. \A y \in Refs : holder[y] = Nobody => holder'[y] = Nobody
      BY <1>5
    <3> QED
      BY <3>1, <3>2, <3>3 DEF ObjectInv, References
  <2>2. call[t] = "release" /\ at'[t] \notin Before
    BY StorePlaces DEF Before
  <2> QED
    BY <1>1, <2>1, <2>2 DEF References
<1>12. Alone' /\ Gone' /\ Counted'
  BY <1>1, <1>3, <1>9 DEF Alone, Gone, Counted
<1> QED
  BY <1>10, <1>11, <1>12, StorePlaces DEF ObjectInv

\* The destructor takes away what line 129 added.
LEMMA StoreDestroy ==
  ASSUME ObjectInv, NEW t \in Threads, Store(t), call[t] = "destroy"
  PROVE  ObjectInv'
<1>1. /\ at[t] = "store" /\ refCount' = loaded[t] + (-1)
      /\ UNCHANGED <<holder, lock, depth, allocated, call, loaded, ref>>
  BY DEF Store, Change, HolderAfter
<1>2. /\ allocated /\ Held = {}
      /\ \A u \in Threads : u # t => call[u] = "none"
  BY DEF ObjectInv, Alone, Ending
<1>3. refCount = 1 /\ loaded[t] = refCount
  BY <1>1, StorePlaces DEF ObjectInv, Counted, Ending, Before
<1>4. refCount' = 0
  BY <1>1, <1>3
<1>5. TypeOK'
  BY <1>1, <1>4, StorePlaces DEF ObjectInv, TypeOK
<1>6. Held' = Held
  BY <1>1 DEF Held
<1>7. References'
  BY <1>1, <1>2, StorePlaces DEF References
<1>8. Alone' /\ Gone'
  BY <1>1, <1>2, <1>6 DEF Alone, Gone, Ending
<1>9. Counted'
  BY <1>1, <1>2, <1>4, StorePlaces DEF Counted, Ending, Before
<1> QED
  BY <1>5, <1>7, <1>8, <1>9, StorePlaces DEF ObjectInv

\* The thread that finds the count at 0 is alone with the object.
LEMMA TestStep ==
  ASSUME ObjectInv, NEW t \in Threads, Test(t)
  PROVE  ObjectInv'
<1>1. /\ at[t] = "test"
      /\ call' = [call EXCEPT ![t] = IF refCount = 0 THEN "dying" ELSE "release"]
      /\ at' = [at EXCEPT ![t] = "unlock"]
      /\ refCount' = IF refCount = 0 THEN refCount + 1 ELSE refCount
      /\ UNCHANGED <<lock, depth, allocated, holder, loaded, ref>>
  BY DEF Test
<1>2. call[t] = "release" /\ lock = t
  BY <1>1 DEF ObjectInv, PlacesOf, LockHeld, Inside
<1>3. \A u \in Threads \ {t} : at[u] \notin Inside
  BY <1>2 DEF ObjectInv, LockHeld
<1>4. allocated /\ \A u \in Threads : call[u] \notin Ending
  BY <1>2 DEF ObjectInv, Gone, Alone, Ending
<1>5. refCount = Cardinality(Held)
  BY <1>4 DEF ObjectInv, Counted
<1>6. /\ call'[t] = (IF refCount = 0 THEN "dying" ELSE "release") /\ at'[t] = "unlock"
      /\ \A u \in Threads \ {t} : call'[u] = call[u] /\ at'[u] = at[u]
  BY <1>1 DEF ObjectInv, TypeOK
<1>7. Held' = Held
  BY <1>1 DEF Held
<1>8. TypeOK'
  BY <1>1 DEF ObjectInv, TypeOK, Calls, Places
<1>9. PlacesOf'
  BY <1>6 DEF ObjectInv, PlacesOf
<1>10. LockHeld'
  BY <1>1, <1>2, <1>6 DEF ObjectInv, LockHeld, Inside
<1>11. LoadedFresh'
  BY <1>1, <1>3, <1>6 DEF LoadedFresh, ObjectInv, Inside
<1>12. References'
  BY <1>1, <1>2, <1>6 DEF ObjectInv, References, Before
<1>13. CASE refCount = 0
  <2>1. Held = {}
    BY <1>5, <1>13, HeldFinite
  <2>2. \A u \in Threads \ {t} : call[u] = "none"
    <3>1. \A u \in Threads, x \in Refs : holder[x] # u
      BY <2>1, SmartObjectAssumption DEF Held
    <3> QED
      BY <1>3, <1>4, <3>1 DEF ObjectInv, PlacesOf, References, Before, Inside, Ending
  <2>3. call'[t] = "dying" /\ refCount' = 1
    BY <1>1, <1>6, <1>13
  <2>4. Alone' /\ Gone' /\ Counted'
    BY <1>1, <1>4, <1>6, <1>7, <2>1, <2>2, <2>3 DEF Alone, Gone, Counted, Ending
  <2> QED
    BY <1>8, <1>9, <1>10, <1>11, <1>12, <2>4 DEF ObjectInv
<1>14. CASE refCount # 0
  <2>1. refCount' = refCount /\ \A u \in Threads : call'[u] = call[u]
    BY <1>1, <1>2, <1>6, <1>14
  <2>2. Alone' /\ Gone' /\ Counted'
    BY <1>1, <1>4, <1>5, <1>7, <2>1 DEF Alone, Gone, Counted
  <2> QED
    BY <1>8, <1>9, <1>10, <1>11, <1>12, <2>2 DEF ObjectInv
<1> QED
  BY <1>13, <1>14

\* Leaving the lock ends the call, or begins the destructor or its end.
LEMMA UnlockStep ==
  ASSUME ObjectInv, NEW t \in Threads, Unlock(t)
  PROVE  ObjectInv'
<1>0. at[t] = "unlock"
  BY DEF Unlock, GoOn
<1>1. /\ at[t] = "unlock" /\ lock' = Nobody /\ depth' = 0
      /\ call' = [call EXCEPT ![t] = CallAfter(call[t])]
      /\ at' = [at EXCEPT ![t] = PlaceAfter(call[t])]
      /\ loaded' = [loaded EXCEPT ![t] = 0] /\ ref' = [ref EXCEPT ![t] = Nobody]
      /\ UNCHANGED <<refCount, allocated, holder>>
  <2>1. lock = t /\ t # Nobody
    BY <1>0, SmartObjectAssumption DEF ObjectInv, LockHeld, Inside
  <2>2. depth = 1
    BY <2>1 DEF ObjectInv, LockHeld
  <2>3. lock' = Nobody /\ depth' = 0
    BY <2>2 DEF Unlock, Leave
  <2> QED
    BY <2>3 DEF Unlock, GoOn
<1>2. /\ call'[t] = CallAfter(call[t]) /\ at'[t] = PlaceAfter(call[t])
      /\ \A u \in Threads \ {t} : /\ call'[u] = call[u] /\ at'[u] = at[u]
                                  /\ loaded'[u] = loaded[u] /\ ref'[u] = ref[u]
  BY <1>1 DEF ObjectInv, TypeOK
<1>3. call[t] \in {"retain", "release", "count", "dying", "destroy"} /\ lock = t
  BY <1>1 DEF ObjectInv, PlacesOf, LockHeld, Inside
<1>4. \A u \in Threads \ {t} : at[u] \notin Inside
  BY <1>3 DEF ObjectInv, LockHeld
<1>5. \/ call[t] \in {"retain", "release", "count"} /\ call'[t] = "none" /\ at'[t] = "out"
      \/ call[t] = "dying" /\ call'[t] = "destroy" /\ at'[t] = "lock"
      \/ call[t] = "destroy" /\ call'[t] = "destroy" /\ at'[t] = "free"
  BY <1>2, <1>3 DEF CallAfter, PlaceAfter
<1>6. Held' = Held
  BY <1>1 DEF Held
<1>7. TypeOK'
  <2>1. CallAfter(call[t]) \in Calls /\ PlaceAfter(call[t]) \in Places
    BY <1>2, <1>5 DEF Calls, Places
  <2> QED
    BY <1>1, <2>1 DEF ObjectInv, TypeOK
<1>8. PlacesOf'
  BY <1>2, <1>5 DEF ObjectInv, PlacesOf
<1>9. LockHeld' /\ LoadedFresh'
  BY <1>1, <1>2, <1>4, <1>5, SmartObjectAssumption DEF ObjectInv, LockHeld, LoadedFresh, Inside
<1>10. References'
  BY <1>1, <1>2, <1>5 DEF ObjectInv, References
<1>11. Alone' /\ Gone'
  BY <1>1, <1>2, <1>5, <1>6 DEF ObjectInv, Alone, Gone, Ending
<1>12. Counted'
  <2>1. CASE call[t] \notin Ending
    <3>1. \A u \in Threads : call'[u] \in Ending <=> call[u] \in Ending
      BY <1>2, <1>5, <2>1 DEF Ending
    <3>2. \A u \in Threads : call[u] \in Ending => u # t
      BY <2>1
    <3> QED
      BY <1>1, <1>2, <1>6, <3>1, <3>2 DEF ObjectInv, Counted
  <2>2. CASE call[t] \in Ending
    <3>1. \A u \in Threads \ {t} : call'[u] = "none"
      BY <1>2, <2>2 DEF ObjectInv, Alone
    <3>2. refCount' = IF call[t] = "dying" THEN 1 ELSE 0
      BY <1>1, <2>2 DEF ObjectInv, Counted, Before
    <3> QED
      BY <1>5, <2>2, <3>1, <3>2 DEF Counted, Ending, Before
  <2> QED
    BY <2>1, <2>2
<1> QED
  BY <1>7, <1>8, <1>9, <1>10, <1>11, <1>12 DEF ObjectInv

\* The object goes when no other thread is in it.
LEMMA FreeStep ==
  ASSUME ObjectInv, NEW t \in Threads, Free(t)
  PROVE  ObjectInv'
<1>1. /\ at[t] = "free" /\ allocated' = FALSE
      /\ call' = [call EXCEPT ![t] = "none"] /\ at' = [at EXCEPT ![t] = "out"]
      /\ UNCHANGED <<refCount, lock, depth, holder, loaded, ref>>
  BY DEF Free
<1>2. /\ call'[t] = "none" /\ at'[t] = "out"
      /\ \A u \in Threads \ {t} : call'[u] = call[u] /\ at'[u] = at[u]
  BY <1>1 DEF ObjectInv, TypeOK
<1>3. call[t] = "destroy"
  BY <1>1 DEF ObjectInv, PlacesOf
<1>4. /\ Held = {} /\ \A u \in Threads \ {t} : call[u] = "none"
      /\ refCount = 0
  BY <1>1, <1>3 DEF ObjectInv, Alone, Counted, Ending, Before
<1>5. Held' = Held /\ Cardinality(Held) = 0
  BY <1>1, <1>4, HeldFinite DEF Held
<1>6. \A u \in Threads : call'[u] = "none"
  BY <1>2, <1>4
<1>7. TypeOK'
  BY <1>1 DEF ObjectInv, TypeOK, Calls, Places
<1>8. PlacesOf' /\ LockHeld' /\ LoadedFresh'
  BY <1>1, <1>2, <1>6 DEF ObjectInv, PlacesOf, LockHeld, LoadedFresh, Inside
<1>9. References' /\ Alone'
  BY <1>6 DEF References, Alone, Ending
<1>10. Gone' /\ Counted'
  BY <1>1, <1>4, <1>5, <1>6 DEF Gone, Counted, Ending
<1> QED
  BY <1>7, <1>8, <1>9, <1>10 DEF ObjectInv

-----------------------------------------------------------------------------
\* Every step of every thread keeps the account (epSmartObject.h:82-207).
LEMMA ObjectStep == ObjectInv /\ [Next]_vars => ObjectInv'
<1> SUFFICES ASSUME ObjectInv, [Next]_vars
             PROVE  ObjectInv'
  OBVIOUS
<1>1. ASSUME NEW t \in Threads, Step(t)
      PROVE  ObjectInv'
  <2>1. CASE Store(t)
    <3>1. call[t] \in {"retain", "release", "destroy"}
      BY <2>1, StorePlaces
    <3> QED
      BY <2>1, <3>1, StoreRetain, StoreRelease, StoreDestroy
  <2> QED
    BY <1>1, <2>1, LockStep, LoadStep, TestStep, UnlockStep, FreeStep DEF Step
<1>2. CASE UNCHANGED vars
  <2>1. UNCHANGED <<refCount, lock, depth, allocated, holder, call, at, loaded, ref>>
    BY <1>2 DEF vars
  <2>2. Held' = Held
    BY <2>1 DEF Held
  <2>3. TypeOK' /\ PlacesOf' /\ LockHeld' /\ LoadedFresh' /\ References'
    BY <2>1 DEF ObjectInv, TypeOK, PlacesOf, LockHeld, LoadedFresh, References
  <2>4. Alone' /\ Gone' /\ Counted'
    BY <2>1, <2>2 DEF ObjectInv, Alone, Gone, Counted
  <2> QED
    BY <2>3, <2>4 DEF ObjectInv
<1> QED
  BY <1>1, <1>2, CallStep, HandOverStep DEF Next

\* The account holds in every state.
LEMMA ObjectAlways == Spec => []ObjectInv
BY ObjectInit, ObjectStep, PTL DEF Spec

\* The variables keep their types, and the count is never negative.
THEOREM ObjectTypes == Spec => []TypeOK
<1>1. ObjectInv => TypeOK
  BY DEF ObjectInv
<1> QED
  BY <1>1, ObjectAlways, PTL

\* Nobody uses the object after it is deleted (epSmartObject.h:123-134): a
\* thread in a call stands on a reference or is the one that deletes.
THEOREM UseCorrect == Spec => []NoUseAfterDelete
<1>1. ObjectInv => NoUseAfterDelete
  BY DEF ObjectInv, Gone, NoUseAfterDelete
<1> QED
  BY <1>1, ObjectAlways, PTL

\* GetReferenceCount returns the number of references there are when it
\* leaves the lock (epSmartObject.h:71-75).
THEOREM CountCorrect == Spec => []CountReturnedExact
<1>1. ObjectInv => CountReturnedExact
  <2> SUFFICES ASSUME ObjectInv, NEW t \in Threads, call[t] = "count", at[t] = "unlock"
               PROVE  loaded[t] = Cardinality(Held)
    BY DEF CountReturnedExact
  <2>1. ref[t] \in Refs /\ holder[ref[t]] = t
    BY DEF ObjectInv, References
  <2>2. \A u \in Threads : call[u] \notin Ending
    BY <2>1, HeldMeansSafe
  <2> QED
    BY <2>2 DEF ObjectInv, Counted, LoadedFresh
<1> QED
  BY <1>1, ObjectAlways, PTL

\* Neither assertion on the count fails (epSmartObject.h:135, 202).
THEOREM AssertionsCorrect == Spec => []AssertionsHold
<1>1. ObjectInv => AssertionsHold
  <2> SUFFICES ASSUME ObjectInv, NEW t \in Threads
               PROVE  /\ at[t] = "test" => refCount >= 0
                      /\ at[t] = "free" => refCount = 0
    BY DEF AssertionsHold
  <2>1. refCount >= 0
    BY DEF ObjectInv, TypeOK
  <2>2. at[t] = "free" => call[t] = "destroy"
    BY DEF ObjectInv, PlacesOf
  <2> QED
    BY <2>1, <2>2 DEF ObjectInv, Counted, Ending, Before
<1> QED
  BY <1>1, ObjectAlways, PTL

\* Of all threads that release at a time one finds the count at 0: no two are
\* on their way to the destructor (epSmartObject.h:126-131).
OneDestroys ==
  \A t, u \in Threads :
    call[t] \in {"dying", "destroy"} /\ call[u] \in {"dying", "destroy"} => t = u

\* Only one thread ever is on its way to the destructor
\* (epSmartObject.h:126-131).
THEOREM DestroyCorrect == Spec => []OneDestroys
<1>1. ObjectInv => OneDestroys
  BY DEF ObjectInv, Alone, Ending, OneDestroys
<1> QED
  BY <1>1, ObjectAlways, PTL

\* No step loses the object: the release that empties Held goes on to the
\* test, the test of an empty account starts the destructor, and a thread that
\* leaves the lock meanwhile has been seen by neither.
LEMMA LastReleaseStep ==
  ObjectInv /\ LastReleaseDeletes /\ [Next]_vars => LastReleaseDeletes'
<1> SUFFICES ASSUME ObjectInv, LastReleaseDeletes, [Next]_vars, ObjectInv',
                    Held' = {}, allocated'
             PROVE  \E t \in Threads : \/ call'[t] = "release" /\ at'[t] = "test"
                                       \/ call'[t] \in Ending
  BY ObjectStep DEF LastReleaseDeletes, Ending, Held
<1>1. ASSUME holder' = holder, allocated' = allocated
      PROVE  \E w \in Threads : \/ call[w] = "release" /\ at[w] = "test"
                                \/ call[w] \in Ending
  <2>1. Held' = Held
    BY <1>1 DEF Held
  <2> QED
    BY <1>1, <2>1 DEF LastReleaseDeletes, Ending
<1>2. ASSUME NEW t \in Threads, Store(t)
      PROVE  \E w \in Threads : \/ call'[w] = "release" /\ at'[w] = "test"
                                \/ call'[w] \in Ending
  <2>1. /\ at' = [at EXCEPT ![t] = IF call[t] = "release" THEN "test" ELSE "unlock"]
        /\ call' = call /\ holder' = HolderAfter(t) /\ allocated' = allocated
        /\ at[t] = "store"
    BY <1>2 DEF Store
  <2>2. CASE call[t] = "release"
    BY <2>1, <2>2 DEF ObjectInv, TypeOK
  <2>3. CASE call[t] = "destroy"
    BY <2>1, <2>3 DEF Ending
  <2>4. CASE call[t] = "retain"
    <3>1. ref[t] \in Refs /\ holder'[ref[t]] = t
      BY <2>1, <2>4 DEF ObjectInv, References, TypeOK, HolderAfter
    <3>2. ref[t] \in Held'
      BY <3>1, SmartObjectAssumption DEF Held
    <3> QED
      BY <3>2
  <2> QED
    BY <1>2, <2>2, <2>3, <2>4, StorePlaces
<1>3. ASSUME NEW t \in Threads, Lock(t) \/ Load(t)
      PROVE  \E w \in Threads : \/ call'[w] = "release" /\ at'[w] = "test"
                                \/ call'[w] \in Ending
  <2>1. /\ call' = call /\ holder' = holder /\ allocated' = allocated
        /\ at[t] # "test" /\ \A w \in Threads : w # t => at'[w] = at[w]
    BY <1>3 DEF Lock, Load, ObjectInv, TypeOK
  <2> QED
    BY <1>1, <2>1
<1>4. ASSUME NEW t \in Threads, Test(t)
      PROVE  \E w \in Threads : \/ call'[w] = "release" /\ at'[w] = "test"
                                \/ call'[w] \in Ending
  <2>1. /\ at[t] = "test" /\ holder' = holder
        /\ call'[t] = IF refCount = 0 THEN "dying" ELSE "release"
    BY <1>4 DEF Test, ObjectInv, TypeOK
  <2>2. Held = {} /\ call[t] = "release" /\ allocated
    BY <1>4, <2>1 DEF Held, Test, ObjectInv, PlacesOf
  <2>3. \A u \in Threads : call[u] \notin Ending
    BY <2>2 DEF ObjectInv, Alone, Ending
  <2>4. refCount = 0
    BY <2>2, <2>3, HeldFinite DEF ObjectInv, Counted
  <2> QED
    BY <2>1, <2>4 DEF Ending
<1>5. ASSUME NEW t \in Threads, Unlock(t)
      PROVE  \E w \in Threads : \/ call'[w] = "release" /\ at'[w] = "test"
                                \/ call'[w] \in Ending
  <2>1. /\ at[t] = "unlock" /\ holder' = holder /\ allocated' = allocated
        /\ call'[t] = CallAfter(call[t])
    BY <1>5 DEF Unlock, GoOn, ObjectInv, TypeOK
  <2>2. lock = t
    BY <2>1 DEF ObjectInv, LockHeld, Inside
  <2>3. PICK w \in Threads : \/ call[w] = "release" /\ at[w] = "test"
                             \/ call[w] \in Ending
    BY <1>1, <2>1
  <2>4. call[w] \in Ending
    BY <2>1, <2>2, <2>3 DEF ObjectInv, LockHeld, Inside
  <2>5. w = t
    BY <2>1, <2>4 DEF ObjectInv, Alone, PlacesOf
  <2> QED
    BY <2>1, <2>4, <2>5 DEF CallAfter, Ending
<1>6. ASSUME NEW t \in Threads, NEW r \in Refs,
             RetainObj(t, r) \/ ReleaseObj(t, r) \/ GetReferenceCount(t, r)
      PROVE  \E w \in Threads : \/ call'[w] = "release" /\ at'[w] = "test"
                                \/ call'[w] \in Ending
  <2>1. /\ holder' = holder /\ allocated' = allocated /\ call[t] = "none"
        /\ \A w \in Threads : w # t => call'[w] = call[w] /\ at'[w] = at[w]
    BY <1>6 DEF RetainObj, ReleaseObj, GetReferenceCount, Calling, ObjectInv, TypeOK
  <2> QED
    BY <1>1, <2>1 DEF Ending
<1>7. ASSUME NEW t \in Threads, NEW u \in Threads, NEW r \in Refs, HandOver(t, u, r)
      PROVE  FALSE
  <2>1. holder'[r] = u
    BY <1>7 DEF HandOver, ObjectInv, TypeOK
  <2> QED
    BY <2>1, SmartObjectAssumption DEF Held
<1>8. CASE UNCHANGED vars
  BY <1>1, <1>8 DEF vars
<1> QED
  BY <1>2, <1>3, <1>4, <1>5, <1>6, <1>7, <1>8 DEF Next, Step, Free

\* However the releases interleave, one of them deletes the object: it is not
\* left behind with nobody to delete it (epSmartObject.h:123-134).
THEOREM LastReleaseCorrect == Spec => []LastReleaseDeletes
<1>1. Init => LastReleaseDeletes
  <2> SUFFICES ASSUME Init
               PROVE  Held # {}
    BY DEF LastReleaseDeletes
  <2>1. PICK t \in Threads, r \in Refs :
          holder = [x \in Refs |-> IF x = r THEN t ELSE Nobody]
    BY DEF Init
  <2> QED
    BY <2>1, SmartObjectAssumption DEF Held
<1> QED
  BY <1>1, LastReleaseStep, ObjectAlways, PTL DEF Spec

\* The lock that the destructor deletes is free and nobody waits for it
\* (epSmartObject.h:128-133, 196-207).
THEOREM LockFreeCorrect == Spec => []LockFreeAtEnd
<1>1. ObjectInv => LockFreeAtEnd
  <2> SUFFICES ASSUME ObjectInv, NEW t \in Threads, at[t] = "free"
               PROVE  lock = Nobody /\ \A u \in Threads : at[u] # "lock"
    BY DEF LockFreeAtEnd
  <2>1. call[t] = "destroy"
    BY DEF ObjectInv, PlacesOf
  <2>2. \A u \in Threads : u # t => at[u] = "out"
    BY <2>1 DEF ObjectInv, Alone, Ending, PlacesOf
  <2>3. \A u \in Threads : lock # u
    BY <2>2 DEF ObjectInv, LockHeld, Inside
  <2> QED
    BY <2>2, <2>3 DEF ObjectInv, TypeOK
<1> QED
  BY <1>1, ObjectAlways, PTL

\* The threads of the object are never stuck at its lock: the one that has it
\* never waits, and none keeps it when it leaves (epSmartObject.h:71-138).
THEOREM GoesOnCorrect == Spec => []SomeoneGoesOn
<1>1. ObjectInv => SomeoneGoesOn
  <2> SUFFICES ASSUME ObjectInv, NEW t \in Threads, call[t] # "none"
               PROVE  \E u \in Threads : \/ at[u] \notin {"out", "lock"}
                                         \/ at[u] = "lock" /\ lock \in {Nobody, u}
    BY DEF SomeoneGoesOn
  <2>1. at[t] # "out"
    BY DEF ObjectInv, PlacesOf
  <2>2. lock # Nobody => lock \in Threads /\ at[lock] \in Inside
    BY DEF ObjectInv, TypeOK, LockHeld
  <2> QED
    BY <2>1, <2>2 DEF Inside
<1> QED
  BY <1>1, ObjectAlways, PTL

-----------------------------------------------------------------------------
(* Refinement.                                                             *)

\* A new object is a new reference-counted object.
LEMMA PromiseInit == Init => Promise!Init
<1> SUFFICES ASSUME Init
             PROVE  Promise!Init
  OBVIOUS
<1>1. PICK t \in Threads, r \in Refs :
        holder = [x \in Refs |-> IF x = r THEN t ELSE Nobody]
  BY DEF Init
<1>2. r \in Held
  BY <1>1, SmartObjectAssumption DEF Held
<1>3. object = "alive"
  BY <1>2 DEF Init, object
<1> QED
  BY <1>1, <1>3 DEF Promise!Init

\* Store is the moment a RetainObj or a ReleaseObj takes effect, Free that of
\* the deletion; everything else is invisible.
LEMMA PromiseStep == ObjectInv /\ [Next]_vars => [Promise!Next]_(Promise!vars)
<1> SUFFICES ASSUME ObjectInv, [Next]_vars, ObjectInv'
             PROVE  Promise!Next \/ UNCHANGED <<holder, object>>
  BY ObjectStep DEF Promise!vars
<1>1. ASSUME NEW t \in Threads, Store(t), call[t] = "retain"
      PROVE  Promise!Next
  <2>1. /\ holder' = [holder EXCEPT ![ref[t]] = t] /\ at[t] = "store"
        /\ allocated' = allocated
    BY <1>1 DEF Store, HolderAfter
  <2>2. ref[t] \in Refs /\ holder[ref[t]] = Nobody /\ \E x \in Refs : holder[x] = t
    BY <1>1, <2>1 DEF ObjectInv, References, Before
  <2>3. PICK x \in Refs : holder[x] = t
    BY <2>2
  <2>4. allocated /\ x \in Held /\ x \in Held'
    BY <2>1, <2>2, <2>3, HeldMeansSafe, SmartObjectAssumption
       DEF ObjectInv, TypeOK, Held
  <2>5. object = "alive" /\ object' = "alive"
    BY <2>1, <2>4 DEF object
  <2>6. Promise!Retain(t, ref[t])
    BY <2>1, <2>2, <2>5 DEF Promise!Retain
  <2> QED
    BY <2>2, <2>6 DEF Promise!Next
<1>2. ASSUME NEW t \in Threads, Store(t), call[t] = "release"
      PROVE  Promise!Next
  <2>1. /\ holder' = [holder EXCEPT ![ref[t]] = Nobody] /\ at[t] = "store"
        /\ allocated' = allocated
    BY <1>2 DEF Store, HolderAfter
  <2>2. ref[t] \in Refs /\ holder[ref[t]] = t
    BY <1>2, <2>1 DEF ObjectInv, References, Before
  <2>3. allocated /\ ref[t] \in Held
    BY <2>2, HeldMeansSafe, SmartObjectAssumption DEF Held
  <2>4. Held' = Held \ {ref[t]}
    BY <2>1, <2>2 DEF ObjectInv, TypeOK, Held
  <2>5. /\ object = "alive"
        /\ object' = IF Held = {ref[t]} THEN "doomed" ELSE "alive"
    BY <2>1, <2>3, <2>4 DEF object
  <2>6. Promise!Held = Held
    BY DEF Promise!Held, Held
  <2>7. Promise!GiveUp(t, ref[t])
    BY <2>1, <2>2, <2>5, <2>6 DEF Promise!GiveUp
  <2> QED
    BY <2>2, <2>7 DEF Promise!Next
<1>3. ASSUME NEW t \in Threads, Free(t)
      PROVE  Promise!Next
  <2>1. call[t] = "destroy"
    BY <1>3 DEF Free, ObjectInv, PlacesOf
  <2>2. Held = {} /\ allocated
    BY <2>1 DEF ObjectInv, Alone, Ending
  <2>3. object = "doomed" /\ object' = "gone" /\ holder' = holder
    BY <1>3, <2>2 DEF object, Free
  <2> QED
    BY <2>3 DEF Promise!Next, Promise!Delete
<1>4. ASSUME NEW t \in Threads, NEW u \in Threads, NEW r \in Refs, HandOver(t, u, r)
      PROVE  Promise!Next
  <2>1. holder[r] = t /\ holder' = [holder EXCEPT ![r] = u] /\ allocated' = allocated
    BY <1>4 DEF HandOver
  <2>2. Held' = Held
    BY <2>1, SmartObjectAssumption DEF ObjectInv, TypeOK, Held
  <2>3. object' = object
    BY <2>1, <2>2 DEF object
  <2> QED
    BY <2>1, <2>3 DEF Promise!Next, Promise!HandOver
<1>5. ASSUME holder' = holder, allocated' = allocated
      PROVE  UNCHANGED <<holder, object>>
  BY <1>5 DEF object, Held
<1>6. ASSUME NEW t \in Threads, Step(t)
      PROVE  Promise!Next \/ UNCHANGED <<holder, object>>
  <2>1. CASE Store(t)
    <3>1. call[t] \in {"retain", "release", "destroy"}
      BY <2>1, StorePlaces
    <3>2. call[t] = "destroy" => holder' = holder /\ allocated' = allocated
      BY <2>1 DEF Store, HolderAfter
    <3> QED
      BY <1>1, <1>2, <1>5, <2>1, <3>1, <3>2
  <2>2. CASE Lock(t) \/ Load(t) \/ Test(t) \/ Unlock(t)
    BY <1>5, <2>2 DEF Lock, Load, Test, Unlock, GoOn
  <2> QED
    BY <1>3, <1>6, <2>1, <2>2 DEF Step
<1>7. ASSUME NEW t \in Threads, NEW r \in Refs,
             RetainObj(t, r) \/ ReleaseObj(t, r) \/ GetReferenceCount(t, r)
      PROVE  UNCHANGED <<holder, object>>
  BY <1>5, <1>7 DEF RetainObj, ReleaseObj, GetReferenceCount, Calling
<1>8. CASE UNCHANGED vars
  BY <1>5, <1>8 DEF vars
<1> QED
  BY <1>4, <1>6, <1>7, <1>8 DEF Next

\* The counter behind its lock is a reference-counted object whose calls take
\* effect in one step (epSmartObject.h:71-207).
THEOREM ObjectRefines == Spec => ImplementsRefCounted
BY ObjectAlways, PromiseInit, PromiseStep, PTL DEF Spec, ImplementsRefCounted, Promise!Spec
=============================================================================
