---------------------------- MODULE SmartObject ----------------------------
(***************************************************************************)
(* epl::SmartObject (epSmartObject.h) under several threads: one object,   *)
(* its m_refCount and the lock in front of it.  The count is read and      *)
(* written in separate steps; only the lock, of the policies              *)
(* CRITICALSECTION and MUTEX, keeps them together.  A thread calls only    *)
(* with a reference in its hands, and a reference is one member of Refs.   *)
(***************************************************************************)
EXTENDS Integers, FiniteSets

CONSTANTS
  Threads,
  Refs,       \* bound on the references there are at a time
  Nobody

ASSUME SmartObjectAssumption ==
  /\ IsFiniteSet(Refs)
  /\ Nobody \notin Threads

VARIABLES
  refCount,   \* m_refCount
  lock,       \* the thread in m_refCounterLock, or Nobody
  depth,      \* how often it is in: CRITICAL_SECTION and the mutex of Windows
              \* let their owner in again (epCriticalSectionEx.h:116, epMutex.h:139)
  allocated,  \* the object has not been deleted
  holder,     \* reference -> the thread that holds it, or Nobody
  call,       \* thread -> the call it is in
  at,         \* thread -> where in that call
  loaded,     \* thread -> m_refCount as it read it
  ref         \* thread -> the reference its call makes, gives up or uses

vars == <<refCount, lock, depth, allocated, holder, call, at, loaded, ref>>

Calls == {"none", "retain", "release", "count", "dying", "destroy"}
Places == {"out", "lock", "load", "store", "test", "unlock", "free"}

Held == {r \in Refs : holder[r] # Nobody}

\* SmartObject (): the first reference is the constructing thread's.
Init == /\ refCount = 1
        /\ lock = Nobody /\ depth = 0
        /\ allocated = TRUE
        /\ \E t \in Threads, r \in Refs :
             holder = [x \in Refs |-> IF x = r THEN t ELSE Nobody]
        /\ call = [t \in Threads |-> "none"]
        /\ at = [t \in Threads |-> "out"]
        /\ loaded = [t \in Threads |-> 0]
        /\ ref = [t \in Threads |-> Nobody]

-----------------------------------------------------------------------------
(* The client's calls.                                                     *)

Calling(t, name, r) ==
  /\ call[t] = "none"
  /\ call' = [call EXCEPT ![t] = name]
  /\ at' = [at EXCEPT ![t] = "lock"]
  /\ ref' = [ref EXCEPT ![t] = r]
  /\ UNCHANGED <<refCount, lock, depth, allocated, holder, loaded>>

RetainObj(t, r) ==
  /\ \E x \in Refs : holder[x] = t
  /\ holder[r] = Nobody
  /\ \A u \in Threads : call[u] = "retain" => ref[u] # r
  /\ Calling(t, "retain", r)

ReleaseObj(t, r) == holder[r] = t /\ Calling(t, "release", r)

GetReferenceCount(t, r) == holder[r] = t /\ Calling(t, "count", r)

\* A thread passes one of its references to another.
HandOver(t, u, r) ==
  /\ holder[r] = t /\ call[t] = "none"
  /\ holder' = [holder EXCEPT ![r] = u]
  /\ UNCHANGED <<refCount, lock, depth, allocated, call, at, loaded, ref>>

-----------------------------------------------------------------------------
(* What a call does.                                                       *)

\* The lock lets in a thread when it is free or the thread's own.
\* (Mutant: the policy NONE.)
LockNone(t) ==
  /\ at[t] = "lock"
  /\ lock' = t /\ depth' = 1
  /\ at' = [at EXCEPT ![t] = "load"]
  /\ UNCHANGED <<refCount, allocated, holder, call, loaded, ref>>
Lock(t) ==
  /\ at[t] = "lock" /\ lock \in {Nobody, t}
  /\ lock' = t /\ depth' = depth + 1
  /\ at' = [at EXCEPT ![t] = "load"]
  /\ UNCHANGED <<refCount, allocated, holder, call, loaded, ref>>

Load(t) ==
  /\ at[t] = "load"
  /\ loaded' = [loaded EXCEPT ![t] = refCount]
  /\ at' = [at EXCEPT ![t] = IF call[t] = "count" THEN "unlock" ELSE "store"]
  /\ UNCHANGED <<refCount, lock, depth, allocated, holder, call, ref>>

\* ++ of RetainObj, -- of ReleaseObj and of the destructor.
Change(name) == IF name = "retain" THEN 1 ELSE -1
HolderAfter(t) ==
  CASE call[t] = "retain"  -> [holder EXCEPT ![ref[t]] = t]
    [] call[t] = "release" -> [holder EXCEPT ![ref[t]] = Nobody]
    [] OTHER               -> holder
Store(t) ==
  /\ at[t] = "store"
  /\ refCount' = loaded[t] + Change(call[t])
  /\ holder' = HolderAfter(t)
  /\ at' = [at EXCEPT ![t] = IF call[t] = "release" THEN "test" ELSE "unlock"]
  /\ UNCHANGED <<lock, depth, allocated, call, loaded, ref>>

\* The count that reached 0 is raised again for the destructor to lower.
\* (Mutants: it is not raised; the object is deleted a reference early.)
TestPlain(t) ==
  /\ at[t] = "test"
  /\ call' = [call EXCEPT ![t] = IF refCount = 0 THEN "dying" ELSE "release"]
  /\ at' = [at EXCEPT ![t] = "unlock"]
  /\ UNCHANGED <<refCount, lock, depth, allocated, holder, loaded, ref>>
TestEarly(t) ==
  /\ at[t] = "test"
  /\ call' = [call EXCEPT ![t] = IF refCount <= 1 THEN "dying" ELSE "release"]
  /\ at' = [at EXCEPT ![t] = "unlock"]
  /\ refCount' = IF refCount <= 1 THEN refCount + 1 ELSE refCount
  /\ UNCHANGED <<lock, depth, allocated, holder, loaded, ref>>
Test(t) ==
  /\ at[t] = "test"
  /\ call' = [call EXCEPT ![t] = IF refCount = 0 THEN "dying" ELSE "release"]
  /\ at' = [at EXCEPT ![t] = "unlock"]
  /\ refCount' = IF refCount = 0 THEN refCount + 1 ELSE refCount
  /\ UNCHANGED <<lock, depth, allocated, holder, loaded, ref>>

\* Unlock, then the return, the delete, or the rest of the destructor.  The lock
\* is free when it was left as often as it was entered.  (Mutants: the early
\* return of ReleaseObj keeps it; the other one does.)
Leave(t) == depth' = depth - 1 /\ lock' = IF depth = 1 THEN Nobody ELSE lock
CallAfter(name) == CASE name = "dying" -> "destroy" [] name = "destroy" -> "destroy" [] OTHER -> "none"
PlaceAfter(name) == CASE name = "dying" -> "lock" [] name = "destroy" -> "free" [] OTHER -> "out"
GoOn(t) ==
  /\ at[t] = "unlock"
  /\ call' = [call EXCEPT ![t] = CallAfter(call[t])]
  /\ at' = [at EXCEPT ![t] = PlaceAfter(call[t])]
  /\ loaded' = [loaded EXCEPT ![t] = 0]
  /\ ref' = [ref EXCEPT ![t] = Nobody]
  /\ UNCHANGED <<refCount, allocated, holder>>
UnlockLeaky(t) ==
  GoOn(t) /\ IF call[t] = "dying" THEN UNCHANGED <<lock, depth>> ELSE Leave(t)
UnlockForgets(t) ==
  GoOn(t) /\ IF call[t] = "release" THEN UNCHANGED <<lock, depth>> ELSE Leave(t)
Unlock(t) == GoOn(t) /\ Leave(t)

\* The last lines of the destructor.
Free(t) ==
  /\ at[t] = "free"
  /\ allocated' = FALSE
  /\ call' = [call EXCEPT ![t] = "none"]
  /\ at' = [at EXCEPT ![t] = "out"]
  /\ UNCHANGED <<refCount, lock, depth, holder, loaded, ref>>

Step(t) == Lock(t) \/ Load(t) \/ Store(t) \/ Test(t) \/ Unlock(t) \/ Free(t)

Next == \/ \E t \in Threads, r \in Refs :
             \/ RetainObj(t, r) \/ ReleaseObj(t, r) \/ GetReferenceCount(t, r)
             \/ \E u \in Threads : HandOver(t, u, r)
        \/ \E t \in Threads : Step(t)

Spec == Init /\ [][Next]_vars

\* A thread in a call goes on: threads are preempted, not stopped.  None has
\* to call, and nothing makes one that holds a reference give it up.
FairSpec == Spec /\ \A t \in Threads : WF_vars(Step(t))

-----------------------------------------------------------------------------
\* Every variable has its type.
TypeOK ==
  /\ refCount \in Nat /\ allocated \in BOOLEAN
  /\ lock \in Threads \cup {Nobody} /\ depth \in Nat
  /\ holder \in [Refs -> Threads \cup {Nobody}]
  /\ call \in [Threads -> Calls] /\ at \in [Threads -> Places]
  /\ loaded \in [Threads -> Nat] /\ ref \in [Threads -> Refs \cup {Nobody}]

\* No thread is in the object, or has a reference to it, once it is deleted
\* (epSmartObject.h:126-134).
NoUseAfterDelete ==
  ~allocated => Held = {} /\ \A t \in Threads : call[t] = "none"

\* What GetReferenceCount is about to return is the number of references
\* (epSmartObject.h:71-75).
CountReturnedExact ==
  \A t \in Threads : call[t] = "count" /\ at[t] = "unlock" => loaded[t] = Cardinality(Held)

\* The two assertions on the count hold, line 135 and line 202.
AssertionsHold ==
  \A t \in Threads : /\ at[t] = "test" => refCount >= 0
                     /\ at[t] = "free" => refCount = 0

\* An object nobody holds is never forgotten: while it is there, a thread is
\* about to find the count at 0 or is on its way to delete it, so no schedule of
\* the releases leaks it (epSmartObject.h:123-134).
LastReleaseDeletes ==
  Held = {} /\ allocated =>
    \E t \in Threads : \/ call[t] = "release" /\ at[t] = "test"
                       \/ call[t] \in {"dying", "destroy"}

\* The destructor deletes the lock itself: nobody has it then, not even the
\* thread that deletes, which left it on the early return of ReleaseObj before it
\* entered again, and nobody waits for it (epSmartObject.h:128-133, 196-207).
LockFreeAtEnd ==
  \A t \in Threads : at[t] = "free" =>
    lock = Nobody /\ \A u \in Threads : at[u] # "lock"

\* The threads in the object never all wait for its lock: the one that has it is
\* on its way to an Unlock, whatever the call (epSmartObject.h:71-75, 112-138).
SomeoneGoesOn ==
  (\E t \in Threads : call[t] # "none") =>
    \E t \in Threads : \/ at[t] \notin {"out", "lock"}
                       \/ at[t] = "lock" /\ lock \in {Nobody, t}

\* To the threads the counter is a reference-counted object whose calls take
\* effect in one step.
object == IF ~allocated THEN "gone" ELSE IF Held = {} THEN "doomed" ELSE "alive"
Promise == INSTANCE RefCounted
ImplementsRefCounted == Promise!Spec

\* When the last reference has been given up the object is deleted, whichever
\* threads released at the same time (epSmartObject.h:123-134).
DeletedAtLast == (Held = {}) ~> ~allocated
=============================================================================
