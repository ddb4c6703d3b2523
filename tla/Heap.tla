------------------------------- MODULE Heap -------------------------------
(***************************************************************************)
(* What releasing by ReleaseObj promises a client (epSmartObject.h:        *)
(* 106-138): an object lives exactly as long as the client can get at it,  *)
(* by a reference of its own or through objects that keep each other, and  *)
(* what is gone does not come back.  Nothing here counts.                  *)
(***************************************************************************)
CONSTANT Objects

VARIABLES
  used,    \* the objects that there are or have been
  roots,   \* those the client has a reference to
  keeps,   \* object -> the objects it keeps alive
  alive    \* the objects that there are

vars == <<used, roots, keeps, alive>>

\* The least set that has R and whatever its members keep.
Closed(S, k) == \A x \in S : k[x] \subseteq S
Reachable(R, k) ==
  {o \in Objects : \A S \in SUBSET Objects : R \subseteq S /\ Closed(S, k) => o \in S}

Init == /\ used = {} /\ roots = {} /\ alive = {}
        /\ keeps = [o \in Objects |-> {}]

\* Objects that are gone when the call that made them ends.
Pass(N) == /\ used' = used \cup N
           /\ UNCHANGED <<roots, keeps, alive>>

\* A new object for the client, with new ones that it keeps.
Create(o, N) == /\ used' = used \cup {o} \cup N
                /\ roots' = roots \cup {o}
                /\ keeps' = [keeps EXCEPT ![o] = N]
                /\ alive' = alive \cup {o} \cup N

\* A new object that one of those there are keeps.
Attach(x, o) == /\ x \in alive
                /\ used' = used \cup {o}
                /\ keeps' = [keeps EXCEPT ![x] = @ \cup {o}]
                /\ alive' = alive \cup {o}
                /\ UNCHANGED roots

\* The client takes a reference to an object that there is.
Take(o) == /\ o \in alive
           /\ roots' = roots \cup {o}
           /\ UNCHANGED <<used, keeps, alive>>

\* It gives up its last reference to one: all it cannot reach any more goes.
Drop(o) == /\ o \in roots
           /\ roots' = roots \ {o}
           /\ alive' = Reachable(roots', keeps)
           /\ keeps' = [x \in Objects |-> IF x \in alive' THEN keeps[x] ELSE {}]
           /\ UNCHANGED used

Unused == Objects \ used

Next == \/ \E N \in SUBSET Unused :
             Pass(N) \/ \E o \in Unused : Create(o, N)
        \/ \E x \in Objects, o \in Unused : Attach(x, o)
        \/ \E o \in Objects : Take(o) \/ Drop(o)

Spec == Init /\ [][Next]_vars
=============================================================================
