----------------------------- MODULE RefCounted -----------------------------
(***************************************************************************)
(* What a shared object promises the threads that use it                   *)
(* (epSmartObject.h:71-75, 112-138): it lives as long as there is a reference to it *)
(* and is deleted once, after the last one has been given up.              *)
(***************************************************************************)
EXTENDS FiniteSets

CONSTANTS Threads, Refs, Nobody

VARIABLES
  holder,   \* reference -> the thread that holds it, or Nobody
  object    \* "alive" | "doomed" | "gone"
vars == <<holder, object>>

Held == {r \in Refs : holder[r] # Nobody}

Init == /\ \E t \in Threads, r \in Refs :
             holder = [x \in Refs |-> IF x = r THEN t ELSE Nobody]
        /\ object = "alive"

Retain(t, r) == /\ object = "alive" /\ \E x \in Refs : holder[x] = t
                /\ holder[r] = Nobody
                /\ holder' = [holder EXCEPT ![r] = t]
                /\ UNCHANGED object

HandOver(t, u, r) == /\ holder[r] = t
                     /\ holder' = [holder EXCEPT ![r] = u]
                     /\ UNCHANGED object

GiveUp(t, r) == /\ object = "alive" /\ holder[r] = t
                /\ holder' = [holder EXCEPT ![r] = Nobody]
                /\ object' = IF Held = {r} THEN "doomed" ELSE "alive"

Delete == /\ object = "doomed"
          /\ object' = "gone"
          /\ UNCHANGED holder

Next == \/ \E t \in Threads, r \in Refs :
             \/ Retain(t, r) \/ GiveUp(t, r)
             \/ \E u \in Threads : HandOver(t, u, r)
        \/ Delete

Spec == Init /\ [][Next]_vars
=============================================================================
