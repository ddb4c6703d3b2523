----------------------------- MODULE RowStream -----------------------------
(***************************************************************************)
(* What a ResultSet promises its client (epResultSet.h:62-99): the rows of *)
(* the query, one at a time, in order, none skipped and none repeated;     *)
(* Next answers TRUE exactly when it stands on another row, IsEod is the   *)
(* end of the data.  Nothing here knows of batches, buffers or fetches.    *)
(***************************************************************************)
EXTENDS Integers

CONSTANT Totals     \* how many rows a query may return

VARIABLES
  state,            \* "none" | "open"
  total,            \* rows of the open query
  at,               \* the current row; total stands for "past the last"
  cell,             \* the row a column read at this position belongs to
  eod               \* what IsEod answers

vars == <<state, total, at, cell, eod>>

NoCell == -1

Init == /\ state = "none"
        /\ total = 0
        /\ at = 0
        /\ cell = NoCell
        /\ eod = FALSE

\* The stream stands on row r of t; r = t is the end.
StandOn(r, t) == /\ at' = r
                 /\ cell' = IF r < t THEN r ELSE NoCell
                 /\ total' = t

\* A query is executed: the stream opens on its first row, if it has one.
Open(t) == /\ state = "none"
           /\ state' = "open"
           /\ StandOn(0, t)
           /\ eod' = (t = 0)

\* One row on; past the last row the end is reported.
Advance == /\ state = "open"
           /\ at < total
           /\ StandOn(at + 1, total)
           /\ eod' = (at + 1 = total)
           /\ UNCHANGED state

Close == /\ state = "open"
         /\ state' = "none"
         /\ StandOn(0, 0)
         /\ eod' = FALSE

Next == (\E t \in Totals : Open(t)) \/ Advance \/ Close

Spec == Init /\ [][Next]_vars
=============================================================================
