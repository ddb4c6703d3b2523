---------------------------- MODULE MCResultSet ----------------------------
(* Instances of ResultSet for TLC.                                         *)
EXTENDS ResultSet

\* No row, less than a batch, one batch exactly, one row more, and so on up
\* to three batches and a row, for batches of three.
MCTotals == 0 .. 10

\* A NULL in the first batch, and one in the second at another slot.
MCNullRows == {1, 5}

NoFaults == {}
Blocked == {"blocked"}
AnyFault == {"blocked", "partial"}
=============================================================================
