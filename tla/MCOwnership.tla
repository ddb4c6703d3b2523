---------------------------- MODULE MCOwnership ----------------------------
(* Instances of Ownership for TLC: a query and a block with cursors.       *)
EXTENDS Ownership, TLC

CONSTANTS q1, b1, c1, v1, r1, r2, n1

\* Two statements, a query and one with a cursor parameter.
MCStmts == {q1, b1}
MCSelects == {q1}

MCParams == {c1, v1}
MCCursors == {c1}
MCNames == {n1}
MCSets == {r1, r2}

NoFault == {}
BeforeMap == {"charset", "push"}

\* Result sets are interchangeable.
Interchangeable == Permutations(MCSets)
=============================================================================
