----------------------------- MODULE MCOraError -----------------------------
(* Two threads, on one connection or on one each, for TLC.                 *)
EXTENDS OraError

CONSTANTS t1, t2, c1, c2
=============================================================================
