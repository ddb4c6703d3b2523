--------------------------- MODULE MCConnection ---------------------------
(* Instances of Connection for TLC: what may go wrong in Open.             *)
EXTENDS Connection

AnyStage == Stages

\* The user or the password is refused by OCISessionBegin.
LoginRefused == {8}
=============================================================================
