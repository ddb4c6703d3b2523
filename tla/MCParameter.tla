---------------------------- MODULE MCParameter ----------------------------
(* Texts around the size of a buffer of four characters and around the     *)
(* point where the length wraps, for TLC.                                  *)
EXTENDS Parameter

CONSTANTS a, b

\* One character, three (what fits), four (the buffer), five and fifteen (cut);
\* from sixteen on the length wraps: to nothing, to two, to the buffer.
MCLengths == {1, 3, 4, 5, 15, 16, 18, 20}
MCTexts == (MCLengths \X {a}) \cup ({2, 3} \X {b})
MCLength == [t \in MCTexts |-> t[1]]
MCValues == {<<"one">>, <<"two">>}
=============================================================================
