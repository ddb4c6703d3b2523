----------------------------- MODULE Parameter -----------------------------
(***************************************************************************)
(* One input and/or output value bound by name (epParameter.cpp): what     *)
(* assigning, executing and reading make of its buffer.  A text is a       *)
(* member of Texts, its i-th character the pair <<text, i>>.  The build    *)
(* is the Unicode one: lengths are counted in characters of two bytes, of  *)
(* which the code's lengths in bytes are the even multiples.               *)
(***************************************************************************)
EXTENDS Integers

CONSTANTS
  Texts,      \* texts that are not empty
  Length,     \* their lengths
  Values,     \* numbers and dates
  Units,      \* m_size of a text: MAX_OUTPUT_TEXT_BYTES / 2
  UShortSpan  \* how many lengths an unsigned short tells apart: 65536 / 2

ASSUME ParameterAssumption ==
  /\ Units \in Nat \ {0} /\ UShortSpan \in Nat /\ UShortSpan > Units + 1
  /\ Length \in [Texts -> Nat \ {0}]

End == <<"end">>       \* the terminator
Garbage == <<"garbage">>  \* a cell nobody has written
Nothing == <<"nothing">>
NoText == [text |-> Nothing, got |-> <<>>]
Cells == 0 .. Units - 1
Characters == {<<t, i>> : t \in Texts, i \in Cells}

VARIABLES
  paramType,  \* m_paramType: "text" or "fixed", which is a number or a date
  indicator,  \* m_indicator: "ok" | "null"
  dataLen,    \* m_dataLen of a text, in characters
  buffer,     \* m_fetchBuffer of a text
  value,      \* m_fetchBuffer of a number or a date
  stored,     \* history: what the client or the server stored last, or Nothing
  sent,       \* history: the text the last execution sent, and what of it
  beyond      \* history: the texts whose terminator was put past the buffer

vars == <<paramType, indicator, dataLen, buffer, value, stored, sent, beyond>>

\* The constructor: attach, setupType and bind.
Init == /\ paramType \in {"text", "fixed"}
        /\ indicator = "null"
        /\ dataLen = Units
        /\ buffer = [i \in Cells |-> IF i = 0 THEN End ELSE Garbage]
        /\ value = Nothing /\ stored = Nothing /\ sent = NoText
        /\ beyond = {}

-----------------------------------------------------------------------------
(* Assignment.                                                             *)

\* How many characters of a text are copied: the length as the unsigned short
\* has it, cut to leave room for the terminator if it is above the size.
\* (Mutants: the cut forgets the terminator; nothing is cut; characters are
\* counted as bytes.)
KeptNoRoom(t) ==
  LET len == Length[t] % UShortSpan IN IF len > Units THEN Units ELSE len
KeptUncut(t) == Length[t] % UShortSpan
KeptHalf(t) ==
  LET len == (Length[t] \div 2) % UShortSpan IN IF len > Units THEN Units - 1 ELSE len
Kept(t) ==
  LET len == Length[t] % UShortSpan IN IF len > Units THEN Units - 1 ELSE len

\* What the buffer holds after n characters of t and a terminator.
\* (Mutant: no terminator is written.)
FilledPlain(t, n) == [i \in Cells |-> IF i < n THEN <<t, i>> ELSE buffer[i]]
Filled(t, n) ==
  [i \in Cells |-> IF i < n THEN <<t, i>> ELSE IF i = n THEN End ELSE buffer[i]]

\* operator = of a text that is not empty.
\* (Mutant: the length of the value before is kept.)
AssignTextSameLength(t) ==
  /\ paramType = "text"
  /\ buffer' = Filled(t, Kept(t))
  /\ beyond' = IF Kept(t) = Units THEN beyond \cup {t} ELSE beyond
  /\ indicator' = "ok"
  /\ stored' = t
  /\ UNCHANGED <<paramType, dataLen, value, sent>>
AssignText(t) ==
  /\ paramType = "text"
  /\ buffer' = Filled(t, Kept(t))
  /\ beyond' = IF Kept(t) = Units THEN beyond \cup {t} ELSE beyond
  /\ dataLen' = Kept(t) + 1
  /\ indicator' = "ok"
  /\ stored' = t
  /\ UNCHANGED <<paramType, value, sent>>

\* operator = of an empty text, of whatever type the parameter is, and ToNull.
AssignNull ==
  /\ indicator' = "null"
  /\ stored' = Nothing
  /\ UNCHANGED <<paramType, dataLen, buffer, value, sent, beyond>>

\* operator = of a number or of a DateTime.
AssignValue(v) ==
  /\ paramType = "fixed"
  /\ value' = v
  /\ indicator' = "ok"
  /\ stored' = v
  /\ UNCHANGED <<paramType, dataLen, buffer, sent, beyond>>

\* A conversion that fails throws before the indicator; what it leaves in the
\* buffer is not said.
AssignThrows ==
  /\ paramType = "fixed"
  /\ value' = Garbage
  /\ UNCHANGED <<paramType, indicator, dataLen, buffer, stored, sent, beyond>>

-----------------------------------------------------------------------------
(* Execution.  The server takes the value in and may put another one out.  *)

\* A null-terminated text of at most dataLen characters: cell n ends it.
Ends(n) == n \in {Units, dataLen} \/ buffer[n] = End
EndsAt(n) == Ends(n) /\ \A i \in Cells : i < n => ~Ends(i)
Takes == IF paramType = "text" /\ indicator = "ok"
         THEN LET n == CHOOSE n \in 0 .. Units : EndsAt(n)
              IN  sent' = [text |-> stored, got |-> [i \in 0 .. n - 1 |-> buffer[i]]]
         ELSE sent' = NoText

Input == Takes /\ UNCHANGED <<paramType, indicator, dataLen, buffer, value, stored, beyond>>

\* A text put out is cut to leave room for its terminator; its length is
\* reported with or without it.
OutputText(t) ==
  LET n == IF Length[t] < Units THEN Length[t] ELSE Units - 1
  IN  /\ paramType = "text"
      /\ Takes
      /\ buffer' = Filled(t, n)
      /\ dataLen' \in {n, n + 1}
      /\ indicator' = "ok"
      /\ stored' = t
      /\ UNCHANGED <<paramType, value, beyond>>

OutputValue(v) ==
  /\ paramType = "fixed"
  /\ Takes
  /\ value' = v
  /\ indicator' = "ok"
  /\ stored' = v
  /\ UNCHANGED <<paramType, dataLen, buffer, beyond>>

OutputNull ==
  /\ Takes
  /\ indicator' = "null"
  /\ dataLen' \in {0, dataLen}
  /\ stored' = Nothing
  /\ UNCHANGED <<paramType, buffer, value, beyond>>

Next == \/ \E t \in Texts : AssignText(t) \/ OutputText(t)
        \/ \E v \in Values : AssignValue(v) \/ OutputValue(v)
        \/ AssignNull \/ AssignThrows \/ Input \/ OutputNull

Spec == Init /\ [][Next]_vars

-----------------------------------------------------------------------------
(* Reading.                                                                *)

\* ToString returns the first n characters of t.
Shows(t, n) == /\ n \in Cells /\ buffer[n] = End
               /\ \A i \in Cells : i < n => buffer[i] = <<t, i>>

\* The texts whose length, as the unsigned short has it, is the buffer's.
Full(t) == Length[t] % UShortSpan = Units

\* Every variable has its type.
TypeOK ==
  /\ paramType \in {"text", "fixed"}
  /\ indicator \in {"ok", "null"}
  /\ dataLen \in 0 .. Units + 1
  /\ buffer \in [Cells -> Characters \cup {End, Garbage}]
  /\ value \in Values \cup {Nothing, Garbage}
  /\ stored \in Texts \cup Values \cup {Nothing}
  /\ beyond \subseteq Texts

\* A text that leaves room for its terminator is read back whole, whatever was
\* stored before it (epParameter.cpp:241-272, 324-332); so is a number or a
\* date, unless an assignment failed since.
ReadsBackWhatFits ==
  indicator = "ok" =>
    IF paramType = "text" THEN Length[stored] < Units => Shows(stored, Length[stored])
                          ELSE value \in {stored, Garbage}

\* A longer text is cut, but what is read is never a mixture of two and ends
\* inside the buffer, unless its length is exactly the buffer's.
NeverMixes ==
  indicator = "ok" /\ paramType = "text" =>
    Full(stored) \/ \E n \in Cells : n <= Length[stored] /\ Shows(stored, n)

\* Only a text of exactly the buffer's length puts its terminator past it
\* (epParameter.cpp:256-262).
StaysInside == \A t \in beyond : Full(t)

\* What the client stores is what the next execution sends, if it fits: length,
\* terminator and indicator say the same (epParameter.cpp:251-267).
SendsWhatFits ==
  sent # NoText /\ Length[sent.text] < Units =>
    sent.got = [i \in 0 .. Length[sent.text] - 1 |-> <<sent.text, i>>]
=============================================================================
