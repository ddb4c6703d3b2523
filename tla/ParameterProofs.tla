-------------------------- MODULE ParameterProofs --------------------------
(***************************************************************************)
(* Proofs about Parameter for buffers and unsigned shorts of any size and  *)
(* any set of texts.                                                       *)
(***************************************************************************)
EXTENDS Parameter, TLAPS

\* Division with remainder, and a number below the divisor.
LEMMA Remainder ==
  ASSUME NEW l \in Nat, NEW d \in Nat \ {0}
  PROVE  /\ (l % d) \in 0 .. d - 1
         /\ (l % d) <= l
         /\ l < d => (l % d) = l
<1>1. (l % d) \in 0 .. d - 1 /\ l \div d \in Nat /\ l = d * (l \div d) + (l % d)
  OBVIOUS
<1>2. d * (l \div d) >= 0
  BY <1>1
<1>3. l < d => (l % d) = l
  OBVIOUS
<1> QED
  BY <1>1, <1>2, <1>3

\* A length as the unsigned short has it; one that the buffer has room for is
\* not changed.
LEMMA Narrowed ==
  ASSUME NEW t \in Texts
  PROVE  /\ Length[t] \in Nat \ {0}
         /\ (Length[t] % UShortSpan) \in 0 .. UShortSpan - 1
         /\ (Length[t] % UShortSpan) <= Length[t]
         /\ Length[t] < Units => (Length[t] % UShortSpan) = Length[t]
<1>1. /\ Length[t] \in Nat \ {0} /\ Units \in Nat \ {0}
      /\ UShortSpan \in Nat \ {0} /\ UShortSpan > Units + 1
  BY ParameterAssumption
<1>2. Length[t] < Units => Length[t] < UShortSpan
  BY <1>1
<1> QED
  BY <1>1, <1>2, Remainder

\* What is copied of a text is no more than it has, fits but for the texts of
\* exactly the buffer's length, and is all of it if it fits.
LEMMA KeptIs ==
  ASSUME NEW t \in Texts
  PROVE  /\ Kept(t) \in 0 .. Units
         /\ Kept(t) <= Length[t]
         /\ Kept(t) = Units <=> Full(t)
         /\ Length[t] < Units => Kept(t) = Length[t] /\ ~Full(t)
<1> DEFINE n == Length[t] % UShortSpan
<1>1. /\ Length[t] \in Nat \ {0} /\ n \in 0 .. UShortSpan - 1 /\ n <= Length[t]
      /\ Length[t] < Units => n = Length[t]
  BY Narrowed
<1>2. Units \in Nat \ {0} /\ UShortSpan \in Nat
  BY ParameterAssumption
<1>3. Kept(t) = (IF n > Units THEN Units - 1 ELSE n) /\ (Full(t) <=> n = Units)
  BY DEF Kept, Full
<1> HIDE DEF n
<1> QED
  BY <1>1, <1>2, <1>3

\* A character is neither the terminator nor a cell nobody has written.
LEMMA CharactersDiffer ==
  ASSUME NEW t, NEW i
  PROVE  <<t, i>> # End /\ <<t, i>> # Garbage
BY DEF End, Garbage

\* The terminator is a thing of its own.
LEMMA EndIs == End # Garbage
BY DEF End, Garbage

-----------------------------------------------------------------------------
(* The inductive invariant.                                                *)

\* The cells hold characters of texts, the terminator or nothing written.
Typed == /\ TypeOK
         /\ paramType = "text" => stored \in Texts \cup {Nothing}
         /\ indicator = "ok" /\ paramType = "text" => stored \in Texts

\* What the buffer holds of the text stored last, and how its length says so:
\* without the second line a cut text would be sent up to a cell of another.
HoldsStored ==
  indicator = "ok" /\ paramType = "text" /\ ~Full(stored) =>
    \E n \in Cells : /\ Shows(stored, n)
                     /\ dataLen \in {n, n + 1}
                     /\ n <= Length[stored]
                     /\ Length[stored] < Units => n = Length[stored]

\* A number or a date is what was stored last.
KeepsValue ==
  indicator = "ok" /\ paramType = "fixed" => value \in {stored, Garbage}

ParameterInv == Typed /\ HoldsStored /\ KeepsValue /\ StaysInside /\ SendsWhatFits

-----------------------------------------------------------------------------
(* Filling the buffer.                                                     *)

\* The buffer after n characters of t has the terminator behind them.
LEMMA FilledShows ==
  ASSUME NEW t, NEW n \in Cells, buffer' = Filled(t, n)
  PROVE  Shows(t, n)'
<1>1. n \in Cells /\ ~(n < n) /\ \A i \in Cells : i \in Nat
  BY ParameterAssumption DEF Cells
<1>2. buffer'[n] = End
  BY <1>1 DEF Filled
<1>3. \A i \in Cells : i < n => buffer'[i] = <<t, i>>
  BY <1>1 DEF Filled
<1> QED
  BY <1>1, <1>2, <1>3 DEF Shows

\* Filling keeps the buffer's cells cells.
LEMMA FilledType ==
  ASSUME TypeOK, NEW t \in Texts, NEW n \in 0 .. Units
  PROVE  Filled(t, n) \in [Cells -> Characters \cup {End, Garbage}]
<1>1. \A i \in Cells : /\ <<t, i>> \in Characters
                       /\ buffer[i] \in Characters \cup {End, Garbage}
  BY DEF Characters, TypeOK
<1> QED
  BY <1>1 DEF Filled

\* The server takes what the buffer shows.
LEMMA TakesShown ==
  ASSUME Typed, indicator = "ok", paramType = "text", Takes,
         NEW n \in Cells, Shows(stored, n), dataLen \in {n, n + 1}
  PROVE  sent' = [text |-> stored, got |-> [i \in 0 .. n - 1 |-> <<stored, i>>]]
<1>1. n \in 0 .. Units /\ Units \in Nat /\ n < Units /\ Cells = 0 .. Units - 1
  BY ParameterAssumption DEF Cells
<1>2. EndsAt(n)
  <2>1. Ends(n)
    BY DEF Ends, Shows
  <2>2. ASSUME NEW i \in Cells, i < n
        PROVE  ~Ends(i)
    <3>1. buffer[i] = <<stored, i>>
      BY <2>2 DEF Shows
    <3>2. buffer[i] # End
      BY <3>1, CharactersDiffer
    <3>3. i # Units /\ i # dataLen
      BY <1>1, <2>2
    <3> QED
      BY <3>2, <3>3 DEF Ends
  <2> QED
    BY <2>1, <2>2 DEF EndsAt
<1>3. ASSUME NEW k \in 0 .. Units, EndsAt(k)
      PROVE  k = n
  <2>1. k < n => k \in Cells /\ Ends(k)
    BY <1>1, <1>3 DEF EndsAt
  <2>2. ~(k < n)
    BY <2>1, <1>2 DEF EndsAt
  <2>3. ~(n < k)
    BY <1>1, <1>2, <1>3 DEF EndsAt
  <2> QED
    BY <1>1, <2>2, <2>3
<1>4. (CHOOSE k \in 0 .. Units : EndsAt(k)) = n
  BY <1>1, <1>2, <1>3
<1>5. sent' = [text |-> stored, got |-> [i \in 0 .. n - 1 |-> buffer[i]]]
  BY <1>4 DEF Takes
<1>6. \A i \in 0 .. n - 1 : buffer[i] = <<stored, i>>
  BY <1>1 DEF Shows
<1> QED
  BY <1>5, <1>6

\* An execution sends what was stored, if it fits.
LEMMA TakesSends ==
  ASSUME ParameterInv, Takes
  PROVE  SendsWhatFits'
<1>1. CASE ~(paramType = "text" /\ indicator = "ok")
  BY <1>1 DEF Takes, SendsWhatFits
<1>2. CASE paramType = "text" /\ indicator = "ok" /\ Full(stored)
  <2>1. stored \in Texts
    BY <1>2 DEF ParameterInv, Typed
  <2>2. ~(Length[stored] < Units)
    BY <1>2, <2>1, KeptIs
  <2>3. sent'.text = stored
    BY <1>2 DEF Takes
  <2> QED
    BY <2>2, <2>3 DEF SendsWhatFits
<1>3. CASE paramType = "text" /\ indicator = "ok" /\ ~Full(stored)
  <2>1. PICK n \in Cells : /\ Shows(stored, n)
                           /\ dataLen \in {n, n + 1}
                           /\ Length[stored] < Units => n = Length[stored]
    BY <1>3 DEF ParameterInv, HoldsStored
  <2>2. sent' = [text |-> stored, got |-> [i \in 0 .. n - 1 |-> <<stored, i>>]]
    BY <1>3, <2>1, TakesShown DEF ParameterInv
  <2> QED
    BY <2>1, <2>2 DEF SendsWhatFits
<1> QED
  BY <1>1, <1>2, <1>3

-----------------------------------------------------------------------------
(* Steps.                                                                  *)

\* A buffer that is just bound.
LEMMA ParameterInit == Init => ParameterInv
<1> SUFFICES ASSUME Init PROVE ParameterInv
  OBVIOUS
<1>1. Units \in Nat \ {0}
  BY ParameterAssumption
<1>2. TypeOK
  BY <1>1 DEF Init, TypeOK
<1> QED
  BY <1>2 DEF Init, ParameterInv, Typed, HoldsStored, KeepsValue, StaysInside, SendsWhatFits

\* Storing a text, whether the client assigns it or the server puts it out.
LEMMA StoringText ==
  ASSUME ParameterInv, NEW t \in Texts, NEW n \in 0 .. Units,
         paramType = "text", paramType' = paramType, indicator' = "ok",
         stored' = t, value' = value, buffer' = Filled(t, n),
         dataLen' \in {n, n + 1}, n <= Length[t],
         ~Full(t) => n < Units, Length[t] < Units => n = Length[t],
         beyond' = beyond \/ (Full(t) /\ beyond' = beyond \cup {t}),
         SendsWhatFits'
  PROVE  ParameterInv'
<1>1. Units \in Nat \ {0}
  BY ParameterAssumption
<1>2. Typed'
  <2>1. buffer' \in [Cells -> Characters \cup {End, Garbage}]
    BY FilledType DEF ParameterInv, Typed
  <2>2. dataLen' \in 0 .. Units + 1
    BY <1>1
  <2>3. beyond' \subseteq Texts /\ value' \in Values \cup {Nothing, Garbage}
    BY DEF ParameterInv, Typed, TypeOK
  <2> QED
    BY <2>1, <2>2, <2>3 DEF Typed, TypeOK
<1>3. HoldsStored'
  <2> SUFFICES ASSUME ~Full(t)
               PROVE  \E k \in Cells : /\ Shows(t, k)'
                                       /\ dataLen' \in {k, k + 1}
                                       /\ k <= Length[t]
                                       /\ Length[t] < Units => k = Length[t]
    BY DEF HoldsStored, Shows, Full
  <2>1. n \in Cells
    BY <1>1 DEF Cells
  <2>2. Shows(t, n)'
    BY <2>1, FilledShows
  <2> QED
    BY <2>1, <2>2
<1>4. KeepsValue' /\ StaysInside'
  BY DEF KeepsValue, StaysInside, ParameterInv, Full
<1> QED
  BY <1>2, <1>3, <1>4 DEF ParameterInv

\* AssignText.
LEMMA AssignTextKeeps ==
  ASSUME ParameterInv, NEW t \in Texts, AssignText(t)
  PROVE  ParameterInv'
<1> DEFINE n == Kept(t)
<1>1. /\ n \in 0 .. Units /\ n <= Length[t] /\ (n = Units <=> Full(t))
      /\ Length[t] < Units => n = Length[t]
  BY KeptIs
<1>2. Units \in Nat
  BY ParameterAssumption
<1>3. /\ paramType = "text" /\ paramType' = paramType /\ indicator' = "ok"
      /\ stored' = t /\ value' = value /\ sent' = sent
      /\ buffer' = Filled(t, n) /\ dataLen' = n + 1
      /\ beyond' = IF n = Units THEN beyond \cup {t} ELSE beyond
  BY DEF AssignText
<1>4. SendsWhatFits'
  BY <1>3 DEF ParameterInv, SendsWhatFits
<1> HIDE DEF n
<1>5. ~Full(t) => n < Units
  BY <1>1, <1>2
<1>6. beyond' = beyond \/ (Full(t) /\ beyond' = beyond \cup {t})
  BY <1>1, <1>3
<1> QED
  BY <1>1, <1>3, <1>4, <1>5, <1>6, StoringText

\* OutputText.
LEMMA OutputTextKeeps ==
  ASSUME ParameterInv, NEW t \in Texts, OutputText(t)
  PROVE  ParameterInv'
<1> DEFINE n == IF Length[t] < Units THEN Length[t] ELSE Units - 1
<1>1. Units \in Nat \ {0} /\ Length[t] \in Nat \ {0}
  BY ParameterAssumption
<1>2. /\ paramType = "text" /\ paramType' = paramType /\ indicator' = "ok"
      /\ stored' = t /\ value' = value /\ beyond' = beyond /\ Takes
      /\ buffer' = Filled(t, n) /\ dataLen' \in {n, n + 1}
  BY DEF OutputText
<1>3. SendsWhatFits'
  BY <1>2, TakesSends
<1>4. /\ n \in 0 .. Units /\ n <= Length[t] /\ n < Units
      /\ Length[t] < Units => n = Length[t]
  BY <1>1
<1> HIDE DEF n
<1> QED
  BY <1>2, <1>3, <1>4, StoringText

\* The steps that leave a text's buffer alone.
LEMMA OthersKeep ==
  ASSUME ParameterInv,
         \/ \E v \in Values : AssignValue(v) \/ OutputValue(v)
         \/ AssignNull \/ AssignThrows \/ Input \/ OutputNull
  PROVE  ParameterInv'
<1>1. SendsWhatFits'
  <2>1. CASE Takes
    BY <2>1, TakesSends
  <2>2. CASE sent' = sent
    BY <2>2 DEF ParameterInv, SendsWhatFits
  <2> QED
    BY <2>1, <2>2 DEF AssignValue, OutputValue, AssignNull, AssignThrows, Input, OutputNull
<1>2. /\ paramType' = paramType /\ buffer' = buffer /\ beyond' = beyond
      /\ dataLen' = dataLen \/ (dataLen' = 0 /\ indicator' = "null")
      /\ indicator' \in {"ok", "null"} /\ value' \in Values \cup {Nothing, Garbage}
  BY DEF ParameterInv, Typed, TypeOK, AssignValue, OutputValue, AssignNull,
         AssignThrows, Input, OutputNull
<1>3. CASE paramType = "text"
  <2>1. \/ stored' = stored /\ indicator' = indicator /\ dataLen' = dataLen
        \/ stored' = Nothing /\ indicator' = "null"
    BY <1>3 DEF AssignValue, OutputValue, AssignNull, AssignThrows, Input, OutputNull
  <2>2. Units \in Nat
    BY ParameterAssumption
  <2>3. Typed'
    BY <1>2, <1>3, <2>1, <2>2 DEF ParameterInv, Typed, TypeOK
  <2>4. HoldsStored'
    <3>1. CASE indicator' = "null"
      BY <3>1 DEF HoldsStored
    <3>2. CASE stored' = stored /\ indicator' = indicator /\ dataLen' = dataLen
      BY <1>2, <3>2 DEF HoldsStored, ParameterInv, Shows, Full
    <3> QED
      BY <2>1, <3>1, <3>2
  <2> QED
    BY <1>1, <1>2, <1>3, <2>3, <2>4 DEF ParameterInv, KeepsValue, StaysInside, Full
<1>4. CASE paramType = "fixed"
  <2>1. /\ stored' \in Texts \cup Values \cup {Nothing}
        /\ indicator' = "ok" => value' \in {stored', Garbage}
    <3>1. CASE \E v \in Values : AssignValue(v) \/ OutputValue(v)
      BY <3>1 DEF AssignValue, OutputValue
    <3>2. CASE AssignNull \/ OutputNull
      BY <3>2 DEF AssignNull, OutputNull
    <3>3. CASE AssignThrows
      BY <3>3 DEF ParameterInv, Typed, TypeOK, AssignThrows
    <3>4. CASE Input
      BY <1>4, <3>4 DEF ParameterInv, Typed, TypeOK, KeepsValue, Input
    <3> QED
      BY <3>1, <3>2, <3>3, <3>4
  <2>2. Units \in Nat
    BY ParameterAssumption
  <2>3. Typed'
    BY <1>2, <1>4, <2>1, <2>2 DEF ParameterInv, Typed, TypeOK
  <2> QED
    BY <1>1, <1>2, <1>4, <2>1, <2>3
    DEF ParameterInv, HoldsStored, KeepsValue, StaysInside, Full
<1> QED
  BY <1>3, <1>4 DEF ParameterInv, Typed, TypeOK

\* Every step keeps the invariant.
LEMMA ParameterNext == ParameterInv /\ [Next]_vars => ParameterInv'
<1> SUFFICES ASSUME ParameterInv, [Next]_vars PROVE ParameterInv'
  OBVIOUS
<1>1. CASE UNCHANGED vars
  BY <1>1 DEF vars, ParameterInv, Typed, TypeOK, HoldsStored, KeepsValue,
              StaysInside, SendsWhatFits, Shows, Full
<1>2. CASE Next
  BY <1>2, AssignTextKeeps, OutputTextKeeps, OthersKeep DEF Next
<1> QED
  BY <1>1, <1>2

\* The invariant holds throughout.
LEMMA ParameterAlways == Spec => []ParameterInv
BY ParameterInit, ParameterNext, PTL DEF Spec

-----------------------------------------------------------------------------
(* The theorems.                                                           *)

\* The types, for any size of the buffer: the length bound beside the buffer is
\* never more than its characters and one.
THEOREM ParameterTypes == Spec => []TypeOK
<1>1. ParameterInv => TypeOK
  BY DEF ParameterInv, Typed
<1> QED
  BY <1>1, ParameterAlways, PTL

\* A text that leaves room for its terminator is read back whole, a number or a
\* date as it was stored (epParameter.cpp:241-332).
THEOREM ReadBackCorrect == Spec => []ReadsBackWhatFits
<1>1. ParameterInv => ReadsBackWhatFits
  <2> SUFFICES ASSUME ParameterInv, indicator = "ok"
               PROVE  IF paramType = "text"
                      THEN Length[stored] < Units => Shows(stored, Length[stored])
                      ELSE value \in {stored, Garbage}
    BY DEF ReadsBackWhatFits
  <2>1. CASE paramType = "text"
    <3>1. stored \in Texts
      BY <2>1 DEF ParameterInv, Typed
    <3>2. Length[stored] < Units => ~Full(stored)
      BY <3>1, KeptIs
    <3> QED
      BY <2>1, <3>2 DEF ParameterInv, HoldsStored
  <2>2. CASE paramType # "text"
    BY <2>2 DEF ParameterInv, Typed, TypeOK, KeepsValue
  <2> QED
    BY <2>1, <2>2
<1> QED
  BY <1>1, ParameterAlways, PTL

\* What is read is never a mixture of two texts (epParameter.cpp:255-259).
THEOREM NoMixture == Spec => []NeverMixes
<1>1. ParameterInv => NeverMixes
  BY DEF ParameterInv, HoldsStored, NeverMixes
<1> QED
  BY <1>1, ParameterAlways, PTL

\* Only a text of exactly the buffer's length puts its terminator past it
\* (epParameter.cpp:256-262).
THEOREM TerminatorInside == Spec => []StaysInside
<1>1. ParameterInv => StaysInside
  BY DEF ParameterInv
<1> QED
  BY <1>1, ParameterAlways, PTL

\* An execution sends what was stored, if it fits (epParameter.cpp:251-267).
THEOREM SendingCorrect == Spec => []SendsWhatFits
<1>1. ParameterInv => SendsWhatFits
  BY DEF ParameterInv
<1> QED
  BY <1>1, ParameterAlways, PTL
=============================================================================
