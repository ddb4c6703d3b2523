-------------------------- MODULE ResultSetProofs --------------------------
(***************************************************************************)
(* Proofs about ResultSet for every query, every batch size and any number *)
(* of calls.                                                               *)
(***************************************************************************)
EXTENDS ResultSet, TLAPS

-----------------------------------------------------------------------------
(* Arithmetic of the slots.                                                *)

\* Division with remainder, as the readers' m_currentRow % m_fetchCount uses it.
LEMMA DivMod ==
  ASSUME NEW a \in Nat, NEW d \in Nat \ {0}
  PROVE  /\ a % d \in 0 .. d - 1
         /\ a \div d \in Nat
         /\ a = d * (a \div d) + (a % d)
OBVIOUS

\* A multiple of d that is not zero or negative is at least d.
LEMMA Multiple ==
  ASSUME NEW d \in Nat \ {0}, NEW k \in Int, k >= 1
  PROVE  d * k >= d
OBVIOUS

\* Remainders repeat after d: the same slot serves the same place of the
\* next batch.
LEMMA ModPeriod ==
  ASSUME NEW a \in Nat, NEW d \in Nat \ {0}
  PROVE  (a + d) % d = a % d
<1> DEFINE k == a \div d
           l == (a + d) \div d
           r == a % d
           s == (a + d) % d
<1>1. a + d \in Nat
  OBVIOUS
<1>2. k \in Nat /\ r \in 0 .. d - 1 /\ a = d * k + r
  BY DivMod
<1>3. l \in Nat /\ s \in 0 .. d - 1 /\ a + d = d * l + s
  BY <1>1, DivMod
<1> HIDE DEF k, l, r, s
<1>4. d * (l - k - 1) = r - s /\ d * (k + 1 - l) = s - r
  BY <1>2, <1>3
<1>5. ~(l - k - 1 >= 1) /\ ~(k + 1 - l >= 1)
  BY <1>2, <1>3, <1>4, Multiple
<1>6. l = k + 1
  BY <1>2, <1>3, <1>5
<1>7. r = s
  BY <1>2, <1>3, <1>4, <1>6
<1> QED
  BY <1>7 DEF r, s

\* A number below d is its own remainder: the first batch starts at slot 0.
LEMMA ModSmall ==
  ASSUME NEW d \in Nat \ {0}, NEW a \in 0 .. d - 1
  PROVE  a % d = a
OBVIOUS

\* The rows asked of a fetch are a positive number (epResultSet.cpp:95).
LEMMA FetchCountType == FetchCount \in Nat \ {0}
BY ResultSetAssumption, DivMod DEF FetchCount

\* The row numbers at which a batch may begin: slot i holds row b + i.
Bases == {b \in Nat : \A i \in Slots : SlotOf(b + i) = i}

\* The first batch is in step with the slots.
LEMMA FirstBase == 0 \in Bases
BY FetchCountType, ModSmall DEF Bases, Slots, SlotOf

\* So is the batch after a full one (epColumn.cpp:149, epResultSet.cpp:232).
LEMMA NextBase ==
  ASSUME NEW b \in Bases
  PROVE  b + FetchCount \in Bases
<1>1. b \in Nat /\ b + FetchCount \in Nat
  BY FetchCountType DEF Bases
<1>2. ASSUME NEW i \in Slots
      PROVE  SlotOf((b + FetchCount) + i) = i
  <2>1. i \in Nat /\ b + i \in Nat /\ (b + FetchCount) + i = (b + i) + FetchCount
    BY <1>1, FetchCountType DEF Slots
  <2>2. ((b + i) + FetchCount) % FetchCount = (b + i) % FetchCount
    BY <2>1, FetchCountType, ModPeriod
  <2>3. (b + i) % FetchCount = i
    BY <1>2 DEF Bases, SlotOf
  <2> QED
    BY <2>1, <2>2, <2>3 DEF SlotOf
<1> QED
  BY <1>1, <1>2 DEF Bases

-----------------------------------------------------------------------------
(* Types.                                                                  *)

\* What OCIStmtFetch can deliver is bounded by the batch and by the rows left.
LEMMA DeliveredType ==
  ASSUME NEW t \in Nat, NEW from \in Nat, from <= t
  PROVE  /\ Delivered(t, from) \in 0 .. FetchCount
         /\ from + Delivered(t, from) <= t
         /\ Delivered(t, from) < FetchCount => from + Delivered(t, from) = t
BY FetchCountType DEF Delivered, Least

\* A fetch leaves rows in the slots.
LEMMA FillType ==
  ASSUME NEW buf \in [Slots -> Nat \cup {Unwritten}], NEW from \in Nat, NEW n \in Nat
  PROVE  Fill(buf, from, n) \in [Slots -> Nat \cup {Unwritten}]
BY FetchCountType DEF Fill, Slots

\* Every row has a slot (epColumn.cpp:149).
LEMMA SlotOfType ==
  ASSUME NEW row \in Nat
  PROVE  SlotOf(row) \in Slots
BY FetchCountType, DivMod DEF SlotOf, Slots

\* The types, and that the server never served more rows than there are.
TypeInv == TypeOK /\ served <= total

\* What a call returned has the type of the history.
LEMMA CallType ==
  ASSUME NEW name \in {"none", "Select", "Next", "Read"},
         NEW result \in {"none", "opened", "true", "false", "value", "threw"}
  PROVE  Call(name, result) \in
           [call : {"none", "Select", "Next", "Read"},
            result : {"none", "opened", "true", "false", "value", "threw"},
            row : Nat \cup {Unwritten}]
BY DEF Call

\* Showing the current row keeps the type of the history.
LEMMA ShowType ==
  ASSUME presented \subseteq Nat \cup {Unwritten},
         currentRow' \in Nat,
         slot' \in [Slots -> Nat \cup {Unwritten}],
         Show
  PROVE  presented' \subseteq Nat \cup {Unwritten}
BY SlotOfType DEF Show

\* The buffers before any fetch have their type (epColumn.cpp:89-96).
LEMMA EmptySlots == [i \in Slots |-> Unwritten] \in [Slots -> Nat \cup {Unwritten}]
OBVIOUS

\* Before Select every variable has its type (epResultSet.cpp:61-72).
LEMMA TypeInit == Init => TypeInv
<1> SUFFICES ASSUME Init
             PROVE  TypeInv
  OBVIOUS
<1>1. slot \in [Slots -> Nat \cup {Unwritten}]
  BY EmptySlots DEF Init
<1>2. answer \in [call : {"none", "Select", "Next", "Read"},
                  result : {"none", "opened", "true", "false", "value", "threw"},
                  row : Nat \cup {Unwritten}]
  BY CallType DEF Init
<1>3. presented \subseteq Nat \cup {Unwritten}
  BY DEF Init
<1>4. state \in {"none", "open"} /\ isEod \in BOOLEAN
  BY DEF Init
<1>5. total \in Nat /\ served \in Nat /\ rowsFetched \in Nat /\ currentRow \in Nat
  BY DEF Init
<1>6. served <= total
  BY DEF Init
<1> QED
  BY <1>1, <1>2, <1>3, <1>4, <1>5, <1>6 DEF TypeInv, TypeOK

\* Every call keeps every variable in its type, whatever OCIStmtFetch answers
\* (epResultSet.cpp:225-258, epColumn.cpp:145-219).
LEMMA TypeStep == TypeInv /\ [Next]_vars => TypeInv'
<1> SUFFICES ASSUME TypeInv, [Next]_vars
             PROVE  TypeInv'
  OBVIOUS
<1> USE DEF TypeInv, TypeOK
<1>1. ASSUME NEW t \in Totals, Select(t)
      PROVE  TypeInv'
  <2>1. t \in Nat /\ Delivered(t, 0) \in Nat /\ Delivered(t, 0) <= t
    BY ResultSetAssumption, DeliveredType, FetchCountType
  <2>2. slot' \in [Slots -> Nat \cup {Unwritten}]
    BY <1>1, <2>1, FillType DEF Select
  <2>3. presented' \subseteq Nat \cup {Unwritten}
    BY <1>1, <2>2, ShowType DEF Select
  <2>4. answer' \in [call : {"none", "Select", "Next", "Read"},
                     result : {"none", "opened", "true", "false", "value", "threw"},
                     row : Nat \cup {Unwritten}]
    BY <1>1, CallType DEF Select
  <2> QED
    BY <1>1, <2>1, <2>2, <2>3, <2>4 DEF Select, EodAfter
<1>2. CASE SelectThrows
  BY <1>2, CallType DEF SelectThrows
<1>3. CASE NextBuffered
  <2>1. currentRow' \in Nat
    BY <1>3 DEF NextBuffered, Advance
  <2>2. presented' \subseteq Nat \cup {Unwritten}
    BY <1>3, <2>1, ShowType DEF NextBuffered
  <2> QED
    BY <1>3, <2>1, <2>2, CallType DEF NextBuffered
<1>4. CASE NextFetch
  <2>1. served' \in Nat /\ served' <= total /\ Delivered(total, served) \in Nat
    BY <1>4, DeliveredType, FetchCountType DEF NextFetch
  <2>2. slot' \in [Slots -> Nat \cup {Unwritten}]
    BY <1>4, <2>1, FillType DEF NextFetch
  <2>3. currentRow' \in Nat
    BY <1>4 DEF NextFetch, Advance
  <2>4. presented' \subseteq Nat \cup {Unwritten}
    BY <1>4, <2>2, <2>3, ShowType DEF NextFetch
  <2> QED
    BY <1>4, <2>1, <2>2, <2>3, <2>4, CallType DEF NextFetch, EodAfter
<1>5. CASE NextBlocked
  BY <1>5, CallType DEF NextBlocked, Advance
<1>6. ASSUME NEW n \in Slots \cup {FetchCount}, NextPartial(n)
      PROVE  TypeInv'
  <2>1. n \in Nat
    BY FetchCountType DEF Slots
  <2>2. served' \in Nat /\ served' <= total
    BY <1>6, <2>1, DeliveredType, FetchCountType DEF NextPartial
  <2>3. slot' \in [Slots -> Nat \cup {Unwritten}]
    BY <1>6, <2>1, FillType DEF NextPartial
  <2> QED
    BY <1>6, <2>2, <2>3, CallType DEF NextPartial, Advance
<1>7. ASSUME NEW type \in ColTypes, Read(type)
      PROVE  TypeInv'
  <2>1. Cell \in Nat \cup {Unwritten}
    BY SlotOfType DEF Cell
  <2>2. answer' \in [call : {"none", "Select", "Next", "Read"},
                     result : {"none", "opened", "true", "false", "value", "threw"},
                     row : Nat \cup {Unwritten}]
    BY <1>7, <2>1, CallType DEF Read, Reads
  <2> QED
    BY <1>7, <2>2 DEF Read
<1>8. CASE Release
  <2>1. slot' \in [Slots -> Nat \cup {Unwritten}]
    BY <1>8, EmptySlots DEF Release
  <2>2. answer' \in [call : {"none", "Select", "Next", "Read"},
                     result : {"none", "opened", "true", "false", "value", "threw"},
                     row : Nat \cup {Unwritten}]
    BY <1>8, CallType DEF Release
  <2>3. presented' \subseteq Nat \cup {Unwritten}
    BY <1>8 DEF Release
  <2>4. state' \in {"none", "open"} /\ isEod' \in BOOLEAN
    BY <1>8 DEF Release
  <2>5. /\ total' \in Nat /\ served' \in Nat /\ served' <= total'
        /\ rowsFetched' \in Nat /\ currentRow' \in Nat
    BY <1>8 DEF Release
  <2> QED
    BY <2>1, <2>2, <2>3, <2>4, <2>5
<1>9. CASE UNCHANGED vars
  BY <1>9 DEF vars
<1> QED
  BY <1>1, <1>2, <1>3, <1>4, <1>5, <1>6, <1>7, <1>8, <1>9
     DEF Next, CallNext, Fetching

\* Every variable keeps its type in every behaviour of the cursor, faults included.
THEOREM TypeCorrect == Spec => []TypeOK
<1>1. Spec => []TypeInv
  BY TypeInit, TypeStep, PTL DEF Spec
<1>2. TypeInv => TypeOK
  BY DEF TypeInv
<1> QED
  BY <1>1, <1>2, PTL

-----------------------------------------------------------------------------
(* The cursor and the buffers.                                             *)

\* The batch in the buffers begins at row b, the cursor is not before it, and
\* only the batch that ends the data may be short.
Batch(b) ==
  /\ rowsFetched = served
  /\ b <= currentRow
  /\ b <= rowsFetched /\ rowsFetched <= b + FetchCount
  /\ \A i \in Slots : b + i < rowsFetched => slot[i] = b + i
  /\ isEod => rowsFetched = total
  /\ ~isEod => rowsFetched = b + FetchCount

BatchInv == state = "open" => \E b \in Bases : Batch(b)

\* A fetch that starts where the last batch ended, with every row of it
\* counted, leaves a batch of its own in the buffers (epResultSet.cpp:225-241).
LEMMA FetchMakesBatch ==
  ASSUME NEW t \in Nat, NEW b \in Bases, b <= t,
         NEW buf \in [Slots -> Nat \cup {Unwritten}],
         NEW i \in Slots,
         b + i < b + Delivered(t, b)
  PROVE  Fill(buf, b, Delivered(t, b))[i] = b + i
<1>1. b \in Nat /\ i \in Nat /\ Delivered(t, b) \in Nat
  BY FetchCountType, DeliveredType DEF Bases, Slots
<1>2. i < Delivered(t, b)
  BY <1>1
<1> QED
  BY <1>2 DEF Fill

\* Every call, a fetch that moves no row included, keeps the buffers one batch
\* in step with the cursor (epResultSet.cpp:225-258).
LEMMA BatchStep ==
  ASSUME "partial" \notin Faults, TypeInv, BatchInv, [Next]_vars
  PROVE  BatchInv'
<1> USE DEF TypeInv, TypeOK
<1>1. ASSUME NEW t \in Totals, Select(t)
      PROVE  BatchInv'
  <2> DEFINE n == Delivered(t, 0)
  <2>1. t \in Nat /\ n \in 0 .. FetchCount /\ n <= t /\ (n < FetchCount => n = t)
    BY ResultSetAssumption, DeliveredType
  <2>2. \A i \in Slots : 0 + i < n => slot'[i] = 0 + i
    <3> SUFFICES ASSUME NEW i \in Slots, 0 + i < n
                 PROVE  slot'[i] = 0 + i
      OBVIOUS
    <3>1. slot' = Fill(slot, 0, n)
      BY <1>1 DEF Select
    <3>2. i \in Nat /\ 0 + n = n
      BY <2>1, FetchCountType DEF Slots
    <3> QED
      BY <2>1, <3>1, <3>2, FirstBase, FetchMakesBatch
  <2>3. served' = n /\ rowsFetched' = n /\ currentRow' = 0 /\ total' = t
    BY <1>1 DEF Select
  <2>4. isEod' <=> n # FetchCount
    <3>1. isEod' = (n - 0 # FetchCount)
      BY <1>1 DEF Select, EodAfter
    <3> HIDE DEF n
    <3>2. n - 0 = n
      BY <2>1, FetchCountType
    <3> QED
      BY <3>1, <3>2
  <2> HIDE DEF n
  <2>5. Batch(0)'
    <3>1. /\ rowsFetched' = served'
          /\ 0 <= currentRow'
          /\ 0 <= rowsFetched' /\ rowsFetched' <= 0 + FetchCount
          /\ ~isEod' => rowsFetched' = 0 + FetchCount
      BY <2>1, <2>3, <2>4, FetchCountType
    <3>2. isEod' => rowsFetched' = total'
      BY <2>1, <2>3, <2>4, FetchCountType
    <3>3. \A i \in Slots : 0 + i < rowsFetched' => slot'[i] = 0 + i
      BY <2>2, <2>3
    <3> QED
      BY <3>1, <3>2, <3>3 DEF Batch
  <2> QED
    BY <2>5, FirstBase DEF BatchInv
<1>2. CASE NextBuffered
  <2> SUFFICES ASSUME state = "open"
               PROVE  \E b \in Bases : Batch(b)'
    BY <1>2 DEF BatchInv, NextBuffered
  <2>1. PICK b \in Bases : Batch(b)
    BY DEF BatchInv
  <2>2. b \in Nat
    BY DEF Bases
  <2>3. Batch(b)'
    BY <1>2, <2>1, <2>2 DEF NextBuffered, Advance, Batch
  <2> QED
    BY <2>3
<1>3. CASE NextFetch
  <2> DEFINE n == Delivered(total, served)
  <2>1. PICK b \in Bases : Batch(b)
    BY <1>3 DEF BatchInv, NextFetch, NeedsFetch
  <2>2. b \in Nat /\ ~isEod /\ served = b + FetchCount /\ rowsFetched = served
    BY <1>3, <2>1 DEF Bases, Batch, NextFetch, NeedsFetch
  <2>3. served \in Bases
    BY <2>2, NextBase
  <2>4. n \in 0 .. FetchCount /\ (n < FetchCount => served + n = total)
    BY DeliveredType
  <2>5. \A i \in Slots : served + i < served + n => slot'[i] = served + i
    BY <1>3, <2>3, FetchMakesBatch DEF NextFetch
  <2>6. served' = served + n /\ rowsFetched' = served + n /\ total' = total /\ currentRow' = currentRow + 1
    BY <1>3 DEF NextFetch, Advance
  <2>7. isEod' <=> n # FetchCount
    <3>1. isEod' = ((served + n) - rowsFetched # FetchCount)
      BY <1>3, <2>6 DEF NextFetch, EodAfter
    <3> HIDE DEF n
    <3>2. (served + n) - rowsFetched = n
      BY <2>2, <2>4, FetchCountType
    <3> QED
      BY <3>1, <3>2
  <2>8. served <= currentRow'
    BY <1>3, <2>2, <2>6 DEF NextFetch, NeedsFetch
  <2>9. \E c \in Bases : Batch(c)'
    <3> HIDE DEF n
    <3>0. PICK c \in Bases : c = served
      BY <2>3
    <3>1. /\ rowsFetched' = served'
          /\ c <= currentRow'
          /\ c <= rowsFetched' /\ rowsFetched' <= c + FetchCount
          /\ isEod' => rowsFetched' = total'
          /\ ~isEod' => rowsFetched' = c + FetchCount
      BY <3>0, <2>2, <2>4, <2>6, <2>7, <2>8, FetchCountType
    <3>2. \A i \in Slots : c + i < rowsFetched' => slot'[i] = c + i
      BY <3>0, <2>5, <2>6
    <3> QED
      BY <3>1, <3>2 DEF Batch
  <2> QED
    BY <2>9 DEF BatchInv
<1>4. CASE NextBlocked
  <2> SUFFICES ASSUME state = "open"
               PROVE  \E b \in Bases : Batch(b)'
    BY <1>4 DEF BatchInv, NextBlocked
  <2>1. PICK b \in Bases : Batch(b)
    BY DEF BatchInv
  <2>2. b \in Nat
    BY DEF Bases
  <2>3. Batch(b)'
    BY <1>4, <2>1, <2>2 DEF NextBlocked, Advance, Batch
  <2> QED
    BY <2>3
<1>5. ASSUME NEW m \in Slots \cup {FetchCount}, NextPartial(m)
      PROVE  BatchInv'
  BY <1>5 DEF NextPartial
<1>6. CASE SelectThrows \/ Release
  BY <1>6 DEF SelectThrows, Release, BatchInv
<1>7. ASSUME NEW type \in ColTypes, Read(type)
      PROVE  BatchInv'
  BY <1>7 DEF Read, BatchInv, Batch
<1>8. CASE UNCHANGED vars
  BY <1>8 DEF vars, BatchInv, Batch
<1> QED
  BY <1>1, <1>2, <1>3, <1>4, <1>5, <1>6, <1>7, <1>8
     DEF Next, CallNext, Fetching

\* What the batch says of the row the cursor stands on.
LEMMA BatchCursor ==
  ASSUME TypeInv, BatchInv
  PROVE  CursorOnRow /\ EodMeansExhausted
<1> USE DEF TypeInv, TypeOK
<1>1. ASSUME state = "open"
      PROVE  /\ currentRow < rowsFetched => Cell = currentRow
             /\ isEod => rowsFetched = total
  <2>1. PICK b \in Bases : Batch(b)
    BY <1>1 DEF BatchInv
  <2>2. b \in Nat
    BY DEF Bases
  <2>3. ASSUME currentRow < rowsFetched
        PROVE  Cell = currentRow
    <3> DEFINE i == currentRow - b
    <3>1. i \in Slots /\ b + i = currentRow
      BY <2>1, <2>2, <2>3, FetchCountType DEF Batch, Slots
    <3>2. SlotOf(b + i) = i
      BY <3>1 DEF Bases
    <3>3. slot[i] = b + i
      BY <2>1, <2>3, <3>1 DEF Batch
    <3> QED
      BY <3>1, <3>2, <3>3 DEF Cell
  <2> QED
    BY <2>1, <2>3 DEF Batch
<1> QED
  BY <1>1 DEF CursorOnRow, EodMeansExhausted, Positioned, IsEod

\* Without a result set there is no batch to keep.
LEMMA BatchInit == Init => BatchInv
BY DEF Init, BatchInv

\* The buffers are one batch in every behaviour in which a failing fetch moves
\* no row.
LEMMA BatchInvariant ==
  ASSUME "partial" \notin Faults
  PROVE  Spec => [](TypeInv /\ BatchInv)
<1>1. Init => TypeInv /\ BatchInv
  BY TypeInit, BatchInit
<1>2. TypeInv /\ BatchInv /\ [Next]_vars => TypeInv' /\ BatchInv'
  BY TypeStep, BatchStep
<1> QED
  BY <1>1, <1>2, PTL DEF Spec

\* As long as a fetch that reports an error has moved no row, the cursor
\* reads the row it stands on, for every query, batch size and number of
\* calls, retries after OCI_STILL_EXECUTING included (epColumn.cpp:149, 158).
THEOREM CursorCorrect ==
  ASSUME "partial" \notin Faults
  PROVE  Spec => []CursorOnRow
<1>1. TypeInv /\ BatchInv => CursorOnRow
  BY BatchCursor
<1> QED
  BY <1>1, BatchInvariant, PTL

\* Under the same condition IsEod is TRUE only when every row of the query
\* has been fetched (epResultSet.cpp:236, epResultSet.h:67-70).
THEOREM EodCorrect ==
  ASSUME "partial" \notin Faults
  PROVE  Spec => []EodMeansExhausted
<1>1. TypeInv /\ BatchInv => EodMeansExhausted
  BY BatchCursor
<1> QED
  BY <1>1, BatchInvariant, PTL

\* A reader, and every call after it, leaves what was read about the row the
\* cursor stands on (epColumn.cpp:145-219).
LEMMA ReadStep ==
  ASSUME TypeInv, BatchInv, ReadsOwnValue, [Next]_vars
  PROVE  ReadsOwnValue'
<1>1. ASSUME NEW type \in ColTypes, Read(type)
      PROVE  ReadsOwnValue'
  <2> SUFFICES ASSUME answer'.result = "value", Positioned'
               PROVE  answer'.row = currentRow' /\ answer'.row \notin NullRows
    BY DEF ReadsOwnValue
  <2>1. Positioned /\ currentRow' = currentRow
    BY <1>1 DEF Read, Positioned
  <2>2. Cell = currentRow
    BY <2>1, BatchCursor DEF CursorOnRow
  <2>3. Cell # Unwritten
    BY <2>2 DEF TypeInv, TypeOK, Unwritten
  <2>4. answer'.row = Cell /\ Cell \notin NullRows
    BY <1>1, <2>3 DEF Read, Reads, Call
  <2> QED
    BY <2>1, <2>2, <2>4
<1>2. CASE UNCHANGED vars
  BY <1>2 DEF vars, ReadsOwnValue, Positioned
<1>3. ASSUME NEW t \in Totals, Select(t)
      PROVE  ReadsOwnValue'
  BY <1>3 DEF Select, Call, ReadsOwnValue
<1>4. CASE SelectThrows \/ NextBuffered \/ NextFetch \/ NextBlocked \/ Release
  BY <1>4 DEF SelectThrows, NextBuffered, NextFetch, NextBlocked, Release, Call, ReadsOwnValue
<1>5. ASSUME NEW n \in Slots \cup {FetchCount}, NextPartial(n)
      PROVE  ReadsOwnValue'
  BY <1>5 DEF NextPartial, Call, ReadsOwnValue
<1> QED
  BY <1>1, <1>2, <1>3, <1>4, <1>5 DEF Next, CallNext, Fetching

\* Under the same condition a value returned while the cursor stands on a row
\* is that row's own value and not NULL (epColumn.cpp:145-219).
THEOREM ReadCorrect ==
  ASSUME "partial" \notin Faults
  PROVE  Spec => []ReadsOwnValue
<1>1. Init => ReadsOwnValue
  BY DEF Init, Call, ReadsOwnValue
<1>2. TypeInv /\ BatchInv /\ ReadsOwnValue /\ [Next]_vars => ReadsOwnValue'
  BY ReadStep
<1> QED
  BY <1>1, <1>2, BatchInvariant, PTL DEF Spec

-----------------------------------------------------------------------------
(* The slots, with every fault.                                            *)

\* The slots hold rows the server delivered, the ones a counted row falls into
\* were written, and while the end of the data is not known a whole batch was
\* counted, so that they all were.
WrittenInv ==
  /\ \A i \in Slots : slot[i] # Unwritten => slot[i] \in 0 .. served - 1
  /\ \A i \in Slots : i < rowsFetched => slot[i] # Unwritten
  /\ state = "open" /\ ~isEod => rowsFetched >= FetchCount
  /\ state = "none" => \A i \in Slots : slot[i] = Unwritten

\* n delivered rows in front of what the slots hold.
LEMMA FillDelivered ==
  ASSUME TypeOK, WrittenInv, NEW n \in Nat
  PROVE  /\ \A i \in Slots : Fill(slot, served, n)[i] # Unwritten =>
                               Fill(slot, served, n)[i] \in 0 .. (served + n) - 1
         /\ \A i \in Slots : i < n \/ slot[i] # Unwritten =>
                               Fill(slot, served, n)[i] # Unwritten
<1>1. served \in Nat /\ \A i \in Slots : i \in Nat /\ slot[i] \in Nat \cup {Unwritten}
  BY FetchCountType DEF TypeOK, Slots
<1>2. \A i \in Slots : Fill(slot, served, n)[i] = IF i < n THEN served + i ELSE slot[i]
  BY DEF Fill
<1>3. \A i \in Slots : slot[i] # Unwritten => slot[i] \in 0 .. served - 1
  BY DEF WrittenInv
<1>4. \A k \in Nat : k # Unwritten
  BY DEF Unwritten
<1> QED
  BY <1>1, <1>2, <1>3, <1>4

\* Every call keeps the slots' rows delivered ones.
LEMMA WrittenStep ==
  ASSUME TypeInv, WrittenInv, [Next]_vars
  PROVE  WrittenInv'
<1>0. /\ TypeOK /\ served \in Nat /\ rowsFetched \in Nat /\ total \in Nat /\ served <= total
      /\ FetchCount \in Nat \ {0} /\ \A i \in Slots : i \in Nat /\ i < FetchCount
  BY FetchCountType DEF TypeInv, TypeOK, Slots
<1>1. ASSUME NEW t \in Totals, Select(t) PROVE WrittenInv'
  <2> DEFINE n == Delivered(t, 0)
  <2>1. n \in Nat
    BY ResultSetAssumption, DeliveredType
  <2>2. /\ served' = n /\ rowsFetched' = n /\ (isEod' <=> n - 0 # FetchCount)
        /\ slot' = Fill(slot, 0, n) /\ state' = "open" /\ state = "none"
    BY <1>1 DEF Select, EodAfter
  <2> HIDE DEF n
  <2>3. \A i \in Slots : slot'[i] = IF i < n THEN 0 + i ELSE slot[i]
    BY <2>2 DEF Fill
  <2>4. \A i \in Slots : slot[i] = Unwritten
    BY <2>2 DEF WrittenInv
  <2>5. \A k \in Nat : k # Unwritten
    BY DEF Unwritten
  <2>6. /\ \A i \in Slots : slot'[i] # Unwritten => slot'[i] \in 0 .. served' - 1
        /\ \A i \in Slots : i < rowsFetched' => slot'[i] # Unwritten
    BY <1>0, <2>1, <2>2, <2>3, <2>4, <2>5
  <2>7. ~isEod' => rowsFetched' >= FetchCount
    BY <1>0, <2>1, <2>2
  <2> QED
    BY <2>2, <2>6, <2>7 DEF WrittenInv
<1>2. CASE NextFetch
  <2> DEFINE n == Delivered(total, served)
  <2>1. n \in Nat
    BY <1>0, DeliveredType
  <2>2. /\ served' = served + n /\ rowsFetched' = served + n
        /\ (isEod' <=> (served + n) - rowsFetched # FetchCount)
        /\ slot' = Fill(slot, served, n) /\ state' = "open"
        /\ state = "open" /\ ~isEod
    BY <1>2 DEF NextFetch, NeedsFetch, EodAfter
  <2> HIDE DEF n
  <2>3. \A i \in Slots : slot[i] # Unwritten
    BY <1>0, <2>2 DEF WrittenInv
  <2>4. /\ \A i \in Slots : slot'[i] # Unwritten => slot'[i] \in 0 .. served' - 1
        /\ \A i \in Slots : slot'[i] # Unwritten
    BY <1>0, <2>1, <2>2, <2>3, FillDelivered
  <2>5. ~isEod' => rowsFetched' >= FetchCount
    BY <1>0, <2>1, <2>2
  <2> QED
    BY <2>2, <2>4, <2>5 DEF WrittenInv
<1>3. ASSUME NEW n \in Slots \cup {FetchCount}, NextPartial(n) PROVE WrittenInv'
  <2>1. /\ n \in Nat /\ served' = served + n /\ slot' = Fill(slot, served, n)
        /\ UNCHANGED <<state, rowsFetched, isEod>> /\ state = "open"
    BY <1>0, <1>3 DEF NextPartial, NeedsFetch
  <2>2. /\ \A i \in Slots : slot'[i] # Unwritten => slot'[i] \in 0 .. served' - 1
        /\ \A i \in Slots : slot[i] # Unwritten => slot'[i] # Unwritten
    BY <1>0, <2>1, FillDelivered
  <2> QED
    BY <2>1, <2>2 DEF WrittenInv
<1>4. CASE Release
  <2>1. /\ state' = "none" /\ rowsFetched' = 0
        /\ \A i \in Slots : slot'[i] = Unwritten
    BY <1>4 DEF Release
  <2> QED
    BY <1>0, <2>1 DEF WrittenInv
<1>5. CASE UNCHANGED <<state, served, rowsFetched, isEod, slot>>
  BY <1>5 DEF WrittenInv
<1> QED
  BY <1>1, <1>2, <1>3, <1>4, <1>5
  DEF Next, CallNext, Fetching, vars, SelectThrows, NextBuffered, NextBlocked, Read

\* The slot of a counted row was written: the first rows of the batch were, and
\* a row falls into no later slot than its number.
LEMMA CellWritten ==
  ASSUME TypeInv, WrittenInv, Positioned
  PROVE  Cell \in 0 .. served - 1
<1>1. currentRow \in Nat /\ rowsFetched \in Nat /\ currentRow < rowsFetched
  BY DEF TypeInv, TypeOK, Positioned
<1>2. SlotOf(currentRow) \in Slots
  BY <1>1, SlotOfType
<1>3. SlotOf(currentRow) <= currentRow
  <2>1. /\ (currentRow % FetchCount) \in 0 .. FetchCount - 1
        /\ currentRow \div FetchCount \in Nat
        /\ currentRow = FetchCount * (currentRow \div FetchCount) + (currentRow % FetchCount)
    BY <1>1, FetchCountType, DivMod
  <2>2. FetchCount * (currentRow \div FetchCount) >= 0
    BY <2>1, FetchCountType
  <2> QED
    BY <1>1, <2>1, <2>2, FetchCountType DEF SlotOf
<1>4. SlotOf(currentRow) \in Nat
  BY <1>2, FetchCountType DEF Slots
<1> QED
  BY <1>1, <1>2, <1>3, <1>4 DEF WrittenInv, Cell

\* Every call leaves the value read one the server delivered.
LEMMA ReadsDeliveredStep ==
  ASSUME TypeInv, WrittenInv, ReadsDelivered, [Next]_vars
  PROVE  ReadsDelivered'
<1>1. ASSUME NEW type \in ColTypes, Read(type) PROVE ReadsDelivered'
  <2> SUFFICES ASSUME answer'.result = "value", Positioned'
               PROVE  answer'.row \in 0 .. served - 1
    BY <1>1 DEF ReadsDelivered, Read
  <2>1. Positioned
    BY <1>1 DEF Read, Positioned
  <2>2. answer'.row = Cell
    BY <1>1 DEF Read, Reads, Call
  <2> QED
    BY <2>1, <2>2, CellWritten
<1>2. CASE UNCHANGED vars
  BY <1>2 DEF vars, ReadsDelivered, Positioned
<1>3. ASSUME NEW t \in Totals, Select(t) PROVE ReadsDelivered'
  BY <1>3 DEF Select, Call, ReadsDelivered
<1>4. CASE SelectThrows \/ NextBuffered \/ NextFetch \/ NextBlocked \/ Release
  BY <1>4 DEF SelectThrows, NextBuffered, NextFetch, NextBlocked, Release, Call, ReadsDelivered
<1>5. ASSUME NEW n \in Slots \cup {FetchCount}, NextPartial(n) PROVE ReadsDelivered'
  BY <1>5 DEF NextPartial, Call, ReadsDelivered
<1> QED
  BY <1>1, <1>2, <1>3, <1>4, <1>5 DEF Next, CallNext, Fetching

\* Whatever OCIStmtFetch does, a value returned while the cursor stands on a row
\* is one the server delivered, not the memory of a slot no fetch wrote
\* (epResultSet.cpp:225-241, epColumn.cpp:145-219).
THEOREM DeliveredCorrect == Spec => []ReadsDelivered
<1>1. Init => WrittenInv /\ ReadsDelivered
  <2>1. Init => \A i \in Slots : slot[i] = Unwritten /\ ~(i < rowsFetched)
    BY FetchCountType DEF Init, Slots
  <2> QED
    BY <2>1 DEF Init, WrittenInv, ReadsDelivered, Call
<1>2. TypeInv /\ WrittenInv /\ ReadsDelivered /\ [Next]_vars
        => WrittenInv' /\ ReadsDelivered'
  BY WrittenStep, ReadsDeliveredStep
<1> QED
  BY <1>1, <1>2, TypeInit, TypeStep, PTL DEF Spec

-----------------------------------------------------------------------------
(* Without faults: the stream of rows.                                     *)

\* While the end is not known the cursor stands on a row; the client has been
\* shown every row up to the cursor; FALSE was answered past the end only.
StreamInv ==
  /\ state = "none" => presented = {}
  /\ state = "open" => /\ ~isEod => currentRow < rowsFetched
                       /\ presented = 0 .. Least(currentRow, total - 1)
  /\ answer = Call("Next", "false") =>
       state = "open" /\ isEod /\ currentRow >= rowsFetched

\* The facts about one step that both the invariant and the refinement use.
LEMMA Bounds ==
  ASSUME TypeInv, BatchInv, state = "open"
  PROVE  rowsFetched = served /\ rowsFetched <= total /\ (isEod => rowsFetched = total)
BY DEF TypeInv, TypeOK, BatchInv, Batch

\* The same of the state a step leads to.
LEMMA BoundsAfter ==
  ASSUME TypeInv', BatchInv', state' = "open"
  PROVE  rowsFetched' <= total'
BY DEF TypeInv, TypeOK, BatchInv, Batch

\* A row shown after a call is the one the cursor then stands on.
LEMMA ShowsCursor ==
  ASSUME TypeInv', BatchInv', state' = "open", Show
  PROVE  presented' = IF currentRow' < rowsFetched'
                      THEN presented \cup {currentRow'} ELSE presented
<1>1. CASE currentRow' < rowsFetched'
  <2>1. CursorOnRow'
    BY BatchCursor, PTL
  <2>2. slot'[SlotOf(currentRow')] = currentRow'
    BY <1>1, <2>1 DEF CursorOnRow, Positioned, Cell
  <2> QED
    BY <1>1, <2>2 DEF Show
<1>2. CASE ~(currentRow' < rowsFetched')
  BY <1>2 DEF Show
<1> QED
  BY <1>1, <1>2

\* One more row extends the rows shown by one.
LEMMA Extend ==
  ASSUME NEW r \in Nat, NEW t \in Nat
  PROVE  /\ r + 1 < t => (0 .. Least(r, t - 1)) \cup {r + 1} = 0 .. Least(r + 1, t - 1)
         /\ r + 1 >= t => 0 .. Least(r, t - 1) = 0 .. Least(r + 1, t - 1)
BY DEF Least

\* A fetch serves at most the rows there are (epResultSet.cpp:232-237).
LEMMA FetchedBounds ==
  ASSUME TypeInv, BatchInv, StreamInv, NextFetch
  PROVE  /\ currentRow + 1 = rowsFetched /\ rowsFetched = served
         /\ currentRow' = currentRow + 1 /\ rowsFetched' = served'
         /\ served' = served + Delivered(total, served)
         /\ isEod' <=> Delivered(total, served) # FetchCount
         /\ currentRow' < rowsFetched' <=> currentRow + 1 < total
<1> USE DEF TypeInv, TypeOK
<1> DEFINE n == Delivered(total, served)
<1>1. /\ state = "open" /\ ~isEod /\ currentRow + 1 >= rowsFetched
      /\ currentRow' = currentRow + 1
      /\ served' = served + n /\ rowsFetched' = served'
      /\ isEod' = (served' - rowsFetched # FetchCount)
  BY DEF NextFetch, NeedsFetch, Advance, EodAfter
<1>2. currentRow + 1 = rowsFetched /\ rowsFetched = served
  BY <1>1, Bounds DEF StreamInv
<1>3. n \in 0 .. FetchCount /\ served + n <= total /\ (n < FetchCount => served + n = total)
  BY DeliveredType
<1> HIDE DEF n
<1>4. served' - rowsFetched = n
  BY <1>1, <1>2, <1>3, FetchCountType
<1>5. currentRow' < rowsFetched' <=> currentRow + 1 < total
  BY <1>1, <1>2, <1>3, FetchCountType
<1> QED
  BY <1>1, <1>2, <1>4, <1>5 DEF n

\* Without faults every call keeps the rows shown those up to the cursor
\* (epResultSet.cpp:244-258).
LEMMA StreamStep ==
  ASSUME Faults = {}, TypeInv, BatchInv, StreamInv, [Next]_vars, TypeInv', BatchInv'
  PROVE  StreamInv'
<1> USE DEF TypeInv, TypeOK
<1>1. ASSUME NEW t \in Totals, Select(t)
      PROVE  StreamInv'
  <2>1. t \in Nat /\ Delivered(t, 0) \in 0 .. FetchCount /\ Delivered(t, 0) <= t
        /\ (Delivered(t, 0) < FetchCount => Delivered(t, 0) = t)
    BY ResultSetAssumption, DeliveredType
  <2>2. /\ state' = "open" /\ currentRow' = 0 /\ total' = t
        /\ rowsFetched' = Delivered(t, 0) /\ served' = Delivered(t, 0)
        /\ answer' # Call("Next", "false")
        /\ Show /\ (isEod' <=> served' - 0 # FetchCount)
    BY <1>1 DEF Select, Call, EodAfter
  <2>3. presented = {}
    BY <1>1 DEF Select, StreamInv
  <2>4. ~isEod' => currentRow' < rowsFetched'
    BY <2>1, <2>2, FetchCountType
  <2>5. currentRow' < rowsFetched' <=> t > 0
    BY <2>1, <2>2, FetchCountType
  <2>6. presented' = IF t > 0 THEN {0} ELSE {}
    BY <2>2, <2>3, <2>5, ShowsCursor
  <2>7. presented' = 0 .. Least(currentRow', total' - 1)
    <3>1. CASE t > 0
      <4>1. Least(0, t - 1) = 0 /\ 0 .. 0 = {0}
        BY <2>1, <3>1 DEF Least
      <4> QED
        BY <2>2, <2>6, <3>1, <4>1
    <3>2. CASE t = 0
      <4>1. Least(0, t - 1) = -1 /\ 0 .. -1 = {}
        BY <3>2 DEF Least
      <4> QED
        BY <2>2, <2>6, <3>2, <4>1
    <3> QED
      BY <2>1, <3>1, <3>2
  <2> QED
    BY <2>2, <2>4, <2>7 DEF StreamInv
<1>2. CASE NextBuffered
  <2>1. /\ state = "open" /\ state' = "open" /\ currentRow' = currentRow + 1
        /\ rowsFetched' = rowsFetched /\ isEod' = isEod /\ total' = total
        /\ (currentRow + 1 < rowsFetched \/ isEod) /\ Show
        /\ answer' = Call("Next", IF currentRow + 1 < rowsFetched THEN "true" ELSE "false")
    BY <1>2 DEF NextBuffered, Advance
  <2>2. rowsFetched <= total /\ (isEod => rowsFetched = total)
    BY <2>1, Bounds
  <2>3. presented' = 0 .. Least(currentRow', total' - 1)
    <3>1. presented = 0 .. Least(currentRow, total - 1)
      BY <2>1 DEF StreamInv
    <3>2. presented' = IF currentRow + 1 < rowsFetched
                       THEN presented \cup {currentRow + 1} ELSE presented
      BY <2>1, ShowsCursor
    <3>3. currentRow + 1 < rowsFetched <=> currentRow + 1 < total
      BY <2>1, <2>2
    <3>4. /\ currentRow + 1 < total =>
               (0 .. Least(currentRow, total - 1)) \cup {currentRow + 1}
                 = 0 .. Least(currentRow + 1, total - 1)
          /\ currentRow + 1 >= total =>
               0 .. Least(currentRow, total - 1) = 0 .. Least(currentRow + 1, total - 1)
      BY Extend
    <3>5. CASE currentRow + 1 < total
      BY <2>1, <2>2, <3>1, <3>2, <3>3, <3>4, <3>5
    <3>6. CASE currentRow + 1 >= total
      BY <2>1, <2>2, <3>1, <3>2, <3>3, <3>4, <3>6
    <3> QED
      BY <3>5, <3>6
  <2>4. answer' = Call("Next", "false") => ~(currentRow + 1 < rowsFetched)
    BY <2>1 DEF Call
  <2> QED
    BY <2>1, <2>3, <2>4 DEF StreamInv
<1>3. CASE NextFetch
  <2>1. /\ state = "open" /\ state' = "open" /\ total' = total /\ Show
        /\ answer' = Call("Next", IF currentRow + 1 < rowsFetched' THEN "true" ELSE "false")
    BY <1>3 DEF NextFetch, NeedsFetch
  <2>2. /\ currentRow + 1 = rowsFetched /\ rowsFetched = served
        /\ currentRow' = currentRow + 1 /\ rowsFetched' = served'
        /\ served' = served + Delivered(total, served)
        /\ isEod' <=> Delivered(total, served) # FetchCount
        /\ currentRow' < rowsFetched' <=> currentRow + 1 < total
    BY <1>3, FetchedBounds
  <2>3. ~isEod' => currentRow' < rowsFetched'
    BY <2>2, FetchCountType
  <2>4. presented' = 0 .. Least(currentRow', total' - 1)
    <3>1. presented = 0 .. Least(currentRow, total - 1)
      BY <2>1 DEF StreamInv
    <3>2. presented' = IF currentRow + 1 < total
                       THEN presented \cup {currentRow + 1} ELSE presented
      BY <2>1, <2>2, ShowsCursor
    <3>3. /\ currentRow + 1 < total =>
               (0 .. Least(currentRow, total - 1)) \cup {currentRow + 1}
                 = 0 .. Least(currentRow + 1, total - 1)
          /\ currentRow + 1 >= total =>
               0 .. Least(currentRow, total - 1) = 0 .. Least(currentRow + 1, total - 1)
      BY Extend
    <3>4. CASE currentRow + 1 < total
      BY <2>1, <2>2, <3>1, <3>2, <3>3, <3>4
    <3>5. CASE currentRow + 1 >= total
      BY <2>1, <2>2, <3>1, <3>2, <3>3, <3>5
    <3> QED
      BY <3>4, <3>5
  <2>5. answer' = Call("Next", "false") => ~(currentRow' < rowsFetched')
    BY <2>1, <2>2 DEF Call
  <2> QED
    BY <2>1, <2>2, <2>3, <2>4, <2>5 DEF StreamInv
<1>4. ASSUME NEW type \in ColTypes, Read(type)
      PROVE  StreamInv'
  BY <1>4 DEF Read, Reads, Call, StreamInv
<1>5. CASE Release
  BY <1>5 DEF Release, Call, StreamInv
<1>6. CASE UNCHANGED vars
  BY <1>6 DEF vars, StreamInv
<1>7. ~SelectThrows /\ ~NextBlocked /\ \A n \in Slots \cup {FetchCount} : ~NextPartial(n)
  BY DEF SelectThrows, NextBlocked, NextPartial
<1> QED
  BY <1>1, <1>2, <1>3, <1>4, <1>5, <1>6, <1>7 DEF Next, CallNext, Fetching

\* So they are in every behaviour without faults.
LEMMA StreamInvariant ==
  ASSUME Faults = {}
  PROVE  Spec => [](TypeInv /\ BatchInv /\ StreamInv)
<1>1. Init => TypeInv /\ BatchInv /\ StreamInv
  BY TypeInit, BatchInit DEF Init, Call, StreamInv
<1>2. TypeInv /\ BatchInv /\ StreamInv /\ [Next]_vars => TypeInv' /\ BatchInv' /\ StreamInv'
  BY TypeStep, BatchStep, StreamStep
<1> QED
  BY <1>1, <1>2, PTL DEF Spec

\* When no fetch fails, a client that stops on FALSE has been shown every row
\* of the query, whatever the batch size (epResultSet.cpp:244-258).
THEOREM FalseCorrect ==
  ASSUME Faults = {}
  PROVE  Spec => []FalseMeansAllPresented
<1>1. TypeInv /\ BatchInv /\ StreamInv => FalseMeansAllPresented
  BY Bounds DEF StreamInv, FalseMeansAllPresented, Least, TypeInv, TypeOK
<1> QED
  BY <1>1, StreamInvariant, PTL

\* IsEod is TRUE as soon as the cursor has passed the last row: the query whose
\* rows fill its last batch exactly, and the one without rows, end there too and
\* not a call later (epResultSet.cpp:236, 248-257).
EodInTime == state = "open" /\ currentRow >= total => IsEod

\* When no fetch fails the end of the data is known as soon as the cursor is past
\* the last row, whether or not the rows fill their last batch, so no client is
\* left past the end asking for more (epResultSet.cpp:236, 248-257).
THEOREM InTimeCorrect ==
  ASSUME Faults = {}
  PROVE  Spec => []EodInTime
<1>1. TypeInv /\ BatchInv /\ StreamInv => EodInTime
  <2> SUFFICES ASSUME TypeInv, BatchInv, StreamInv, state = "open", currentRow >= total
               PROVE  IsEod
    BY DEF EodInTime
  <2>1. currentRow >= rowsFetched
    BY Bounds DEF TypeInv, TypeOK
  <2>2. isEod
    BY <2>1 DEF StreamInv, TypeInv, TypeOK
  <2> QED
    BY <2>1, <2>2 DEF IsEod
<1> QED
  BY <1>1, StreamInvariant, PTL

\* When no fetch fails, a Next that returns TRUE presents exactly the row
\* after those presented before (epResultSet.cpp:244-258).
THEOREM NextCorrect ==
  ASSUME Faults = {}
  PROVE  Spec => NextPresentsNextRow
<1>1. ASSUME TypeInv, BatchInv, StreamInv, TypeInv', BatchInv', StreamInv', [Next]_vars
      PROVE  [answer' = Call("Next", "true") =>
                presented' = 0 .. currentRow' /\ presented' # presented]_vars
  <2> SUFFICES ASSUME answer' = Call("Next", "true"), ~UNCHANGED vars
               PROVE  presented' = 0 .. currentRow' /\ presented' # presented
    OBVIOUS
  <2> USE DEF TypeInv, TypeOK
  <2>1. NextBuffered \/ NextFetch
    BY <1>1 DEF Next, CallNext, Fetching, Select, SelectThrows, NextBlocked, NextPartial,
                Read, Reads, Release, Call
  <2>2. state = "open" /\ state' = "open" /\ currentRow' = currentRow + 1 /\ total' = total
    BY <2>1 DEF NextBuffered, NextFetch, NeedsFetch, Advance
  <2>3. currentRow' < rowsFetched'
    BY <2>1, <2>2 DEF NextBuffered, NextFetch, Call
  <2>4. rowsFetched' <= total'
    BY <1>1, <2>2, BoundsAfter
  <2>5. presented' = 0 .. currentRow'
    BY <1>1, <2>2, <2>3, <2>4 DEF StreamInv, Least
  <2>6. presented = 0 .. currentRow
    BY <1>1, <2>2, <2>3, <2>4 DEF StreamInv, Least
  <2> QED
    BY <1>1, <2>2, <2>5, <2>6
<1> QED
  BY <1>1, StreamInvariant, PTL DEF Spec, NextPresentsNextRow

-----------------------------------------------------------------------------
(* Refinement.                                                             *)

\* What the stream sees of a result set: the row, its cell and IsEod.
StreamView(r, c, e) ==
  /\ Least(currentRow, total) = r
  /\ (IF Positioned THEN Cell ELSE -1) = c
  /\ (state = "open" /\ IsEod) = e

\* What the refinement mapping shows of a state, from the parts of the state.
LEMMA View ==
  ASSUME TypeInv, BatchInv, state = "open",
         currentRow < rowsFetched <=> currentRow < total,
         isEod => rowsFetched = total,
         ~isEod => currentRow < total
  PROVE  StreamView(Least(currentRow, total),
                    IF Least(currentRow, total) < total THEN Least(currentRow, total) ELSE -1,
                    Least(currentRow, total) = total)
<1> USE DEF TypeInv, TypeOK
<1>1. CASE currentRow < total
  <2>1. Positioned /\ Cell = currentRow
    BY <1>1, BatchCursor DEF CursorOnRow, Positioned
  <2>2. Least(currentRow, total) = currentRow
    BY <1>1 DEF Least
  <2>3. ~IsEod
    BY <1>1 DEF IsEod
  <2> QED
    BY <1>1, <2>1, <2>2, <2>3 DEF StreamView
<1>2. CASE currentRow >= total
  <2>1. ~Positioned /\ Least(currentRow, total) = total /\ IsEod
    BY <1>2 DEF Positioned, Least, IsEod
  <2> QED
    BY <2>1 DEF StreamView
<1> QED
  BY <1>1, <1>2

\* In every open state without faults the buffers show the stream's row.
ShowsStreamRow ==
  state = "open" =>
    LET r == Least(currentRow, total)
    IN  StreamView(r, IF r < total THEN r ELSE -1, r = total)

\* What it shows of an open result set: the row the cursor stands on, if any.
LEMMA OpenView ==
  ASSUME TypeInv, BatchInv, StreamInv
  PROVE  ShowsStreamRow
<1> SUFFICES ASSUME state = "open"
             PROVE  LET r == Least(currentRow, total)
                    IN  StreamView(r, IF r < total THEN r ELSE -1, r = total)
  BY DEF ShowsStreamRow
<1>1. rowsFetched <= total /\ (isEod => rowsFetched = total)
  BY Bounds
<1>2. ~isEod => currentRow < rowsFetched
  BY DEF StreamInv
<1>3. currentRow < rowsFetched <=> currentRow < total
  BY <1>1, <1>2 DEF TypeInv, TypeOK
<1>4. ~isEod => currentRow < total
  BY <1>2, <1>3
<1> QED
  BY <1>1, <1>3, <1>4, View

\* What it shows before Select.
LEMMA ClosedView ==
  ASSUME Init \/ (state = "none" /\ currentRow = 0 /\ total = 0)
  PROVE  state = "none" /\ StreamView(0, -1, FALSE)
BY DEF Init, StreamView, Least, Positioned

\* A state without a result set is an initial state of the stream.
LEMMA StreamInit == Init => Stream!Init
BY ClosedView DEF Init, StreamView, Stream!Init, Stream!NoCell

\* A step that opens or moves the stream stands on the row of the new state.
LEMMA Stands ==
  ASSUME TypeInv', BatchInv', StreamInv', state' = "open",
         NEW r \in Nat, Least(currentRow', total') = r
  PROVE  Stream!StandOn(r, total') /\ (state' = "open" /\ IsEod') = (r = total')
<1>1. ShowsStreamRow'
  BY OpenView, PTL
<1> QED
  BY <1>1 DEF ShowsStreamRow, StreamView, Stream!StandOn, Stream!NoCell

\* Every call is a step of the stream or leaves it as it is
\* (epResultSet.h:62-99).
LEMMA StreamNext ==
  ASSUME Faults = {},
         TypeInv, BatchInv, StreamInv, TypeInv', BatchInv', StreamInv',
         [Next]_vars
  PROVE  [Stream!Next]_(Stream!vars)
<1> USE DEF TypeInv, TypeOK
<1>1. ASSUME NEW t \in Totals, Select(t)
      PROVE  Stream!Next
  <2>1. state = "none" /\ state' = "open" /\ total' = t /\ currentRow' = 0 /\ t \in Nat
    BY <1>1, ResultSetAssumption DEF Select
  <2>2. Least(currentRow', total') = 0
    BY <2>1 DEF Least
  <2>3. Stream!StandOn(0, t) /\ (state' = "open" /\ IsEod') = (0 = t)
    BY <2>1, <2>2, Stands
  <2>4. Stream!Open(t)
    BY <2>1, <2>3 DEF Stream!Open
  <2> QED
    BY <2>4 DEF Stream!Next
<1>2. ASSUME state = "open", state' = "open", total' = total,
             currentRow' = currentRow + 1
      PROVE  [Stream!Next]_(Stream!vars)
  <2>1. CASE currentRow < total
    <3>1. Least(currentRow, total) = currentRow /\ Least(currentRow', total') = currentRow + 1
      BY <1>2, <2>1 DEF Least
    <3>2. Stream!StandOn(currentRow + 1, total)
          /\ (state' = "open" /\ IsEod') = (currentRow + 1 = total)
      BY <1>2, <3>1, Stands
    <3>3. Stream!Advance
      BY <1>2, <2>1, <3>1, <3>2 DEF Stream!Advance
    <3> QED
      BY <3>3 DEF Stream!Next
  <2>2. CASE currentRow >= total
    <3>1. Least(currentRow, total) = total /\ Least(currentRow', total') = total
      BY <1>2, <2>2 DEF Least
    <3>2. StreamView(total, -1, TRUE)
      BY <1>2, <3>1, OpenView DEF ShowsStreamRow, StreamView
    <3>3. Stream!StandOn(total, total) /\ (state' = "open" /\ IsEod') = TRUE
      BY <1>2, <3>1, Stands
    <3> QED
      BY <1>2, <3>1, <3>2, <3>3
         DEF StreamView, Stream!StandOn, Stream!NoCell, Stream!vars
  <2> QED
    BY <2>1, <2>2
<1>3. CASE NextBuffered
  BY <1>2, <1>3 DEF NextBuffered, Advance
<1>4. CASE NextFetch
  BY <1>2, <1>4 DEF NextFetch, NeedsFetch, Advance
<1>5. ASSUME NEW type \in ColTypes, Read(type)
      PROVE  [Stream!Next]_(Stream!vars)
  BY <1>5 DEF Read, Stream!vars, Positioned, Cell, IsEod
<1>6. CASE Release
  <2>1. state = "open" /\ state' = "none" /\ currentRow' = 0 /\ total' = 0
    BY <1>6 DEF Release
  <2>2. Stream!StandOn(0, 0) /\ (state' = "open" /\ IsEod') = FALSE
    BY <2>1 DEF Stream!StandOn, Stream!NoCell, Positioned, Least
  <2>3. Stream!Close
    BY <2>1, <2>2 DEF Stream!Close
  <2> QED
    BY <2>3 DEF Stream!Next
<1>7. CASE UNCHANGED vars
  BY <1>7 DEF vars, Stream!vars, Positioned, Cell, IsEod
<1>8. ~SelectThrows /\ ~NextBlocked /\ \A n \in Slots \cup {FetchCount} : ~NextPartial(n)
  BY DEF SelectThrows, NextBlocked, NextPartial
<1> QED
  BY <1>1, <1>3, <1>4, <1>5, <1>6, <1>7, <1>8 DEF Next, CallNext, Fetching

\* When no fetch fails a ResultSet is a RowStream: batches, buffers and the
\* end-of-data flag are invisible to the client (epResultSet.h:62-99).
THEOREM Refinement ==
  ASSUME Faults = {}
  PROVE  Spec => ImplementsRowStream
<1>1. Init => Stream!Init
  BY StreamInit
<1>2. /\ TypeInv /\ BatchInv /\ StreamInv
      /\ TypeInv' /\ BatchInv' /\ StreamInv'
      /\ [Next]_vars
      => [Stream!Next]_(Stream!vars)
  BY StreamNext
<1> QED
  BY <1>1, <1>2, StreamInvariant, PTL DEF Spec, Stream!Spec, ImplementsRowStream
=============================================================================
