----------------------------- MODULE ResultSet -----------------------------
(***************************************************************************)
(* epol::ResultSet: a forward-only cursor that fetches FetchCount rows at  *)
(* a time into buffers which every fetch overwrites (epResultSet.cpp), and *)
(* the column readers over those buffers (epColumn.cpp).  A row is its     *)
(* number in the query, 0 .. total-1; a slot of the buffer holds the row   *)
(* whose value was last written there.  The OCI side is the statement      *)
(* handle's row count, `served'.                                           *)
(***************************************************************************)
EXTENDS Integers

CONSTANTS
  Totals,       \* how many rows a query may return
  FetchSize,    \* FETCH_SIZE, the rows asked of each fetch
  UShortSpan,   \* 2^16: the values of the unsigned short m_fetchCount
  Faults,       \* what OCIStmtFetch may do besides delivering rows:
                \*   "blocked"  OCI_STILL_EXECUTING, no row moved
                \*   "partial"  rows moved, then an error is returned
  MaxRow,       \* bound on m_currentRow, which every Next increments
  ColType,      \* m_colType of the column read
  NullRows      \* the rows whose value in that column is NULL

ColTypes == {"text", "number", "date"}

\* ResultSet::attach assigns an unsigned int to the unsigned short m_fetchCount.
FetchCount == FetchSize % UShortSpan

ASSUME ResultSetAssumption ==
  /\ Totals \subseteq Nat
  /\ FetchSize \in Nat
  /\ UShortSpan \in Nat \ {0}
  /\ FetchCount # 0
  /\ Faults \subseteq {"blocked", "partial"}
  /\ MaxRow \in Nat
  /\ ColType \in ColTypes
  /\ NullRows \subseteq Nat

VARIABLES
  state,        \* "none" | "open": is there a ResultSet object
  total,        \* the rows of the executed query, which only the server knows
  served,       \* OCI_ATTR_ROW_COUNT of the statement handle
  rowsFetched,  \* m_rowsFetched
  currentRow,   \* m_currentRow
  isEod,        \* m_isEod
  slot,         \* the column's buffer: slot -> row, or Unwritten
  answer,       \* the client's last call and what it returned
  presented     \* history: the rows the client has stood on

vars == <<state, total, served, rowsFetched, currentRow, isEod, slot,
          answer, presented>>

Slots == 0 .. FetchCount - 1
Unwritten == -1
Least(a, b) == IF a < b THEN a ELSE b

Call(name, result) == [call |-> name, result |-> result, row |-> Unwritten]

-----------------------------------------------------------------------------
(* Fetching.                                                               *)

\* OCIStmtFetch of FetchCount rows delivers these, once the cursor has
\* served `from' of the t rows.
Delivered(t, from) == Least(FetchCount, t - from)

\* The n rows of a fetch land in the first n slots; the others keep what
\* they held.  (Mutant: a short batch lands at the end of the buffer.)
FillAtEnd(buf, from, n) ==
  [i \in Slots |-> IF i >= FetchCount - n THEN from + i - (FetchCount - n) ELSE buf[i]]
Fill(buf, from, n) == [i \in Slots |-> IF i < n THEN from + i ELSE buf[i]]

\* fetchRows: fewer new rows than asked for is the end of the data.
\* (Mutants: the cumulative count is compared; the flag is never set.)
EodAfterCumulative(count, old) == count # FetchCount
EodAfterNever(count, old) == FALSE
EodAfter(count, old) == count - old # FetchCount

\* The slot of a row, in every reader.  (Mutant: 1-based rows.)
SlotFromOne(row) == (row + 1) % FetchCount
SlotOf(row) == row % FetchCount

Cell == slot[SlotOf(currentRow)]
Positioned == state = "open" /\ currentRow < rowsFetched

\* IsEod (epResultSet.h:67): m_isEod is already set while the rows of the
\* last batch are still to be visited.  (Mutant: the flag alone.)
EodFlagAlone == isEod
IsEod == currentRow >= rowsFetched /\ isEod

\* The row a client stands on after a call that returned one.
Show == presented' =
          IF currentRow' < rowsFetched'
          THEN presented \cup {slot'[SlotOf(currentRow')]}
          ELSE presented

-----------------------------------------------------------------------------
Init == /\ state = "none"
        /\ total = 0 /\ served = 0
        /\ rowsFetched = 0 /\ currentRow = 0 /\ isEod = FALSE
        /\ slot = [i \in Slots |-> Unwritten]
        /\ answer = Call("none", "none")
        /\ presented = {}

\* Statement::Select: execute, attach, describe, define, and the first fetch,
\* which leaves the cursor on row 0.
Select(t) ==
  /\ state = "none"
  /\ state' = "open"
  /\ total' = t
  /\ served' = Delivered(t, 0)
  /\ rowsFetched' = served'
  /\ isEod' = EodAfter(served', 0)
  /\ currentRow' = 0
  /\ slot' = Fill(slot, 0, served')
  /\ answer' = Call("Select", "opened")
  /\ Show

\* Statement::Select when executing or the first fetch throws: the object
\* made meanwhile is released and the client has none.
SelectThrows ==
  /\ state = "none"
  /\ Faults # {}
  /\ answer' = Call("Select", "threw")
  /\ UNCHANGED <<state, total, served, rowsFetched, currentRow, isEod, slot,
                 presented>>

\* Next's first statement, before anything that can throw, and its bound.
\* (Mutant: the cursor is left where it is at the end of a batch.)
AdvanceStuck == currentRow < MaxRow /\ currentRow' = Least(currentRow + 1, rowsFetched - 1)
Advance == currentRow < MaxRow /\ currentRow' = currentRow + 1

\* Next within the batch, or past the end of the data: no fetch.
NextBuffered ==
  /\ state = "open"
  /\ Advance
  /\ currentRow + 1 < rowsFetched \/ isEod
  /\ answer' = Call("Next", IF currentRow + 1 < rowsFetched THEN "true" ELSE "false")
  /\ UNCHANGED <<state, total, served, rowsFetched, isEod, slot>>
  /\ Show

\* Next at the end of a batch, when the end of the data is not known.
NeedsFetch == state = "open" /\ currentRow + 1 >= rowsFetched /\ ~isEod

NextFetch ==
  /\ NeedsFetch
  /\ Advance
  /\ served' = served + Delivered(total, served)
  /\ slot' = Fill(slot, served, Delivered(total, served))
  /\ rowsFetched' = served'
  /\ isEod' = EodAfter(served', rowsFetched)
  /\ answer' = Call("Next", IF currentRow + 1 < rowsFetched' THEN "true" ELSE "false")
  /\ UNCHANGED <<state, total>>
  /\ Show

\* The fetch returns OCI_STILL_EXECUTING: fetchRows throws, and m_currentRow
\* has already been incremented.
NextBlocked ==
  /\ "blocked" \in Faults
  /\ NeedsFetch
  /\ Advance
  /\ answer' = Call("Next", "threw")
  /\ UNCHANGED <<state, total, served, rowsFetched, isEod, slot, presented>>

\* The fetch returns an error after n rows have reached the buffers and the
\* row count, or they all have and reading the row count fails: fetchRows
\* throws before m_rowsFetched is assigned.
NextPartial(n) ==
  /\ "partial" \in Faults
  /\ NeedsFetch
  /\ Advance
  /\ n <= Delivered(total, served)
  /\ served' = served + n
  /\ slot' = Fill(slot, served, n)
  /\ answer' = Call("Next", "threw")
  /\ UNCHANGED <<state, total, rowsFetched, isEod, presented>>

\* ToString, ToDouble, ToLong, ToDateTime: the value of the slot when the
\* type fits and the indicator is not -1, else EC_BAD_OUTPUT_TYPE.  The
\* indicator of a slot never written is whatever the allocation left there.
\* m_rowsFetched and m_isEod are not looked at.
\* (Mutant: the indicator is not looked at either.)
ReadsAnyIndicator(type) ==
  {IF type = ColType THEN [call |-> "Read", result |-> "value", row |-> Cell]
                     ELSE Call("Read", "threw")}
Reads(type) ==
  LET value == [call |-> "Read", result |-> "value", row |-> Cell]
      threw == Call("Read", "threw")
  IN  IF type # ColType \/ Cell \in NullRows THEN {threw}
      ELSE IF Cell = Unwritten THEN {value, threw}
      ELSE {value}

Read(type) ==
  /\ state = "open"
  /\ answer' \in Reads(type)
  /\ UNCHANGED <<state, total, served, rowsFetched, currentRow, isEod, slot,
                 presented>>

\* ReleaseObj of the last reference: the object and its buffers are gone.
Release ==
  /\ state = "open"
  /\ state' = "none"
  /\ total' = 0 /\ served' = 0
  /\ rowsFetched' = 0 /\ currentRow' = 0 /\ isEod' = FALSE
  /\ slot' = [i \in Slots |-> Unwritten]
  /\ answer' = Call("none", "none")
  /\ presented' = {}

Fetching == NextFetch \/ NextBlocked \/ (\E n \in Slots \cup {FetchCount} : NextPartial(n))
CallNext == NextBuffered \/ Fetching

Next == \/ \E t \in Totals : Select(t)
        \/ SelectThrows
        \/ CallNext
        \/ \E type \in ColTypes : Read(type)
        \/ Release

Spec == Init /\ [][Next]_vars

\* A client that keeps calling Next while it holds a result set, as every
\* loop over rows does.
FairSpec == Spec /\ WF_vars(CallNext)

-----------------------------------------------------------------------------
(* Types.                                                                  *)

\* Every variable has its type; a slot holds a row or was never written.
TypeOK ==
  /\ state \in {"none", "open"}
  /\ total \in Nat /\ served \in Nat
  /\ rowsFetched \in Nat /\ currentRow \in Nat
  /\ isEod \in BOOLEAN
  /\ slot \in [Slots -> Nat \cup {Unwritten}]
  /\ answer \in [call : {"none", "Select", "Next", "Read"},
                 result : {"none", "opened", "true", "false", "value", "threw"},
                 row : Nat \cup {Unwritten}]
  /\ presented \subseteq Nat \cup {Unwritten}

-----------------------------------------------------------------------------
(* Safety.                                                                 *)

\* A cursor that stands on a row reads that row's own slot, whatever batch
\* the row came in (epColumn.cpp:149, 158, 172 against epResultSet.cpp:232).
CursorOnRow == Positioned => Cell = currentRow

\* A value a reader returned for the row the cursor stands on is that row's,
\* and it is not NULL (epColumn.cpp:159, 173, 194, 214).
ReadsOwnValue ==
  answer.call = "Read" /\ answer.result = "value" /\ Positioned =>
    answer.row = currentRow /\ answer.row \notin NullRows

\* Whatever was thrown and retried, a reader returns only values the server
\* delivered, never the memory of a slot no fetch wrote, once the query has
\* rows and the first fetch succeeded (epResultSet.cpp:225-241).
ReadsDelivered ==
  answer.call = "Read" /\ answer.result = "value" /\ Positioned =>
    answer.row \in 0 .. served - 1

\* IsEod is "true if at end of data" (epResultSet.h:65): every row of the
\* query has been fetched by then.
EodMeansExhausted == state = "open" /\ IsEod => rowsFetched = total

\* Next is "false if at last row" (epResultSet.h:83): a client that stops on
\* FALSE has stood on every row of the query.
FalseMeansAllPresented ==
  answer = Call("Next", "false") => presented = 0 .. total - 1

\* "Traverse to the next row" (epResultSet.h:82): each call that returns TRUE
\* presents the row after those presented before, whatever threw in between.
NextPresentsNextRow ==
  [][answer' = Call("Next", "true") =>
       presented' = 0 .. currentRow' /\ presented' # presented]_vars

\* A client that keeps calling Next reaches the end of the data.
ReachesEnd == state = "open" ~> (state = "none" \/ IsEod)

-----------------------------------------------------------------------------
(* Refinement: without faults a ResultSet is a RowStream.                  *)

Stream == INSTANCE RowStream WITH
  state <- state,
  total <- total,
  at    <- Least(currentRow, total),
  cell  <- IF Positioned THEN Cell ELSE -1,
  eod   <- state = "open" /\ IsEod

\* The batches, the buffers and the end-of-data flag together present the
\* rows one by one in order, and IsEod is exact.
ImplementsRowStream == Stream!Spec
=============================================================================
