--------------------------- MODULE OraErrorProofs ---------------------------
(***************************************************************************)
(* Proofs about OraError for any threads, connections and ORA codes.       *)
(***************************************************************************)
EXTENDS OraError, TLAPS

\* Between a failing call and the throw the handle holds what the failure left
\* there or what a later call on the connection did.
Recorded ==
  \A t \in Threads :
    at[t] = "failed" =>
      /\ failure[t].result # "success"
      /\ failure[t].op = "alloc" => failure[t].result \notin Detailed
      /\ failure[t].result \in Detailed => diag[Records(t, failure[t].op)] \in since[t]

\* Nobody else works on the thread's connection.
Alone(t) == \A u \in Threads : connOf[u] = connOf[t] => u = t

\* Nothing but the failure itself is in the history of a thread alone.
OwnHistory ==
  \A t \in Threads :
    Alone(t) /\ (at[t] = "failed" \/ (at[t] = "thrown" /\ error[t].type = "oracle")) =>
      since[t] = {failure[t].what} /\ failure[t].what # None

ErrorInv == TypeOK /\ Recorded /\ OwnHistory /\ OwnOrLater

Details == [op : Calls, result : Results, what : Failures \cup {None}]

\* A thread's calls are given the handles of its own connection, and the throw
\* behind a call names the one it was given.
LEMMA RecordsHome ==
  ASSUME TypeOK, NEW t \in Threads, NEW op
  PROVE  /\ Records(t, op) \in Handles /\ Records(t, op)[1] = connOf[t]
         /\ Names(t, op) = Records(t, op)
BY DEF TypeOK, Records, Names, Handles

\* The initial states.
LEMMA ErrorInit == Init => ErrorInv
<1> SUFFICES ASSUME Init PROVE ErrorInv
  OBVIOUS
<1>1. TypeOK
  BY DEF Init, TypeOK, NoFailure, NoError, Calls, Results
<1> QED
  BY <1>1 DEF Init, ErrorInv, Recorded, OwnHistory, OwnOrLater

-----------------------------------------------------------------------------
\* A call of t that leaves d in one of t's handles writes it into the history of
\* every thread that waits for its throw and has failed on that handle; it is in
\* nobody's history that is alone.
LEMMA Overtaking ==
  ASSUME ErrorInv, NEW t \in Threads, NEW op \in Calls, NEW d \in Failures \cup {None},
         op = "alloc" => d = diag[Records(t, op)],
         diag' = [diag EXCEPT ![Records(t, op)] = d], connOf' = connOf
  PROVE  /\ diag' \in [Handles -> Failures \cup {None}]
         /\ Overtaken(t, Records(t, op), d) \in [Threads -> SUBSET (Failures \cup {None})]
         /\ diag'[Records(t, op)] = d
         /\ \A u \in Threads : u # t =>
              /\ at[u] # "failed" \/ Alone(u) =>
                   Overtaken(t, Records(t, op), d)[u] = since[u]
              /\ at[u] = "failed" /\ failure[u].result \in Detailed =>
                   diag'[Records(u, failure[u].op)] \in Overtaken(t, Records(t, op), d)[u]
<1> DEFINE h == Records(t, op)
           S == Overtaken(t, h, d)
<1>1. /\ h \in Handles /\ h[1] = connOf[t] /\ diag \in [Handles -> Failures \cup {None}]
      /\ since \in [Threads -> SUBSET (Failures \cup {None})]
  BY RecordsHome DEF ErrorInv, TypeOK
<1>2. /\ diag' \in [Handles -> Failures \cup {None}]
      /\ \A g \in Handles : diag'[g] = IF g = h THEN d ELSE diag[g]
  BY <1>1
<1>3. \A u \in Threads : S[u] = IF u # t /\ connOf[u] = connOf[t] /\ at[u] = "failed"
                                THEN since[u] \cup ({d} \ {diag[h]}) ELSE since[u]
  BY DEF Overtaken
<1>4. S \in [Threads -> SUBSET (Failures \cup {None})]
  <2>1. S = [u \in Threads |-> S[u]]
    BY DEF Overtaken
  <2>2. \A u \in Threads : S[u] \in SUBSET (Failures \cup {None})
    BY <1>1, <1>3
  <2> HIDE DEF S
  <2> QED
    BY <2>1, <2>2
<1> HIDE DEF S
<1>5. ASSUME NEW u \in Threads, u # t, at[u] # "failed" \/ Alone(u)
      PROVE  S[u] = since[u]
  BY <1>3, <1>5 DEF Alone
<1>6. ASSUME NEW u \in Threads, u # t, at[u] = "failed", failure[u].result \in Detailed
      PROVE  diag'[Records(u, failure[u].op)] \in S[u]
  <2> DEFINE g == Records(u, failure[u].op)
  <2>1. g \in Handles /\ g[1] = connOf[u]
    BY RecordsHome DEF ErrorInv
  <2>2. diag[g] \in since[u] /\ failure[u].op # "alloc"
    BY <1>6 DEF ErrorInv, Recorded
  <2> HIDE DEF g
  <2>3. CASE g # h
    <3>1. diag'[g] = diag[g]
      BY <1>2, <2>1, <2>3
    <3> QED
      BY <1>3, <2>2, <3>1 DEF g
  <2>4. CASE g = h
    <3>1. connOf[u] = connOf[t]
      BY <1>1, <2>1, <2>4
    <3>2. S[u] = since[u] \cup ({d} \ {diag[h]}) /\ diag'[g] = d
      BY <1>2, <1>3, <1>6, <2>1, <2>4, <3>1
    <3> QED
      BY <2>2, <2>4, <3>2 DEF g
  <2> QED
    BY <2>3, <2>4
<1> QED
  BY <1>1, <1>2, <1>4, <1>5, <1>6 DEF S

\* What the others waited for and were told stays true in a step of t that only
\* extends the histories in this way.
LEMMA OthersKeep ==
  ASSUME ErrorInv, NEW t \in Threads, connOf' = connOf,
         \A u \in Threads : u # t =>
           /\ at'[u] = at[u] /\ failure'[u] = failure[u] /\ error'[u] = error[u]
           /\ at[u] # "failed" \/ Alone(u) => since'[u] = since[u]
           /\ at[u] = "failed" /\ failure[u].result \in Detailed =>
                diag'[Records(u, failure[u].op)] \in since'[u],
         at'[t] = "failed" =>
           /\ failure'[t].result # "success"
           /\ failure'[t].op = "alloc" => failure'[t].result \notin Detailed
           /\ failure'[t].result \in Detailed =>
                diag'[Records(t, failure'[t].op)] \in since'[t],
         Alone(t) /\ (at'[t] = "failed" \/ (at'[t] = "thrown" /\ error'[t].type = "oracle")) =>
           since'[t] = {failure'[t].what} /\ failure'[t].what # None,
         at'[t] = "thrown" /\ error'[t].type = "oracle" =>
           /\ error'[t].code = failure'[t].result
           /\ error'[t].oraCode \in IF failure'[t].result \in Detailed
                                    THEN {Told(d) : d \in since'[t]} ELSE {Unwritten}
  PROVE  Recorded' /\ OwnHistory' /\ OwnOrLater'
<1>1. Recorded'
  BY DEF ErrorInv, Recorded, Records
<1>2. OwnHistory'
  BY DEF ErrorInv, OwnHistory, Alone
<1>3. OwnOrLater'
  <2> SUFFICES ASSUME NEW u \in Threads, at'[u] = "thrown", error'[u].type = "oracle"
               PROVE  /\ error'[u].code = failure'[u].result
                      /\ error'[u].oraCode \in IF failure'[u].result \in Detailed
                                               THEN {Told(d) : d \in since'[u]} ELSE {Unwritten}
    BY DEF OwnOrLater
  <2>1. CASE u = t
    BY <2>1
  <2>2. CASE u # t
    <3>1. since'[u] = since[u]
      BY <2>2
    <3> QED
      BY <2>2, <3>1 DEF ErrorInv, OwnOrLater
  <2> QED
    BY <2>1, <2>2
<1> QED
  BY <1>1, <1>2, <1>3

-----------------------------------------------------------------------------
\* Call: one that fails starts its history with its own diagnostics.
LEMMA CallKeeps ==
  ASSUME ErrorInv, NEW t \in Threads, NEW op \in Calls, NEW r \in Results,
         NEW c \in OraCodes, Call(t, op, r, c)
  PROVE  ErrorInv'
<1> DEFINE h == Records(t, op)
<1>1. /\ at \in [Threads -> {"out", "failed", "thrown"}] /\ failure \in [Threads -> Details]
      /\ since \in [Threads -> SUBSET (Failures \cup {None})]
      /\ diag \in [Handles -> Failures \cup {None}] /\ h \in Handles
      /\ connOf' = connOf /\ error' = error /\ at[t] = "out"
      /\ op = "alloc" => r \in {"success", "invalid"}
  BY RecordsHome DEF ErrorInv, TypeOK, Call, Details
<1>2. PICK d \in Leaves(t, op, r, c) :
        /\ diag' = [diag EXCEPT ![h] = d]
        /\ since' = [Overtaken(t, h, d) EXCEPT
                      ![t] = IF r \in Accepted(op) THEN {} ELSE {<<t, c>>}]
  BY DEF Call
<1>3. <<t, c>> \in Failures /\ <<t, c>> # None
  BY DEF Failures, None
<1>4. d \in Failures \cup {None} /\ (op = "alloc" => d = diag[h])
  <2>1. diag[h] \in Failures \cup {None}
    BY <1>1
  <2>2. op = "alloc" => r \notin Detailed
    BY <1>1 DEF Detailed
  <2> QED
    BY <1>2, <1>3, <2>1, <2>2 DEF Leaves
<1> HIDE DEF h
<1>5. /\ diag' \in [Handles -> Failures \cup {None}]
      /\ Overtaken(t, h, d) \in [Threads -> SUBSET (Failures \cup {None})]
      /\ diag'[h] = d
      /\ \A u \in Threads : u # t =>
           /\ at[u] # "failed" \/ Alone(u) => Overtaken(t, h, d)[u] = since[u]
           /\ at[u] = "failed" /\ failure[u].result \in Detailed =>
                diag'[Records(u, failure[u].op)] \in Overtaken(t, h, d)[u]
  BY <1>1, <1>2, <1>4, Overtaking DEF h
<1>6. /\ since' \in [Threads -> SUBSET (Failures \cup {None})]
      /\ since'[t] = IF r \in Accepted(op) THEN {} ELSE {<<t, c>>}
      /\ \A u \in Threads : u # t => since'[u] = Overtaken(t, h, d)[u]
  BY <1>2, <1>3, <1>5
<1>7. /\ at' \in [Threads -> {"out", "failed", "thrown"}] /\ failure' \in [Threads -> Details]
      /\ \A u \in Threads : u # t => at'[u] = at[u] /\ failure'[u] = failure[u]
      /\ at'[t] # "thrown"
      /\ at'[t] = "failed" =>
           /\ r \notin Accepted(op)
           /\ failure'[t] = [op |-> op, result |-> r, what |-> <<t, c>>]
  <2>1. CASE r \in Accepted(op)
    BY <1>1, <2>1 DEF Call
  <2>2. CASE r \notin Accepted(op)
    <3>1. /\ failure' = [failure EXCEPT ![t] = [op |-> op, result |-> r, what |-> <<t, c>>]]
          /\ at' = [at EXCEPT ![t] = "failed"]
      BY <2>2 DEF Call
    <3>2. [op |-> op, result |-> r, what |-> <<t, c>>] \in Details
      BY <1>3 DEF Details
    <3> QED
      BY <1>1, <2>2, <3>1, <3>2
  <2> QED
    BY <2>1, <2>2
<1>8. TypeOK'
  BY <1>1, <1>5, <1>6, <1>7 DEF ErrorInv, TypeOK, Details
<1>9. at'[t] = "failed" =>
        /\ failure'[t].result = r /\ failure'[t].op = op /\ failure'[t].what = <<t, c>>
        /\ r # "success" /\ (op = "alloc" => r \notin Detailed)
        /\ since'[t] = {<<t, c>>} /\ (r \in Detailed => diag'[h] = <<t, c>>)
  <2>1. r \notin Accepted(op) => r # "success" /\ (r \in Detailed => d = <<t, c>>)
    BY <1>2 DEF Accepted, Leaves
  <2> QED
    BY <1>1, <1>5, <1>6, <1>7, <2>1 DEF Detailed
<1>10. at'[t] = "failed" /\ failure'[t].result \in Detailed =>
         diag'[Records(t, failure'[t].op)] \in since'[t]
  BY <1>9 DEF h
<1>11. Recorded' /\ OwnHistory' /\ OwnOrLater'
  <2>1. \A u \in Threads : u # t =>
          /\ at'[u] = at[u] /\ failure'[u] = failure[u] /\ error'[u] = error[u]
          /\ at[u] # "failed" \/ Alone(u) => since'[u] = since[u]
          /\ at[u] = "failed" /\ failure[u].result \in Detailed =>
               diag'[Records(u, failure[u].op)] \in since'[u]
    BY <1>1, <1>5, <1>6, <1>7
  <2>2. at'[t] = "failed" => since'[t] = {failure'[t].what} /\ failure'[t].what # None
    BY <1>3, <1>9
  <2> QED
    BY <1>1, <1>7, <1>9, <1>10, <2>1, <2>2, OthersKeep
<1> QED
  BY <1>8, <1>11 DEF ErrorInv

\* Throw: the error tells what the handle holds, which is in the history.
LEMMA ThrowKeeps ==
  ASSUME ErrorInv, NEW t \in Threads, Throw(t)
  PROVE  ErrorInv'
<1> DEFINE f == failure[t]
           h == Records(t, f.op)
           e == [type |-> "oracle", code |-> f.result, oraCode |-> OraCode(f.result, h)]
<1>1. /\ at \in [Threads -> {"out", "failed", "thrown"}] /\ f \in Details
      /\ diag \in [Handles -> Failures \cup {None}]
      /\ connOf' = connOf /\ diag' = diag /\ failure' = failure /\ since' = since
      /\ at[t] = "failed" /\ at' = [at EXCEPT ![t] = "thrown"]
  BY DEF ErrorInv, TypeOK, Throw, Details
<1>2. h \in Handles /\ Names(t, f.op) = h
  BY RecordsHome DEF ErrorInv
<1>3. error' = [error EXCEPT ![t] = e]
  BY <1>2 DEF Throw
<1>4. f.result # "success" /\ (f.result \in Detailed => diag[h] \in since[t])
  BY <1>1 DEF ErrorInv, Recorded
<1>5. e \in OracleErrors
  BY <1>1, <1>2, <1>4 DEF OracleErrors, OraCode, Details
<1>6. /\ error' \in [Threads -> {NoError} \cup OracleErrors \cup OraLibErrors]
      /\ error'[t] = e /\ at'[t] = "thrown"
      /\ \A u \in Threads : u # t => error'[u] = error[u] /\ at'[u] = at[u]
  BY <1>1, <1>3, <1>5 DEF ErrorInv, TypeOK
<1>7. TypeOK'
  BY <1>1, <1>6 DEF ErrorInv, TypeOK
<1>8. e.code = f.result /\ e.oraCode \in IF f.result \in Detailed
                                         THEN {Told(d) : d \in since[t]} ELSE {Unwritten}
  <2>1. e.oraCode = IF f.result \in Detailed THEN Told(diag[h]) ELSE Unwritten
    BY DEF OraCode, Told
  <2> QED
    BY <1>4, <2>1
<1>9. Alone(t) => since[t] = {failure[t].what} /\ failure[t].what # None
  BY <1>1 DEF ErrorInv, OwnHistory
<1> HIDE DEF e, h
<1>10. \A u \in Threads : u # t /\ at[u] = "failed" /\ failure[u].result \in Detailed =>
         diag'[Records(u, failure[u].op)] \in since'[u]
  BY <1>1 DEF ErrorInv, Recorded
<1>11. Recorded' /\ OwnHistory' /\ OwnOrLater'
  BY <1>1, <1>6, <1>8, <1>9, <1>10, OthersKeep
<1> QED
  BY <1>7, <1>11 DEF ErrorInv

\* ThrowOraLib: no error of Oracle's.
LEMMA ThrowOraLibKeeps ==
  ASSUME ErrorInv, NEW t \in Threads, ThrowOraLib(t)
  PROVE  ErrorInv'
<1> DEFINE e == [type |-> "oralib", code |-> "EC", oraCode |-> None]
<1>1. /\ connOf' = connOf /\ diag' = diag /\ failure' = failure /\ since' = since
      /\ at' = [at EXCEPT ![t] = "thrown"] /\ error' = [error EXCEPT ![t] = e]
      /\ at \in [Threads -> {"out", "failed", "thrown"}]
      /\ error \in [Threads -> {NoError} \cup OracleErrors \cup OraLibErrors]
  BY DEF ThrowOraLib, ErrorInv, TypeOK
<1>2. e \in OraLibErrors /\ e.type # "oracle"
  BY DEF OraLibErrors
<1>3. /\ error'[t] = e /\ at'[t] = "thrown"
      /\ \A u \in Threads : u # t => error'[u] = error[u] /\ at'[u] = at[u]
      /\ error' \in [Threads -> {NoError} \cup OracleErrors \cup OraLibErrors]
      /\ at' \in [Threads -> {"out", "failed", "thrown"}]
  BY <1>1, <1>2
<1> HIDE DEF e
<1>4. TypeOK'
  BY <1>1, <1>3 DEF ErrorInv, TypeOK
<1>5. \A u \in Threads : u # t /\ at[u] = "failed" /\ failure[u].result \in Detailed =>
        diag'[Records(u, failure[u].op)] \in since'[u]
  BY <1>1 DEF ErrorInv, Recorded
<1>6. Recorded' /\ OwnHistory' /\ OwnOrLater'
  BY <1>1, <1>2, <1>3, <1>5, OthersKeep
<1> QED
  BY <1>4, <1>6 DEF ErrorInv

\* CleanUp: it overwrites what its own error has told already.
LEMMA CleanUpKeeps ==
  ASSUME ErrorInv, NEW t \in Threads, CleanUp(t)
  PROVE  ErrorInv'
<1> DEFINE h == Records(t, "use")
<1>1. /\ connOf' = connOf /\ at' = at /\ failure' = failure /\ error' = error
      /\ at[t] = "thrown" /\ since \in [Threads -> SUBSET (Failures \cup {None})]
  BY DEF CleanUp, CleaningUp, ErrorInv, TypeOK
<1>2. PICK d \in {None} \cup ({t} \X OraCodes) :
        diag' = [diag EXCEPT ![h] = d] /\ since' = Overtaken(t, h, d)
  BY DEF CleanUp, CleaningUp
<1>3. d \in Failures \cup {None} /\ "use" \in Calls
  BY DEF Failures, Calls
<1> HIDE DEF h
<1>4. /\ diag' \in [Handles -> Failures \cup {None}]
      /\ since' \in [Threads -> SUBSET (Failures \cup {None})]
      /\ \A u \in Threads : u # t =>
           /\ at[u] # "failed" \/ Alone(u) => since'[u] = since[u]
           /\ at[u] = "failed" /\ failure[u].result \in Detailed =>
                diag'[Records(u, failure[u].op)] \in since'[u]
  <2>1. "use" = "alloc" => d = diag[h]
    OBVIOUS
  <2>2. /\ diag' \in [Handles -> Failures \cup {None}]
        /\ Overtaken(t, h, d) \in [Threads -> SUBSET (Failures \cup {None})]
        /\ \A u \in Threads : u # t =>
             /\ at[u] # "failed" \/ Alone(u) => Overtaken(t, h, d)[u] = since[u]
             /\ at[u] = "failed" /\ failure[u].result \in Detailed =>
                  diag'[Records(u, failure[u].op)] \in Overtaken(t, h, d)[u]
    BY <1>1, <1>2, <1>3, <2>1, Overtaking DEF h
  <2> QED
    BY <1>2, <2>2
<1>5. since'[t] = since[t]
  BY <1>1, <1>2 DEF Overtaken
<1>6. TypeOK'
  BY <1>1, <1>4 DEF ErrorInv, TypeOK
<1>7. /\ Alone(t) /\ error[t].type = "oracle" => since[t] = {failure[t].what} /\ failure[t].what # None
      /\ error[t].type = "oracle" =>
           /\ error[t].code = failure[t].result
           /\ error[t].oraCode \in IF failure[t].result \in Detailed
                                   THEN {Told(x) : x \in since[t]} ELSE {Unwritten}
  BY <1>1 DEF ErrorInv, OwnHistory, OwnOrLater
<1>8. Recorded' /\ OwnHistory' /\ OwnOrLater'
  BY <1>1, <1>4, <1>5, <1>7, OthersKeep
<1> QED
  BY <1>6, <1>8 DEF ErrorInv

\* Catch.
LEMMA CatchKeeps ==
  ASSUME ErrorInv, NEW t \in Threads, Catch(t)
  PROVE  ErrorInv'
<1>1. /\ connOf' = connOf /\ diag' = diag
      /\ at' = [at EXCEPT ![t] = "out"] /\ error' = [error EXCEPT ![t] = NoError]
      /\ failure' = [failure EXCEPT ![t] = NoFailure] /\ since' = [since EXCEPT ![t] = {}]
      /\ at \in [Threads -> {"out", "failed", "thrown"}]
      /\ error \in [Threads -> {NoError} \cup OracleErrors \cup OraLibErrors]
      /\ failure \in [Threads -> Details]
      /\ since \in [Threads -> SUBSET (Failures \cup {None})]
  BY DEF Catch, ErrorInv, TypeOK, Details
<1>2. NoFailure \in Details
  BY DEF NoFailure, Details, Calls, Results
<1>3. /\ at'[t] = "out"
      /\ \A u \in Threads : u # t => /\ error'[u] = error[u] /\ at'[u] = at[u]
                                     /\ failure'[u] = failure[u] /\ since'[u] = since[u]
      /\ error' \in [Threads -> {NoError} \cup OracleErrors \cup OraLibErrors]
      /\ at' \in [Threads -> {"out", "failed", "thrown"}]
      /\ failure' \in [Threads -> Details]
      /\ since' \in [Threads -> SUBSET (Failures \cup {None})]
  BY <1>1, <1>2
<1>4. TypeOK'
  BY <1>1, <1>3 DEF ErrorInv, TypeOK, Details
<1>5. \A u \in Threads : u # t /\ at[u] = "failed" /\ failure[u].result \in Detailed =>
        diag'[Records(u, failure[u].op)] \in since'[u]
  BY <1>1, <1>3 DEF ErrorInv, Recorded
<1>6. Recorded' /\ OwnHistory' /\ OwnOrLater'
  BY <1>1, <1>3, <1>5, OthersKeep
<1> QED
  BY <1>4, <1>6 DEF ErrorInv

-----------------------------------------------------------------------------
\* Every step keeps the invariant.
LEMMA ErrorNext == ErrorInv /\ [Next]_vars => ErrorInv'
<1> SUFFICES ASSUME ErrorInv, [Next]_vars PROVE ErrorInv'
  OBVIOUS
<1>1. CASE UNCHANGED vars
  BY <1>1 DEF vars, ErrorInv, TypeOK, Recorded, OwnHistory, OwnOrLater, Alone, Records
<1>2. CASE Next
  BY <1>2, CallKeeps, ThrowKeeps, ThrowOraLibKeeps, CleanUpKeeps, CatchKeeps DEF Next
<1> QED
  BY <1>1, <1>2

\* The invariant holds throughout.
LEMMA ErrorAlways == Spec => []ErrorInv
BY ErrorInit, ErrorNext, PTL DEF Spec

\* The types: an Oracle error has a result that is a failure.
THEOREM ErrorTypes == Spec => []TypeOK
<1>1. ErrorInv => TypeOK
  BY DEF ErrorInv
<1> QED
  BY <1>1, ErrorAlways, PTL

\* An error tells of its call or of one that overtook it on its connection
\* before the throw (epOraError.cpp:135-205).
THEOREM DiagnosticsCorrect == Spec => []OwnOrLater
<1>1. ErrorInv => OwnOrLater
  BY DEF ErrorInv
<1> QED
  BY <1>1, ErrorAlways, PTL

\* A thread alone on its connection is told of its own failure, with every
\* detail there is.
OwnDiagnostics ==
  \A t \in Threads :
    at[t] = "thrown" /\ error[t].type = "oracle" /\ Alone(t) =>
      error[t].oraCode = IF failure[t].result \in Detailed
                         THEN failure[t].what ELSE Unwritten

\* Without a second thread on the connection nothing overtakes the throw
\* (epOraError.cpp:135-205).
THEOREM AloneIsToldItsOwn == Spec => []OwnDiagnostics
<1>1. ErrorInv => OwnDiagnostics
  <2> SUFFICES ASSUME ErrorInv, NEW t \in Threads, at[t] = "thrown",
                      error[t].type = "oracle", Alone(t)
               PROVE  error[t].oraCode = IF failure[t].result \in Detailed
                                         THEN failure[t].what ELSE Unwritten
    BY DEF OwnDiagnostics
  <2>1. since[t] = {failure[t].what} /\ failure[t].what # None
    BY DEF ErrorInv, OwnHistory
  <2>2. error[t].oraCode \in IF failure[t].result \in Detailed
                             THEN {Told(d) : d \in since[t]} ELSE {Unwritten}
    BY DEF ErrorInv, OwnOrLater
  <2> QED
    BY <2>1, <2>2 DEF Told
<1> QED
  BY <1>1, ErrorAlways, PTL
=============================================================================
