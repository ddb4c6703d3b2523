------------------------------ MODULE OraError ------------------------------
(***************************************************************************)
(* How a failing call becomes an exception (epOraError.cpp).  OCI records  *)
(* the diagnostics of a failure in the handle the call was given, and the  *)
(* constructor of OraError asks that handle for them afterwards: a thread  *)
(* may have been overtaken by another one on its connection meanwhile.     *)
(***************************************************************************)
EXTENDS Naturals

CONSTANTS
  Threads, Conns,
  OraCodes     \* ORA-xxxxx

\* m_envHandle and m_errorHandle of each connection.
Handles == Conns \X {"env", "error"}
\* A failure is known by its thread and code.
Failures == Threads \X OraCodes
None == <<"none">>

\* The results of a call: "error" stands for OCI_STILL_EXECUTING too and
\* "invalid" for OCI_NEED_DATA and OCI_CONTINUE, which have no details either.
Results == {"success", "info", "error", "noData", "invalid"}
Detailed == {"info", "error", "noData"}
Calls == {"alloc", "use", "fetch"}
\* The results of a call that are no failure.  (Mutant: the test is negated.)
AcceptedNegated(op) == Results \ {"success"}
Accepted(op) == IF op = "fetch" THEN {"success", "info", "noData"} ELSE {"success"}

VARIABLES
  connOf,  \* the connection a thread works on, its own or another's
  at,      \* a thread's place: "out" | "failed" | "thrown"
  diag,    \* a handle's diagnostics
  failure, \* a thread's last failure: the call, its result and its failure
  error,   \* its OraError: m_type, m_code and m_oraCode
  since    \* history: what the calls of its connection have recorded from the
           \* failing one to the throw, whatever handle they were given

vars == <<connOf, at, diag, failure, error, since>>

NoFailure == [op |-> "use", result |-> "success", what |-> None]
NoError == [type |-> "none", code |-> "success", oraCode |-> None]
\* A member the constructor did not write.
Unwritten == <<"unwritten">>

Init == /\ connOf \in [Threads -> Conns]
        /\ at = [t \in Threads |-> "out"]
        /\ diag = [h \in Handles |-> None]
        /\ failure = [t \in Threads |-> NoFailure]
        /\ error = [t \in Threads |-> NoError]
        /\ since = [t \in Threads |-> {}]

-----------------------------------------------------------------------------
\* The handle a call records its diagnostics in: OCIHandleAlloc is given the
\* environment, and leaves none (ociap.h:3279), every other call the error
\* handle.
Records(t, op) == <<connOf[t], IF op = "alloc" THEN "env" ELSE "error">>

\* What a call may leave there: an accepted one anything of its own, a failing
\* one its diagnostics, unless it was not even given a handle.
Leaves(t, op, r, c) ==
  IF r \in Accepted(op)
  THEN {diag[Records(t, op)]} \cup (IF op = "alloc" THEN {} ELSE {None, <<t, c>>})
  ELSE {IF r \in Detailed THEN <<t, c>> ELSE diag[Records(t, op)]}

\* The history of the threads that wait for their throw on t's connection, when
\* a call of t leaves d in handle h.
Overtaken(t, h, d) ==
  [u \in Threads |-> IF u # t /\ connOf[u] = connOf[t] /\ at[u] = "failed"
                     THEN since[u] \cup ({d} \ {diag[h]}) ELSE since[u]]

\* The handle the throw behind a call names.
Names(t, op) == <<connOf[t], IF op = "alloc" THEN "env" ELSE "error">>

\* A call of the library on the thread's connection; warnings and the end of the
\* rows are no failures of a fetch.
Call(t, op, r, c) ==
  /\ at[t] = "out"
  /\ op = "alloc" => r \in {"success", "invalid"}
  /\ \E d \in Leaves(t, op, r, c) :
       /\ diag' = [diag EXCEPT ![Records(t, op)] = d]
       /\ since' = [Overtaken(t, Records(t, op), d) EXCEPT
                      ![t] = IF r \in Accepted(op) THEN {} ELSE {<<t, c>>}]
  /\ IF r \in Accepted(op)
     THEN UNCHANGED <<at, failure>>
     ELSE /\ failure' = [failure EXCEPT ![t] = [op |-> op, result |-> r, what |-> <<t, c>>]]
          /\ at' = [at EXCEPT ![t] = "failed"]
  /\ UNCHANGED <<connOf, error>>

\* m_oraCode of an error built from result r and handle h.
\* (Mutant: details are asked for an OCI_ERROR alone.)
OraCodeErrorsOnly(r, h) == IF r = "error" /\ diag[h] # None THEN diag[h] ELSE Unwritten
OraCode(r, h) == IF r \in Detailed /\ diag[h] # None THEN diag[h] ELSE Unwritten

\* The constructor from a result and a handle, and the throw.
Throw(t) ==
  /\ at[t] = "failed"
  /\ error' = [error EXCEPT ![t] =
       [type |-> "oracle", code |-> failure[t].result,
        oraCode |-> OraCode(failure[t].result, Names(t, failure[t].op))]]
  /\ at' = [at EXCEPT ![t] = "thrown"]
  /\ UNCHANGED <<connOf, diag, failure, since>>

\* The constructor from one of the library's own codes.
ThrowOraLib(t) ==
  /\ at[t] = "out"
  /\ error' = [error EXCEPT ![t] = [type |-> "oralib", code |-> "EC", oraCode |-> None]]
  /\ at' = [at EXCEPT ![t] = "thrown"]
  /\ UNCHANGED <<connOf, diag, failure, since>>

\* A catch (...) of a constructor cleans up and throws on: its calls may fail
\* and nobody looks.
CleaningUp(t) ==
  /\ \E d \in {None} \cup ({t} \X OraCodes) :
       /\ diag' = [diag EXCEPT ![Records(t, "use")] = d]
       /\ since' = Overtaken(t, Records(t, "use"), d)
  /\ UNCHANGED <<connOf, at, failure, error>>

\* (Mutant: it cleans up before it builds the error.)
CleanUpFirst(t) == at[t] \in {"failed", "thrown"} /\ CleaningUp(t)
CleanUp(t) == at[t] = "thrown" /\ CleaningUp(t)

\* The client has handled the exception.
Catch(t) ==
  /\ at[t] = "thrown"
  /\ at' = [at EXCEPT ![t] = "out"]
  /\ error' = [error EXCEPT ![t] = NoError]
  /\ failure' = [failure EXCEPT ![t] = NoFailure]
  /\ since' = [since EXCEPT ![t] = {}]
  /\ UNCHANGED <<connOf, diag>>

Next == \E t \in Threads :
          \/ \E op \in Calls, r \in Results, c \in OraCodes : Call(t, op, r, c)
          \/ Throw(t) \/ ThrowOraLib(t) \/ CleanUp(t) \/ Catch(t)

Spec == Init /\ [][Next]_vars

-----------------------------------------------------------------------------
OracleErrors == [type : {"oracle"}, code : Results \ {"success"},
                 oraCode : Failures \cup {Unwritten}]
OraLibErrors == [type : {"oralib"}, code : {"EC"}, oraCode : {None}]

\* Every variable has its type.
TypeOK ==
  /\ connOf \in [Threads -> Conns]
  /\ at \in [Threads -> {"out", "failed", "thrown"}]
  /\ diag \in [Handles -> Failures \cup {None}]
  /\ failure \in [Threads -> [op : Calls, result : Results, what : Failures \cup {None}]]
  /\ error \in [Threads -> {NoError} \cup OracleErrors \cup OraLibErrors]
  /\ since \in [Threads -> SUBSET (Failures \cup {None})]

\* The code an error has when d was recorded last.
Told(d) == IF d = None THEN Unwritten ELSE d

\* An error has its call's result and tells, if there are details at all, of that
\* call or of one that overtook it on the same connection before the throw:
\* never of an older failure, of a clean-up of its own or of another connection
\* (epOraError.cpp:135-205, the throws of the other sources and the catch blocks
\* that follow them).
OwnOrLater ==
  \A t \in Threads :
    at[t] = "thrown" /\ error[t].type = "oracle" =>
      /\ error[t].code = failure[t].result
      /\ error[t].oraCode \in IF failure[t].result \in Detailed
                              THEN {Told(d) : d \in since[t]} ELSE {Unwritten}
=============================================================================
