------------------------- MODULE TaskExecutorProofs -------------------------
(***************************************************************************)
(* Proofs about TaskExecutor for any number of tasks, any max_retry and    *)
(* any quota of concurrent retries.                                        *)
(***************************************************************************)
EXTENDS TaskExecutor, FiniteSetTheorems, TLAPS

-----------------------------------------------------------------------------
(***************************************************************************)
(* The invariant that makes the attempts at a task follow each other.      *)
(***************************************************************************)

\* A handler that is in progress is about a task.
IoAboutTask == io.pc # "idle" => io.task \in Tasks

\* The retry handler of t has yet to submit it.
Again(t) == io.pc = "again" /\ io.task = t

\* The attempts before the current one are over and those after it not begun.
\* run_task works on the current one; a retry is due when that is over, at most
\* once, and only if max_retry allows another.
Flight(t) ==
    /\ retry_count[t] <= MaxRetry
    /\ \A n \in Attempts : n > retry_count[t] => status[<<t, n>>] = "new"
    /\ \A n \in Attempts : n < retry_count[t] => status[<<t, n>>] = "done"
    /\ pc[t] # "idle" => status[<<t, retry_count[t]>>] = "running"
    /\ pc[t] \in {"quota", "refund", "backoff"} => retry_count[t] < MaxRetry
    /\ retry_timer[t] = "armed" => /\ status[<<t, retry_count[t]>>] = "done"
                                   /\ retry_count[t] < MaxRetry
                                   /\ ~Again(t)
    /\ Again(t) => status[<<t, retry_count[t]>>] = "done" /\ retry_count[t] < MaxRetry

Flights == IoAboutTask /\ \A t \in Tasks : Flight(t)

\* What the constants are assumed to be.
LEMMA Constants ==
    /\ MaxRetry \in Nat /\ MAX_CONCURRENT_RETRY \in Nat
    /\ 0 \in Attempts /\ Attempts \subseteq Nat
    /\ \A t \in Tasks, n \in Attempts : <<t, n>> \in Jobs
    /\ \A j \in Jobs : \E t \in Tasks, n \in Attempts : j = <<t, n>>
BY ExecutorAssumption DEF Attempts, Jobs

\* A step of the pool moves one attempt.
LEMMA JobMoves ==
    ASSUME TypeOK, NEW t \in Tasks, NEW n \in Attempts, NEW from, NEW to,
           Pool!Move(<<t, n>>, from, to)
    PROVE  /\ status[<<t, n>>] = from /\ status'[<<t, n>>] = to /\ open' = open
           /\ \A u \in Tasks, m \in Attempts :
                  u # t \/ m # n => status'[<<u, m>>] = status[<<u, m>>]
           /\ to \in Pool!Status => status' \in [Jobs -> Pool!Status]
<1>1. status \in [Jobs -> Pool!Status] /\ <<t, n>> \in Jobs BY Constants DEF TypeOK
<1>2. status' = [status EXCEPT ![<<t, n>>] = to] /\ status[<<t, n>>] = from /\ open' = open
  BY DEF Pool!Move
<1>3. \A u \in Tasks, m \in Attempts : <<u, m>> \in Jobs BY Constants
<1>4. \A u \in Tasks, m \in Attempts : (u # t \/ m # n) => <<u, m>> # <<t, n>> OBVIOUS
<1> QED BY <1>1, <1>2, <1>3, <1>4

\* The attempt <<t, n>> has moved, and no other.
Moved(t, n, from, to) ==
    /\ status[<<t, n>>] = from /\ status'[<<t, n>>] = to /\ open' = open
    /\ \A u \in Tasks, m \in Attempts :
           u # t \/ m # n => status'[<<u, m>>] = status[<<u, m>>]

\* JobMoves, with its conclusion named.
LEMMA JobMoved ==
    ASSUME TypeOK, NEW t \in Tasks, NEW n \in Attempts, NEW from, NEW to,
           Pool!Move(<<t, n>>, from, to)
    PROVE  Moved(t, n, from, to)
BY JobMoves DEF Moved

\* A task that a step does not concern.
LEMMA FlightElsewhere ==
    ASSUME NEW t \in Tasks, Flight(t),
           \A n \in Attempts : status'[<<t, n>>] = status[<<t, n>>],
           retry_count[t] \in Attempts,
           retry_count'[t] = retry_count[t], pc'[t] = pc[t], retry_timer'[t] = retry_timer[t],
           Again(t)' => Again(t)
    PROVE  Flight(t)'
BY DEF Flight

\* A step of run_task that does not return.
LEMMA FlightGoesOn ==
    ASSUME TypeOK, Flights, NEW t \in Tasks, NEW from, NEW to,
           from # "idle", Step(t, from, to),
           to \in {"quota", "refund", "backoff"} => retry_count[t] < MaxRetry,
           UNCHANGED <<status, retry_count, retry_timer, io>>
    PROVE  Flights'
<1>1. pc[t] = from /\ pc'[t] = to /\ \A u \in Tasks : u # t => pc'[u] = pc[u]
  BY DEF Step, TypeOK
<1>2. Flight(t)' BY <1>1 DEF Flights, Flight, Again
<1>3. \A u \in Tasks : u # t => Flight(u)'
  BY <1>1, FlightElsewhere DEF Flights, TypeOK, Again
<1> QED BY <1>2, <1>3 DEF Flights, IoAboutTask

\* run_task returns.
LEMMA FlightEnds ==
    ASSUME TypeOK, Flights, NEW t \in Tasks, NEW from, from # "idle", Step(t, from, "idle"),
           Pool!Finish(Job(t)), UNCHANGED <<retry_count, io>>,
           \/ retry_timer' = retry_timer
           \/ retry_timer' = [retry_timer EXCEPT ![t] = "armed"] /\ retry_count[t] < MaxRetry
    PROVE  Flights' /\ status' \in [Jobs -> Pool!Status] /\ open' = open
<1>1. pc[t] = from /\ pc'[t] = "idle" /\ \A u \in Tasks : u # t => pc'[u] = pc[u]
  BY DEF Step, TypeOK
<1>2. PICK k \in Attempts : k = retry_count[t] BY DEF TypeOK
<1>3. Pool!Move(<<t, k>>, "running", "done") BY <1>2 DEF Pool!Finish, Job
<1>4. /\ status[<<t, k>>] = "running" /\ status'[<<t, k>>] = "done" /\ open' = open
      /\ \A u \in Tasks, m \in Attempts :
             u # t \/ m # k => status'[<<u, m>>] = status[<<u, m>>]
      /\ status' \in [Jobs -> Pool!Status]
  BY <1>3, JobMoves DEF Pool!Status
<1>5. ~Again(t) BY <1>2, <1>4 DEF Flights, Flight
<1>6. Flight(t)'
  <2>1. Flight(t) /\ k \in Nat /\ \A n \in Attempts : n \in Nat BY Constants DEF Flights
  <2>2. retry_timer'[t] = "armed" => retry_count[t] < MaxRetry
    BY <2>1 DEF TypeOK, Flight
  <2> QED BY <1>1, <1>2, <1>4, <1>5, <2>1, <2>2 DEF Flight, Again
<1>7. ASSUME NEW u \in Tasks, u # t PROVE Flight(u)'
  <2>1. retry_timer'[u] = retry_timer[u] /\ retry_count[u] \in Attempts /\ Flight(u)
    BY <1>7 DEF TypeOK, Flights
  <2> QED BY <1>1, <1>4, <1>7, <2>1, FlightElsewhere DEF Again
<1> QED BY <1>4, <1>6, <1>7 DEF Flights, IoAboutTask

\* run_task.
LEMMA FlightsRunTask ==
    ASSUME TypeOK, Flights, NEW t \in Tasks, RunTask(t) PROVE Flights'
<1> USE DEF fieldVars, timerVars, ioSide
<1>1. CASE RefuseOversized(t) \/ RefuseLate(t) \/ ArmAndRun(t)
  <2>1. Step(t, "check", "state") /\ UNCHANGED <<status, retry_count, retry_timer, io>>
    BY <1>1 DEF RefuseOversized, RefuseLate, ArmAndRun
  <2> QED BY <2>1, FlightGoesOn
<1>2. CASE WriteState(t)
  <2>1. Step(t, "state", "rest") /\ UNCHANGED <<status, retry_count, retry_timer, io>>
    BY <1>2 DEF WriteState
  <2> QED BY <2>1, FlightGoesOn
<1>3. CASE WriteRest(t)
  <2>1. UNCHANGED <<retry_count, retry_timer, io>> BY <1>3 DEF WriteRest
  <2>2. \/ \E to \in {"call", "cancel"} : Step(t, "rest", to) /\ UNCHANGED status
        \/ Step(t, "rest", "idle") /\ Pool!Finish(Job(t))
    BY <1>3 DEF WriteRest
  <2>3. CASE \E to \in {"call", "cancel"} : Step(t, "rest", to) /\ UNCHANGED status
    <3>1. PICK to \in {"call", "cancel"} : Step(t, "rest", to) /\ UNCHANGED status BY <2>3
    <3> QED BY <2>1, <3>1, FlightGoesOn
  <2>4. CASE Step(t, "rest", "idle") /\ Pool!Finish(Job(t)) BY <2>1, <2>4, FlightEnds
  <2> QED BY <2>2, <2>3, <2>4
<1>4. CASE FunctionReturns(t) \/ FunctionFails(t)
  <2>1. Step(t, "call", "state") /\ UNCHANGED <<status, retry_count, retry_timer, io>>
    BY <1>4 DEF FunctionReturns, FunctionFails, Fails
  <2> QED BY <2>1, FlightGoesOn
<1>5. CASE FunctionRetryable(t)
  <2>1. /\ Step(t, "call", "quota") /\ UNCHANGED <<status, retry_count, retry_timer, io>>
        /\ retry_count[t] < MaxRetry
    BY <1>5 DEF FunctionRetryable, ThrowsRetryable
  <2> QED BY <2>1, FlightGoesOn
<1>6. CASE ChargeQuota(t)
  <2>1. /\ \E to \in {"refund", "backoff"} : Step(t, "quota", to)
        /\ UNCHANGED <<status, retry_count, retry_timer, io>>
    BY <1>6 DEF ChargeQuota, Charge
  <2>2. PICK to \in {"refund", "backoff"} : Step(t, "quota", to) BY <2>1
  <2>3. retry_count[t] < MaxRetry BY <2>2 DEF Step, Flights, Flight
  <2> QED BY <2>1, <2>2, <2>3, FlightGoesOn
<1>7. CASE RefundQuota(t)
  <2>1. Step(t, "refund", "state") /\ UNCHANGED <<status, retry_count, retry_timer, io>>
    BY <1>7 DEF RefundQuota, Refund
  <2> QED BY <2>1, FlightGoesOn
<1>8. CASE BackOff(t)
  <2>1. /\ Step(t, "backoff", "idle") /\ Pool!Finish(Job(t)) /\ UNCHANGED <<retry_count, io>>
        /\ retry_timer' = [retry_timer EXCEPT ![t] = "armed"]
    BY <1>8 DEF BackOff
  <2>2. retry_count[t] < MaxRetry BY <2>1 DEF Step, Flights, Flight
  <2> QED BY <2>1, <2>2, FlightEnds
<1>9. CASE CancelTimer(t)
  <2>1. /\ Step(t, "cancel", "idle") /\ Pool!Finish(Job(t)) /\ UNCHANGED <<retry_count, io>>
        /\ retry_timer' = retry_timer
    BY <1>9 DEF CancelTimer
  <2> QED BY <2>1, FlightEnds
<1> QED BY <1>1, <1>2, <1>3, <1>4, <1>5, <1>6, <1>7, <1>8, <1>9 DEF RunTask

\* What is in the pool is the current attempt.
LEMMA Current ==
    ASSUME TypeOK, Flights, NEW t \in Tasks, NEW n \in Attempts,
           status[<<t, n>>] \notin {"new", "done"}
    PROVE  n = retry_count[t]
<1>1. retry_count[t] \in Nat /\ n \in Nat BY Constants DEF TypeOK
<1>2. /\ n > retry_count[t] => status[<<t, n>>] = "new"
      /\ n < retry_count[t] => status[<<t, n>>] = "done"
  BY DEF Flights, Flight
<1>3. ~(n > retry_count[t]) /\ ~(n < retry_count[t]) BY <1>2
<1> QED BY <1>1, <1>3

\* Only the pool moves an attempt, and run_task stands still or begins.
LEMMA FlightMoves ==
    ASSUME TypeOK, Flights, NEW t \in Tasks, NEW n \in Attempts,
           NEW from \in {"submitting", "accepted"}, NEW to \in {"accepted", "running", "dropped"},
           Pool!Move(<<t, n>>, from, to), UNCHANGED <<retry_count, retry_timer>>,
           io' = io \/ io' = IoIdle,
           \/ pc' = pc
           \/ to = "running" /\ pc' = [pc EXCEPT ![t] = "check"]
    PROVE  Flights'
<1>1. /\ status[<<t, n>>] = from /\ status'[<<t, n>>] = to
      /\ \A u \in Tasks, m \in Attempts :
             u # t \/ m # n => status'[<<u, m>>] = status[<<u, m>>]
  BY JobMoves
<1>2. /\ retry_count[t] \in Attempts /\ retry_count[t] \in Nat /\ n \in Nat
      /\ \A m \in Attempts : m \in Nat
  BY Constants DEF TypeOK
<1>3. n = retry_count[t] BY <1>1, Current
<1>4. pc[t] = "idle" /\ retry_timer[t] # "armed" /\ ~Again(t)
  BY <1>1, <1>3 DEF Flights, Flight
<1>5. \A u \in Tasks : Again(u)' => Again(u) BY DEF Again, IoIdle
<1>6. Flight(t)'
  <2>1. Flight(t) BY DEF Flights
  <2>2. pc'[t] \in {"idle", "check"} /\ (pc'[t] # "idle" => to = "running")
    BY <1>4 DEF TypeOK
  <2> QED BY <1>1, <1>2, <1>3, <1>4, <1>5, <2>1, <2>2 DEF Flight
<1>7. ASSUME NEW u \in Tasks, u # t PROVE Flight(u)'
  <2>1. pc'[u] = pc[u] /\ retry_count[u] \in Attempts /\ Flight(u)
    BY <1>7 DEF TypeOK, Flights
  <2> QED BY <1>1, <1>5, <1>7, <2>1, FlightElsewhere
<1> QED BY <1>6, <1>7 DEF Flights, IoAboutTask, IoIdle

\* The pool: execute_task, Accept, Start, Drop.
LEMMA FlightsPool ==
    ASSUME TypeOK, Flights,
           \/ \E t \in Tasks : ExecuteTask(t)
           \/ \E t \in Tasks, k \in Attempts : Accept(t, k) \/ Start(t, k)
           \/ \E j \in Jobs : Drop(j)
    PROVE  Flights' /\ status' \in [Jobs -> Pool!Status] /\ open' = open
<1> USE DEF fieldVars, timerVars
<1>1. ASSUME NEW t \in Tasks, ExecuteTask(t)
      PROVE  Flights' /\ status' \in [Jobs -> Pool!Status] /\ open' = open
  <2>1. Pool!Move(<<t, 0>>, "new", "submitting") /\ UNCHANGED <<retry_count, retry_timer, pc, io>>
    BY <1>1 DEF ExecuteTask, Pool!Submit
  <2>2. 0 \in Attempts /\ "submitting" \in Pool!Status BY Constants DEF Pool!Status
  <2>3. /\ status[<<t, 0>>] = "new" /\ status'[<<t, 0>>] = "submitting"
        /\ \A u \in Tasks, m \in Attempts :
               u # t \/ m # 0 => status'[<<u, m>>] = status[<<u, m>>]
        /\ status' \in [Jobs -> Pool!Status] /\ open' = open
    BY <2>1, <2>2, JobMoves
  <2>4. retry_count[t] \in Attempts /\ retry_count[t] \in Nat /\ \A m \in Attempts : m \in Nat
    BY Constants DEF TypeOK
  <2>5. retry_count[t] = 0
    <3>1. 0 < retry_count[t] => status[<<t, 0>>] = "done" BY <2>2 DEF Flights, Flight
    <3> QED BY <2>3, <2>4, <3>1
  <2>6. pc[t] = "idle" /\ retry_timer[t] # "armed" /\ ~Again(t)
    BY <2>3, <2>5 DEF Flights, Flight
  <2>7. Flight(t)'
    <3>1. retry_count'[t] = 0 /\ pc'[t] = "idle" /\ retry_timer'[t] # "armed" /\ ~Again(t)'
      BY <2>1, <2>5, <2>6 DEF Again
    <3>2. \A m \in Attempts : m > 0 => status'[<<t, m>>] = "new"
      BY <2>3, <2>4, <2>5 DEF Flights, Flight
    <3>3. MaxRetry \in Nat BY Constants
    <3> QED BY <2>4, <3>1, <3>2, <3>3 DEF Flight
  <2>8. \A u \in Tasks : u # t => Flight(u)'
    BY <2>1, <2>3, FlightElsewhere DEF Flights, TypeOK, Again
  <2> QED BY <2>1, <2>3, <2>7, <2>8 DEF Flights, IoAboutTask
<1>2. ASSUME NEW t \in Tasks, NEW k \in Attempts, Accept(t, k) \/ Start(t, k) \/ Drop(<<t, k>>)
      PROVE  Flights' /\ status' \in [Jobs -> Pool!Status] /\ open' = open
  <2>1. CASE Accept(t, k)
    <3>1. /\ Pool!Move(<<t, k>>, "submitting", "accepted")
          /\ UNCHANGED <<retry_count, retry_timer, pc>> /\ (io' = io \/ io' = IoIdle)
      BY <2>1 DEF Accept, Pool!Accept
    <3> QED BY <3>1, FlightMoves, JobMoves DEF Pool!Status
  <2>2. CASE Start(t, k)
    <3>1. /\ Pool!Move(<<t, k>>, "accepted", "running")
          /\ UNCHANGED <<retry_count, retry_timer, io>> /\ pc' = [pc EXCEPT ![t] = "check"]
      BY <2>2 DEF Start, Pool!Start
    <3> QED BY <3>1, FlightMoves, JobMoves DEF Pool!Status
  <2>3. CASE Drop(<<t, k>>)
    <3>1. /\ Pool!Move(<<t, k>>, "accepted", "dropped")
          /\ UNCHANGED <<retry_count, retry_timer, pc, io>>
      BY <2>3 DEF Drop, Pool!Drop
    <3> QED BY <3>1, FlightMoves, JobMoves DEF Pool!Status
  <2> QED BY <1>2, <2>1, <2>2, <2>3
<1>3. ASSUME NEW j \in Jobs, Drop(j) PROVE \E t \in Tasks, k \in Attempts : Drop(<<t, k>>)
  BY <1>3, Constants
<1> QED BY <1>1, <1>2, <1>3

\* The handlers, time, and the end of the executor.
LEMMA FlightsIo ==
    ASSUME TypeOK, Flights,
           \/ \E t \in Tasks : Tick(t)
           \/ IoHandler \/ StopIo \/ Destroy \/ UNCHANGED vars
    PROVE  Flights'
<1> USE DEF fieldVars, timerVars, workerSide
<1>1. CASE RetryAgain
  <2>1. io.pc = "again" /\ io.task \in Tasks BY <1>1 DEF RetryAgain, Resubmit, Flights, IoAboutTask
  <2>2. PICK t \in Tasks : t = io.task BY <2>1
  <2>3. PICK k \in Attempts : k = retry_count[t] BY DEF TypeOK
  <2>4. /\ Flight(t) /\ Again(t) /\ k \in Nat /\ k < MaxRetry
        /\ status[<<t, k>>] = "done" /\ \A m \in Attempts : m \in Nat
    BY <2>1, <2>2, <2>3, Constants DEF Flights, Flight, Again
  <2>5. k + 1 \in Attempts /\ k + 1 <= MaxRetry BY <2>4, ExecutorAssumption DEF Attempts
  <2>6. /\ retry_count' = [retry_count EXCEPT ![t] = k + 1]
        /\ Pool!Move(<<t, k + 1>>, "new", "submitting")
        /\ io' = [io EXCEPT !.pc = "enqueue"]
        /\ UNCHANGED <<pc, retry_timer>>
    BY <1>1, <2>2, <2>3 DEF RetryAgain, Resubmit, Pool!Submit
  <2>7. /\ status'[<<t, k + 1>>] = "submitting"
        /\ \A u \in Tasks, m \in Attempts :
               u # t \/ m # k + 1 => status'[<<u, m>>] = status[<<u, m>>]
    BY <2>5, <2>6, JobMoves
  <2>8. io'.pc = "enqueue" /\ io'.task = t BY <2>2, <2>6 DEF TypeOK
  <2>9. \A u \in Tasks : ~Again(u)' BY <2>8 DEF Again
  <2>10. /\ retry_count'[t] = k + 1
         /\ \A u \in Tasks : u # t => retry_count'[u] = retry_count[u]
    BY <2>6 DEF TypeOK
  <2>11. Flight(t)'
    <3>1. pc[t] = "idle" /\ retry_timer[t] # "armed" BY <2>3, <2>4 DEF Flight
    <3>2. ASSUME NEW m \in Attempts, m > k + 1 PROVE status'[<<t, m>>] = "new"
      <4>1. m > k /\ m # k + 1 BY <2>4, <3>2
      <4> QED BY <2>3, <2>4, <2>7, <4>1 DEF Flight
    <3>3. ASSUME NEW m \in Attempts, m < k + 1 PROVE status'[<<t, m>>] = "done"
      <4>1. m # k + 1 /\ (m < k \/ m = k) BY <2>4, <3>3
      <4> QED BY <2>3, <2>4, <2>7, <4>1 DEF Flight
    <3> QED BY <2>5, <2>6, <2>9, <2>10, <3>1, <3>2, <3>3 DEF Flight
  <2>12. ASSUME NEW u \in Tasks, u # t PROVE Flight(u)'
    <3>1. Flight(u) /\ retry_count[u] \in Attempts BY DEF Flights, TypeOK
    <3> QED BY <2>6, <2>7, <2>9, <2>10, <2>12, <3>1, FlightElsewhere
  <2> QED BY <2>8, <2>11, <2>12 DEF Flights, IoAboutTask
<1>2. CASE \E t \in Tasks : RetryDue(t)
  <2>1. PICK t \in Tasks : RetryDue(t) BY <1>2
  <2>2. /\ io.pc = "idle" /\ io'.pc = "again" /\ io'.task = t /\ retry_timer[t] = "armed"
        /\ retry_timer' = [retry_timer EXCEPT ![t] = "none"]
        /\ UNCHANGED <<status, retry_count, pc>>
    BY <2>1 DEF RetryDue
  <2>3. retry_timer'[t] = "none" /\ \A u \in Tasks : u # t => retry_timer'[u] = retry_timer[u]
    BY <2>2 DEF TypeOK
  <2>4. Flight(t)' BY <2>2, <2>3 DEF Flights, Flight, Again
  <2>5. \A u \in Tasks : u # t => Flight(u)'
    BY <2>2, <2>3, FlightElsewhere DEF Flights, TypeOK, Again
  <2> QED BY <2>2, <2>4, <2>5 DEF Flights, IoAboutTask
<1>3. CASE \/ \E j \in Jobs : Expire(j) \/ TimeOut(j) \/ Discard(j)
           \/ IoWriteState \/ IoWriteRest
           \/ \E t \in Tasks : Tick(t)
           \/ StopIo \/ Destroy \/ UNCHANGED vars
  <2>1. UNCHANGED <<status, retry_count, retry_timer, pc>>
    BY <1>3 DEF Expire, TimeOut, Handle, Discard, IoWriteState, IoWriteRest, IoWrite, Tick, StopIo,
         Destroy, Pool!Close, vars
  <2>2. \/ io' = io
        \/ \E u \in Tasks : io' = [pc |-> "state", task |-> u]
        \/ io.pc = "state" /\ io' = [io EXCEPT !.pc = "rest"]
        \/ io' = IoIdle
    <3>1. \A j \in Jobs : j[1] \in Tasks BY DEF Jobs
    <3> QED
      BY <1>3, <3>1 DEF Expire, TimeOut, Handle, Discard, IoWriteState, IoWriteRest, IoWrite, Tick,
           StopIo, Destroy, vars
  <2>3. IoAboutTask' BY <2>2 DEF Flights, IoAboutTask, IoIdle, TypeOK
  <2>4. \A u \in Tasks : Again(u)' => Again(u) BY <2>2 DEF Again, IoIdle, TypeOK
  <2>5. \A u \in Tasks : Flight(u)' BY <2>1, <2>4, FlightElsewhere DEF Flights, TypeOK
  <2> QED BY <2>3, <2>5 DEF Flights
<1> QED BY <1>1, <1>2, <1>3 DEF IoHandler

-----------------------------------------------------------------------------
(***************************************************************************)
(* The quota of concurrent retries.                                        *)
(***************************************************************************)
Armed   == {t \in Tasks : retry_timer[t] = "armed"}
Charged == {t \in Tasks : pc[t] \in {"refund", "backoff"}}
Backing == {t \in Tasks : retry_timer[t] = "armed" \/ pc[t] = "backoff"}

Quota == /\ retrying_cnt = Cardinality(Armed) + Cardinality(Charged)
         /\ Cardinality(Backing) <= MAX_CONCURRENT_RETRY

\* Quota is QuotaExact with its sets named.
LEMMA QuotaIsExact == Quota <=> QuotaExact
BY DEF Quota, QuotaExact, Armed, Charged, Backing

\* Sets of tasks have a size.
LEMMA Sizes ==
    ASSUME NEW S, S \subseteq Tasks
    PROVE  /\ IsFiniteSet(S) /\ Cardinality(S) \in Nat
           /\ \A t \in S : Cardinality(S \ {t}) = Cardinality(S) - 1 /\ Cardinality(S) >= 1
           /\ \A t \in Tasks \ S : Cardinality(S \cup {t}) = Cardinality(S) + 1
<1>1. IsFiniteSet(S) /\ Cardinality(S) \in Nat BY ExecutorAssumption, FS_Subset, FS_CardinalityType
<1>2. \A t \in S : Cardinality(S \ {t}) = Cardinality(S) - 1
  BY <1>1, FS_RemoveElement
<1>3. \A t \in Tasks \ S : Cardinality(S \cup {t}) = Cardinality(S) + 1
  BY <1>1, FS_AddElement
<1>4. ASSUME NEW t \in S PROVE Cardinality(S) >= 1
  <2>1. IsFiniteSet(S \ {t}) BY <1>1, FS_Subset
  <2>2. Cardinality(S \ {t}) \in Nat BY <2>1, FS_CardinalityType
  <2> QED BY <1>1, <1>2, <1>4, <2>2
<1> QED BY <1>1, <1>2, <1>3, <1>4

\* Steps that leave the three sets and the counter alone.
LEMMA QuotaElsewhere ==
    ASSUME Quota, UNCHANGED <<retrying_cnt, retry_timer>>,
           \A t \in Tasks : \/ pc'[t] = pc[t]
                            \/ /\ pc[t] \notin {"refund", "backoff"}
                               /\ pc'[t] \notin {"refund", "backoff"}
    PROVE  Quota'
<1>1. Armed' = Armed BY DEF Armed
<1>2. Charged' = Charged BY DEF Charged
<1>3. Backing' = Backing BY DEF Backing
<1> QED BY <1>1, <1>2, <1>3 DEF Quota

\* fetch_add: what is refused is to be taken back, what is allowed is within the
\* quota even if others are being refused at the same time.
LEMMA QuotaCharge ==
    ASSUME TypeOK, Quota, NEW t \in Tasks, ChargeQuota(t) PROVE Quota'
<1> DEFINE to == IF retrying_cnt >= MAX_CONCURRENT_RETRY THEN "refund" ELSE "backoff"
<1>1. /\ pc[t] = "quota" /\ pc'[t] = to /\ \A u \in Tasks : u # t => pc'[u] = pc[u]
      /\ retrying_cnt' = retrying_cnt + 1 /\ retry_timer' = retry_timer
  BY DEF ChargeQuota, Charge, Step, TypeOK
<1>2. Armed' = Armed BY <1>1 DEF Armed
<1>3. t \notin Charged /\ Charged' = Charged \cup {t} BY <1>1 DEF Charged
<1>4. Armed \subseteq Tasks /\ Charged \subseteq Tasks /\ Backing \subseteq Tasks
  BY DEF Armed, Charged, Backing
<1>5. /\ Cardinality(Armed) \in Nat /\ Cardinality(Charged) \in Nat
      /\ Cardinality(Charged \cup {t}) = Cardinality(Charged) + 1
  BY <1>3, <1>4, Sizes
<1>6. retrying_cnt' = Cardinality(Armed') + Cardinality(Charged')
  BY <1>1, <1>2, <1>3, <1>5 DEF Quota
<1>7. Cardinality(Backing') <= MAX_CONCURRENT_RETRY
  <2>1. CASE retrying_cnt >= MAX_CONCURRENT_RETRY
    <3>1. Backing' = Backing BY <1>1, <2>1 DEF Backing
    <3> QED BY <3>1 DEF Quota
  <2>2. CASE ~(retrying_cnt >= MAX_CONCURRENT_RETRY)
    <3>1. Cardinality(Armed) + Cardinality(Charged) < MAX_CONCURRENT_RETRY
      BY <1>5, <2>2, ExecutorAssumption DEF Quota
    <3>2. Backing' \subseteq Armed \cup (Charged \cup {t}) BY <1>1 DEF Backing, Armed, Charged
    <3>3. IsFiniteSet(Armed) /\ IsFiniteSet(Charged \cup {t}) BY <1>4, Sizes
    <3>4. /\ IsFiniteSet(Armed \cup (Charged \cup {t}))
          /\ Cardinality(Armed \cup (Charged \cup {t}))
                 = Cardinality(Armed) + Cardinality(Charged \cup {t})
                   - Cardinality(Armed \cap (Charged \cup {t}))
      BY <3>3, FS_Union
    <3>5. Cardinality(Armed \cap (Charged \cup {t})) \in Nat
      BY <3>3, FS_Intersection, FS_CardinalityType
    <3>6. Cardinality(Backing') <= Cardinality(Armed \cup (Charged \cup {t}))
      BY <3>2, <3>4, FS_Subset
    <3>7. Cardinality(Backing') \in Nat BY <3>2, <3>4, FS_Subset, FS_CardinalityType
    <3>8. Cardinality(Armed \cup (Charged \cup {t})) <= MAX_CONCURRENT_RETRY
      BY <1>5, <3>1, <3>4, <3>5, ExecutorAssumption
    <3>9. Cardinality(Armed \cup (Charged \cup {t})) \in Nat BY <3>4, FS_CardinalityType
    <3> QED BY <3>6, <3>7, <3>8, <3>9, ExecutorAssumption
  <2> QED BY <2>1, <2>2
<1> QED BY <1>6, <1>7 DEF Quota

\* The three steps that give a unit back or hand it to the timer.
LEMMA QuotaMoves ==
    ASSUME TypeOK, Flights, Quota, NEW t \in Tasks, RefundQuota(t) \/ BackOff(t) \/ RetryDue(t)
    PROVE  Quota' /\ retrying_cnt' \in Nat
<1>1. Armed \subseteq Tasks /\ Charged \subseteq Tasks /\ Backing \subseteq Tasks
  BY DEF Armed, Charged, Backing
<1>2. /\ Cardinality(Armed) \in Nat /\ Cardinality(Charged) \in Nat /\ Cardinality(Backing) \in Nat
      /\ t \in Charged => /\ Cardinality(Charged \ {t}) = Cardinality(Charged) - 1
                          /\ Cardinality(Charged) >= 1
      /\ t \in Armed => /\ Cardinality(Armed \ {t}) = Cardinality(Armed) - 1
                        /\ Cardinality(Armed) >= 1
      /\ t \notin Armed => Cardinality(Armed \cup {t}) = Cardinality(Armed) + 1
      /\ t \in Backing => Cardinality(Backing \ {t}) = Cardinality(Backing) - 1
  BY <1>1, Sizes
<1>3. CASE RefundQuota(t)
  <2>1. /\ pc[t] = "refund" /\ pc'[t] = "state" /\ \A u \in Tasks : u # t => pc'[u] = pc[u]
        /\ retrying_cnt' = retrying_cnt - 1 /\ retry_timer' = retry_timer
    BY <1>3 DEF RefundQuota, Refund, Step, TypeOK
  <2>2. /\ Armed' = Armed /\ t \in Charged /\ Charged' = Charged \ {t} /\ Backing' = Backing
    BY <2>1 DEF Armed, Charged, Backing
  <2>3. retrying_cnt' = Cardinality(Armed') + Cardinality(Charged') /\ retrying_cnt' \in Nat
    <3>1. Cardinality(Armed') = Cardinality(Armed) /\ Cardinality(Charged') = Cardinality(Charged \ {t})
      BY <2>2
    <3> QED BY SMTT(20), <1>2, <2>1, <2>2, <3>1 DEF Quota
  <2> QED BY <2>2, <2>3 DEF Quota
<1>4. CASE BackOff(t)
  <2>1. /\ pc[t] = "backoff" /\ pc'[t] = "idle" /\ \A u \in Tasks : u # t => pc'[u] = pc[u]
        /\ retrying_cnt' = retrying_cnt /\ retry_timer' = [retry_timer EXCEPT ![t] = "armed"]
    BY <1>4 DEF BackOff, Step, TypeOK
  <2>2. retry_timer[t] # "armed" BY <2>1 DEF Flights, Flight
  <2>3. retry_timer'[t] = "armed" /\ \A u \in Tasks : u # t => retry_timer'[u] = retry_timer[u]
    BY <2>1 DEF TypeOK
  <2>4. t \notin Armed /\ Armed' = Armed \cup {t} BY <2>2, <2>3 DEF Armed
  <2>5. t \in Charged /\ Charged' = Charged \ {t} BY <2>1 DEF Charged
  <2>6. Backing' = Backing BY <2>1, <2>3 DEF Backing
  <2>7. retrying_cnt' = Cardinality(Armed') + Cardinality(Charged') /\ retrying_cnt' \in Nat
    BY <1>2, <2>1, <2>4, <2>5 DEF Quota
  <2> QED BY <2>6, <2>7 DEF Quota
<1>5. CASE RetryDue(t)
  <2>1. /\ retry_timer[t] = "armed" /\ retry_timer' = [retry_timer EXCEPT ![t] = "none"]
        /\ retrying_cnt' = retrying_cnt - 1 /\ pc' = pc
    BY <1>5 DEF RetryDue, workerSide
  <2>2. pc[t] = "idle" BY <2>1 DEF Flights, Flight
  <2>3. retry_timer'[t] = "none" /\ \A u \in Tasks : u # t => retry_timer'[u] = retry_timer[u]
    BY <2>1 DEF TypeOK
  <2>4. t \in Armed /\ Armed' = Armed \ {t} BY <2>1, <2>3 DEF Armed
  <2>5. Charged' = Charged BY <2>1 DEF Charged
  <2>6. t \in Backing /\ Backing' = Backing \ {t} BY <2>1, <2>2, <2>3 DEF Backing
  <2>7. retrying_cnt' = Cardinality(Armed') + Cardinality(Charged') /\ retrying_cnt' \in Nat
    BY <1>2, <2>1, <2>4, <2>5 DEF Quota
  <2>8. Cardinality(Backing') <= MAX_CONCURRENT_RETRY
    BY <1>2, <2>6, ExecutorAssumption DEF Quota
  <2> QED BY <2>7, <2>8 DEF Quota
<1> QED BY <1>3, <1>4, <1>5

\* The quota is kept by every step.
LEMMA QuotaNext ==
    ASSUME TypeOK, Flights, Quota, [Next]_vars PROVE Quota' /\ retrying_cnt' \in Nat
<1> USE DEF fieldVars, timerVars, ioSide, workerSide
<1>1. CASE \E t \in Tasks : RefundQuota(t) \/ BackOff(t) \/ RetryDue(t) BY <1>1, QuotaMoves
<1>2. CASE \E t \in Tasks : ChargeQuota(t)
  <2>1. retrying_cnt' \in Nat BY <1>2 DEF ChargeQuota, Charge, TypeOK
  <2> QED BY <1>2, <2>1, QuotaCharge
<1>3. CASE \E t \in Tasks : \/ RefuseOversized(t) \/ RefuseLate(t) \/ ArmAndRun(t) \/ WriteState(t)
                            \/ WriteRest(t) \/ FunctionReturns(t) \/ FunctionFails(t)
                            \/ FunctionRetryable(t) \/ CancelTimer(t)
  <2>1. PICK t \in Tasks :
            \/ RefuseOversized(t) \/ RefuseLate(t) \/ ArmAndRun(t) \/ WriteState(t)
            \/ WriteRest(t) \/ FunctionReturns(t) \/ FunctionFails(t)
            \/ FunctionRetryable(t) \/ CancelTimer(t)
    BY <1>3
  <2>2. UNCHANGED <<retrying_cnt, retry_timer>>
    BY <2>1 DEF RefuseOversized, RefuseLate, ArmAndRun, WriteState, WriteRest, FunctionReturns,
         FunctionFails, Fails, FunctionRetryable, ThrowsRetryable, CancelTimer
  <2>3. \E from \in {"check", "state", "rest", "call", "cancel"},
           to \in {"idle", "state", "rest", "call", "quota", "cancel"} : Step(t, from, to)
    BY <2>1 DEF RefuseOversized, RefuseLate, ArmAndRun, WriteState, WriteRest, FunctionReturns,
         FunctionFails, Fails, FunctionRetryable, ThrowsRetryable, CancelTimer
  <2>4. \A u \in Tasks : \/ pc'[u] = pc[u]
                         \/ /\ pc[u] \notin {"refund", "backoff"}
                            /\ pc'[u] \notin {"refund", "backoff"}
    BY <2>3 DEF Step, TypeOK
  <2> QED BY <2>2, <2>4, QuotaElsewhere DEF TypeOK
<1>4. CASE \E t \in Tasks, k \in Attempts : Start(t, k)
  <2>1. PICK t \in Tasks, k \in Attempts : Start(t, k) BY <1>4
  <2>2. status[<<t, k>>] = "accepted" BY <2>1 DEF Start, Pool!Start, Pool!Move
  <2>3. pc[t] = "idle" BY <2>2, Current DEF Flights, Flight
  <2>4. pc' = [pc EXCEPT ![t] = "check"] /\ UNCHANGED <<retrying_cnt, retry_timer>>
    BY <2>1 DEF Start
  <2>5. \A u \in Tasks : pc'[u] = pc[u] \/ (pc[u] = "idle" /\ pc'[u] = "check")
    BY <2>3, <2>4 DEF TypeOK
  <2> QED BY <2>4, <2>5, QuotaElsewhere DEF TypeOK
<1>5. CASE \/ \E t \in Tasks : ExecuteTask(t) \/ Tick(t)
           \/ \E t \in Tasks, k \in Attempts : Accept(t, k)
           \/ \E j \in Jobs : Expire(j) \/ TimeOut(j) \/ Discard(j) \/ Drop(j)
           \/ IoWriteState \/ IoWriteRest \/ RetryAgain
           \/ StopIo \/ Destroy \/ UNCHANGED vars
  <2>1. UNCHANGED <<retrying_cnt, retry_timer, pc>>
    BY <1>5 DEF ExecuteTask, Tick, Accept, Expire, TimeOut, Handle, Discard, Drop, IoWriteState,
         IoWriteRest, IoWrite, RetryAgain, Resubmit, StopIo, Destroy, vars
  <2> QED BY <2>1, QuotaElsewhere DEF TypeOK
<1> QED BY <1>1, <1>2, <1>3, <1>4, <1>5 DEF Next, RunTask, IoHandler, Finished

-----------------------------------------------------------------------------
(***************************************************************************)
(* Types.                                                                  *)
(***************************************************************************)

\* The types of what run_task writes.
LEMMA TypesRunTask ==
    ASSUME TypeOK, Flights, NEW t \in Tasks, RunTask(t), retrying_cnt' \in Nat PROVE TypeOK'
<1> USE DEF fieldVars, timerVars, ioSide, Step, Begin
<1>1. \A s \in TaskState, r \in Result, e \in Error : U(s, r, e) \in Update
  BY DEF U, Update
<1>2. Job(t) \in Jobs BY DEF Job, Jobs, TypeOK
<1>3. CASE RefuseOversized(t)
  <2>1. U("FAILED", "none", "resources") \in Update BY <1>1 DEF TaskState, Result, Error
  <2> QED BY <1>3, <2>1 DEF RefuseOversized, TypeOK
<1>4. CASE RefuseLate(t)
  <2>1. U("TIMEOUT", "none", "timeout") \in Update BY <1>1 DEF TaskState, Result, Error
  <2> QED BY <1>4, <2>1 DEF RefuseLate, TypeOK
<1>5. CASE ArmAndRun(t)
  <2>1. U("RUNNING", "none", "none") \in Update BY <1>1 DEF TaskState, Result, Error
  <2> QED BY <1>2, <1>5, <2>1 DEF ArmAndRun, TypeOK
<1>6. CASE WriteState(t)
  <2>1. upd[t].state \in TaskState BY DEF TypeOK, Update
  <2> QED BY <1>6, <2>1 DEF WriteState, TypeOK
<1>7. CASE WriteRest(t)
  <2>1. upd[t].result \in Result /\ upd[t].error \in Error BY DEF TypeOK, Update
  <2>2. NoUpdate \in Update BY <1>1 DEF NoUpdate, TaskState, Result, Error
  <2>3. \/ \E to \in {"call", "cancel"} : Step(t, "rest", to) /\ UNCHANGED <<status, open>>
        \/ Step(t, "rest", "idle") /\ Pool!Finish(Job(t))
    BY <1>7 DEF WriteRest
  <2>4. status' \in [Jobs -> Pool!Status] /\ open' = open
    BY <1>7, <2>3, FlightEnds DEF WriteRest, TypeOK
  <2>5. \E to \in {"call", "cancel", "idle"} : pc' = [pc EXCEPT ![t] = to] BY <2>3
  <2>6. /\ result' = [result EXCEPT ![t] = upd[t].result]
        /\ error_msg' = [error_msg EXCEPT ![t] = upd[t].error]
        /\ upd' = [upd EXCEPT ![t] = NoUpdate]
        /\ UNCHANGED <<state, timerVars, ioSide>>
    BY <1>7 DEF WriteRest
  <2> QED BY SMTT(20), <2>1, <2>2, <2>4, <2>5, <2>6 DEF TypeOK
<1>8. CASE FunctionReturns(t)
  <2>1. \A r \in {"value", "cancelled"} : U("SUCCESS", r, "none") \in Update
    BY <1>1 DEF TaskState, Result, Error
  <2>2. PICK r \in {"value", "cancelled"} : upd' = [upd EXCEPT ![t] = U("SUCCESS", r, "none")]
    BY <1>8 DEF FunctionReturns
  <2> QED BY <1>8, <2>1, <2>2 DEF FunctionReturns, TypeOK
<1>9. CASE FunctionFails(t)
  <2>1. U("FAILED", "none", "failed") \in Update BY <1>1 DEF TaskState, Result, Error
  <2> QED BY <1>9, <2>1 DEF FunctionFails, Fails, TypeOK
<1>10. CASE FunctionRetryable(t) BY <1>10 DEF FunctionRetryable, ThrowsRetryable, TypeOK
<1>11. CASE ChargeQuota(t) BY <1>11 DEF ChargeQuota, Charge, TypeOK
<1>12. CASE RefundQuota(t)
  <2>1. U("FAILED", "none", "quota") \in Update BY <1>1 DEF TaskState, Result, Error
  <2> QED BY <1>12, <2>1 DEF RefundQuota, Refund, TypeOK
<1>13. CASE BackOff(t)
  <2>1. retry_count[t] < MaxRetry BY <1>13 DEF BackOff, Flights, Flight
  <2>2. status' \in [Jobs -> Pool!Status] /\ open' = open
    BY <1>13, <2>1, FlightEnds DEF BackOff
  <2> QED BY <1>13, <2>2 DEF BackOff, TypeOK
<1>14. CASE CancelTimer(t)
  <2>1. status' \in [Jobs -> Pool!Status] /\ open' = open
    BY <1>14, FlightEnds DEF CancelTimer
  <2> QED BY <1>2, <1>14, <2>1 DEF CancelTimer, TypeOK
<1> QED BY <1>3, <1>4, <1>5, <1>6, <1>7, <1>8, <1>9, <1>10, <1>11, <1>12, <1>13, <1>14 DEF RunTask

\* The types of what the pool, the handlers and the owner write.
LEMMA TypesOthers ==
    ASSUME TypeOK, Flights, retrying_cnt' \in Nat,
           \/ \E t \in Tasks : ExecuteTask(t) \/ Tick(t)
           \/ \E t \in Tasks, k \in Attempts : Accept(t, k) \/ Start(t, k)
           \/ IoHandler \/ StopIo \/ Destroy \/ UNCHANGED vars
           \/ \E j \in Jobs : Drop(j)
    PROVE  TypeOK'
<1> USE DEF fieldVars, timerVars, workerSide
<1>1. IoIdle \in [pc : {"idle", "state", "rest", "again", "enqueue"}, task : Tasks \cup {"none"}]
  BY DEF IoIdle
<1>2. CASE \/ \E t \in Tasks : ExecuteTask(t)
           \/ \E t \in Tasks, k \in Attempts : Accept(t, k) \/ Start(t, k)
           \/ \E j \in Jobs : Drop(j)
  <2>1. status' \in [Jobs -> Pool!Status] /\ open' = open BY <1>2, FlightsPool
  <2>2. pc' = pc \/ \E t \in Tasks : pc' = [pc EXCEPT ![t] = "check"]
    BY <1>2 DEF ExecuteTask, Accept, Start, Drop
  <2>3. io' = io \/ io' = IoIdle BY <1>2 DEF ExecuteTask, Accept, Start, Drop
  <2>4. UNCHANGED <<fieldVars, cancelled, retry_count, clock, upd, timerVars, stopped>>
    BY <1>2 DEF ExecuteTask, Accept, Start, Drop
  <2> QED BY <1>1, <2>1, <2>2, <2>3, <2>4 DEF TypeOK
<1>3. CASE \E t \in Tasks : Tick(t)
  <2>1. clock' \in [Tasks -> {"before", "at", "after"}]
    <3>1. PICK t \in Tasks, c \in {"at", "after"} : clock' = [clock EXCEPT ![t] = c]
      BY <1>3 DEF Tick
    <3> QED BY <3>1 DEF TypeOK
  <2>2. UNCHANGED <<status, fieldVars, cancelled, retry_count, timerVars, io, stopped, workerSide>>
    BY <1>3 DEF Tick
  <2> QED BY <2>1, <2>2 DEF TypeOK
<1>4. CASE \E j \in Jobs : Expire(j) \/ Discard(j)
  <2>1. PICK j \in Jobs : Expire(j) \/ Discard(j) BY <1>4
  <2>2. CASE Expire(j) BY <2>2 DEF Expire, TypeOK
  <2>3. CASE Discard(j) BY <2>3 DEF Discard, TypeOK
  <2> QED BY <2>1, <2>2, <2>3
<1>5. CASE \E j \in Jobs : TimeOut(j)
  <2>1. PICK j \in Jobs : TimeOut(j) BY <1>5
  <2>2. j[1] \in Tasks BY DEF Jobs
  <2> QED BY <2>1, <2>2 DEF TimeOut, Handle, TypeOK
<1>6. CASE IoWriteState \/ IoWriteRest
  <2>1. io.task \in Tasks BY <1>6 DEF IoWriteState, IoWriteRest, IoWrite, Flights, IoAboutTask
  <2>2. "TIMEOUT" \in TaskState /\ "none" \in Result /\ "timeout" \in Error
    BY DEF TaskState, Result, Error
  <2> QED BY <1>1, <1>6, <2>1, <2>2 DEF IoWriteState, IoWriteRest, IoWrite, TypeOK
<1>7. CASE \E t \in Tasks : RetryDue(t)
  <2>1. PICK t \in Tasks : RetryDue(t) BY <1>7
  <2>2. retry_timer' \in [Tasks -> {"none", "armed"}] BY <2>1 DEF RetryDue, TypeOK
  <2>3. io' \in [pc : {"idle", "state", "rest", "again", "enqueue"}, task : Tasks \cup {"none"}]
    BY <2>1 DEF RetryDue
  <2>4. UNCHANGED <<status, fieldVars, cancelled, retry_count, clock, exec_timer, stopped, workerSide>>
    BY <2>1 DEF RetryDue
  <2> QED BY <2>2, <2>3, <2>4 DEF TypeOK
<1>8. CASE RetryAgain
  <2>1. io.pc = "again" /\ io.task \in Tasks BY <1>8 DEF RetryAgain, Resubmit, Flights, IoAboutTask
  <2>2. PICK t \in Tasks : t = io.task BY <2>1
  <2>3. retry_count[t] \in Nat /\ retry_count[t] < MaxRetry
    BY <2>1, <2>2, Constants DEF Flights, Flight, Again, TypeOK
  <2>4. retry_count[t] + 1 \in Attempts BY <2>3, ExecutorAssumption DEF Attempts
  <2>5. Pool!Move(<<t, retry_count[t] + 1>>, "new", "submitting")
    BY <1>8, <2>2 DEF RetryAgain, Resubmit, Pool!Submit
  <2>6. status' \in [Jobs -> Pool!Status] /\ open' = open
    <3>1. PICK n \in Attempts : n = retry_count[t] + 1 BY <2>4
    <3>2. Pool!Move(<<t, n>>, "new", "submitting") BY <2>5, <3>1
    <3>3. "submitting" \in Pool!Status BY DEF Pool!Status
    <3> QED BY <3>2, <3>3, JobMoves, Zenon
  <2>7. /\ retry_count' = [retry_count EXCEPT ![t] = retry_count[t] + 1]
        /\ io' = [io EXCEPT !.pc = "enqueue"]
        /\ UNCHANGED <<fieldVars, cancelled, clock, timerVars, stopped, pc, upd>>
    BY <1>8, <2>2 DEF RetryAgain, Resubmit
  <2> QED BY <2>4, <2>6, <2>7 DEF TypeOK
<1>9. CASE StopIo BY <1>9 DEF StopIo, TypeOK
<1>10. CASE Destroy BY <1>10 DEF Destroy, Pool!Close, TypeOK
<1>11. CASE UNCHANGED vars BY <1>11 DEF vars, TypeOK
<1> QED BY <1>2, <1>3, <1>4, <1>5, <1>6, <1>7, <1>8, <1>9, <1>10, <1>11 DEF IoHandler

\* The inductive invariant: types, attempts and quota support each other.
IInv == TypeOK /\ Flights /\ Quota

\* The invariant holds when the executor is constructed.
LEMMA IInvInit == Init => IInv
<1> SUFFICES ASSUME Init PROVE IInv OBVIOUS
<1> USE DEF Init, Pool!Init
<1>1. TypeOK
  <2>1. NoUpdate \in Update BY DEF NoUpdate, U, Update, TaskState, Result, Error
  <2>2. 0 \in Attempts BY Constants
  <2> QED BY <2>1, <2>2 DEF TypeOK, IoIdle, TaskState, Result, Error, Pool!Status
<1>2. Flights
  <2>1. \A t \in Tasks, n \in Attempts : status[<<t, n>>] = "new" /\ n \in Nat BY Constants
  <2> QED BY SMTT(20), <2>1, Constants DEF Flights, Flight, IoAboutTask, Again, IoIdle
<1>3. Quota
  <2>1. Armed = {} /\ Charged = {} /\ Backing = {} BY DEF Armed, Charged, Backing
  <2> QED BY <2>1, FS_EmptySet, ExecutorAssumption DEF Quota
<1> QED BY <1>1, <1>2, <1>3 DEF IInv

\* Every step of the workers, the timers, the pool and the owner keeps it.
LEMMA IInvNext == IInv /\ [Next]_vars => IInv'
<1> SUFFICES ASSUME IInv, [Next]_vars PROVE IInv' OBVIOUS
<1>1. TypeOK /\ Flights /\ Quota BY DEF IInv
<1>2. Quota' /\ retrying_cnt' \in Nat BY <1>1, QuotaNext
<1>3. CASE \E t \in Tasks : RunTask(t) BY <1>1, <1>2, <1>3, TypesRunTask, FlightsRunTask DEF IInv
<1>4. CASE \/ \E t \in Tasks : ExecuteTask(t)
           \/ \E t \in Tasks, k \in Attempts : Accept(t, k) \/ Start(t, k)
           \/ \E j \in Jobs : Drop(j)
  BY <1>1, <1>2, <1>4, TypesOthers, FlightsPool DEF IInv
<1>5. CASE (\E t \in Tasks : Tick(t)) \/ IoHandler \/ StopIo \/ Destroy \/ UNCHANGED vars
  BY <1>1, <1>2, <1>5, TypesOthers, FlightsIo DEF IInv
<1> QED BY <1>3, <1>4, <1>5 DEF Next, Finished

\* IInv holds in every reachable state.
LEMMA IInvCorrect == Spec => []IInv
BY IInvInit, IInvNext, PTL DEF Spec

\* The fields of the tasks, the timers and the counter have their types:
\* retry_count stays within max_retry + 1 and retrying_cnt is never negative.
THEOREM TypeCorrect == Spec => []TypeOK
BY IInvCorrect, PTL DEF IInv

\* fetch_add, comparison and fetch_sub of retrying_cnt, made by any number of
\* workers and the timer, neither lose nor leak a unit, and no more than
\* MAX_CONCURRENT_RETRY tasks ever wait for a retry.
THEOREM QuotaExactCorrect == Spec => []QuotaExact
BY IInvCorrect, QuotaIsExact, PTL DEF IInv

\* No task is attempted more than max_retry + 1 times.
THEOREM RetryBoundedCorrect == Spec => []RetryBounded
<1>1. IInv => RetryBounded
  <2> SUFFICES ASSUME IInv, NEW t \in Tasks
               PROVE  retry_count[t] <= MaxRetry /\ status[<<t, MaxRetry + 1>>] = "new"
    BY DEF RetryBounded
  <2>1. Flight(t) /\ retry_count[t] \in Nat BY Constants DEF IInv, Flights, TypeOK
  <2>2. MaxRetry + 1 \in Attempts /\ MaxRetry \in Nat BY ExecutorAssumption DEF Attempts
  <2>3. retry_count[t] <= MaxRetry BY <2>1 DEF Flight
  <2>4. MaxRetry + 1 > retry_count[t] BY <2>1, <2>2, <2>3
  <2> QED BY <2>1, <2>2, <2>3, <2>4 DEF Flight
<1> QED BY <1>1, IInvCorrect, PTL

\* A task is in the pool once or waits for its retry, although its retries are
\* submitted by a timer: run_task has its Task for itself.
THEOREM SingleFlightCorrect == Spec => []SingleFlight
<1>1. IInv => SingleFlight
  <2> SUFFICES ASSUME IInv, NEW t \in Tasks
               PROVE  /\ Cardinality(InPool(t)) + (IF Waiting(t) THEN 1 ELSE 0) <= 1
                      /\ pc[t] # "idle" => InPool(t) = {Job(t)}
    BY DEF SingleFlight
  <2>1. TypeOK /\ Flights /\ Flight(t) BY DEF IInv, Flights
  <2>2. Job(t) \in Jobs /\ Job(t)[1] = t BY <2>1 DEF Job, Jobs, TypeOK
  <2>3. \A j \in InPool(t) : j = Job(t)
    <3> SUFFICES ASSUME NEW j \in InPool(t) PROVE j = Job(t) OBVIOUS
    <3>1. PICK u \in Tasks, n \in Attempts : j = <<u, n>> BY Constants DEF InPool
    <3>2. u = t /\ status[<<t, n>>] \notin {"new", "done"} BY <3>1 DEF InPool
    <3> QED BY <2>1, <3>1, <3>2, Current DEF Job
  <2>4. InPool(t) = {} \/ InPool(t) = {Job(t)} BY <2>3
  <2>5. Cardinality({}) = 0 /\ Cardinality({Job(t)}) = 1 BY FS_EmptySet, FS_Singleton
  <2>6. Waiting(t) => InPool(t) = {}
    <3>1. Waiting(t) => status[Job(t)] = "done" BY <2>1 DEF Waiting, Flight, Again, Job
    <3> QED BY <2>3, <3>1 DEF InPool
  <2>7. pc[t] # "idle" => Job(t) \in InPool(t) BY <2>1, <2>2 DEF Flight, InPool, Job
  <2> QED BY <2>4, <2>5, <2>6, <2>7
<1> QED BY <1>1, IInvCorrect, PTL

-----------------------------------------------------------------------------
(***************************************************************************)
(* The deadline.                                                           *)
(***************************************************************************)

\* Whoever is about to write TIMEOUT has seen the deadline pass: a timer that is
\* due, its handler, and the worker that was too late.
Late ==
    /\ \A j \in Jobs : exec_timer[j] = "due" => clock[j[1]] # "before"
    /\ io.pc \in {"state", "rest"} => clock[io.task] # "before"
    /\ \A t \in Tasks : upd[t].state = "TIMEOUT" => clock[t] # "before"
    /\ TimeoutOnlyAfterDeadline

\* Time does not run backwards.
LEMMA ClockForward ==
    ASSUME TypeOK, [Next]_vars
    PROVE  \A t \in Tasks : clock[t] # "before" => clock'[t] # "before"
<1> USE DEF fieldVars, timerVars, ioSide, workerSide
<1>1. CASE \E t \in Tasks : Tick(t) BY <1>1 DEF Tick, TypeOK
<1>2. CASE UNCHANGED clock BY <1>2
<1> QED
  BY <1>1, <1>2 DEF Next, ExecuteTask, RunTask, RefuseOversized, RefuseLate, ArmAndRun, WriteState,
       WriteRest, FunctionReturns, FunctionFails, Fails, FunctionRetryable, ThrowsRetryable,
       ChargeQuota, Charge, RefundQuota, Refund, BackOff, CancelTimer, Accept, Start, IoHandler,
       Expire, TimeOut, Handle, Discard, RetryDue, IoWriteState, IoWriteRest, IoWrite, RetryAgain,
       Resubmit, StopIo, Destroy, Drop, Finished, vars

\* Steps that arm nothing and decide nothing.
LEMMA LateElsewhere ==
    ASSUME TypeOK, Flights, Late,
           \A t \in Tasks : clock[t] # "before" => clock'[t] # "before",
           \A j \in Jobs : exec_timer'[j] = "due" => exec_timer[j] = "due",
           io'.pc \in {"state", "rest"} => io.pc \in {"state", "rest"} /\ io'.task = io.task,
           \A t \in Tasks : upd'[t].state = "TIMEOUT" => upd[t].state = "TIMEOUT",
           \A t \in Tasks : state'[t] = "TIMEOUT" => clock[t] # "before"
    PROVE  Late'
<1>1. \A j \in Jobs : j[1] \in Tasks BY DEF Jobs
<1>2. \A j \in Jobs : exec_timer'[j] = "due" => clock'[j[1]] # "before" BY <1>1 DEF Late
<1>3. io'.pc \in {"state", "rest"} => clock'[io'.task] # "before" BY DEF Late, Flights, IoAboutTask
<1>4. \A t \in Tasks : upd'[t].state = "TIMEOUT" => clock'[t] # "before" BY DEF Late
<1>5. TimeoutOnlyAfterDeadline' BY DEF TimeoutOnlyAfterDeadline
<1> QED BY <1>2, <1>3, <1>4, <1>5 DEF Late

\* run_task: only the worker that starts too late decides for TIMEOUT.
LEMMA LateRunTask ==
    ASSUME TypeOK, Flights, Late, NEW t \in Tasks, RunTask(t), [Next]_vars PROVE Late'
<1> USE DEF fieldVars, timerVars, ioSide, Begin, U, NoUpdate
<1>1. \A u \in Tasks : clock[u] # "before" => clock'[u] # "before" BY ClockForward
<1>2. io' = io /\ clock' = clock
  BY DEF RunTask, RefuseOversized, RefuseLate, ArmAndRun, WriteState, WriteRest, FunctionReturns,
       FunctionFails, Fails, FunctionRetryable, ThrowsRetryable, ChargeQuota, Charge, RefundQuota,
       Refund, BackOff, CancelTimer
<1>3. Job(t) \in Jobs BY DEF Job, Jobs, TypeOK
<1>4. \A j \in Jobs : exec_timer'[j] = "due" => exec_timer[j] = "due"
  <2>1. \/ exec_timer' = exec_timer
        \/ exec_timer' = [exec_timer EXCEPT ![Job(t)] = "armed"]
        \/ exec_timer' = [exec_timer EXCEPT ![Job(t)] = IF @ = "armed" THEN "aborted" ELSE @]
    BY DEF RunTask, RefuseOversized, RefuseLate, ArmAndRun, WriteState, WriteRest, FunctionReturns,
         FunctionFails, Fails, FunctionRetryable, ThrowsRetryable, ChargeQuota, Charge, RefundQuota,
         Refund, BackOff, CancelTimer
  <2> QED BY SMTT(20), <1>3, <2>1 DEF TypeOK
<1>5. \A u \in Tasks : state'[u] = "TIMEOUT" => clock[u] # "before"
  <2>1. state' = state \/ state' = [state EXCEPT ![t] = upd[t].state]
    BY DEF RunTask, RefuseOversized, RefuseLate, ArmAndRun, WriteState, WriteRest, FunctionReturns,
         FunctionFails, Fails, FunctionRetryable, ThrowsRetryable, ChargeQuota, Charge, RefundQuota,
         Refund, BackOff, CancelTimer
  <2> QED BY SMTT(20), <2>1 DEF TypeOK, Late, TimeoutOnlyAfterDeadline
<1>6. CASE RefuseLate(t)
  <2>1. /\ UNCHANGED <<exec_timer, state, io, clock>> /\ clock[t] # "before"
        /\ \A u \in Tasks : u # t => upd'[u] = upd[u]
    BY <1>6 DEF RefuseLate, TypeOK
  <2> QED BY <2>1 DEF Late, TimeoutOnlyAfterDeadline
<1>7. CASE ~RefuseLate(t)
  <2>1. \/ upd' = upd
        \/ \E u : u.state # "TIMEOUT" /\ upd' = [upd EXCEPT ![t] = u]
    BY <1>7 DEF RunTask, RefuseOversized, ArmAndRun, WriteState, WriteRest, FunctionReturns,
         FunctionFails, Fails, FunctionRetryable, ThrowsRetryable, ChargeQuota, Charge, RefundQuota,
         Refund, BackOff, CancelTimer
  <2>2. \A u \in Tasks : upd'[u].state = "TIMEOUT" => upd[u].state = "TIMEOUT"
    BY <2>1 DEF TypeOK
  <2> QED BY <1>1, <1>2, <1>4, <1>5, <2>2, LateElsewhere
<1> QED BY <1>6, <1>7

\* The handlers and the rest.
LEMMA LateOthers ==
    ASSUME TypeOK, Flights, Late, [Next]_vars,
           \/ \E t \in Tasks : ExecuteTask(t) \/ Tick(t)
           \/ \E t \in Tasks, k \in Attempts : Accept(t, k) \/ Start(t, k)
           \/ IoHandler \/ StopIo \/ Destroy \/ UNCHANGED vars
           \/ \E j \in Jobs : Drop(j)
    PROVE  Late'
<1> USE DEF fieldVars, timerVars, workerSide
<1>1. \A u \in Tasks : clock[u] # "before" => clock'[u] # "before" BY ClockForward
<1>2. \A j \in Jobs : j[1] \in Tasks BY DEF Jobs
<1>3. CASE \E j \in Jobs : Expire(j)
  <2>1. PICK j \in Jobs : Expire(j) BY <1>3
  <2>2. /\ clock[j[1]] # "before" /\ UNCHANGED <<clock, io, upd, state>>
        /\ \A i \in Jobs : i # j => exec_timer'[i] = exec_timer[i]
    BY <2>1 DEF Expire, TypeOK
  <2> QED BY <2>2 DEF Late, TimeoutOnlyAfterDeadline
<1>4. CASE \E j \in Jobs : TimeOut(j)
  <2>1. PICK j \in Jobs : TimeOut(j) BY <1>4
  <2>2. /\ exec_timer[j] = "due" /\ io'.task = j[1] /\ UNCHANGED <<clock, upd, state>>
        /\ exec_timer'[j] = "done" /\ \A i \in Jobs : i # j => exec_timer'[i] = exec_timer[i]
    BY <2>1 DEF TimeOut, Handle, TypeOK
  <2> QED BY <2>2 DEF Late, TimeoutOnlyAfterDeadline
<1>5. CASE IoWriteState
  <2>1. /\ io.pc = "state" /\ io'.task = io.task /\ UNCHANGED <<exec_timer, upd>>
        /\ state' = [state EXCEPT ![io.task] = "TIMEOUT"]
    BY <1>5 DEF IoWriteState, IoWrite, TypeOK
  <2>2. clock[io.task] # "before" BY <2>1 DEF Late
  <2>3. \A t \in Tasks : state'[t] = "TIMEOUT" => clock[t] # "before"
    BY <2>1, <2>2 DEF Late, TimeoutOnlyAfterDeadline, TypeOK
  <2> QED BY <1>1, <2>1, <2>3, LateElsewhere
<1>6. CASE \/ \E t \in Tasks : ExecuteTask(t) \/ Tick(t) \/ RetryDue(t)
           \/ \E t \in Tasks, k \in Attempts : Accept(t, k) \/ Start(t, k)
           \/ \E j \in Jobs : Discard(j) \/ Drop(j)
           \/ IoWriteRest \/ RetryAgain \/ StopIo \/ Destroy \/ UNCHANGED vars
  <2>1. UNCHANGED <<upd, state>>
    BY <1>6 DEF ExecuteTask, Tick, RetryDue, Accept, Start, Discard, Drop, IoWriteRest, IoWrite,
         RetryAgain, Resubmit, StopIo, Destroy, vars
  <2>2. exec_timer' = exec_timer \/ \E j \in Jobs : exec_timer' = [exec_timer EXCEPT ![j] = "done"]
    BY <1>6 DEF ExecuteTask, Tick, RetryDue, Accept, Start, Discard, Drop, IoWriteRest, IoWrite,
         RetryAgain, Resubmit, StopIo, Destroy, vars
  <2>3. \/ io' = io \/ io' = IoIdle \/ io' = [io EXCEPT !.pc = "enqueue"]
        \/ \E t \in Tasks : io' = [pc |-> "again", task |-> t]
    BY <1>6 DEF ExecuteTask, Tick, RetryDue, Accept, Start, Discard, Drop, IoWriteRest, IoWrite,
         RetryAgain, Resubmit, StopIo, Destroy, vars
  <2>4. io'.pc \in {"state", "rest"} => io.pc \in {"state", "rest"} /\ io'.task = io.task
    BY <2>3 DEF IoIdle, TypeOK
  <2>5. \A j \in Jobs : exec_timer'[j] = "due" => exec_timer[j] = "due" BY <2>2 DEF TypeOK
  <2>6. \A t \in Tasks : state'[t] = "TIMEOUT" => clock[t] # "before"
    BY <2>1 DEF Late, TimeoutOnlyAfterDeadline
  <2> QED BY <1>1, <2>1, <2>4, <2>5, <2>6, LateElsewhere
<1> QED BY <1>3, <1>4, <1>5, <1>6 DEF IoHandler

\* A task is marked TIMEOUT only after its deadline, by whichever thread and
\* whatever timers earlier attempts have left armed.
THEOREM TimeoutOnlyAfterDeadlineCorrect == Spec => []TimeoutOnlyAfterDeadline
<1>1. Init => Late
  <2> SUFFICES ASSUME Init PROVE Late OBVIOUS
  <2> QED BY DEF Init, Late, TimeoutOnlyAfterDeadline, IoIdle, NoUpdate, U
<1>2. IInv /\ Late /\ [Next]_vars => Late'
  <2> SUFFICES ASSUME TypeOK, Flights, Late, [Next]_vars PROVE Late' BY DEF IInv
  <2>1. CASE \E t \in Tasks : RunTask(t) BY <2>1, LateRunTask
  <2>2. CASE \/ \E t \in Tasks : ExecuteTask(t) \/ Tick(t)
             \/ \E t \in Tasks, k \in Attempts : Accept(t, k) \/ Start(t, k)
             \/ IoHandler \/ StopIo \/ Destroy \/ UNCHANGED vars
             \/ \E j \in Jobs : Drop(j)
    BY <2>2, LateOthers
  <2> QED BY <2>1, <2>2 DEF Next, Finished
<1>3. Late => TimeoutOnlyAfterDeadline BY DEF Late
<1> QED BY <1>1, <1>2, <1>3, IInvCorrect, PTL DEF Spec

-----------------------------------------------------------------------------
(***************************************************************************)
(* What a task that nobody works on any more looks like.                   *)
(***************************************************************************)

\* A retry that is being submitted is submitted by the handler, which waits.
HandlerSubmits ==
    \A t \in Tasks, n \in Attempts :
        n > 0 /\ status[<<t, n>>] = "submitting" => io.pc = "enqueue" /\ io.task = t

\* The current attempt was begun if it is a retry, and is never turned away.
Begun(t) ==
    /\ retry_count[t] > 0 => status[<<t, retry_count[t]>>] # "new"
    /\ status[<<t, retry_count[t]>>] # "rejected"
    /\ status[<<t, retry_count[t]>>] = "dropped" => ~open

\* update_task_state is not called with PENDING, and the state it wrote is still
\* there, or TIMEOUT over it, when run_task returns for good.
Outcome(t) ==
    /\ pc[t] \in {"state", "rest"} => upd[t].state # "PENDING"
    /\ pc[t] = "rest" /\ upd[t].state # "RUNNING" => state[t] \in Terminal
    /\ pc[t] = "cancel" => state[t] \in Terminal
    /\ status[<<t, retry_count[t]>>] = "done" /\ ~Waiting(t) => state[t] \in Terminal

Ends == HandlerSubmits /\ \A t \in Tasks : Begun(t) /\ Outcome(t)

\* No attempt has been made when the executor is constructed.
LEMMA EndsInit == Init => Ends
<1> SUFFICES ASSUME Init PROVE Ends OBVIOUS
<1>1. \A t \in Tasks, n \in Attempts : status[<<t, n>>] = "new"
  BY Constants DEF Init, Pool!Init
<1>2. \A t \in Tasks : retry_count[t] = 0 /\ pc[t] = "idle" BY DEF Init
<1>3. HandlerSubmits BY <1>1 DEF HandlerSubmits
<1>4. ASSUME NEW t \in Tasks PROVE Begun(t) /\ Outcome(t)
  <2>1. status[<<t, retry_count[t]>>] = "new" /\ retry_count[t] = 0 /\ pc[t] = "idle"
    BY <1>1, <1>2, Constants
  <2>2. Begun(t) BY <2>1 DEF Begun
  <2>3. Outcome(t) BY <2>1 DEF Outcome
  <2> QED BY <2>2, <2>3
<1> QED BY <1>3, <1>4 DEF Ends

\* A task that a step does not concern, or that it marks TIMEOUT.
LEMMA EndsElsewhere ==
    ASSUME NEW t \in Tasks, Begun(t), Outcome(t),
           status'[<<t, retry_count[t]>>] = status[<<t, retry_count[t]>>],
           retry_count'[t] = retry_count[t], pc'[t] = pc[t], upd'[t] = upd[t],
           state'[t] = state[t] \/ state'[t] = "TIMEOUT",
           Waiting(t) => Waiting(t)', open' => open
    PROVE  Begun(t)' /\ Outcome(t)'
<1>1. Begun(t)' BY DEF Begun
<1>2. Outcome(t)' BY DEF Outcome, Terminal
<1> QED BY <1>1, <1>2

\* run_task does not return: it may write the state, or choose what to write.
LEMMA EndsGoesOn ==
    ASSUME TypeOK, Flights, Ends, NEW t \in Tasks, NEW from, NEW to,
           from # "idle", Step(t, from, to),
           UNCHANGED <<status, open, retry_count, retry_timer, io>>,
           \A u \in Tasks : u # t => upd'[u] = upd[u] /\ state'[u] = state[u],
           to \in {"state", "rest"} => upd'[t].state # "PENDING",
           to = "rest" /\ upd'[t].state # "RUNNING" => state'[t] \in Terminal,
           to = "cancel" => state'[t] \in Terminal
    PROVE  Ends'
<1>1. pc[t] = from /\ pc'[t] = to /\ \A u \in Tasks : u # t => pc'[u] = pc[u]
  BY DEF Step, TypeOK
<1>2. status[<<t, retry_count[t]>>] = "running" BY <1>1 DEF Flights, Flight
<1>3. Begun(t)' /\ Outcome(t)' BY <1>1, <1>2 DEF Ends, Begun, Outcome
<1>4. ASSUME NEW u \in Tasks, u # t PROVE Begun(u)' /\ Outcome(u)'
  <2>1. Begun(u) /\ Outcome(u) /\ (Waiting(u) => Waiting(u)') BY DEF Ends, Waiting
  <2> QED BY <1>1, <1>4, <2>1, EndsElsewhere
<1>5. HandlerSubmits' BY DEF Ends, HandlerSubmits
<1> QED BY <1>3, <1>4, <1>5 DEF Ends

\* run_task returns: for a retry, or with a final state.
LEMMA EndsReturns ==
    ASSUME TypeOK, Flights, Ends, NEW t \in Tasks, NEW from, from # "idle", Step(t, from, "idle"),
           Pool!Finish(Job(t)), UNCHANGED <<retry_count, io, state>>,
           \A u \in Tasks : u # t => upd'[u] = upd[u],
           \/ retry_timer' = retry_timer /\ state[t] \in Terminal
           \/ retry_timer' = [retry_timer EXCEPT ![t] = "armed"]
    PROVE  Ends'
<1>1. pc[t] = from /\ pc'[t] = "idle" /\ \A u \in Tasks : u # t => pc'[u] = pc[u]
  BY DEF Step, TypeOK
<1>2. PICK k \in Attempts : k = retry_count[t] BY DEF TypeOK
<1>3. Pool!Move(<<t, k>>, "running", "done") BY <1>2 DEF Pool!Finish, Job
<1>4. /\ status[<<t, k>>] = "running" /\ status'[<<t, k>>] = "done" /\ open' = open
      /\ \A u \in Tasks, m \in Attempts :
             u # t \/ m # k => status'[<<u, m>>] = status[<<u, m>>]
  <2>1. Moved(t, k, "running", "done") BY <1>3, JobMoved
  <2> QED BY <2>1 DEF Moved
<1>5. state[t] \in Terminal \/ retry_timer'[t] = "armed" BY DEF TypeOK
<1>6. Begun(t)' /\ Outcome(t)' BY <1>1, <1>2, <1>4, <1>5 DEF Begun, Outcome, Waiting
<1>7. ASSUME NEW u \in Tasks, u # t PROVE Begun(u)' /\ Outcome(u)'
  <2>1. /\ Begun(u) /\ Outcome(u) /\ retry_count[u] \in Attempts
        /\ (Waiting(u) => Waiting(u)')
    BY SMTT(20), <1>7 DEF Ends, Waiting, TypeOK
  <2> QED BY <1>1, <1>4, <1>7, <2>1, EndsElsewhere
<1>8. HandlerSubmits' BY <1>4 DEF Ends, HandlerSubmits
<1> QED BY <1>6, <1>7, <1>8 DEF Ends

\* run_task.
LEMMA EndsRunTask ==
    ASSUME TypeOK, Flights, Ends, NEW t \in Tasks, RunTask(t) PROVE Ends'
<1> USE DEF fieldVars, timerVars, ioSide, Begin
<1>1. Outcome(t) BY DEF Ends
<1>2. CASE RefuseOversized(t) \/ RefuseLate(t) \/ ArmAndRun(t)
  <2>1. /\ Step(t, "check", "state")
        /\ UNCHANGED <<status, open, retry_count, retry_timer, io, state>>
        /\ upd'[t].state # "PENDING" /\ \A u \in Tasks : u # t => upd'[u] = upd[u]
    <3>1. PICK s \in {"FAILED", "TIMEOUT", "RUNNING"}, e \in Error :
             upd' = [upd EXCEPT ![t] = U(s, "none", e)]
      BY <1>2 DEF RefuseOversized, RefuseLate, ArmAndRun, Error
    <3>2. upd'[t].state = s /\ \A u \in Tasks : u # t => upd'[u] = upd[u]
      BY <3>1 DEF TypeOK, U
    <3>3. Step(t, "check", "state") /\ UNCHANGED <<status, open, retry_count, retry_timer, io, state>>
      BY <1>2 DEF RefuseOversized, RefuseLate, ArmAndRun
    <3> QED BY <3>1, <3>2, <3>3
  <2> QED BY <2>1, EndsGoesOn
<1>3. CASE WriteState(t)
  <2>1. /\ Step(t, "state", "rest")
        /\ UNCHANGED <<status, open, retry_count, retry_timer, io, upd>>
        /\ state'[t] = upd[t].state /\ \A u \in Tasks : u # t => state'[u] = state[u]
    BY <1>3 DEF WriteState, TypeOK
  <2>2. upd[t].state # "PENDING" /\ upd[t].state \in TaskState
    BY <1>1, <2>1 DEF Outcome, Step, TypeOK, Update
  <2> QED BY <2>1, <2>2, EndsGoesOn DEF TaskState, Terminal
<1>4. CASE WriteRest(t)
  <2>1. /\ UNCHANGED <<retry_count, retry_timer, io, state>> /\ pc[t] = "rest"
        /\ \A u \in Tasks : u # t => upd'[u] = upd[u]
    BY <1>4 DEF WriteRest, Step, TypeOK
  <2>2. upd[t].state # "RUNNING" => state[t] \in Terminal BY <1>1, <2>1 DEF Outcome
  <2>3. CASE upd[t].state = "RUNNING"
    <3>1. Step(t, "rest", "call") /\ UNCHANGED <<status, open>> BY <1>4, <2>3 DEF WriteRest
    <3> QED BY <2>1, <3>1, EndsGoesOn
  <2>4. CASE upd[t].state # "RUNNING" /\ (upd[t].state = "SUCCESS" \/ upd[t].error = "failed")
    <3>1. Step(t, "rest", "cancel") /\ UNCHANGED <<status, open>> BY <1>4, <2>4 DEF WriteRest
    <3> QED BY <2>1, <2>2, <2>4, <3>1, EndsGoesOn
  <2>5. CASE upd[t].state # "RUNNING" /\ ~(upd[t].state = "SUCCESS" \/ upd[t].error = "failed")
    <3>1. Step(t, "rest", "idle") /\ Pool!Finish(Job(t)) BY <1>4, <2>5 DEF WriteRest
    <3> QED BY <2>1, <2>2, <2>5, <3>1, EndsReturns
  <2> QED BY <2>3, <2>4, <2>5
<1>5. CASE FunctionReturns(t) \/ FunctionFails(t)
  <2>1. /\ Step(t, "call", "state")
        /\ UNCHANGED <<status, open, retry_count, retry_timer, io, state>>
    BY <1>5 DEF FunctionReturns, FunctionFails, Fails
  <2>2. upd'[t].state # "PENDING" /\ \A u \in Tasks : u # t => upd'[u] = upd[u]
    <3>1. PICK s \in {"SUCCESS", "FAILED"}, r \in Result, e \in Error :
             upd' = [upd EXCEPT ![t] = U(s, r, e)]
      BY <1>5 DEF FunctionReturns, FunctionFails, Fails, Result, Error
    <3>2. upd'[t].state = s /\ \A u \in Tasks : u # t => upd'[u] = upd[u]
      BY <3>1 DEF TypeOK, U
    <3> QED BY <3>1, <3>2
  <2> QED BY <2>1, <2>2, EndsGoesOn
<1>6. CASE FunctionRetryable(t)
  <2>1. Step(t, "call", "quota") /\ UNCHANGED <<status, open, retry_count, retry_timer, io, state, upd>>
    BY <1>6 DEF FunctionRetryable, ThrowsRetryable
  <2> QED BY <2>1, EndsGoesOn
<1>7. CASE ChargeQuota(t)
  <2>1. /\ \E to \in {"refund", "backoff"} : Step(t, "quota", to)
        /\ UNCHANGED <<status, open, retry_count, retry_timer, io, state, upd>>
    BY <1>7 DEF ChargeQuota, Charge
  <2>2. PICK to \in {"refund", "backoff"} : Step(t, "quota", to) BY <2>1
  <2> QED BY <2>1, <2>2, EndsGoesOn
<1>8. CASE RefundQuota(t)
  <2>1. /\ Step(t, "refund", "state")
        /\ UNCHANGED <<status, open, retry_count, retry_timer, io, state>>
        /\ upd'[t].state # "PENDING" /\ \A u \in Tasks : u # t => upd'[u] = upd[u]
    BY <1>8 DEF RefundQuota, Refund, U, TypeOK
  <2> QED BY <2>1, EndsGoesOn
<1>9. CASE BackOff(t)
  <2>1. /\ Step(t, "backoff", "idle") /\ Pool!Finish(Job(t))
        /\ UNCHANGED <<retry_count, io, state, upd>>
        /\ retry_timer' = [retry_timer EXCEPT ![t] = "armed"]
    BY <1>9 DEF BackOff
  <2> QED BY <2>1, EndsReturns
<1>10. CASE CancelTimer(t)
  <2>1. /\ Step(t, "cancel", "idle") /\ Pool!Finish(Job(t))
        /\ UNCHANGED <<retry_count, io, state, upd, retry_timer>> /\ pc[t] = "cancel"
    BY <1>10 DEF CancelTimer, Step
  <2>2. state[t] \in Terminal BY <1>1, <2>1 DEF Outcome
  <2> QED BY <2>1, <2>2, EndsReturns
<1> QED BY <1>2, <1>3, <1>4, <1>5, <1>6, <1>7, <1>8, <1>9, <1>10 DEF RunTask

\* The pool moves the current attempt; the handler whose submission it accepts
\* returns, and no other handler is in progress then.
LEMMA EndsMoves ==
    ASSUME TypeOK, Flights, Ends, NEW t \in Tasks, NEW n \in Attempts, n = retry_count[t],
           NEW from, NEW to \in {"submitting", "accepted", "running", "dropped"},
           Pool!Move(<<t, n>>, from, to), to = "submitting" => n = 0, to = "dropped" => ~open,
           UNCHANGED <<retry_count, retry_timer, state, upd>>,
           from # "running", from # "done",
           pc' = pc \/ pc' = [pc EXCEPT ![t] = "check"],
           io' = io \/ (io' = IoIdle /\ n > 0 /\ from = "submitting")
    PROVE  Ends'
<1>1. /\ status[<<t, n>>] = from /\ status'[<<t, n>>] = to /\ open' = open
      /\ \A u \in Tasks, m \in Attempts :
             u # t \/ m # n => status'[<<u, m>>] = status[<<u, m>>]
  <2>1. Moved(t, n, from, to) BY JobMoved
  <2> QED BY <2>1 DEF Moved
<1>2. io' # io => /\ io' = IoIdle /\ n > 0 /\ from = "submitting"
                  /\ io.pc = "enqueue" /\ io.task = t
  BY <1>1 DEF Ends, HandlerSubmits
<1>3. pc[t] = "idle" BY <1>1 DEF Flights, Flight
<1>4. pc'[t] \in {"idle", "check"} /\ \A u \in Tasks : u # t => pc'[u] = pc[u]
  BY <1>3 DEF TypeOK
<1>5. Begun(t)' /\ Outcome(t)' BY <1>1, <1>4 DEF Begun, Outcome
<1>6. ASSUME NEW u \in Tasks, u # t PROVE Begun(u)' /\ Outcome(u)'
  <2>1. Waiting(u) => Waiting(u)' BY <1>2 DEF Waiting
  <2>2. Begun(u) /\ Outcome(u) /\ retry_count[u] \in Attempts BY DEF Ends, TypeOK
  <2> QED BY <1>1, <1>4, <1>6, <2>1, <2>2, EndsElsewhere
<1>7. ASSUME NEW u \in Tasks, NEW m \in Attempts, m > 0, status'[<<u, m>>] = "submitting"
      PROVE  io'.pc = "enqueue" /\ io'.task = u
  <2>1. u # t \/ m # n
    <3> SUFFICES ASSUME u = t, m = n PROVE FALSE OBVIOUS
    <3>1. to = "submitting" BY <1>1, <1>7
    <3>2. n = 0 BY <3>1
    <3> QED BY <1>7, <3>2
  <2>2. status[<<u, m>>] = "submitting" BY <1>1, <1>7, <2>1
  <2>3. io.pc = "enqueue" /\ io.task = u BY <1>7, <2>2 DEF Ends, HandlerSubmits
  <2>4. m = retry_count[u] BY <2>2, Current
  <2>5. io' = io BY <1>2, <2>1, <2>3, <2>4
  <2> QED BY <2>3, <2>5
<1>8. HandlerSubmits' BY <1>7 DEF HandlerSubmits
<1> QED BY <1>5, <1>6, <1>8 DEF Ends

\* The pool.
LEMMA EndsPool ==
    ASSUME TypeOK, Flights, Ends,
           \/ \E t \in Tasks : ExecuteTask(t)
           \/ \E t \in Tasks, k \in Attempts : Accept(t, k) \/ Start(t, k)
           \/ \E j \in Jobs : Drop(j)
    PROVE  Ends'
<1> USE DEF fieldVars, timerVars
<1>1. ASSUME NEW t \in Tasks, ExecuteTask(t) PROVE Ends'
  <2>1. /\ Pool!Move(<<t, 0>>, "new", "submitting") /\ status[<<t, 0>>] = "new"
        /\ UNCHANGED <<retry_count, retry_timer, state, upd, pc, io>>
    BY <1>1 DEF ExecuteTask, Pool!Submit, Pool!Move
  <2>2. 0 \in Attempts /\ retry_count[t] \in Nat BY Constants DEF TypeOK
  <2>3. 0 < retry_count[t] => status[<<t, 0>>] = "done" BY <2>2 DEF Flights, Flight
  <2>4. retry_count[t] = 0
    <3>1. ~(0 < retry_count[t]) BY <2>1, <2>3
    <3> QED BY <2>2, <3>1
  <2> QED BY <2>1, <2>2, <2>4, EndsMoves
<1>2. ASSUME NEW t \in Tasks, NEW k \in Attempts, Accept(t, k) \/ Start(t, k) \/ Drop(<<t, k>>)
      PROVE  Ends'
  <2>1. CASE Accept(t, k)
    <3>1. /\ Pool!Move(<<t, k>>, "submitting", "accepted") /\ status[<<t, k>>] = "submitting"
          /\ UNCHANGED <<retry_count, retry_timer, state, upd, pc>>
          /\ io' = io \/ (io' = IoIdle /\ k > 0)
      BY <2>1 DEF Accept, Pool!Accept, Pool!Move
    <3>2. k = retry_count[t] BY <3>1, Current
    <3> QED BY <3>1, <3>2, EndsMoves
  <2>2. CASE Start(t, k)
    <3>1. /\ Pool!Move(<<t, k>>, "accepted", "running") /\ status[<<t, k>>] = "accepted"
          /\ UNCHANGED <<retry_count, retry_timer, state, upd, io>>
          /\ pc' = [pc EXCEPT ![t] = "check"]
      BY <2>2 DEF Start, Pool!Start, Pool!Move
    <3>2. k = retry_count[t] BY <3>1, Current
    <3> QED BY <3>1, <3>2, EndsMoves
  <2>3. CASE Drop(<<t, k>>)
    <3>1. /\ Pool!Move(<<t, k>>, "accepted", "dropped") /\ status[<<t, k>>] = "accepted" /\ ~open
          /\ UNCHANGED <<retry_count, retry_timer, state, upd, io, pc>>
      BY <2>3 DEF Drop, Pool!Drop, Pool!Move
    <3>2. k = retry_count[t] BY <3>1, Current
    <3> QED BY <3>1, <3>2, EndsMoves
  <2> QED BY <1>2, <2>1, <2>2, <2>3
<1>3. ASSUME NEW j \in Jobs, Drop(j) PROVE \E t \in Tasks, k \in Attempts : Drop(<<t, k>>)
  BY <1>3, Constants
<1> QED BY <1>1, <1>2, <1>3

\* The handlers, time, and the end of the executor.
LEMMA EndsIo ==
    ASSUME TypeOK, Flights, Ends,
           \/ \E t \in Tasks : Tick(t)
           \/ IoHandler \/ StopIo \/ Destroy \/ UNCHANGED vars
    PROVE  Ends'
<1> USE DEF fieldVars, timerVars, workerSide
<1>1. CASE RetryAgain
  <2>1. io.pc = "again" /\ io.task \in Tasks BY <1>1 DEF RetryAgain, Resubmit, Flights, IoAboutTask
  <2>2. PICK t \in Tasks : t = io.task BY <2>1
  <2>3. PICK k \in Attempts : k = retry_count[t] BY DEF TypeOK
  <2>4. k \in Nat /\ k < MaxRetry /\ status[<<t, k>>] = "done"
    BY <2>1, <2>2, <2>3, Constants DEF Flights, Flight, Again
  <2>5. PICK n \in Attempts : n = k + 1
    <3>1. k + 1 \in Attempts BY <2>4, ExecutorAssumption DEF Attempts
    <3> QED BY <3>1
  <2>6. /\ retry_count' = [retry_count EXCEPT ![t] = n]
        /\ Pool!Move(<<t, n>>, "new", "submitting")
        /\ io' = [io EXCEPT !.pc = "enqueue"]
        /\ UNCHANGED <<pc, upd, state, retry_timer>>
    BY <1>1, <2>2, <2>3, <2>5 DEF RetryAgain, Resubmit, Pool!Submit
  <2>7. /\ status'[<<t, n>>] = "submitting" /\ open' = open
        /\ \A u \in Tasks, m \in Attempts :
               u # t \/ m # n => status'[<<u, m>>] = status[<<u, m>>]
    BY <2>6, JobMoves
  <2>8. io'.pc = "enqueue" /\ io'.task = t BY <2>2, <2>6 DEF TypeOK
  <2>9. retry_count'[t] = n /\ \A u \in Tasks : u # t => retry_count'[u] = retry_count[u]
    BY <2>6 DEF TypeOK
  <2>10. pc[t] = "idle" BY <2>3, <2>4 DEF Flights, Flight
  <2>11. Begun(t)' /\ Outcome(t)' BY <2>6, <2>7, <2>9, <2>10 DEF Begun, Outcome
  <2>12. ASSUME NEW u \in Tasks, u # t PROVE Begun(u)' /\ Outcome(u)'
    <3>1. Waiting(u) => Waiting(u)' BY <2>2, <2>6, <2>12 DEF Waiting
    <3>2. Begun(u) /\ Outcome(u) /\ retry_count[u] \in Attempts BY DEF Ends, TypeOK
    <3> QED BY <2>6, <2>7, <2>9, <2>12, <3>1, <3>2, EndsElsewhere
  <2>13. HandlerSubmits' BY <2>1, <2>7, <2>8 DEF Ends, HandlerSubmits
  <2> QED BY <2>11, <2>12, <2>13 DEF Ends
<1>2. CASE ~RetryAgain
  <2>1. UNCHANGED <<status, retry_count, pc, upd>> /\ (open' => open)
    BY <1>2 DEF Tick, IoHandler, Expire, TimeOut, Handle, Discard, IoWriteState, IoWriteRest, IoWrite,
         RetryDue, StopIo, Destroy, Pool!Close, vars
  <2>2. \/ io' = io
        \/ io.pc \in {"idle", "state", "rest"}
    BY <1>2 DEF Tick, IoHandler, Expire, TimeOut, Handle, Discard, IoWriteState, IoWriteRest, IoWrite,
         RetryDue, StopIo, Destroy, vars
  <2>3. HandlerSubmits' BY <2>1, <2>2 DEF Ends, HandlerSubmits
  <2>4. \A t \in Tasks : Waiting(t) => Waiting(t)'
    <3>1. \/ retry_timer' = retry_timer
          \/ \E u \in Tasks : /\ retry_timer' = [retry_timer EXCEPT ![u] = "none"]
                             /\ io' = [pc |-> "again", task |-> u]
      BY <1>2 DEF Tick, IoHandler, Expire, TimeOut, Handle, Discard, IoWriteState, IoWriteRest,
           IoWrite, RetryDue, StopIo, Destroy, vars
    <3>2. CASE retry_timer' = retry_timer BY <2>2, <3>2 DEF Waiting
    <3>3. ASSUME NEW u \in Tasks, retry_timer' = [retry_timer EXCEPT ![u] = "none"],
                 io' = [pc |-> "again", task |-> u]
          PROVE  \A t \in Tasks : Waiting(t) => Waiting(t)'
      <4>1. Waiting(u)' BY <3>3 DEF Waiting
      <4>2. io'.pc = "again" /\ io'.task = u BY <3>3
      <4>3. ASSUME NEW t \in Tasks, t # u, Waiting(t) PROVE Waiting(t)'
        <5>1. ~(io.pc = "again" /\ io.task = t) BY <2>2, <4>2, <4>3
        <5>2. retry_timer[t] = "armed" BY <4>3, <5>1 DEF Waiting
        <5>3. retry_timer'[t] = "armed" BY <3>3, <4>3, <5>2 DEF TypeOK
        <5> QED BY <5>3 DEF Waiting
      <4> QED BY <4>1, <4>3
    <3> QED BY <3>1, <3>2, <3>3
  <2>5. \A t \in Tasks : state'[t] = state[t] \/ state'[t] = "TIMEOUT"
    <3>1. state' = state \/ state' = [state EXCEPT ![io.task] = "TIMEOUT"]
      BY <1>2 DEF Tick, IoHandler, Expire, TimeOut, Handle, Discard, IoWriteState, IoWriteRest,
           IoWrite, RetryDue, StopIo, Destroy, vars
    <3> QED BY <3>1 DEF TypeOK
  <2>6. \A t \in Tasks : Begun(t)' /\ Outcome(t)'
    BY <2>1, <2>4, <2>5, EndsElsewhere DEF Ends
  <2> QED BY <2>3, <2>6 DEF Ends
<1> QED BY <1>1, <1>2

\* A task that has left the pool and waits for no retry has a final state: every
\* return of run_task without a retry follows a write of one, and what the timer
\* writes over it is final too.
THEOREM SettledIsTerminalCorrect == Spec => []SettledIsTerminal
<1>1. IInv /\ Ends /\ [Next]_vars => Ends'
  <2> SUFFICES ASSUME TypeOK, Flights, Ends, [Next]_vars PROVE Ends' BY DEF IInv
  <2>1. CASE \E t \in Tasks : RunTask(t) BY <2>1, EndsRunTask
  <2>2. CASE \/ \E t \in Tasks : ExecuteTask(t)
             \/ \E t \in Tasks, k \in Attempts : Accept(t, k) \/ Start(t, k)
             \/ \E j \in Jobs : Drop(j)
    BY <2>2, EndsPool
  <2>3. CASE (\E t \in Tasks : Tick(t)) \/ IoHandler \/ StopIo \/ Destroy \/ UNCHANGED vars
    BY <2>3, EndsIo
  <2> QED BY <2>1, <2>2, <2>3 DEF Next, Finished
<1>2. IInv /\ Ends => SettledIsTerminal
  <2> SUFFICES ASSUME IInv, Ends, NEW t \in Tasks, open, Settled(t) PROVE state[t] \in Terminal
    BY DEF SettledIsTerminal
  <2>1. /\ Begun(t) /\ Outcome(t) /\ ~Waiting(t) /\ InPool(t) = {} /\ status[<<t, 0>>] # "new"
        /\ retry_count[t] \in Attempts /\ retry_count[t] \in Nat
        /\ status \in [Jobs -> Pool!Status]
    BY Constants DEF IInv, Ends, Settled, TypeOK
  <2>2. <<t, retry_count[t]>> \in Jobs BY <2>1, Constants
  <2>3. status[<<t, retry_count[t]>>] \notin {"submitting", "accepted", "running"}
    BY <2>1, <2>2 DEF InPool
  <2>4. status[<<t, retry_count[t]>>] \notin {"new", "rejected", "dropped"}
    BY <2>1 DEF Begun
  <2>5. status[<<t, retry_count[t]>>] = "done" BY <2>1, <2>2, <2>3, <2>4 DEF Pool!Status
  <2> QED BY <2>1, <2>5 DEF Outcome
<1> QED BY <1>1, <1>2, EndsInit, IInvCorrect, PTL DEF Spec
=============================================================================
