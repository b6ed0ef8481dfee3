---------------------------- MODULE TaskExecutor ----------------------------
(***************************************************************************)
(* dts::TaskExecutor (worker/task-executor): tasks run on a ThreadPool,    *)
(* here its promise TaskPool, while timers on the io_context mark them     *)
(* timed out or submit them again.                                         *)
(*                                                                         *)
(* The k-th attempt at task t is the pool task <<t, k>>.  Who acts: the    *)
(* worker that executes run_task for t, program counter pc[t] (there is    *)
(* only one, see SingleFlight); the thread that runs the io_context's      *)
(* handlers one after the other, program counter io.pc; and time.  Both    *)
(* threads write the fields of a Task without synchronisation, so each     *)
(* write of update_task_state is a step of its own.                        *)
(***************************************************************************)
EXTENDS Integers, FiniteSets

CONSTANTS
    Tasks,                 \* the tasks passed to execute_task, each once
    Oversized,             \* those that require more than the available resources
    MaxRetry,              \* Task::max_retry
    MAX_CONCURRENT_RETRY,
    Outcomes               \* how a function may end: "ok", "retryable", "fatal"

ASSUME ExecutorAssumption ==
    /\ IsFiniteSet(Tasks)
    /\ Oversized \subseteq Tasks
    /\ MaxRetry \in Nat
    /\ MAX_CONCURRENT_RETRY \in Nat
    /\ Outcomes \subseteq {"ok", "retryable", "fatal"}

\* Bound: one attempt more than max_retry allows, to see that it is never made.
Attempts == 0..(MaxRetry + 1)
Jobs == Tasks \X Attempts

VARIABLES
    status, open,                \* the pool
    state, result, error_msg,    \* fields of each Task
    cancelled, retry_count,
    clock,                       \* now against submit_ts + timeout_ms
    pc, upd,                     \* run_task; the arguments of its update_task_state
    exec_timer, retry_timer,     \* the timers of each attempt, of each task
    retrying_cnt,
    io, stopped                  \* the io thread; io_context::stop was called

fieldVars == <<state, result, error_msg>>
timerVars == <<exec_timer, retry_timer, retrying_cnt>>
vars == <<status, open, fieldVars, cancelled, retry_count, clock, pc, upd, timerVars, io, stopped>>

Pool == INSTANCE TaskPool WITH Tasks <- Jobs

TaskState == {"PENDING", "RUNNING", "SUCCESS", "FAILED", "TIMEOUT"}
Terminal == {"SUCCESS", "FAILED", "TIMEOUT"}
Result == {"none", "value", "cancelled"}
Error == {"none", "resources", "timeout", "quota", "failed"}
Update == [state : TaskState, result : Result, error : Error]

U(s, r, e) == [state |-> s, result |-> r, error |-> e]
NoUpdate == U("PENDING", "none", "none")

IoIdle == [pc |-> "idle", task |-> "none"]

TypeOK ==
    /\ status \in [Jobs -> Pool!Status] /\ open \in BOOLEAN
    /\ state \in [Tasks -> TaskState] /\ result \in [Tasks -> Result]
    /\ error_msg \in [Tasks -> Error]
    /\ cancelled \in [Tasks -> BOOLEAN] /\ retry_count \in [Tasks -> Attempts]
    /\ clock \in [Tasks -> {"before", "at", "after"}]
    /\ pc \in [Tasks -> {"idle", "check", "state", "rest", "call", "quota",
                         "refund", "backoff", "cancel"}]
    /\ upd \in [Tasks -> Update]
    /\ exec_timer \in [Jobs -> {"none", "armed", "due", "aborted", "done"}]
    /\ retry_timer \in [Tasks -> {"none", "armed"}]
    /\ retrying_cnt \in Nat
    /\ io \in [pc : {"idle", "state", "rest", "again", "enqueue"}, task : Tasks \cup {"none"}]
    /\ stopped \in BOOLEAN

Init ==
    /\ Pool!Init
    /\ state = [t \in Tasks |-> "PENDING"]
    /\ result = [t \in Tasks |-> "none"]
    /\ error_msg = [t \in Tasks |-> "none"]
    /\ cancelled = [t \in Tasks |-> FALSE]
    /\ retry_count = [t \in Tasks |-> 0]
    /\ clock = [t \in Tasks |-> "before"]
    /\ pc = [t \in Tasks |-> "idle"]
    /\ upd = [t \in Tasks |-> NoUpdate]
    /\ exec_timer = [j \in Jobs |-> "none"]
    /\ retry_timer = [t \in Tasks |-> "none"]
    /\ retrying_cnt = 0
    /\ io = IoIdle
    /\ stopped = FALSE

-----------------------------------------------------------------------------
(***************************************************************************)
(* The pool.                                                               *)
(***************************************************************************)

\* execute_task by the client.
ExecuteTask(t) ==
    /\ Pool!Submit(<<t, 0>>)
    /\ UNCHANGED <<fieldVars, cancelled, retry_count, clock, pc, upd, timerVars, io, stopped>>

\* enqueue returns; if the retry handler called it, the handler returns too.
Accept(t, k) ==
    /\ Pool!Accept(<<t, k>>)
    /\ io' = IF k > 0 THEN IoIdle ELSE io
    /\ UNCHANGED <<fieldVars, cancelled, retry_count, clock, pc, upd, timerVars, stopped>>

\* A worker calls run_task(task).
Start(t, k) ==
    /\ Pool!Start(<<t, k>>)
    /\ pc' = [pc EXCEPT ![t] = "check"]
    /\ UNCHANGED <<fieldVars, cancelled, retry_count, clock, upd, timerVars, io, stopped>>

-----------------------------------------------------------------------------
(***************************************************************************)
(* run_task(task), on a worker.                                            *)
(***************************************************************************)
Job(t) == <<t, retry_count[t]>>

Step(t, from, to) == pc[t] = from /\ pc' = [pc EXCEPT ![t] = to]

\* update_task_state is called with u.
Begin(t, u) == upd' = [upd EXCEPT ![t] = u]

ioSide == <<io, stopped, clock, cancelled, retry_count>>

\* Mutant of both refusals: the task's state is not updated.
ReturnSilently(t, refused) ==
    /\ refused
    /\ Step(t, "check", "idle")
    /\ Pool!Finish(Job(t))
    /\ UNCHANGED <<fieldVars, upd, timerVars, ioSide>>

RefuseOversizedSilently(t) == ReturnSilently(t, t \in Oversized)

RefuseLateSilently(t) == ReturnSilently(t, t \notin Oversized /\ clock[t] = "after")

RefuseOversized(t) ==
    /\ t \in Oversized
    /\ Step(t, "check", "state")
    /\ Begin(t, U("FAILED", "none", "resources"))
    /\ UNCHANGED <<status, open, fieldVars, timerVars, ioSide>>

\* remaining_timeout < 0.
RefuseLate(t) ==
    /\ t \notin Oversized
    /\ clock[t] = "after"
    /\ Step(t, "check", "state")
    /\ Begin(t, U("TIMEOUT", "none", "timeout"))
    /\ UNCHANGED <<status, open, fieldVars, timerVars, ioSide>>

\* exec_timer->async_wait, then update_task_state(task, RUNNING).
ArmAndRun(t) ==
    /\ t \notin Oversized
    /\ clock[t] # "after"
    /\ Step(t, "check", "state")
    /\ exec_timer' = [exec_timer EXCEPT ![Job(t)] = "armed"]
    /\ Begin(t, U("RUNNING", "none", "none"))
    /\ UNCHANGED <<status, open, fieldVars, retry_timer, retrying_cnt, ioSide>>

\* update_task_state writes the state first, ...
WriteState(t) ==
    /\ Step(t, "state", "rest")
    /\ state' = [state EXCEPT ![t] = upd[t].state]
    /\ UNCHANGED <<status, open, result, error_msg, upd, timerVars, ioSide>>

\* ... then the result, the error and finish_ts (not modelled); no property tells
\* these writes apart.  Then run_task goes on, cancels the timer, or returns.
WriteRest(t) ==
    /\ LET u == upd[t]
           next == IF u.state = "RUNNING" THEN "call"
                   ELSE IF u.state = "SUCCESS" \/ u.error = "failed" THEN "cancel"
                   ELSE "idle"
       IN  /\ Step(t, "rest", next)
           /\ result' = [result EXCEPT ![t] = u.result]
           /\ error_msg' = [error_msg EXCEPT ![t] = u.error]
           /\ IF next = "idle" THEN Pool!Finish(Job(t)) ELSE UNCHANGED <<status, open>>
    /\ Begin(t, NoUpdate)
    /\ UNCHANGED <<state, timerVars, ioSide>>

\* The function returns.  Long ones poll cancelled and may return early.
FunctionReturns(t) ==
    /\ "ok" \in Outcomes
    /\ Step(t, "call", "state")
    /\ \E r \in {"value"} \cup (IF cancelled[t] THEN {"cancelled"} ELSE {}) :
           Begin(t, U("SUCCESS", r, "none"))
    /\ UNCHANGED <<status, open, fieldVars, timerVars, ioSide>>

\* The function is unknown, it throws an error that is not retryable, or its
\* retries are used up.
Fails(t, exhausted) ==
    /\ \/ "fatal" \in Outcomes
       \/ "retryable" \in Outcomes /\ exhausted
    /\ Step(t, "call", "state")
    /\ Begin(t, U("FAILED", "none", "failed"))
    /\ UNCHANGED <<status, open, fieldVars, timerVars, ioSide>>

FunctionFails(t) == Fails(t, retry_count[t] >= MaxRetry)

ThrowsRetryable(t, again) ==
    /\ "retryable" \in Outcomes
    /\ again
    /\ Step(t, "call", "quota")
    /\ UNCHANGED <<status, open, fieldVars, upd, timerVars, ioSide>>

\* Mutant: the last retry is off by one.
FunctionRetryableOnceMore(t) == ThrowsRetryable(t, retry_count[t] <= MaxRetry)

FunctionRetryable(t) == ThrowsRetryable(t, retry_count[t] < MaxRetry)

Charge(t, most) ==
    /\ Step(t, "quota", IF retrying_cnt >= most THEN "refund" ELSE "backoff")
    /\ retrying_cnt' = retrying_cnt + 1
    /\ UNCHANGED <<status, open, fieldVars, upd, exec_timer, retry_timer, ioSide>>

\* Mutant: the quota is off by one.
ChargeQuotaOneMore(t) == Charge(t, MAX_CONCURRENT_RETRY + 1)

\* retrying_cnt.fetch_add(1) >= MAX_CONCURRENT_RETRY.
ChargeQuota(t) == Charge(t, MAX_CONCURRENT_RETRY)

Refund(t, cnt) ==
    /\ Step(t, "refund", "state")
    /\ retrying_cnt' = cnt
    /\ Begin(t, U("FAILED", "none", "quota"))
    /\ UNCHANGED <<status, open, fieldVars, exec_timer, retry_timer, ioSide>>

\* Mutants: the charge is not taken back; it is taken back twice.
RefundNothing(t) == Refund(t, retrying_cnt)

RefundTwice(t) == Refund(t, retrying_cnt - 2)

RefundQuota(t) == Refund(t, retrying_cnt - 1)

\* retry_timer->async_wait; run_task returns (at once: the timer takes a second
\* or more).  exec_timer is left armed.
BackOff(t) ==
    /\ Step(t, "backoff", "idle")
    /\ retry_timer' = [retry_timer EXCEPT ![t] = "armed"]
    /\ Pool!Finish(Job(t))
    /\ UNCHANGED <<fieldVars, upd, exec_timer, retrying_cnt, ioSide>>

\* exec_timer->cancel(): a handler that is already due is not recalled.
CancelTimer(t) ==
    /\ Step(t, "cancel", "idle")
    /\ exec_timer' = [exec_timer EXCEPT ![Job(t)] = IF @ = "armed" THEN "aborted" ELSE @]
    /\ Pool!Finish(Job(t))
    /\ UNCHANGED <<fieldVars, upd, retry_timer, retrying_cnt, ioSide>>

RunTask(t) == \/ RefuseOversized(t) \/ RefuseLate(t) \/ ArmAndRun(t)
              \/ WriteState(t) \/ WriteRest(t)
              \/ FunctionReturns(t) \/ FunctionFails(t) \/ FunctionRetryable(t)
              \/ ChargeQuota(t) \/ RefundQuota(t) \/ BackOff(t) \/ CancelTimer(t)

-----------------------------------------------------------------------------
(***************************************************************************)
(* Time, and the handlers run by the io_context.                           *)
(***************************************************************************)
workerSide == <<pc, upd, open>>

\* Time passes: the deadline of t is reached, then missed.
Tick(t) ==
    /\ \/ clock[t] = "before" /\ clock' = [clock EXCEPT ![t] = "at"]
       \/ clock[t] = "at" /\ clock' = [clock EXCEPT ![t] = "after"]
    /\ UNCHANGED <<status, fieldVars, cancelled, retry_count, timerVars, io, stopped, workerSide>>

\* The io_context finds that a timer has expired and queues its handler.
Expire(j) ==
    /\ ~stopped
    /\ clock[j[1]] # "before"
    /\ exec_timer[j] = "armed"
    /\ exec_timer' = [exec_timer EXCEPT ![j] = "due"]
    /\ UNCHANGED <<status, fieldVars, cancelled, retry_count, clock, retry_timer, retrying_cnt,
                   io, stopped, workerSide>>

\* The handler of exec_timer, called with ec: the function is told to stop, then
\* update_task_state(task, TIMEOUT) follows.
Handle(j, was) ==
    /\ ~stopped
    /\ io.pc = "idle"
    /\ exec_timer[j] \in was
    /\ exec_timer' = [exec_timer EXCEPT ![j] = "done"]
    /\ cancelled' = [cancelled EXCEPT ![j[1]] = TRUE]
    /\ io' = [pc |-> "state", task |-> j[1]]
    /\ UNCHANGED <<status, fieldVars, retry_count, clock, retry_timer, retrying_cnt, stopped,
                   workerSide>>

\* Mutant: ec is not looked at.
TimeOutEvenIfAborted(j) == Handle(j, {"due", "aborted"})

TimeOut(j) == Handle(j, {"due"})

\* The handler of a timer that was cancelled does nothing.
Discard(j) ==
    /\ ~stopped
    /\ io.pc = "idle"
    /\ exec_timer[j] = "aborted"
    /\ exec_timer' = [exec_timer EXCEPT ![j] = "done"]
    /\ UNCHANGED <<status, fieldVars, cancelled, retry_count, clock, retry_timer, retrying_cnt,
                   io, stopped, workerSide>>

IoWrite(from, to) ==
    /\ io.pc = from
    /\ io' = to
    /\ UNCHANGED <<status, cancelled, retry_count, clock, timerVars, stopped, workerSide>>

IoWriteState ==
    /\ IoWrite("state", [io EXCEPT !.pc = "rest"])
    /\ state' = [state EXCEPT ![io.task] = "TIMEOUT"]
    /\ UNCHANGED <<result, error_msg>>

IoWriteRest ==
    /\ IoWrite("rest", IoIdle)
    /\ result' = [result EXCEPT ![io.task] = "none"]
    /\ error_msg' = [error_msg EXCEPT ![io.task] = "timeout"]
    /\ UNCHANGED state

\* The handler of retry_timer: first the quota is given back, ...
RetryDue(t) ==
    /\ ~stopped
    /\ io.pc = "idle"
    /\ retry_timer[t] = "armed"
    /\ retry_timer' = [retry_timer EXCEPT ![t] = "none"]
    /\ retrying_cnt' = retrying_cnt - 1
    /\ io' = [pc |-> "again", task |-> t]
    /\ UNCHANGED <<status, fieldVars, cancelled, retry_count, clock, exec_timer, stopped, workerSide>>

Resubmit(count) ==
    /\ io.pc = "again"
    /\ retry_count' = [retry_count EXCEPT ![io.task] = count]
    /\ Pool!Submit(<<io.task, retry_count[io.task] + 1>>)
    /\ io' = [io EXCEPT !.pc = "enqueue"]
    /\ UNCHANGED <<fieldVars, cancelled, clock, timerVars, stopped, pc, upd>>

\* Mutant: the retry is not counted.
RetryAgainUncounted == Resubmit(retry_count[io.task])

\* ... then retry_count is incremented and the task submitted again.
RetryAgain == Resubmit(retry_count[io.task] + 1)

IoHandler == \/ \E j \in Jobs : Expire(j) \/ TimeOut(j) \/ Discard(j)
             \/ \E t \in Tasks : RetryDue(t)
             \/ IoWriteState \/ IoWriteRest \/ RetryAgain

-----------------------------------------------------------------------------
(***************************************************************************)
(* Shutting down, in the order the lifetimes require: the io_context is    *)
(* stopped between two handlers, then the executor and its pool go.        *)
(***************************************************************************)
StopIo ==
    /\ ~stopped
    /\ io.pc = "idle"
    /\ stopped' = TRUE
    /\ UNCHANGED <<status, fieldVars, cancelled, retry_count, clock, timerVars, io, workerSide>>

Destroy ==
    /\ stopped
    /\ \A j \in Jobs : status[j] # "submitting"
    /\ Pool!Close
    /\ UNCHANGED <<fieldVars, cancelled, retry_count, clock, pc, upd, timerVars, io, stopped>>

\* The pool's destructor discards a queued task.
Drop(j) ==
    /\ Pool!Drop(j)
    /\ UNCHANGED <<fieldVars, cancelled, retry_count, clock, pc, upd, timerVars, io, stopped>>

\* All is done: the executor is gone.
Finished ==
    /\ ~open
    /\ \A j \in Jobs : status[j] \in {"new", "done", "dropped"}
    /\ UNCHANGED vars

Next == \/ \E t \in Tasks : ExecuteTask(t) \/ RunTask(t) \/ Tick(t)
        \/ \E t \in Tasks, k \in Attempts : Accept(t, k) \/ Start(t, k)
        \/ IoHandler
        \/ StopIo
        \/ Destroy
        \/ \E j \in Jobs : Drop(j)
        \/ Finished

Spec == Init /\ [][Next]_vars

\* Every thread makes progress and time passes; the pool accepts and starts what
\* it is given (ThreadPool's QueuedTaskRuns); functions return.
Fairness ==
    /\ \A t \in Tasks : WF_vars(RunTask(t)) /\ WF_vars(Tick(t))
    /\ \A t \in Tasks, k \in Attempts : WF_vars(Accept(t, k)) /\ WF_vars(Start(t, k))
    /\ WF_vars(\E j \in Jobs : Expire(j))
    /\ WF_vars(IoHandler)
    /\ \A t \in Tasks : SF_vars(RetryDue(t))

FairSpec == Spec /\ Fairness

-----------------------------------------------------------------------------
(***************************************************************************)
(* Properties.                                                             *)
(***************************************************************************)

InPool(t) == {j \in Jobs : j[1] = t /\ status[j] \in {"submitting", "accepted", "running"}}
Waiting(t) == retry_timer[t] = "armed" \/ (io.pc = "again" /\ io.task = t)
Settled(t) == status[<<t, 0>>] # "new" /\ InPool(t) = {} /\ ~Waiting(t)

\* Although retries are submitted by a timer, a task is never in two places: it
\* is in the pool once, or waits for its retry, and its attempts follow each
\* other.  run_task relies on it: it reads retry_count without synchronisation.
SingleFlight ==
    \A t \in Tasks :
        /\ Cardinality(InPool(t)) + (IF Waiting(t) THEN 1 ELSE 0) <= 1
        /\ pc[t] # "idle" => InPool(t) = {Job(t)}

\* No task is attempted more than max_retry + 1 times.
RetryBounded ==
    \A t \in Tasks : retry_count[t] <= MaxRetry /\ status[<<t, MaxRetry + 1>>] = "new"

\* The two-step check of the quota (add, look, take back) neither loses nor
\* leaks a unit, and never lets more than the quota wait for a retry.
QuotaExact ==
    /\ retrying_cnt = Cardinality({t \in Tasks : retry_timer[t] = "armed"})
                      + Cardinality({t \in Tasks : pc[t] \in {"refund", "backoff"}})
    /\ Cardinality({t \in Tasks : retry_timer[t] = "armed" \/ pc[t] = "backoff"})
           <= MAX_CONCURRENT_RETRY

\* A task is marked TIMEOUT only once its deadline has been reached, whatever
\* timers were armed, cancelled or left over from earlier attempts.
TimeoutOnlyAfterDeadline ==
    \A t \in Tasks : state[t] = "TIMEOUT" => clock[t] # "before"

\* A task that is neither in the pool nor waiting for a retry has a final state,
\* in whatever order the worker's and the timer's writes came.
SettledIsTerminal ==
    \A t \in Tasks : open /\ Settled(t) => state[t] \in Terminal

\* Unless the io_context is stopped, every submitted task ends up in a final
\* state for good.
EventuallyTerminal ==
    \A t \in Tasks : (status[<<t, 0>>] # "new") ~> [](state[t] \in Terminal \/ stopped)

\* A task that was marked TIMEOUT stays so ("now it certainly returns TIMEOUT",
\* task_executor_test.cpp:106).
TimeoutIsFinal ==
    [][\A t \in Tasks : state[t] = "TIMEOUT" => state'[t] = "TIMEOUT"]_vars
=============================================================================
