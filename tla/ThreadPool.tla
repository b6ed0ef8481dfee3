----------------------------- MODULE ThreadPool -----------------------------
(***************************************************************************)
(* dts::ThreadPool (common/include/thread_pool.hpp, common/src/            *)
(* thread_pool.cpp) at the granularity of its atomic operations: one       *)
(* action per load, store, read-modify-write, semaphore or queue operation *)
(* that another thread can observe.                                        *)
(*                                                                         *)
(* Who acts:                                                               *)
(*   - the worker threads, program counter worker[w];                      *)
(*   - the enqueue calls, one per task, program counter call[t].  Calls    *)
(*     are made by any threads, so they interleave freely;                 *)
(*   - the remove_threads calls, program counter removal[r];               *)
(*   - the owner, who constructs the pool, calls add_threads and destroys  *)
(*     the pool (threads_ is an unsynchronised vector, so these are made   *)
(*     by one thread);                                                     *)
(*   - anybody, who may call shutdown.                                     *)
(***************************************************************************)
EXTENDS Integers, Sequences, FiniteSets

CONSTANTS
    Tasks,        \* the enqueue calls, each with the task it submits
    NoTask,       \* ptr before the first pop
    Throwers,     \* the tasks whose function lets an exception escape
    Threads,      \* the threads the pool may ever create
    NumThreads,   \* constructor argument num_threads
    Capacity,     \* constructor argument queue_capacity
    AddSizes,     \* the arguments add_threads is called with
    Removals,     \* the remove_threads calls
    RemoveSizes   \* the arguments remove_threads is called with

ASSUME ConstantsAssumption ==
    /\ IsFiniteSet(Tasks)
    /\ NoTask \notin Tasks
    /\ Throwers \subseteq Tasks
    /\ IsFiniteSet(Threads)
    /\ NumThreads \in Nat
    /\ Capacity \in Nat
    /\ AddSizes \subseteq Nat \ {0}
    /\ RemoveSizes \subseteq Nat

VARIABLES
    queue_,                \* boost::lockfree::queue of task pointers
    stop_, active_threads_, target_thread_count_, task_sem_, leftover_,
    worker,                \* where each thread is in worker()
    ptr,                   \* worker()'s local ptr: the task popped last
    old,                   \* worker()'s local old
    call,                  \* where each enqueue call is
    fn,                    \* the heap-allocated std::function of each task
    ran,                   \* how often each task's function was called
    removal, new_target,   \* where each remove_threads call is; its local
    phase, to_spawn        \* how far the pool is; threads it has yet to create

taskVars  == <<queue_, task_sem_, leftover_, call, fn, ran>>
resizeVars == <<target_thread_count_, removal, new_target>>
sizeVars  == <<active_threads_, resizeVars>>
localVars == <<ptr, old>>
phaseVars == <<phase, to_spawn>>

\* What the steps of an enqueue call leave alone, and those of a worker that
\* only move its program counter.
nonTaskVars == <<stop_, worker, localVars, sizeVars, phaseVars>>
nonPcVars == <<stop_, taskVars, localVars, sizeVars, phaseVars>>
nonResizeVars == <<stop_, taskVars, worker, localVars>>

vars == <<queue_, stop_, active_threads_, target_thread_count_, task_sem_,
          leftover_, worker, ptr, old, call, fn, ran, removal, new_target,
          phase, to_spawn>>

WorkerPC == {"unborn", "start", "loop", "wait", "pop", "run", "uncount", "size",
             "load", "compare", "cas", "leave", "gone"}
CallPC   == {"idle", "push", "count", "signal", "returned", "rejected"}
FnState  == {"none", "held", "queued", "taken", "deleted"}
Phase    == {"ctor", "alive", "adding", "wake", "drain", "discount", "join", "destroyed",
             "terminated"}

\* The number of elements of f's domain that f maps into S.
Count(f, S) == Cardinality({x \in DOMAIN f : f[x] \in S})

\* The object's lifetime, as seen by callers: constructed, destructor not yet
\* entered.  Using the pool outside of it is undefined in C++.
Alive == phase \in {"alive", "adding"}

\* std::terminate has not ended the program.
Running == phase # "terminated"

\* An enqueue call, a worker moves its program counter.
Advance(t, from, to) == /\ Running
                        /\ call[t] = from
                        /\ call' = [call EXCEPT ![t] = to]

Goto(w, from, to) == /\ Running
                     /\ worker[w] = from
                     /\ worker' = [worker EXCEPT ![w] = to]

Init ==
    /\ queue_ = <<>>
    /\ stop_ = FALSE
    /\ active_threads_ = 0
    /\ target_thread_count_ = NumThreads
    /\ task_sem_ = 0
    /\ leftover_ = 0
    /\ worker = [w \in Threads |-> "unborn"]
    /\ ptr = [w \in Threads |-> NoTask]
    /\ old = [w \in Threads |-> 0]
    /\ call = [t \in Tasks |-> "idle"]
    /\ fn = [t \in Tasks |-> "none"]
    /\ ran = [t \in Tasks |-> 0]
    /\ removal = [r \in Removals |-> "idle"]
    /\ new_target = [r \in Removals |-> 0]
    /\ phase = IF NumThreads = 0 THEN "alive" ELSE "ctor"
    /\ to_spawn = NumThreads

-----------------------------------------------------------------------------
(***************************************************************************)
(* enqueue(task)                                                           *)
(***************************************************************************)

\* stop_ is tested, then the std::function is allocated.
EnqueueBegin(t) ==
    /\ Alive
    /\ Advance(t, "idle", "push")
    /\ ~stop_
    /\ fn' = [fn EXCEPT ![t] = "held"]
    /\ UNCHANGED <<queue_, task_sem_, leftover_, ran, nonTaskVars>>

\* throw std::runtime_error("pool stopped") before anything is allocated.
EnqueueReject(t) ==
    /\ Alive
    /\ Advance(t, "idle", "rejected")
    /\ stop_
    /\ UNCHANGED <<queue_, task_sem_, leftover_, fn, ran, nonTaskVars>>

\* queue_.push(p) succeeds.  Capacity nodes are preallocated; the queue is not
\* declared fixed_sized, so a push beyond them allocates another node.
EnqueuePush(t) ==
    /\ Advance(t, "push", "count")
    /\ queue_' = Append(queue_, t)
    /\ fn' = [fn EXCEPT ![t] = "queued"]
    /\ UNCHANGED <<task_sem_, leftover_, ran, nonTaskVars>>

\* queue_.push(p) fails: no node is left and none can be allocated.  If the
\* pool was stopped meanwhile, p is deleted and the call throws.  (If not, the
\* call yields and tries again, which changes nothing.)
EnqueueAbandon(t) ==
    /\ Advance(t, "push", "rejected")
    /\ Len(queue_) >= Capacity
    /\ stop_
    /\ fn' = [fn EXCEPT ![t] = "deleted"]
    /\ UNCHANGED <<queue_, task_sem_, leftover_, ran, nonTaskVars>>

EnqueueCount(t) ==
    /\ Advance(t, "count", "signal")
    /\ leftover_' = leftover_ + 1
    /\ UNCHANGED <<queue_, task_sem_, fn, ran, nonTaskVars>>

Signal(t, permits) ==
    /\ Advance(t, "signal", "returned")
    /\ task_sem_' = permits
    /\ UNCHANGED <<queue_, leftover_, fn, ran, nonTaskVars>>

\* Mutants: the permit is lost; it saturates, as a true binary semaphore may.
EnqueueSignalLost(t) == Signal(t, task_sem_)

EnqueueSignalSaturates(t) == Signal(t, 1)

\* The semaphore is a binary_semaphore.  In the build's library (libstdc++ of
\* GCC 13) release adds to an integer whatever the semaphore's maximum is.
EnqueueSignal(t) == Signal(t, task_sem_ + 1)

Enqueue(t) == \/ EnqueueBegin(t) \/ EnqueueReject(t)
              \/ EnqueuePush(t)  \/ EnqueueAbandon(t)
              \/ EnqueueCount(t) \/ EnqueueSignal(t)

-----------------------------------------------------------------------------
(***************************************************************************)
(* worker()                                                                *)
(***************************************************************************)

WorkerStart(w) ==
    /\ Goto(w, "start", "loop")
    /\ active_threads_' = active_threads_ + 1
    /\ UNCHANGED <<stop_, taskVars, localVars, phaseVars, resizeVars>>

\* Mutant: the loop never ends.
WorkerLoopForever(w) == Goto(w, "loop", "wait") /\ UNCHANGED nonPcVars

WorkerLoop(w) ==
    /\ Goto(w, "loop", IF stop_ THEN "leave" ELSE "wait")
    /\ UNCHANGED nonPcVars

\* task_sem_.try_acquire_for(200ms) takes a permit.
WorkerAcquire(w) ==
    /\ Goto(w, "wait", "pop")
    /\ task_sem_ > 0
    /\ task_sem_' = task_sem_ - 1
    /\ UNCHANGED <<queue_, leftover_, call, fn, ran, stop_, sizeVars, localVars, phaseVars>>

\* Mutant: a plain acquire(), which never gives up.
WorkerNoTimeout(w) == Goto(w, "wait", "wait") /\ UNCHANGED nonPcVars

\* It gives up.  It may do so with a permit there: the release came too late,
\* or another worker changed the counter under its compare-and-swap.
WorkerTimeout(w) == Goto(w, "wait", "size") /\ UNCHANGED nonPcVars

Take(w, rest) ==
    /\ Goto(w, "pop", "run")
    /\ queue_ # <<>>
    /\ ptr' = [ptr EXCEPT ![w] = Head(queue_)]
    /\ fn' = [fn EXCEPT ![Head(queue_)] = "taken"]
    /\ queue_' = rest
    /\ UNCHANGED <<task_sem_, leftover_, call, ran, stop_, old, sizeVars, phaseVars>>

\* Mutant: the task is read and left in the queue.
WorkerPeek(w) == Take(w, queue_)

WorkerPop(w) == Take(w, Tail(queue_))

\* Mutant: after a fruitless pop the task counter is decremented all the same.
WorkerPopEmptyUncounts(w) == Goto(w, "pop", "uncount") /\ queue_ = <<>> /\ UNCHANGED nonPcVars

WorkerPopEmpty(w) == Goto(w, "pop", "size") /\ queue_ = <<>> /\ UNCHANGED nonPcVars

\* (*ptr)(); delete ptr.
WorkerRun(w) ==
    /\ Goto(w, "run", "uncount")
    /\ ptr[w] \notin Throwers
    /\ ran' = [ran EXCEPT ![ptr[w]] = @ + 1]
    /\ fn' = [fn EXCEPT ![ptr[w]] = "deleted"]
    /\ UNCHANGED <<queue_, task_sem_, leftover_, call, stop_, sizeVars, localVars, phaseVars>>

\* The task's exception leaves worker(), the thread's start function.
WorkerThrow(w) ==
    /\ Running
    /\ worker[w] = "run"
    /\ ptr[w] \in Throwers
    /\ phase' = "terminated"
    /\ UNCHANGED <<to_spawn, sizeVars, nonResizeVars>>

WorkerUncount(w) ==
    /\ Goto(w, "uncount", "size")
    /\ leftover_' = leftover_ - 1
    /\ UNCHANGED <<queue_, task_sem_, call, fn, ran, stop_, sizeVars, localVars, phaseVars>>

\* The first comparison only filters: its two loads are repeated below before
\* anything is changed, so reading them together loses no behaviour.
WorkerSize(w) ==
    /\ Goto(w, "size", IF active_threads_ > target_thread_count_ THEN "load" ELSE "loop")
    /\ UNCHANGED nonPcVars

WorkerLoad(w) ==
    /\ Goto(w, "load", "compare")
    /\ old' = [old EXCEPT ![w] = active_threads_]
    /\ UNCHANGED <<stop_, ptr, taskVars, sizeVars, phaseVars>>

Compare(w, most) ==
    /\ Goto(w, "compare", IF old[w] > most THEN "cas" ELSE "loop")
    /\ UNCHANGED nonPcVars

\* Mutant: the surplus is off by one.
WorkerCompareOffByOne(w) == Compare(w, target_thread_count_ + 1)

WorkerCompare(w) == Compare(w, target_thread_count_)

Exit(w, from, to) ==
    /\ Goto(w, from, to)
    /\ active_threads_' = active_threads_ - 1
    /\ UNCHANGED <<stop_, taskVars, localVars, phaseVars, resizeVars>>

\* Mutant: after the swap the loop is left by break, not return.
WorkerRetireBreaks(w) == active_threads_ = old[w] /\ Exit(w, "cas", "leave")

\* compare_exchange_strong(old, old - 1): on success the thread returns.
WorkerRetire(w) == active_threads_ = old[w] /\ Exit(w, "cas", "gone")

WorkerStay(w) == active_threads_ # old[w] /\ Goto(w, "cas", "loop") /\ UNCHANGED nonPcVars

WorkerLeave(w) == Exit(w, "leave", "gone")

Worker(w) == \/ WorkerStart(w)   \/ WorkerLoop(w)    \/ WorkerAcquire(w)
             \/ WorkerTimeout(w) \/ WorkerPop(w)     \/ WorkerPopEmpty(w)
             \/ WorkerRun(w)     \/ WorkerThrow(w)   \/ WorkerUncount(w)
             \/ WorkerSize(w)    \/ WorkerLoad(w)    \/ WorkerCompare(w)
             \/ WorkerRetire(w)  \/ WorkerStay(w)    \/ WorkerLeave(w)

-----------------------------------------------------------------------------
(***************************************************************************)
(* remove_threads(n): a load, then a store.                                *)
(***************************************************************************)

RemoveLoad(r, n) ==
    /\ Alive
    /\ removal[r] = "idle"
    /\ removal' = [removal EXCEPT ![r] = "store"]
    /\ new_target' = [new_target EXCEPT ![r] =
                         IF target_thread_count_ > n THEN target_thread_count_ - n ELSE 0]
    /\ UNCHANGED <<active_threads_, target_thread_count_, phaseVars, nonResizeVars>>

RemoveStore(r) ==
    /\ Running
    /\ removal[r] = "store"
    /\ removal' = [removal EXCEPT ![r] = "returned"]
    /\ target_thread_count_' = new_target[r]
    /\ UNCHANGED <<active_threads_, new_target, phaseVars, nonResizeVars>>

-----------------------------------------------------------------------------
(***************************************************************************)
(* The owner: constructor, add_threads, destructor; and shutdown.          *)
(***************************************************************************)

\* threads_.emplace_back(&ThreadPool::worker, this), in the constructor and in
\* add_threads.
Spawn(w) ==
    /\ phase \in {"ctor", "adding"}
    /\ Goto(w, "unborn", "start")
    /\ to_spawn' = to_spawn - 1
    /\ phase' = IF to_spawn = 1 THEN "alive" ELSE phase
    /\ UNCHANGED <<stop_, taskVars, sizeVars, localVars>>

\* Bound: only as many threads are added as are left in Threads.
AddThreads(n) ==
    /\ phase = "alive"
    /\ n <= Count(worker, {"unborn"})
    /\ target_thread_count_' = target_thread_count_ + n
    /\ to_spawn' = n
    /\ phase' = "adding"
    /\ UNCHANGED <<active_threads_, removal, new_target, nonResizeVars>>

Shutdown ==
    /\ Alive
    /\ ~stop_
    /\ stop_' = TRUE
    /\ UNCHANGED <<worker, taskVars, sizeVars, localVars, phaseVars>>

\* ~ThreadPool(): the caller guarantees that no call is in progress.
DestroyStop(stop) ==
    /\ phase = "alive"
    /\ \A t \in Tasks : call[t] \in {"idle", "returned", "rejected"}
    /\ \A r \in Removals : removal[r] # "store"
    /\ stop_' = stop
    /\ phase' = "wake"
    /\ UNCHANGED <<to_spawn, worker, taskVars, sizeVars, localVars>>

\* Mutant: stop_ is not set.
DestroyBeginOpen == DestroyStop(stop_)

DestroyBegin == DestroyStop(TRUE)

\* task_sem_.release(threads_.size()): threads_ keeps the threads that returned.
DestroyWake ==
    /\ phase = "wake"
    /\ task_sem_' = task_sem_ + Count(worker, WorkerPC \ {"unborn"})
    /\ phase' = "drain"
    /\ UNCHANGED <<queue_, leftover_, call, fn, ran, stop_, to_spawn, worker, sizeVars, localVars>>

DestroyDrain ==
    /\ phase = "drain"
    /\ queue_ # <<>>
    /\ fn' = [fn EXCEPT ![Head(queue_)] = "deleted"]
    /\ queue_' = Tail(queue_)
    /\ phase' = "discount"
    /\ UNCHANGED <<task_sem_, leftover_, call, ran, stop_, to_spawn, worker, sizeVars, localVars>>

DestroyDiscount ==
    /\ phase = "discount"
    /\ leftover_' = leftover_ - 1
    /\ phase' = "drain"
    /\ UNCHANGED <<queue_, task_sem_, call, fn, ran, stop_, to_spawn, worker, sizeVars, localVars>>

\* Mutant: the queue is not emptied first.
DestroyUndrained ==
    /\ phase = "drain"
    /\ phase' = "join"
    /\ UNCHANGED <<to_spawn, sizeVars, nonResizeVars>>

DestroyDrained ==
    /\ phase = "drain"
    /\ queue_ = <<>>
    /\ phase' = "join"
    /\ UNCHANGED <<to_spawn, sizeVars, nonResizeVars>>

\* The jthreads in threads_ are joined when the member is destroyed.
DestroyJoin ==
    /\ phase = "join"
    /\ \A w \in Threads : worker[w] \in {"unborn", "gone"}
    /\ phase' = "destroyed"
    /\ UNCHANGED <<to_spawn, sizeVars, nonResizeVars>>

Destroy == \/ DestroyWake \/ DestroyDrain \/ DestroyDiscount
           \/ DestroyDrained \/ DestroyJoin

-----------------------------------------------------------------------------
\* The program has ended, or at least the pool has.
Finished == /\ phase \in {"destroyed", "terminated"}
            /\ UNCHANGED vars

Next == \/ \E t \in Tasks : Enqueue(t)
        \/ \E w \in Threads : Worker(w) \/ Spawn(w)
        \/ \E r \in Removals : RemoveStore(r) \/ \E n \in RemoveSizes : RemoveLoad(r, n)
        \/ \E n \in AddSizes : AddThreads(n)
        \/ Shutdown
        \/ DestroyBegin
        \/ Destroy
        \/ Finished

Spec == Init /\ [][Next]_vars
-----------------------------------------------------------------------------
(***************************************************************************)
(* Fairness.  A thread that can run does run: an enqueue call that began,  *)
(* a worker, a remove_threads call that began, and the owner inside a      *)
(* constructor, add_threads or the destructor.  Nobody has to call         *)
(* anything.  A task's function returns.  If permits keep being there for  *)
(* waiting workers, some worker takes one: try_acquire_for looks at the    *)
(* counter before it waits, and fails on a positive counter only when      *)
(* another worker changed it.                                              *)
(***************************************************************************)
Fairness ==
    /\ \A t \in Tasks : WF_vars(call[t] # "idle" /\ Enqueue(t))
    /\ \A w \in Threads : WF_vars(Worker(w))
    /\ SF_vars(\E w \in Threads : WorkerAcquire(w))
    /\ \A r \in Removals : WF_vars(RemoveStore(r))
    /\ WF_vars(\E w \in Threads : Spawn(w))
    /\ WF_vars(Destroy)

FairSpec == Spec /\ Fairness

-----------------------------------------------------------------------------
(***************************************************************************)
(* Properties.                                                             *)
(***************************************************************************)

\* The types of the variables.  leftover_ and active_threads_ are size_t in the
\* code; that they never wrap is stated separately.
TypeOK ==
    /\ queue_ \in Seq(Tasks)
    /\ stop_ \in BOOLEAN
    /\ active_threads_ \in Int
    /\ target_thread_count_ \in Nat
    /\ task_sem_ \in Nat
    /\ leftover_ \in Int
    /\ worker \in [Threads -> WorkerPC]
    /\ ptr \in [Threads -> Tasks \cup {NoTask}]
    /\ old \in [Threads -> Int]
    /\ call \in [Tasks -> CallPC]
    /\ fn \in [Tasks -> FnState]
    /\ ran \in [Tasks -> Nat]
    /\ removal \in [Removals -> {"idle", "store", "returned"}]
    /\ new_target \in [Removals -> Nat]
    /\ phase \in Phase
    /\ to_spawn \in Nat

\* Until the destructor releases the workers, every task in the queue has
\* exactly one permit: in the semaphore, in the hands of a worker about to pop,
\* or still to be released by an enqueue call that has pushed.  So no task is
\* stranded without a permit, and no pop finds the queue empty.
PermitPerTask ==
    phase \in {"ctor", "alive", "adding", "wake"} =>
        Len(queue_) = task_sem_ + Count(worker, {"pop"}) + Count(call, {"count", "signal"})

\* get_tasks_left() is the number of tasks queued or being executed, short only
\* of those an enqueue call has pushed and not yet counted.
LeftoverExact ==
    Running =>
        leftover_ = Len(queue_) + Count(worker, {"run", "uncount"})
                    + (IF phase = "discount" THEN 1 ELSE 0) - Count(call, {"count"})

\* leftover_ is unsigned and a task is counted only after it was pushed, when a
\* worker could already have executed it and subtracted it.  Still leftover_
\* never wraps below zero: the permit is released after the task was counted.
LeftoverNeverWraps == leftover_ >= 0

\* active_threads_ is the number of threads inside worker() past its first
\* statement: an early return by compare-and-swap and the normal exit each
\* subtract a thread exactly once, so the counter never wraps either.
ActiveExact ==
    active_threads_ = Count(worker, WorkerPC \ {"unborn", "start", "gone"})

\* The pointer discipline of the raw std::function pointers: a task in the queue
\* is there once, a task taken is in the hands of one worker, and neither has
\* been deleted; only a deleted task was executed, and only once.
OneHolderPerTask ==
    /\ \A i, j \in 1..Len(queue_) : queue_[i] = queue_[j] => i = j
    /\ \A t \in Tasks : (fn[t] = "queued") <=> (\E i \in 1..Len(queue_) : queue_[i] = t)
    /\ \A t \in Tasks : (fn[t] = "taken") <=> (\E w \in Threads : worker[w] = "run" /\ ptr[w] = t)
    /\ \A v, w \in Threads : worker[v] = "run" /\ worker[w] = "run" /\ ptr[v] = ptr[w] => v = w
    /\ \A t \in Tasks : ran[t] <= IF fn[t] = "deleted" THEN 1 ELSE 0

\* When the destructor has returned nothing is left: no thread, no task in the
\* queue, no std::function on the heap, and the counters are back at zero.
NothingLeftBehind ==
    phase = "destroyed" =>
        /\ \A w \in Threads : worker[w] \in {"unborn", "gone"}
        /\ queue_ = <<>>
        /\ \A t \in Tasks : fn[t] \in {"none", "deleted"}
        /\ leftover_ = 0
        /\ active_threads_ = 0

\* worker() retires a thread only if there are more than the target ("the CAS
\* guarantees that only one exits", thread_pool.cpp:57): unless the pool was
\* stopped, there are always at least as many threads as asked for.
OnlySurplusThreadsExit ==
    ~stop_ => Count(worker, WorkerPC \ {"unborn", "gone"}) + to_spawn >= target_thread_count_

\* enqueue, worker and the destructor together keep the promise of TaskPool.
StatusOf(t) == CASE call[t] = "idle"     -> "new"
                 [] call[t] = "push"     -> "submitting"
                 [] call[t] = "rejected" -> "rejected"
                 [] OTHER -> CASE fn[t] = "queued" -> "accepted"
                               [] fn[t] = "taken"  -> "running"
                               [] OTHER -> IF ran[t] > 0 THEN "done" ELSE "dropped"

Pool == INSTANCE TaskPool WITH status <- [t \in Tasks |-> StatusOf(t)], open <- ~stop_

ImplementsTaskPool == Pool!Spec

\* A task in the queue is executed, unless the pool is stopped.
QueuedTaskRuns ==
    \A t \in Tasks : (fn[t] = "queued") ~> (ran[t] = 1 \/ stop_)

\* shutdown() wakes nobody, but the timeout of try_acquire_for lets every worker
\* notice it: once the pool is stopped all threads return.
StopEndsThreads ==
    stop_ ~> (\A w \in Threads : worker[w] \in {"unborn", "gone"})

\* The destructor returns.
DestructorReturns == (phase = "wake") ~> (phase = "destroyed")

\* After remove_threads the pool shrinks to its target, unless it is stopped.
ShrinksToTarget ==
    \A r \in Removals : (removal[r] = "returned") ~>
        (stop_ \/ Count(worker, WorkerPC \ {"unborn", "gone"}) <= target_thread_count_)
=============================================================================
