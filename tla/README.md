# TLA+ verification of TinyReactor

TinyReactor is a small distributed task system in C++20. This directory holds
TLA+ models of its concurrent parts and of the conversions between its programs,
TLC configurations that check them on small instances, and TLAPS proofs about
each of the modelled parts. Paths below are relative to the repository's `src/`.

## 1. The system

| Part | State | Operations | Modules |
|---|---|---|---|
| ThreadPool (`common/…/thread_pool.*`) | lock-free queue of raw `std::function*`, semaphore, `stop_`, `active_threads_`, `target_thread_count_`, `leftover_`, `threads_` | constructor, `enqueue`, `worker`, `add_threads`, `remove_threads`, `shutdown`, destructor | `ThreadPool`, promise `TaskPool` |
| TaskExecutor (`worker/task-executor`), Task (`common/include/task.hpp`) | fields of a Task, execution and retry timers, static retry quota, a ThreadPool | `execute_task`, `run_task`, two timer handlers, `update_task_state`, destruction | `TaskExecutor` on `TaskPool` |
| AsyncServer, AsyncCallContext, `main` (`api-server`) | contexts that delete themselves, completion queues and their threads, `g_shutdown` | `Run`, `DriveCompletionQueue`, `Proceed`, `Shutdown`, `signal_handler`, `main` | `AsyncServer` |
| GrpcClient (`common/…/grpc_client.*`) | tags that delete themselves, a completion queue and its thread, `shutdown_` | `listen_results`, `submit`, `cancel` and `query` calls, `CompleteRpc`, `Proceed`, destructor | `GrpcClient` |
| Hazard pointers (`common/include/hazard_pointer.hpp`) | slots, per-thread and global lists of retired pointers | `acquire`, `protect`, `release`, `RetirePointer`, `Scan`, `reclaim_all`, `RegisterThread` | `HazardPointer` |
| MPMCQueue (`common/include/mpmc_queue.hpp`) | linked nodes from a dummy on, `head`, `tail` | constructor, `enqueue`, `dequeue`, destructor | `MPMCQueue`, promise `Fifo` |
| Task codec (`common/…/utils.*`, `task.hpp`), built-in `fib` | none | `TaskToProto`, `TaskFromProto`, `to_json`, `from_json`, `fib` | `TaskCodec` |
| Logger, `task.proto` | none that matters | start of glog; message layout | not modelled |
| Scheduler, storage, resource reporter | the files are empty | | not modelled |

How they interact: the executor submits `run_task` to its ThreadPool and sets
timers on an `io_context` that another thread runs; timer handlers write the same
Task as the worker and submit to the pool again. The server answers calls on
one thread per completion queue; a signal handler, `main` and the destructor at exit
each shut it down. The client follows result streams on a thread of its own. Tasks go from
program to program through the codec, and `fib` reads what arrives. MPMCQueue
reclaims its nodes through hazard pointers. The API server does not call the
executor yet, so these two are not composed.

What is hard about them, with the line where it bites, is listed under "hazards"
in `PROJECT.json`: permits and counters updated apart from the queue they
describe; a compare-and-swap justified by a stale target; a destructor that
drains a queue others still pop from; two threads writing a Task; timers that
outlive the attempt they belong to; contexts lost with a failed Finish; tags and
contexts that delete themselves in their own handler; Shutdown on a thread that it
waits for; lists and slots read, and stores buffered, without a lock; a queue whose
tail lags; values that change their form at every hop.

## 2. The modules

### ThreadPool
One action per operation that another thread can observe: every load, store and
read-modify-write of an atomic, every semaphore and queue operation. The
program counters `worker[w]`, `call[t]` and `removal[r]` stand for the positions
in `worker()`, `enqueue()` and `remove_threads()`; `phase` for the constructor,
`add_threads` and the destructor, which one owner calls because `threads_` is an
unsynchronised vector. `fn[t]` is the life of the heap-allocated function.
Choices worth knowing:

- `task_sem_` is a `binary_semaphore`, released once per task. GCC 13's libstdc++
  adds to the counter without a maximum, so the model does too. The standard gives
  `release` beyond the maximum no meaning; with a semaphore that really saturates,
  tasks would be stranded. The mutant `EnqueueSignalSaturates` shows exactly that.
- `queue_` is not `fixed_sized`, so a push beyond `queue_capacity` allocates; it
  fails only when allocation does (`EnqueueAbandon`). Callers are therefore not
  held back at the capacity.
- A task that throws ends the program (`WorkerThrow`): nothing in `worker()`
  catches.
- `try_acquire_for` may give up although a permit is there.
- `threads_` is declared before the atomics, so the threads are joined after the
  atomics' destructors. These are trivial and the join is modelled as part of the
  destructor.
- Only the owner's life-time rule is assumed: no call is in progress, and none
  begins, once the destructor has been entered.

### TaskPool
What callers may rely on: a call begun while the pool is open is accepted, or
rejected if the pool closes first; an accepted task starts at most once; it is
dropped only after closing. `ThreadPool!ImplementsTaskPool` is the refinement and
`TaskExecutor` takes its pool steps from this module, so the two are composed
through it.

### TaskExecutor
The k-th attempt at task t is pool task `<<t, k>>`. `pc[t]` is the position in
`run_task`, `io` that of the one thread running the handlers of the `io_context`,
and `clock[t]` the time relative to the task's deadline (before, at, after; the
code tests `remaining < 0`, so "at" still starts). `update_task_state` takes
two steps, the state and the rest, because nothing synchronises it. A function is what it
may do: return a value, return early when `cancelled`, throw a retryable or
another error. An unknown function is one of the latter. Arming the retry timer and
the return of `run_task` after it are one step, `BackOff`; an exception that is no
`std::exception`, which nothing catches, is left out.
The model also shows that a reader can see SUCCESS before the result is written,
and that `exec_timer` of an attempt that ended in a retry stays armed and marks a
later attempt TIMEOUT, even one that has succeeded.

### AsyncServer
The contexts, the queue threads, `Shutdown` as four steps that any thread may be
in, the signal handler and `main`. `main` creates the server object, builds the
server (which may fail and leave `server_` null), creates the contexts and starts the queue
threads, each a step, so that gRPC can match a call and a signal can arrive
between any two of them. It then waits for `g_shutdown`, calls `Shutdown`, and the destructor of the static
`g_server` calls it once more. `Signal` is the handler on `main` or on a queue
thread: before the object exists it only sets `g_shutdown` and `Run` goes on;
later it runs `Shutdown` on the thread it has interrupted. gRPC is external and modelled by what the code
relies on: a registered request is matched with a call, each operation yields one
event, Finish fails when the call is dead, `server_->Shutdown()` fails registered
requests and waits for the calls in progress, a queue that is shut down delivers
what is pending and ends. `failure` records how a program goes wrong: `Shutdown` or a
request without a server, a context registered on a closed queue (`RearmClosed`,
`CreateContextFails`), a thread that joins itself (`JoinSelf`). A queue thread that handles the signal while
`Run` is still in the `emplace_back` that started it may not find itself in
`cq_threads_`; then the handler returns (`JoinUnlisted`).

### GrpcClient
`step_[l]` and `status[l]` are the fields of the tag of a `listen_results` call,
`op[l]` its one operation at gRPC or the event that came of it. The completion
thread alternates between the test of `shutdown_` (`TestShutdown`) and `AsyncNext`,
which times out, ends, or returns an event that is handed to `Proceed` in the same
step: nothing between the two is visible to others. The server may send up to
`MaxMessages` messages, with a task or without, and may end a stream at any time, well or
with an error. The destructor sets `shutdown_`, shuts the queue down and joins.
`submit_task_async`, `cancel` and `query` calls are modelled as they are written,
which means that the first leaves a future that nothing makes ready, and the
others end the program (section 5). The branches for a null `stub_` are left out, as `NewStub`
never returns null. Tags that never get an event have no state.

### HazardPointer
The library driven the way `MPMCQueue::dequeue` drives it: load, protect, load
again, use; unlink and retire. What the code does without a common lock takes several
steps:

- `acquire` points `head_` to a new slot (line 132) before it sets the slot's `next_`
  (line 133): `AcquireNew`, then `Link`. `isProtected` takes no lock and reads one slot per
  step; a walk that meets the new slot in between ends there and misses all older ones.
- The `release` store of a thread in `Buffered` may wait in its core's buffer while later
  loads are done, as on x86; a locked instruction empties the buffer.
- `emplace_back` on a thread's own list and `push_back` on `all_thread_data_` each take two
  steps, and `Scan` reads both under another mutex. When `Splice` meets one of
  them half-way, either order of the two may come of it, or `torn`: the race is
  undefined behaviour, and the model ends there.

`overlooked` is a history variable that no guard reads: the nodes of which an `isProtected`
missed a slot or a store in the first two ways. When `global_retired_` passes
`kGlobalThreshold`, `RetirePointer` calls `Scan` with `global_retired_mutex_` held
and waits for itself: `Submit` models it, and since nothing but that deadlock
follows, the runs keep the threshold out of reach.

### MPMCQueue and Fifo
Each call runs on a thread of its own, and each load, store and compare-and-swap
of `enqueue` and `dequeue` is a step; the node that an `enqueue` call allocates
bears its name. Its address, `home`, is a fresh one or that of a node that was freed, and
whatever the code compares or follows is an address: `EnqueueCheck`, `DequeueCheck`,
`MoveTail` and the others compare `home`, and `Here(p)` is the node that now is at
the address of `p`. Reclamation reads the holders' slots one per step.

`enqueue` protects nothing, so its `curr_tail` may be dequeued and freed, and its memory
allocated again, before it is used. That alone does no harm: the steps that
compare find another address, or find the new node in its place and go on with that. `stale` becomes
true where it does: `enqueue` reads a `next` in memory that is free, or one of its
compare-and-swaps would succeed on another node than the one it loaded (ABA). The second can put `tail`
behind `head`. From there on nothing is claimed, and the model ends.

`Fifo` is the promise: items in order, each once, and
`false` only if the queue was empty at some time during the call. Its variable
`wasEmpty` is mapped to a history variable that no guard reads. An item is added
by the compare-and-swap on `next`, and taken by the one on `head`.

The header does not compile as it stands: it names `TestObject`, where its own
node type is meant, and `release_hazard_pointer`, which nothing declares; the
model reads the second as `HazPtrHolder::release`. Steps are in program order here,
and every slot in use is read; what store buffers and half-linked slots do to
`protect` is the subject of `HazardPointer`.

### TaskCodec
A JSON value is a tree, given as a function from paths of keys to what is there
(`JsonTree`): a scalar, null, "array" or "object". The elements of an array have
their indices as keys, as nlohmann's `items()` yields them; `Items` adds the one unnamed
item of a scalar. A protobuf `Struct` is such a tree of "struct" and of
scalar Values. The two conversions call themselves for each
container; `JsonToStruct` and `StructToJson` say of each node what the call that
meets it makes of it, branch by branch. A null is set as a null Value and then falls to the
`default` of the switch (`Kept`); a json that gets no assignment stays null. Written
so, the conversions can be reasoned about for values of any depth. That this is what the
recursion does is checked: `MCTaskCodec` has the recursive functions
as the code has them (`StructOf`, `ValueOf`, on nested values), and TLC compares the two on
every value of the run (`RecursionAssumption`).

The state machine takes a task on hops in any order
with JSON round trips, a cancellation and a call of `fib`. Widths are scaled down:
`IntMax` is the largest int and `Exact` the number up to which each integer is a
double (2^31 - 1 and 2^53 in the program). Beyond `Exact`, `Nearest` rounds to even;
an integer too wide for int wraps around when it is converted; an addition that
overflows, and a double that is no int, yield any int, as the language leaves both
undefined.

### MCThreadPool, MCTaskExecutor, MCTaskCodec
Symmetry sets, the parameter values for the codec, and its conversions by recursion. The other modules need none.

## 3. The runs

| Run | Expectation | What it shows | Instance |
|---|---|---|---|
| `pool_safety` | pass | Each queued task has one permit, counters are exact, raw pointers have one holder, the destructor leaves nothing | 3 calls (one task throws), 2 threads of which one is added later, a removal of 1 or 2, capacity 1 |
| `pool_live` | pass | The pool refines TaskPool; queued tasks run, stopping ends the threads, the destructor returns, the pool shrinks until it is at its target | 2 calls, 2 threads competing to retire, a removal of 1, no add_threads |
| `pool_undershoot` | violation | With add_threads, a thread retires that is no longer surplus | 1 call, 2 threads, a removal and an addition |
| `executor_safety` | pass | One attempt at a time, bounded retries, exact quota, no TIMEOUT before the deadline, settled tasks have a final state | 2 tasks, all outcomes, 1 retry, quota 1 |
| `executor_live` | pass | Every submitted task ends in a final state for good while the io_context runs | 2 tasks, one refused for its resources |
| `executor_timeout` | violation | A TIMEOUT is overwritten by the worker | 1 task |
| `server_serves` | pass | One outstanding operation per context, one answer per call, contexts lost only to a failed Finish, waiting calls answered unless all contexts were lost, a signal at any step ends the program unless a queue thread handles it or `Run` waits for good, a clean exit leaves nothing | 2 queues, 2 contexts, 3 calls of which two may die, signal on main or on queue 0 |
| `client` | pass | One outstanding operation per tag, errors told when there was one and only then, silence after the destructor, which returns | 2 streams of up to 1 message, 1 cancel or query, 1 submit of each kind |
| `hazptr` | pass | A node is deleted in use only if `isProtected` overlooked it; retired nodes are in one list, and are reclaimed or stranded with a thread that never registered | 3 threads: a registered, buffered one that follows and retires, one that never registers and retires and scans, one that takes slots; 3 nodes |
| `hazptr_buffer` | violation | With buffers, a node in use is reclaimed | a reader and a thread that retires and scans, both registered and buffered; 2 nodes, 1 slot |
| `queue` | pass | MPMCQueue refines Fifo, `tail` never falls behind, `dequeue` follows no reclaimed node, every node is in one place, every call returns | 2 enqueue and 2 dequeue calls, freed memory allocated again, the destructor |
| `codec` | pass | Fields and scalars survive any number of hops, what is lost is lost by a known hop, `fib` is exact | about 3000 values of `func_params`, up to 5 hops |

Every property of a passing run has a mutant in `PROJECT.json`, a plausible slip
in one definition, that breaks it.

**Bounds.** Two workers are the least that compete for a permit, a surplus or a
task; a third task exceeds capacity 1 while another is held. One retry and quota
1 with two tasks make both limits reachable; `Attempts` has one more, to see
that it is not made. Three calls for two contexts need a context that was replaced;
two may die, so that every context may be lost; a call matched before the second queue
has its thread, with a signal then, is in reach as well. Two streams show the tags independent of
each other, and one message all paths of `ProceedRead`. Three nodes allow one to be
retired while another is in a list and the third is in place; with the third thread a slot
is new while an older one protects, and `scan_threshold_` 2 leaves one node in a list that
`Scan` does not see and submits two. Two enqueue calls can
fight for a link, one can be stopped with `tail` lagging while the other and a
dequeue call help, and two dequeue calls fight for `head`; all queue lengths from
empty to two occur, and the second enqueue call can get the memory of the dummy node while
a pointer to that is still in use. The values of the codec have scalars of every kind, integers on
both sides of both limits, and nesting up to four levels with empty and null parts.
`Contexts` bounds replacements at one per call and `Slots` at one per thread, which
the code cannot exceed. `AddThreads` is limited by the threads left. One signal is sent.

**Deadlock** is checked everywhere except in `server_serves`, where a handler on a
queue thread, one inside `Run`, and a server that has lost all contexts, really may block.

**Fairness.** A thread inside an operation goes on (weak fairness per thread); no
caller, client, server or signal has to come. Beyond that:

- ThreadPool: some waiting worker takes a permit if permits keep being there
  (strong): `try_acquire_for` looks at the counter before it waits and fails on a
  positive counter only when another worker changed it. Task functions return.
- TaskExecutor: time passes, functions return, the pool starts what it accepts
  (that is `QueuedTaskRuns`), and the io thread does not forever prefer other
  handlers to a retry that is due (strong): its handler queue is first-in first-out.
- AsyncServer: gRPC matches calls with requests and completes operations.
- GrpcClient: gRPC completes what the server has done; callbacks return.
- HazardPointer: a mutex that is free again and again is obtained (strong);
  holders leave their scope; scanning threads keep scanning, as the tests' `wait_for` does.
- MPMCQueue: weak fairness of each call only. A call goes round its loop only if
  another made progress, and a bounded number of calls makes bounded progress.

## 4. The proofs

All theorems hold for every value of the constants that the named assumptions
admit; TLC evaluates the assumptions in the runs of the same module.

| Module | Assumption | Theorems |
|---|---|---|
| `ThreadPoolProofs` | `ConstantsAssumption` | `TypeCorrect`, `PermitPerTaskCorrect`, `LeftoverExactCorrect`, `LeftoverNeverWrapsCorrect`, `ActiveExactCorrect`, `OneHolderPerTaskCorrect`, `NothingLeftBehindCorrect`, `PoolImplementsTaskPool` |
| `TaskExecutorProofs` | `ExecutorAssumption` | `TypeCorrect`, `SingleFlightCorrect`, `RetryBoundedCorrect`, `QuotaExactCorrect`, `TimeoutOnlyAfterDeadlineCorrect`, `SettledIsTerminalCorrect` |
| `AsyncServerProofs` | `ServerAssumption` | `TypeCorrect`, `ContextsHaveOneOperation`, `CallsAnsweredOnce`, `ContextsAreAccounted`, `CleanExit` |
| `GrpcClientProofs` | `ClientAssumption` | `TypeCorrect`, `TagsHaveOneOperation`, `CallbackToldTheTruth`, `NoCallbackAfterDestroy` |
| `HazardPointerProofs` | `HazardAssumption` | `TypeCorrect`, `HoldersShareNoSlot`, `NoOtherUseAfterReclaim`, `EveryRetiredNodeInOnePlace` |
| `MPMCQueueInvariant` | `QueueAssumption` | `Invariance` |
| `MPMCQueueProofs` | the same | `TypeCorrect`, `TailStaysClose`, `DequeueIsSafe`, `EveryNodeAccounted`, `QueueIsFifo` |
| `TaskCodecProofs` | `WidthAssumption`, `ParamsAssumption` | `CodecInvariant`, `TaskSurvivesCorrect`, `HopsSettleCorrect`, `FibExactCorrect` |

**ThreadPool, the counters.** `TypeOK` needs a strengthening: while threads are being
created at least one is left to create (`SpawnsLeft`), or `to_spawn` could become
negative. The accounting is one induction: `Accounts` joins the types with
`PermitPerTask`, `LeftoverExact`, `ActiveExact`, and a fact that they need of
the destructor: once it has begun no call is in progress (`QuietDestruction`).
`LeftoverNeverWraps` is no induction of its own: `leftover_` is the number of queued tasks
plus those in execution less the calls between push and count, and `PermitPerTask`
says that these calls are at most the queued tasks, as each has a permit still to
release. The lemmas `CountUpdate`, `GotoCounts` and `AdvanceCounts` reduce every
step to the same arithmetic: a moved program counter changes a count by what enters
and what leaves the set.

**ThreadPool, the pointers and the promise.** `Held` says who holds a `std::function`:
the position of its `enqueue` call limits what may have become of it, the queue has each queued
function once, one worker has each taken one, and only a deleted one was called.
With `Emptied` (after the drain the queue stays empty, after the join no thread is
left) it gives `NothingLeftBehind`. `PoolImplementsTaskPool` then shows that the initial states
map to initial states of TaskPool and each step to a step or a stutter, one
lemma per action. Since `TaskExecutor` is built from the steps of TaskPool, what is
proved about the executor rests on a promise that the pool is proved to keep.

**TaskExecutor.** `IInv` joins the types, `Flights` and `Quota`. `Flights` says of
each task that attempts before `retry_count` are over and later ones not begun,
that `run_task` works on the current one, and that a retry is due only when that
one is over and retries are left; `SingleFlight` and `RetryBounded` follow. `Quota`
counts the armed retry timers and the workers between adding and taking back. `Late`
says that whoever is about to write TIMEOUT has seen the deadline pass. `Ends`
says which states the unsynchronised writes of the worker and the handler can leave; it is what makes
`SettledIsTerminal` inductive.

**AsyncServer.** `Tags` (types and one operation per context) is inductive. `Serving`
adds that an unanswered call of a context is matched and that no two contexts have the same call.
`Left` says that a queue thread leaves only when its queue has no live context, that
no queue thread runs before all contexts are created, and that `main` leaves `Run`
with all of them started and its own `Shutdown` with all of them gone: from
there no context can appear behind a thread that has left, whichever of the three
`Shutdown` calls closed the queues. `ContextsAccounted` needs `Fates`: until the server is closed, an event is false only
if a client gave up during Finish; the count (`Balance`) then moves in step with the
creations of `Run` and the deletions.

**GrpcClient.** `IInv` joins types, `OneOperationPerTag`, `ToldTheTruth`, what events
say (`EventsTrue`: after Finish `status` is how the server has ended the stream,
whatever `Proceed` had written there) and `Joined`, from which the
action property `QuietAfterDestroy` follows.

**HazardPointer.** `SlotInv` says that a slot has an owner exactly while that
thread's holder has the slot. `SafeInv` adds that what the lists
hold was unlinked (`Listed`), that a protected pointer is in its slot or in the store buffer of its
thread (`Published`), and the fact at the heart of the algorithm (`Guarded`): if a
node is in use and was not overlooked, no thread has it among those to
delete, and an `isProtected` that is examining it has not yet passed its slot. The one way to pass
it is `ReadSlot`, and `WalkSparesPublished` shows that a walk passes a protected
slot only by one of the two events that `overlooked` records. So the theorem
names all that is wrong with the protection: with the two stores of `acquire` in the other order
and a `seq_cst` store in `protect`, nothing would be overlooked. That neither can be
left out TLC shows; `hazptr_buffer` is the counterexample for the second.
For `EveryRetiredNodeInOnePlace`, `Where(kind, by)` gives each node one kind of place and
the thread it belongs to, and ties every list, the local variables of `RetirePointer`
and the deleted nodes to these two functions; a step that moves nodes changes the
functions accordingly (one lemma per such step). That a node condemned by
`reclaim_all` is still in the global list is `Walking`: whoever walks has the mutex.
`RetiredInOnePlace` speaks of the time before a torn container, and the theorem with it: the race
of `Scan` with `emplace_back` and `push_back` is not excluded by it but is where it ends.

**MPMCQueue, the invariant.** `IInv` says that there is an order of the linked nodes:
a sequence `s` and the position `pos[n]` of each node in it, zero if it is not linked.
`Order` says that the next pointers follow `s` and that the last node has none;
`Linked` which nodes are in it; `Ends` that `head` is not behind `tail` and `tail` at most
one node from the end. `EnqueueKnows` and `DequeueKnows` say what a call may still
rely on of the pointers that it loaded some steps ago, whatever the others did since:
where they are in the order, and that a next pointer that was not null has not changed.
`Homes` says that no two nodes in memory have one address; so two pointers whose
addresses are equal are the same node if both are in memory. That is why the comparisons of
`dequeue`, whose `curr_head` is protected, are not misled by reused memory, and why `curr_tail` of
`enqueue` can be: once `stale`, all that `IInv` says is that some enqueue call's
`curr_tail` was freed.
`Memory` says that the nodes before `head` are retired, freed, or with one call that is
about to retire them, and `Guarded` that a node protected and found in place is not freed and
that a `reclaim_all` examining it has yet to read the slot. `Answers` ties
results and `wasEmpty` to the position of each call. The order changes in one step only, the
compare-and-swap that links a node (`LinkStep`: `s` grows by one); `head` moves on in
it by one position (`TakeStep`), and all else leaves it alone. With `s` as
witness nothing has to be said about chains while the steps are examined. What
`ChainFrom` computes is one lemma, `ChainIsSuffix`: from a linked node it is the rest
of `s`. It is proved by induction over the distance from the end, as the least
distance at which it would fail (`LeastNatural`), after showing that a function with the
recursive equation exists (`FollowsExists`).

**MPMCQueue, the results.** `TailStaysClose`, `DequeueIsSafe` and `EveryNodeAccounted`
follow from the invariant in one state. `QueueIsFifo` is the refinement: `Items`, the
queue of Fifo, is the suffix of `s` after `head` (`ItemsAreInOrder`), so linking is
`Add` (`SuffixAppend`), the move of `head` is `Take` (`SuffixTail`), returning false is `Miss`,
and every other step of enqueue, dequeue and reclamation stutters. The theorems are
about any number of calls, and about all behaviours up to the first stale use of a
freed `curr_tail` by `enqueue`, where the model stops (section 2). The second half of
`TailNotBehind` says that nothing else gets there (`StaleStep`): with a
protected `curr_tail` the theorems would hold without that end.

**TaskCodec, the conversions.** All rests on what one hop, `StructToJson(JsonToStruct(j))`,
makes of a value (`OnceDomain`, `OnceNode`): its paths are those of `items()` without the
nulls, a scalar stays (an integer as its double), and a container becomes an
object, or null if nothing is left in it. From that, `OnceLeaves`: no bool, number or string is
lost, moved or added; this is the step of `TaskSurvives`. `HopsSettle` is not inductive: it
needs to know why the losses end. What a hop has built (`Hopped`) has no arrays,
integers or empty objects, so that a further hop changes it only where a null is
left inside (`Settled`). Such a null was a container that lost its last item by that hop
(`FirstNulls`, `LaterNulls`), so with each hop the nulls are one key closer to the
root. `NullsRise`, the invariant, counts it: a null at a path of length l after n hops comes from a
container that the client put at level l + n or deeper. When n has reached the depth of the
value none can be left. `CodecInv` joins these with the types and with `FibInv`; TLC
has evaluated it on the states of the run as well.

**TaskCodec, fib.** `LoopIsFib`: after the round of i, the variables of the loop are the
(i-1)-th and the i-th Fibonacci number. As these do not decrease (`FibGrows`), no round
overflows when the n-th is an int (`FibOfExact`), for every width of int. `ArgumentHopped`:
the n that `fib` reads after any number of hops is the one that the client sent, because it
is a leaf, and an int is exactly a double (`IntMax < Exact`). Both `Fib` and `Loop` are
recursive functions; that a function with their equation exists is proved
(`FibExists`, `LoopEquation`), and inductions over them are stated about sets (`Induction`).

**Only model-checked.** All liveness properties (fairness is out of the prover's
reach). That the tree form of the codec's conversions is what their recursion computes
(`RecursionAssumption`): operators that recurse on nested values are out of reach
as well. `OnlySurplusThreadsExit`, `TimeoutIsFinal` and `NoUseAfterReclaim` are not theorems:
they fail.

## 5. Disagreements and observations

Disagreements with the repository's own words; each is a violation run and a
finding in `PROJECT.json`.

1. `thread_pool.cpp:57`, "CAS 保证只退出一条": the compare-and-swap compares only
   the counter; if the target was raised meanwhile and the counter is back at its
   old value, one thread too many exits.
2. `task_executor_test.cpp:106`, "现在一定返回 TIMEOUT": the worker's writes
   replace a TIMEOUT.
3. `hazptr_test.cpp:26`, "保护期间不被回收": the store of `protect` may be
   overtaken by the load that validates it.

Observed while modelling. The modules contain these behaviours and the properties
are stated so that they hold around them; they are visible in one definition
each and have no run of their own.

- Server: each failed Finish costs a context for good, although the comment at
  `api_server.hpp:59` says that replacing contexts keeps the queue from starving;
  after as many failures as there were contexts nobody is served. The
  hypothesis of `WaitingCallAnswered` says exactly that.
- Server: the signal handler runs the whole `Shutdown` on the thread it interrupts
  (`main.cpp:13`), although the comment at `main.cpp:8` says that it only changes an atomic.
  On a queue thread that thread joins itself; while `server_` is not built it
  is a null pointer; on `main` inside `Run`, `server_->Shutdown()` waits for good if a call was matched on
  a queue whose thread `Run` has yet to start (`StuckInRun`). A signal before
  `main.cpp:29` does not keep the server from starting; `main` then stops it at once.
  `SignalEndsProgram` therefore speaks of signals that no queue thread handles, with `StuckInRun`
  as its exception; without that TLC finds the behaviour.
- Server: `Shutdown` may close a queue between the deletion of a context and the
  registration of its replacement (`RearmClosed`), or of the first ones (`CreateContextFails`).
- Client: `submit_task_async` starts its call without a tag, so its future is never
  ready. `cancel_task` and `query_status` dereference the pointer that `release()`
  has set to null, and if the event comes first, its handler calls Finish twice. An
  event taken from the queue just before it is shut down makes `Proceed` start an
  operation on a closed queue (`ProceedClosed`).
- Hazard pointers: a full global list makes `RetirePointer` lock a mutex it holds.
- Hazard pointers: `acquire` publishes a slot before it is linked to the older ones, so an
  `isProtected` in between misses them (`AcquireNew`, `Link`); `Scan` races with
  `emplace_back` and `push_back` (`torn`).
- Hazard pointers: a thread that never registers keeps what it retires until it has
  `scan_threshold_` (100) nodes, however often `Scan` is called. The test
  at `hazptr_test.cpp:47` waits for one node of such a thread to be reclaimed.
- MPMCQueue: `enqueue` does not protect the `tail` that it follows; with reused memory
  its compare-and-swaps can succeed on another node and put `tail` behind `head` (`stale`).
- Executor: SUCCESS is visible before the result.
- ThreadPool: `remove_threads` loses a concurrent resize (`RemoveLoad`, `RemoveStore`).
- Codec: a hop turns arrays into objects with the indices as keys, `{}` into null, and drops
  nulls, one level per hop. A missing or null `n` of `fib` is therefore not treated alike
  on both sides of a hop: `{"n": null, "x": 1}` throws locally and gives 0 after a
  hop, `{}` gives 0 locally and throws after one.

## 6. What is not modelled

- The Logger (starts glog), `task.proto` (message layout) and the empty files.
- Payloads of the server's calls and of the client's messages: no property
  depends on them; the codec has a module of its own.
- Moves of a `HazPtrHolder`, the destructor of the domain, threads that end with
  retired pointers, and `UnregisterThread`, which does not compile when used.
- A second executor, or a second `io_context`, sharing the static retry quota; destroying the executor
  before its `io_context` is stopped, which is undefined behaviour.
- A second signal, a signal on one of gRPC's own threads, and a server without a completion queue, where the code divides by zero.
- The branches for a null `stub_` of the client, and task functions that throw what is no
  `std::exception` (section 2).
- Several owners of one pool: `add_threads` and the destructor work on an
  unsynchronised vector and are called by one.
