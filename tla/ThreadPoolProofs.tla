-------------------------- MODULE ThreadPoolProofs --------------------------
(***************************************************************************)
(* Proofs about ThreadPool for any number of tasks, threads and calls:     *)
(* what its counters count, and that it passes each task's std::function   *)
(* from hand to hand and so implements TaskPool.                           *)
(***************************************************************************)
EXTENDS ThreadPool, FiniteSetTheorems, TLAPS

-----------------------------------------------------------------------------
(***************************************************************************)
(* Counting.  The counters of the pool are compared with the number of     *)
(* threads or calls at certain places; a step moves one of them.           *)
(***************************************************************************)

\* 1 if x is counted by a count over S, and 0 otherwise.
One(x, S) == IF x \in S THEN 1 ELSE 0

\* A count of a function with a finite domain is a natural number, at least one
\* if some element is counted and zero if none is.
LEMMA CountFacts ==
    ASSUME NEW f, IsFiniteSet(DOMAIN f), NEW S
    PROVE  /\ Count(f, S) \in Nat
           /\ (\E x \in DOMAIN f : f[x] \in S) => Count(f, S) >= 1
           /\ (\A x \in DOMAIN f : f[x] \notin S) => Count(f, S) = 0
<1> DEFINE A == {x \in DOMAIN f : f[x] \in S}
<1>1. IsFiniteSet(A)
  BY FS_Subset
<1>2. Cardinality(A) \in Nat /\ (Cardinality(A) = 0 <=> A = {})
  BY <1>1, FS_CardinalityType, FS_EmptySet
<1> QED
  BY <1>2 DEF Count

\* Changing a function at one place changes a count by what enters and what
\* leaves the counted set there.
LEMMA CountUpdate ==
    ASSUME NEW f, NEW g, NEW x \in DOMAIN f, NEW S,
           IsFiniteSet(DOMAIN f), DOMAIN g = DOMAIN f,
           \A y \in DOMAIN f : y # x => g[y] = f[y]
    PROVE  Count(g, S) = Count(f, S) + One(g[x], S) - One(f[x], S)
<1> DEFINE A == {y \in DOMAIN f : f[y] \in S}
           B == {y \in DOMAIN g : g[y] \in S}
           C == A \ {x}
<1>1. /\ IsFiniteSet(A)
      /\ IsFiniteSet(C)
      /\ Cardinality(A) \in Nat
      /\ Cardinality(C) \in Nat
  <2>1. IsFiniteSet(A) /\ IsFiniteSet(C)
    BY FS_Subset
  <2> QED
    BY <2>1, FS_CardinalityType
<1>2. Count(f, S) = Cardinality(A) /\ Count(g, S) = Cardinality(B)
  BY DEF Count
<1>3. Cardinality(A) = Cardinality(C) + One(f[x], S)
  <2>1. CASE f[x] \in S
    <3>1. Cardinality(C) = Cardinality(A) - 1
      BY <2>1, <1>1, FS_RemoveElement
    <3> QED
      BY <3>1, <2>1, <1>1 DEF One
  <2>2. CASE f[x] \notin S
    <3>1. C = A
      BY <2>2
    <3>2. One(f[x], S) = 0
      BY <2>2 DEF One
    <3> QED
      BY <3>1, <3>2, <1>1
  <2> QED
    BY <2>1, <2>2
<1>4. Cardinality(B) = Cardinality(C) + One(g[x], S)
  <2>1. CASE g[x] \in S
    <3>1. B = C \cup {x} /\ x \notin C
      BY <2>1
    <3>2. Cardinality(C \cup {x}) = Cardinality(C) + 1
      BY <3>1, <1>1, FS_AddElement
    <3> QED
      BY <3>1, <3>2, <2>1 DEF One
  <2>2. CASE g[x] \notin S
    <3>1. B = C
      BY <2>2
    <3> QED
      BY <3>1, <2>2, <1>1 DEF One
  <2> QED
    BY <2>1, <2>2
<1> QED
  BY <1>1, <1>2, <1>3, <1>4 DEF One

\* The effect of a worker's step on the counts of workers.
LEMMA GotoCounts ==
    ASSUME TypeOK, NEW w \in Threads, NEW from, NEW to, Goto(w, from, to), NEW S
    PROVE  Count(worker', S) = Count(worker, S) + One(to, S) - One(from, S)
<1>1. IsFiniteSet(DOMAIN worker) /\ w \in DOMAIN worker
  BY ConstantsAssumption DEF TypeOK
<1>2. /\ worker[w] = from
      /\ worker'[w] = to
      /\ DOMAIN worker' = DOMAIN worker
      /\ \A y \in DOMAIN worker : y # w => worker'[y] = worker[y]
  BY DEF Goto, TypeOK
<1>3. Count(worker', S) = Count(worker, S) + One(worker'[w], S) - One(worker[w], S)
  BY <1>1, <1>2, CountUpdate
<1> QED
  BY <1>2, <1>3

\* The effect of an enqueue call's step on the counts of calls.
LEMMA AdvanceCounts ==
    ASSUME TypeOK, NEW t \in Tasks, NEW from, NEW to, Advance(t, from, to), NEW S
    PROVE  Count(call', S) = Count(call, S) + One(to, S) - One(from, S)
<1>1. IsFiniteSet(DOMAIN call) /\ t \in DOMAIN call
  BY ConstantsAssumption DEF TypeOK
<1>2. /\ call[t] = from
      /\ call'[t] = to
      /\ DOMAIN call' = DOMAIN call
      /\ \A y \in DOMAIN call : y # t => call'[y] = call[y]
  BY DEF Advance, TypeOK
<1>3. Count(call', S) = Count(call, S) + One(call'[t], S) - One(call[t], S)
  BY <1>1, <1>2, CountUpdate
<1> QED
  BY <1>2, <1>3

-----------------------------------------------------------------------------
(***************************************************************************)
(* Types.                                                                  *)
(***************************************************************************)

\* The owner creates threads only while some are left to create.
SpawnsLeft == phase \in {"ctor", "adding"} => to_spawn >= 1

TypeInv == TypeOK /\ SpawnsLeft

\* The constructor starts with well-typed variables.
LEMMA TypeInit == Init => TypeInv
<1> SUFFICES ASSUME Init PROVE TypeInv
  OBVIOUS
<1>1. /\ worker \in [Threads -> WorkerPC]
      /\ ptr \in [Threads -> Tasks \cup {NoTask}]
      /\ old \in [Threads -> Int]
      /\ call \in [Tasks -> CallPC]
      /\ fn \in [Tasks -> FnState]
      /\ ran \in [Tasks -> Nat]
      /\ removal \in [Removals -> {"idle", "store", "returned"}]
      /\ new_target \in [Removals -> Nat]
  BY DEF Init, WorkerPC, CallPC, FnState
<1>2. queue_ \in Seq(Tasks)
  BY DEF Init
<1>3. stop_ \in BOOLEAN
  BY Zenon DEF Init
<1>4. /\ active_threads_ \in Int /\ target_thread_count_ \in Nat
      /\ task_sem_ \in Nat /\ leftover_ \in Int /\ to_spawn \in Nat
  BY ConstantsAssumption DEF Init
<1>5. phase \in Phase /\ SpawnsLeft
  BY ConstantsAssumption DEF Init, Phase, SpawnsLeft
<1> QED
  BY <1>1, <1>2, <1>3, <1>4, <1>5 DEF TypeInv, TypeOK

\* The steps of enqueue keep the types.
LEMMA TypeEnqueue ==
    ASSUME TypeInv, NEW t \in Tasks, Enqueue(t)
    PROVE  TypeInv'
<1> USE DEF TypeInv, TypeOK, SpawnsLeft, CallPC, FnState, Advance, Alive, Running,
        nonTaskVars, localVars, sizeVars, resizeVars, phaseVars
<1>1. CASE EnqueueBegin(t)
  BY <1>1 DEF EnqueueBegin
<1>2. CASE EnqueueReject(t)
  BY <1>2 DEF EnqueueReject
<1>3. CASE EnqueuePush(t)
  BY <1>3 DEF EnqueuePush
<1>4. CASE EnqueueAbandon(t)
  BY <1>4 DEF EnqueueAbandon
<1>5. CASE EnqueueCount(t)
  BY <1>5 DEF EnqueueCount
<1>6. CASE EnqueueSignal(t)
  BY <1>6 DEF EnqueueSignal, Signal
<1> QED
  BY <1>1, <1>2, <1>3, <1>4, <1>5, <1>6 DEF Enqueue

\* The steps of worker() keep the types.
LEMMA TypeWorker ==
    ASSUME TypeInv, NEW w \in Threads, Worker(w)
    PROVE  TypeInv'
<1> USE DEF TypeInv, TypeOK, SpawnsLeft, WorkerPC, FnState, Phase, Goto, Running, Exit,
        nonPcVars, nonResizeVars, taskVars, localVars, sizeVars, resizeVars, phaseVars
<1>1. CASE WorkerStart(w)
  BY <1>1 DEF WorkerStart
<1>2. CASE WorkerLoop(w)
  BY <1>2 DEF WorkerLoop
<1>3. CASE WorkerAcquire(w)
  BY <1>3 DEF WorkerAcquire
<1>4. CASE WorkerTimeout(w)
  BY <1>4 DEF WorkerTimeout
<1>5. CASE WorkerPop(w)
  BY <1>5 DEF WorkerPop, Take
<1>6. CASE WorkerPopEmpty(w)
  BY <1>6 DEF WorkerPopEmpty
<1>7. CASE WorkerRun(w)
  <2>1. ran' \in [Tasks -> Nat]
    <3>1. ran' = [ran EXCEPT ![ptr[w]] = ran[ptr[w]] + 1]
      BY <1>7 DEF WorkerRun
    <3>2. CASE ptr[w] \in Tasks
      BY <3>1, <3>2
    <3>3. CASE ptr[w] \notin Tasks
      BY <3>1, <3>3
    <3> QED
      BY <3>2, <3>3
  <2> QED
    BY <1>7, <2>1 DEF WorkerRun
<1>8. CASE WorkerThrow(w)
  BY <1>8 DEF WorkerThrow
<1>9. CASE WorkerUncount(w)
  BY <1>9 DEF WorkerUncount
<1>10. CASE WorkerSize(w)
  BY <1>10 DEF WorkerSize
<1>11. CASE WorkerLoad(w)
  BY <1>11 DEF WorkerLoad
<1>12. CASE WorkerCompare(w)
  BY <1>12 DEF WorkerCompare, Compare
<1>13. CASE WorkerRetire(w)
  BY <1>13 DEF WorkerRetire
<1>14. CASE WorkerStay(w)
  BY <1>14 DEF WorkerStay
<1>15. CASE WorkerLeave(w)
  BY <1>15 DEF WorkerLeave
<1> QED
  BY <1>1, <1>2, <1>3, <1>4, <1>5, <1>6, <1>7, <1>8, <1>9, <1>10, <1>11, <1>12,
     <1>13, <1>14, <1>15 DEF Worker

\* add_threads, remove_threads and the creation of threads keep the types.
LEMMA TypeResize ==
    ASSUME TypeInv,
           \/ \E w \in Threads : Spawn(w)
           \/ \E r \in Removals : RemoveStore(r) \/ \E n \in RemoveSizes : RemoveLoad(r, n)
           \/ \E n \in AddSizes : AddThreads(n)
    PROVE  TypeInv'
<1> USE DEF TypeInv, TypeOK, SpawnsLeft, WorkerPC, Phase, Goto, Alive, Running,
        nonResizeVars, taskVars, localVars, sizeVars, resizeVars, phaseVars
<1>1. ASSUME NEW w \in Threads, Spawn(w) PROVE TypeInv'
  BY <1>1 DEF Spawn
<1>2. ASSUME NEW r \in Removals, RemoveStore(r) PROVE TypeInv'
  BY <1>2 DEF RemoveStore
<1>3. ASSUME NEW r \in Removals, NEW n \in RemoveSizes, RemoveLoad(r, n) PROVE TypeInv'
  BY <1>3, ConstantsAssumption DEF RemoveLoad
<1>4. ASSUME NEW n \in AddSizes, AddThreads(n) PROVE TypeInv'
  BY <1>4, ConstantsAssumption DEF AddThreads
<1> QED
  BY <1>1, <1>2, <1>3, <1>4

\* shutdown and the steps of the destructor keep the types.
LEMMA TypeDestroy ==
    ASSUME TypeInv, Shutdown \/ DestroyBegin \/ Destroy \/ Finished
    PROVE  TypeInv'
<1> USE DEF TypeInv, TypeOK, SpawnsLeft, FnState, Phase, Alive,
        nonResizeVars, taskVars, localVars, sizeVars, resizeVars, phaseVars
<1>1. CASE Shutdown
  BY <1>1 DEF Shutdown
<1>2. CASE DestroyBegin
  BY <1>2 DEF DestroyBegin, DestroyStop
<1>3. CASE DestroyWake
  <2>1. Count(worker, WorkerPC \ {"unborn"}) \in Nat
    BY CountFacts, ConstantsAssumption
  <2> QED
    BY <1>3, <2>1 DEF DestroyWake
<1>4. CASE DestroyDrain
  BY <1>4 DEF DestroyDrain
<1>5. CASE DestroyDiscount
  BY <1>5 DEF DestroyDiscount
<1>6. CASE DestroyDrained
  BY <1>6 DEF DestroyDrained
<1>7. CASE DestroyJoin
  BY <1>7 DEF DestroyJoin
<1>8. CASE Finished
  BY <1>8 DEF Finished, vars
<1> QED
  BY <1>1, <1>2, <1>3, <1>4, <1>5, <1>6, <1>7, <1>8 DEF Destroy

\* Every step of the pool keeps the types.
LEMMA TypeNext == TypeInv /\ [Next]_vars => TypeInv'
<1> SUFFICES ASSUME TypeInv, [Next]_vars PROVE TypeInv'
  OBVIOUS
<1>1. CASE UNCHANGED vars
  BY <1>1 DEF vars, TypeInv, TypeOK, SpawnsLeft
<1>2. CASE Next
  BY <1>2, TypeEnqueue, TypeWorker, TypeResize, TypeDestroy DEF Next
<1> QED
  BY <1>1, <1>2

\* The variables of the pool keep their types, whatever its threads and callers
\* do; in particular the target of remove_threads is clamped at zero.
THEOREM TypeCorrect == Spec => []TypeOK
<1>1. Spec => []TypeInv
  BY TypeInit, TypeNext, PTL DEF Spec
<1> QED
  BY <1>1, PTL DEF TypeInv

-----------------------------------------------------------------------------
(***************************************************************************)
(* The counters.                                                           *)
(***************************************************************************)

Popping     == Count(worker, {"pop"})
Executing   == Count(worker, {"run", "uncount"})
Inside      == Count(worker, WorkerPC \ {"unborn", "start", "gone"})
Unsignalled == Count(call, {"count", "signal"})
Uncounted   == Count(call, {"count"})

\* Once the destructor has begun the pool is stopped and no enqueue call is in
\* progress.
QuietDestruction ==
    phase \in {"wake", "drain", "discount", "join", "destroyed"} =>
        stop_ /\ \A t \in Tasks : call[t] \in {"idle", "returned", "rejected"}

\* The inductive invariant.  The permits bound the counter leftover_ from below
\* as long as calls are in progress, and QuietDestruction says when they are not.
Accounts == /\ TypeInv
            /\ QuietDestruction
            /\ PermitPerTask
            /\ LeftoverExact
            /\ ActiveExact

\* A worker's step moves the worker counts by one at most.
LEMMA WorkerEffect ==
    ASSUME TypeOK, NEW w \in Threads, NEW from, NEW to, Goto(w, from, to)
    PROVE  /\ Popping' = Popping + One(to, {"pop"}) - One(from, {"pop"})
           /\ Executing' = Executing + One(to, {"run", "uncount"}) - One(from, {"run", "uncount"})
           /\ Inside' = Inside + One(to, WorkerPC \ {"unborn", "start", "gone"})
                               - One(from, WorkerPC \ {"unborn", "start", "gone"})
BY GotoCounts DEF Popping, Executing, Inside

\* An enqueue call's step moves the call counts by one at most.
LEMMA CallEffect ==
    ASSUME TypeOK, NEW t \in Tasks, NEW from, NEW to, Advance(t, from, to)
    PROVE  /\ Unsignalled' = Unsignalled + One(to, {"count", "signal"}) - One(from, {"count", "signal"})
           /\ Uncounted' = Uncounted + One(to, {"count"}) - One(from, {"count"})
BY AdvanceCounts DEF Unsignalled, Uncounted

\* The counts the invariant speaks of are natural numbers.
LEMMA CountsAreNat ==
    ASSUME TypeOK
    PROVE  /\ Popping \in Nat /\ Executing \in Nat /\ Inside \in Nat
           /\ Unsignalled \in Nat /\ Uncounted \in Nat
           /\ Uncounted <= Unsignalled
<1>1. IsFiniteSet(DOMAIN worker) /\ IsFiniteSet(DOMAIN call)
  BY ConstantsAssumption DEF TypeOK
<1>2. /\ Popping \in Nat /\ Executing \in Nat /\ Inside \in Nat
      /\ Unsignalled \in Nat /\ Uncounted \in Nat
  BY <1>1, CountFacts DEF Popping, Executing, Inside, Unsignalled, Uncounted
<1>3. Uncounted <= Unsignalled
  <2> DEFINE A == {t \in DOMAIN call : call[t] \in {"count"}}
             B == {t \in DOMAIN call : call[t] \in {"count", "signal"}}
  <2>1. A \subseteq B /\ IsFiniteSet(B)
    BY <1>1, FS_Subset
  <2>2. Cardinality(A) <= Cardinality(B)
    BY <2>1, FS_Subset
  <2> QED
    BY <2>2 DEF Uncounted, Unsignalled, Count
<1> QED
  BY <1>2, <1>3

\* The books are balanced when the constructor begins.
LEMMA AccountsInit == Init => Accounts
<1> SUFFICES ASSUME Init PROVE Accounts
  OBVIOUS
<1>1. TypeInv
  BY TypeInit
<1>2. IsFiniteSet(DOMAIN worker) /\ IsFiniteSet(DOMAIN call)
  BY ConstantsAssumption DEF Init
<1>3. /\ Popping = 0 /\ Executing = 0 /\ Inside = 0 /\ Unsignalled = 0 /\ Uncounted = 0
  BY <1>2, CountFacts DEF Init, Popping, Executing, Inside, Unsignalled, Uncounted
<1> QED
  BY <1>1, <1>3 DEF Init, Accounts, QuietDestruction, PermitPerTask, LeftoverExact, ActiveExact,
                    Popping, Executing, Inside, Unsignalled, Uncounted

\* The steps of enqueue keep the books balanced: push, count and signal
\* move a task from one column to the next.
LEMMA AccountsEnqueue ==
    ASSUME Accounts, NEW t \in Tasks, Enqueue(t)
    PROVE  Accounts'
<1>1. TypeInv /\ TypeInv'
  BY TypeEnqueue DEF Accounts
<1>2. TypeOK /\ TypeOK'
  BY <1>1 DEF TypeInv
<1>3. Popping' = Popping /\ Executing' = Executing /\ Inside' = Inside
  BY DEF Enqueue, EnqueueBegin, EnqueueReject, EnqueuePush, EnqueueAbandon, EnqueueCount,
         EnqueueSignal, Signal, nonTaskVars, Popping, Executing, Inside
<1>4. stop_' = stop_ /\ phase' = phase /\ active_threads_' = active_threads_
  BY DEF Enqueue, EnqueueBegin, EnqueueReject, EnqueuePush, EnqueueAbandon, EnqueueCount,
         EnqueueSignal, Signal, nonTaskVars, sizeVars, phaseVars
<1>5. phase \notin {"wake", "drain", "discount", "join", "destroyed"} /\ QuietDestruction'
  BY <1>4 DEF Accounts, QuietDestruction, Enqueue, EnqueueBegin, EnqueueReject, EnqueuePush,
     EnqueueAbandon, EnqueueCount, EnqueueSignal, Signal, Advance, Alive
<1>6. ActiveExact'
  BY <1>3, <1>4 DEF Accounts, ActiveExact, Inside
<1>7. SUFFICES PermitPerTask' /\ LeftoverExact'
  BY <1>1, <1>5, <1>6 DEF Accounts
<1>8. /\ PermitPerTask <=> (phase \in {"ctor", "alive", "adding", "wake"} =>
                                Len(queue_) = task_sem_ + Popping + Unsignalled)
      /\ LeftoverExact <=> (Running => leftover_ = Len(queue_) + Executing
                                + (IF phase = "discount" THEN 1 ELSE 0) - Uncounted)
      /\ PermitPerTask' <=> (phase' \in {"ctor", "alive", "adding", "wake"} =>
                                Len(queue_') = task_sem_' + Popping' + Unsignalled')
      /\ LeftoverExact' <=> (Running' => leftover_' = Len(queue_') + Executing'
                                + (IF phase' = "discount" THEN 1 ELSE 0) - Uncounted')
  BY DEF PermitPerTask, LeftoverExact, Popping, Executing, Unsignalled, Uncounted
<1>9. /\ Popping \in Nat /\ Executing \in Nat /\ Unsignalled \in Nat /\ Uncounted \in Nat
      /\ Len(queue_) \in Nat /\ task_sem_ \in Nat /\ leftover_ \in Int
  BY <1>2, CountsAreNat DEF TypeOK

<1>10. CASE EnqueueBegin(t)
  <2>1. Unsignalled' = Unsignalled /\ Uncounted' = Uncounted
    <3>1. Advance(t, "idle", "push")
      BY <1>10 DEF EnqueueBegin
    <3> QED
      BY <1>2, <1>9, <3>1, CallEffect DEF One
  <2> QED
    BY <1>3, <1>4, <1>5, <1>8, <1>9, <1>10, <2>1 DEF EnqueueBegin, Accounts, Running
<1>11. CASE EnqueueReject(t)
  <2>1. Unsignalled' = Unsignalled /\ Uncounted' = Uncounted
    <3>1. Advance(t, "idle", "rejected")
      BY <1>11 DEF EnqueueReject
    <3> QED
      BY <1>2, <1>9, <3>1, CallEffect DEF One
  <2> QED
    BY <1>3, <1>4, <1>5, <1>8, <1>9, <1>11, <2>1 DEF EnqueueReject, Accounts, Running
<1>12. CASE EnqueuePush(t)
  <2>1. Unsignalled' = Unsignalled + 1 /\ Uncounted' = Uncounted + 1
    <3>1. Advance(t, "push", "count")
      BY <1>12 DEF EnqueuePush
    <3> QED
      BY <1>2, <1>9, <3>1, CallEffect DEF One
  <2>2. Len(queue_') = Len(queue_) + 1
    BY <1>2, <1>12 DEF EnqueuePush, TypeOK
  <2> QED
    BY <1>3, <1>4, <1>5, <1>8, <1>9, <1>12, <2>1, <2>2 DEF EnqueuePush, Accounts, Running
<1>13. CASE EnqueueAbandon(t)
  <2>1. Unsignalled' = Unsignalled /\ Uncounted' = Uncounted
    <3>1. Advance(t, "push", "rejected")
      BY <1>13 DEF EnqueueAbandon
    <3> QED
      BY <1>2, <1>9, <3>1, CallEffect DEF One
  <2> QED
    BY <1>3, <1>4, <1>5, <1>8, <1>9, <1>13, <2>1 DEF EnqueueAbandon, Accounts, Running
<1>14. CASE EnqueueCount(t)
  <2>1. Unsignalled' = Unsignalled /\ Uncounted' = Uncounted - 1
    <3>1. Advance(t, "count", "signal")
      BY <1>14 DEF EnqueueCount
    <3> QED
      BY <1>2, <1>9, <3>1, CallEffect DEF One
  <2> QED
    BY <1>3, <1>4, <1>5, <1>8, <1>9, <1>14, <2>1 DEF EnqueueCount, Accounts, Running
<1>15. CASE EnqueueSignal(t)
  <2>1. Unsignalled' = Unsignalled - 1 /\ Uncounted' = Uncounted
    <3>1. Advance(t, "signal", "returned")
      BY <1>15 DEF EnqueueSignal, Signal
    <3> QED
      BY <1>2, <1>9, <3>1, CallEffect DEF One
  <2> QED
    BY <1>3, <1>4, <1>5, <1>8, <1>9, <1>15, <2>1 DEF EnqueueSignal, Signal, Accounts, Running
<1> QED
  BY <1>10, <1>11, <1>12, <1>13, <1>14, <1>15 DEF Enqueue

\* The steps of worker() keep the books balanced: a permit is taken before a
\* task is popped, and a thread is subtracted once however it leaves.
LEMMA AccountsWorker ==
    ASSUME Accounts, NEW w \in Threads, Worker(w)
    PROVE  Accounts'
<1>1. TypeInv /\ TypeInv'
  BY TypeWorker DEF Accounts
<1>2. TypeOK /\ TypeOK'
  BY <1>1 DEF TypeInv
<1>3. call' = call /\ stop_' = stop_
  BY DEF Worker, WorkerStart, WorkerLoop, WorkerAcquire, WorkerTimeout, WorkerPop, Take,
         WorkerPopEmpty, WorkerRun, WorkerThrow, WorkerUncount, WorkerSize, WorkerLoad,
         WorkerCompare, Compare, WorkerRetire, WorkerStay, WorkerLeave, Exit,
         nonPcVars, nonResizeVars, taskVars
<1>4. Unsignalled' = Unsignalled /\ Uncounted' = Uncounted
  BY <1>3 DEF Unsignalled, Uncounted
<1>5. phase' = phase \/ phase' = "terminated"
  BY DEF Worker, WorkerStart, WorkerLoop, WorkerAcquire, WorkerTimeout, WorkerPop, Take,
         WorkerPopEmpty, WorkerRun, WorkerThrow, WorkerUncount, WorkerSize, WorkerLoad,
         WorkerCompare, Compare, WorkerRetire, WorkerStay, WorkerLeave, Exit,
         nonPcVars, phaseVars
<1>6. QuietDestruction'
  BY <1>3, <1>5 DEF Accounts, QuietDestruction
<1>7. SUFFICES PermitPerTask' /\ LeftoverExact' /\ ActiveExact'
  BY <1>1, <1>6 DEF Accounts
<1>8. /\ PermitPerTask <=> (phase \in {"ctor", "alive", "adding", "wake"} =>
                                Len(queue_) = task_sem_ + Popping + Unsignalled)
      /\ LeftoverExact <=> (Running => leftover_ = Len(queue_) + Executing
                                + (IF phase = "discount" THEN 1 ELSE 0) - Uncounted)
      /\ ActiveExact <=> active_threads_ = Inside
      /\ PermitPerTask' <=> (phase' \in {"ctor", "alive", "adding", "wake"} =>
                                Len(queue_') = task_sem_' + Popping' + Unsignalled')
      /\ LeftoverExact' <=> (Running' => leftover_' = Len(queue_') + Executing'
                                + (IF phase' = "discount" THEN 1 ELSE 0) - Uncounted')
      /\ ActiveExact' <=> active_threads_' = Inside'
  BY DEF PermitPerTask, LeftoverExact, ActiveExact, Popping, Executing, Inside, Unsignalled, Uncounted
<1>9. /\ Popping \in Nat /\ Executing \in Nat /\ Inside \in Nat
      /\ Unsignalled \in Nat /\ Uncounted \in Nat
      /\ Len(queue_) \in Nat /\ task_sem_ \in Nat /\ leftover_ \in Int /\ active_threads_ \in Int
  BY <1>2, CountsAreNat DEF TypeOK

<1>10. CASE WorkerStart(w)
  <2>1. Popping' = Popping /\ Executing' = Executing /\ Inside' = Inside + 1
    <3>1. Goto(w, "start", "loop")
      BY <1>10 DEF WorkerStart
    <3> QED
      BY <1>2, <1>9, <3>1, WorkerEffect DEF One, WorkerPC
  <2> QED
    BY <1>4, <1>5, <1>8, <1>9, <1>10, <2>1
    DEF WorkerStart, Accounts, Goto, Running, nonPcVars, taskVars, sizeVars, phaseVars
<1>11. CASE WorkerLoop(w)
  <2>1. Popping' = Popping /\ Executing' = Executing /\ Inside' = Inside
    <3>1. Goto(w, "loop",
                  IF stop_ THEN "leave" ELSE "wait")
      BY <1>11 DEF WorkerLoop
    <3> QED
      BY <1>2, <1>9, <3>1, WorkerEffect DEF One, WorkerPC
  <2> QED
    BY <1>4, <1>5, <1>8, <1>9, <1>11, <2>1
    DEF WorkerLoop, Accounts, Goto, Running, nonPcVars, taskVars, sizeVars, phaseVars
<1>12. CASE WorkerAcquire(w)
  <2>1. Popping' = Popping + 1 /\ Executing' = Executing /\ Inside' = Inside
    <3>1. Goto(w, "wait", "pop")
      BY <1>12 DEF WorkerAcquire
    <3> QED
      BY <1>2, <1>9, <3>1, WorkerEffect DEF One, WorkerPC
  <2> QED
    BY <1>4, <1>5, <1>8, <1>9, <1>12, <2>1
    DEF WorkerAcquire, Accounts, Goto, Running, nonPcVars, taskVars, sizeVars, phaseVars
<1>13. CASE WorkerTimeout(w)
  <2>1. Popping' = Popping /\ Executing' = Executing /\ Inside' = Inside
    <3>1. Goto(w, "wait", "size")
      BY <1>13 DEF WorkerTimeout
    <3> QED
      BY <1>2, <1>9, <3>1, WorkerEffect DEF One, WorkerPC
  <2> QED
    BY <1>4, <1>5, <1>8, <1>9, <1>13, <2>1
    DEF WorkerTimeout, Accounts, Goto, Running, nonPcVars, taskVars, sizeVars, phaseVars
<1>14. CASE WorkerPop(w)
  <2>1. Popping' = Popping - 1 /\ Executing' = Executing + 1 /\ Inside' = Inside
    <3>1. Goto(w, "pop", "run")
      BY <1>14 DEF WorkerPop, Take
    <3> QED
      BY <1>2, <1>9, <3>1, WorkerEffect DEF One, WorkerPC
  <2>2. Len(queue_') = Len(queue_) - 1
    BY <1>2, <1>14 DEF WorkerPop, Take, TypeOK
  <2>3. /\ task_sem_' = task_sem_ /\ leftover_' = leftover_ /\ phase' = phase /\ Running
        /\ active_threads_' = active_threads_
    BY <1>14 DEF WorkerPop, Take, Goto, sizeVars, phaseVars
  <2> QED
    BY <1>4, <1>8, <1>9, <2>1, <2>2, <2>3 DEF Accounts, Running
<1>15. CASE WorkerPopEmpty(w)
  <2>1. Popping' = Popping - 1 /\ Executing' = Executing /\ Inside' = Inside
    <3>1. Goto(w, "pop", "size")
      BY <1>15 DEF WorkerPopEmpty
    <3> QED
      BY <1>2, <1>9, <3>1, WorkerEffect DEF One, WorkerPC
  <2>2. Popping >= 1 /\ Len(queue_) = 0
    <3>1. IsFiniteSet(DOMAIN worker) /\ w \in DOMAIN worker /\ worker[w] \in {"pop"}
      BY <1>15, <1>2, ConstantsAssumption DEF WorkerPopEmpty, Goto, TypeOK
    <3>2. Popping >= 1
      BY <3>1, CountFacts DEF Popping
    <3> QED
      BY <3>2, <1>15 DEF WorkerPopEmpty
  <2>3. phase \notin {"ctor", "alive", "adding", "wake"}
    BY <1>8, <1>9, <2>2 DEF Accounts
  <2> QED
    BY <1>4, <1>5, <1>8, <1>9, <1>15, <2>1, <2>3
    DEF WorkerPopEmpty, Accounts, Goto, Running, nonPcVars, taskVars, sizeVars, phaseVars
<1>16. CASE WorkerRun(w)
  <2>1. Popping' = Popping /\ Executing' = Executing /\ Inside' = Inside
    <3>1. Goto(w, "run", "uncount")
      BY <1>16 DEF WorkerRun
    <3> QED
      BY <1>2, <1>9, <3>1, WorkerEffect DEF One, WorkerPC
  <2> QED
    BY <1>4, <1>5, <1>8, <1>9, <1>16, <2>1
    DEF WorkerRun, Accounts, Goto, Running, nonPcVars, taskVars, sizeVars, phaseVars
<1>17. CASE WorkerThrow(w)
  <2>1. phase' = "terminated" /\ active_threads_' = active_threads_ /\ worker' = worker
    BY <1>17 DEF WorkerThrow, nonResizeVars, sizeVars
  <2> QED
    BY <1>8, <2>1 DEF Accounts, Running, Inside
<1>18. CASE WorkerUncount(w)
  <2>1. Popping' = Popping /\ Executing' = Executing - 1 /\ Inside' = Inside
    <3>1. Goto(w, "uncount", "size")
      BY <1>18 DEF WorkerUncount
    <3> QED
      BY <1>2, <1>9, <3>1, WorkerEffect DEF One, WorkerPC
  <2> QED
    BY <1>4, <1>5, <1>8, <1>9, <1>18, <2>1
    DEF WorkerUncount, Accounts, Goto, Running, nonPcVars, taskVars, sizeVars, phaseVars
<1>19. CASE WorkerSize(w)
  <2>1. Popping' = Popping /\ Executing' = Executing /\ Inside' = Inside
    <3>1. Goto(w, "size",
                  IF active_threads_ > target_thread_count_ THEN "load" ELSE "loop")
      BY <1>19 DEF WorkerSize
    <3> QED
      BY <1>2, <1>9, <3>1, WorkerEffect DEF One, WorkerPC
  <2> QED
    BY <1>4, <1>5, <1>8, <1>9, <1>19, <2>1
    DEF WorkerSize, Accounts, Goto, Running, nonPcVars, taskVars, sizeVars, phaseVars
<1>20. CASE WorkerLoad(w)
  <2>1. Popping' = Popping /\ Executing' = Executing /\ Inside' = Inside
    <3>1. Goto(w, "load", "compare")
      BY <1>20 DEF WorkerLoad
    <3> QED
      BY <1>2, <1>9, <3>1, WorkerEffect DEF One, WorkerPC
  <2> QED
    BY <1>4, <1>5, <1>8, <1>9, <1>20, <2>1
    DEF WorkerLoad, Accounts, Goto, Running, nonPcVars, taskVars, sizeVars, phaseVars
<1>21. CASE WorkerCompare(w)
  <2>1. Popping' = Popping /\ Executing' = Executing /\ Inside' = Inside
    <3>1. Goto(w, "compare",
                  IF old[w] > target_thread_count_ THEN "cas" ELSE "loop")
      BY <1>21 DEF WorkerCompare, Compare
    <3> QED
      BY <1>2, <1>9, <3>1, WorkerEffect DEF One, WorkerPC
  <2> QED
    BY <1>4, <1>5, <1>8, <1>9, <1>21, <2>1
    DEF WorkerCompare, Compare, Accounts, Goto, Running, nonPcVars, taskVars, sizeVars, phaseVars
<1>22. CASE WorkerRetire(w)
  <2>1. Popping' = Popping /\ Executing' = Executing /\ Inside' = Inside - 1
    <3>1. Goto(w, "cas", "gone")
      BY <1>22 DEF WorkerRetire, Exit
    <3> QED
      BY <1>2, <1>9, <3>1, WorkerEffect DEF One, WorkerPC
  <2> QED
    BY <1>4, <1>5, <1>8, <1>9, <1>22, <2>1
    DEF WorkerRetire, Exit, Accounts, Goto, Running, nonPcVars, taskVars, sizeVars, phaseVars
<1>23. CASE WorkerStay(w)
  <2>1. Popping' = Popping /\ Executing' = Executing /\ Inside' = Inside
    <3>1. Goto(w, "cas", "loop")
      BY <1>23 DEF WorkerStay
    <3> QED
      BY <1>2, <1>9, <3>1, WorkerEffect DEF One, WorkerPC
  <2> QED
    BY <1>4, <1>5, <1>8, <1>9, <1>23, <2>1
    DEF WorkerStay, Accounts, Goto, Running, nonPcVars, taskVars, sizeVars, phaseVars
<1>24. CASE WorkerLeave(w)
  <2>1. Popping' = Popping /\ Executing' = Executing /\ Inside' = Inside - 1
    <3>1. Goto(w, "leave", "gone")
      BY <1>24 DEF WorkerLeave, Exit
    <3> QED
      BY <1>2, <1>9, <3>1, WorkerEffect DEF One, WorkerPC
  <2> QED
    BY <1>4, <1>5, <1>8, <1>9, <1>24, <2>1
    DEF WorkerLeave, Exit, Accounts, Goto, Running, nonPcVars, taskVars, sizeVars, phaseVars
<1> QED
  BY <1>10, <1>11, <1>12, <1>13, <1>14, <1>15, <1>16, <1>17, <1>18,
     <1>19, <1>20, <1>21, <1>22, <1>23, <1>24 DEF Worker

\* add_threads, remove_threads and the creation of threads leave the books
\* of tasks and permits alone, and a new thread is not yet counted.
LEMMA AccountsResize ==
    ASSUME Accounts,
           \/ \E w \in Threads : Spawn(w)
           \/ \E r \in Removals : RemoveStore(r) \/ \E n \in RemoveSizes : RemoveLoad(r, n)
           \/ \E n \in AddSizes : AddThreads(n)
    PROVE  Accounts'
<1>1. TypeInv /\ TypeInv'
  BY TypeResize DEF Accounts
<1>2. TypeOK /\ TypeOK'
  BY <1>1 DEF TypeInv
<1>3. /\ queue_' = queue_ /\ task_sem_' = task_sem_ /\ leftover_' = leftover_ /\ call' = call
      /\ stop_' = stop_ /\ active_threads_' = active_threads_
  BY DEF Spawn, RemoveStore, RemoveLoad, AddThreads, nonResizeVars, taskVars, sizeVars
<1>4. phase' = phase \/ (phase \in {"ctor", "alive", "adding"} /\ phase' \in {"alive", "adding"})
  BY DEF Spawn, RemoveStore, RemoveLoad, AddThreads, phaseVars
<1>5. Popping' = Popping /\ Executing' = Executing /\ Inside' = Inside
  <2>1. CASE worker' = worker
    BY <2>1 DEF Popping, Executing, Inside
  <2>2. ASSUME NEW w \in Threads, Spawn(w)
        PROVE  Popping' = Popping /\ Executing' = Executing /\ Inside' = Inside
    <3>1. Goto(w, "unborn", "start")
      BY <2>2 DEF Spawn
    <3>2. Popping \in Nat /\ Executing \in Nat /\ Inside \in Nat
      BY <1>2, CountsAreNat
    <3> QED
      BY <1>2, <3>1, <3>2, WorkerEffect DEF One, WorkerPC
  <2> QED
    BY <2>1, <2>2 DEF RemoveStore, RemoveLoad, AddThreads, nonResizeVars
<1>6. Unsignalled' = Unsignalled /\ Uncounted' = Uncounted
  BY <1>3 DEF Unsignalled, Uncounted
<1>7. QuietDestruction'
  BY <1>3, <1>4 DEF Accounts, QuietDestruction
<1>8. /\ PermitPerTask <=> (phase \in {"ctor", "alive", "adding", "wake"} =>
                                Len(queue_) = task_sem_ + Popping + Unsignalled)
      /\ LeftoverExact <=> (Running => leftover_ = Len(queue_) + Executing
                                + (IF phase = "discount" THEN 1 ELSE 0) - Uncounted)
      /\ ActiveExact <=> active_threads_ = Inside
      /\ PermitPerTask' <=> (phase' \in {"ctor", "alive", "adding", "wake"} =>
                                Len(queue_') = task_sem_' + Popping' + Unsignalled')
      /\ LeftoverExact' <=> (Running' => leftover_' = Len(queue_') + Executing'
                                + (IF phase' = "discount" THEN 1 ELSE 0) - Uncounted')
      /\ ActiveExact' <=> active_threads_' = Inside'
  BY DEF PermitPerTask, LeftoverExact, ActiveExact, Popping, Executing, Inside, Unsignalled, Uncounted
<1>9. /\ Popping \in Nat /\ Executing \in Nat /\ Inside \in Nat
      /\ Unsignalled \in Nat /\ Uncounted \in Nat
      /\ Len(queue_) \in Nat /\ task_sem_ \in Nat /\ leftover_ \in Int /\ active_threads_ \in Int
  BY <1>2, CountsAreNat DEF TypeOK
<1> QED
  BY <1>1, <1>3, <1>4, <1>5, <1>6, <1>7, <1>8, <1>9 DEF Accounts, Running

\* shutdown and the steps of the destructor keep the books balanced.
LEMMA AccountsDestroy ==
    ASSUME Accounts, Shutdown \/ DestroyBegin \/ Destroy \/ Finished
    PROVE  Accounts'
<1>1. TypeInv /\ TypeInv'
  BY TypeDestroy DEF Accounts
<1>2. TypeOK /\ TypeOK'
  BY <1>1 DEF TypeInv
<1>3. worker' = worker /\ call' = call /\ active_threads_' = active_threads_
  BY DEF Shutdown, DestroyBegin, DestroyStop, Destroy, DestroyWake, DestroyDrain, DestroyDiscount,
         DestroyDrained, DestroyJoin, Finished, vars, nonResizeVars, taskVars, sizeVars
<1>4. /\ Popping' = Popping /\ Executing' = Executing /\ Inside' = Inside
      /\ Unsignalled' = Unsignalled /\ Uncounted' = Uncounted
  BY <1>3 DEF Popping, Executing, Inside, Unsignalled, Uncounted
<1>5. QuietDestruction'
  BY <1>3 DEF Accounts, QuietDestruction, Shutdown, DestroyBegin, DestroyStop, Destroy, DestroyWake,
         DestroyDrain, DestroyDiscount, DestroyDrained, DestroyJoin, Finished, vars, Alive,
         nonResizeVars, phaseVars
<1>8. /\ PermitPerTask <=> (phase \in {"ctor", "alive", "adding", "wake"} =>
                                Len(queue_) = task_sem_ + Popping + Unsignalled)
      /\ LeftoverExact <=> (Running => leftover_ = Len(queue_) + Executing
                                + (IF phase = "discount" THEN 1 ELSE 0) - Uncounted)
      /\ ActiveExact <=> active_threads_ = Inside
      /\ PermitPerTask' <=> (phase' \in {"ctor", "alive", "adding", "wake"} =>
                                Len(queue_') = task_sem_' + Popping' + Unsignalled')
      /\ LeftoverExact' <=> (Running' => leftover_' = Len(queue_') + Executing'
                                + (IF phase' = "discount" THEN 1 ELSE 0) - Uncounted')
      /\ ActiveExact' <=> active_threads_' = Inside'
  BY DEF PermitPerTask, LeftoverExact, ActiveExact, Popping, Executing, Inside, Unsignalled, Uncounted
<1>9. /\ Popping \in Nat /\ Executing \in Nat /\ Inside \in Nat
      /\ Unsignalled \in Nat /\ Uncounted \in Nat
      /\ Len(queue_) \in Nat /\ task_sem_ \in Nat /\ leftover_ \in Int /\ active_threads_ \in Int
  BY <1>2, CountsAreNat DEF TypeOK
<1>10. SUFFICES PermitPerTask' /\ LeftoverExact'
  BY <1>1, <1>3, <1>4, <1>5, <1>8 DEF Accounts
<1>11. CASE Shutdown
  BY <1>4, <1>8, <1>11 DEF Shutdown, Accounts, Running, taskVars, phaseVars
<1>12. CASE DestroyBegin
  BY <1>4, <1>8, <1>12 DEF DestroyBegin, DestroyStop, Accounts, Running, taskVars
<1>13. CASE DestroyWake
  BY <1>4, <1>8, <1>13 DEF DestroyWake, Accounts, Running
<1>14. CASE DestroyDrain
  <2>1. Len(queue_') = Len(queue_) - 1
    BY <1>2, <1>14 DEF DestroyDrain, TypeOK
  <2>2. leftover_' = leftover_ /\ phase = "drain" /\ phase' = "discount"
    BY <1>14 DEF DestroyDrain
  <2> QED
    BY <1>4, <1>8, <1>9, <2>1, <2>2 DEF Accounts, Running
<1>15. CASE DestroyDiscount
  BY <1>4, <1>8, <1>9, <1>15 DEF DestroyDiscount, Accounts, Running
<1>16. CASE DestroyDrained
  BY <1>4, <1>8, <1>16 DEF DestroyDrained, Accounts, Running, nonResizeVars, taskVars
<1>17. CASE DestroyJoin
  BY <1>4, <1>8, <1>17 DEF DestroyJoin, Accounts, Running, nonResizeVars, taskVars
<1>18. CASE Finished
  BY <1>4, <1>8, <1>18 DEF Finished, vars, Accounts, Running
<1> QED
  BY <1>11, <1>12, <1>13, <1>14, <1>15, <1>16, <1>17, <1>18 DEF Destroy

\* Every step of the pool keeps the books balanced: Accounts is inductive.
LEMMA AccountsNext == Accounts /\ [Next]_vars => Accounts'
<1> SUFFICES ASSUME Accounts, [Next]_vars PROVE Accounts'
  OBVIOUS
<1>1. CASE UNCHANGED vars
  BY <1>1 DEF vars, Accounts, TypeInv, TypeOK, SpawnsLeft, QuietDestruction, PermitPerTask,
              LeftoverExact, ActiveExact, Running
<1>2. CASE Next
  BY <1>2, AccountsEnqueue, AccountsWorker, AccountsResize, AccountsDestroy DEF Next
<1> QED
  BY <1>1, <1>2

\* Accounts holds in every reachable state of the pool.
LEMMA AccountsCorrect == Spec => []Accounts
BY AccountsInit, AccountsNext, PTL DEF Spec

\* No task is ever stranded: for any number of concurrent enqueue calls and
\* workers, the tasks in the queue and the permits of worker() correspond one to
\* one until the destructor wakes the workers.
THEOREM PermitPerTaskCorrect == Spec => []PermitPerTask
BY AccountsCorrect, PTL DEF Accounts

\* get_tasks_left() is exact up to the calls between push and fetch_add.
THEOREM LeftoverExactCorrect == Spec => []LeftoverExact
BY AccountsCorrect, PTL DEF Accounts

\* active_threads_ is exact however threads are added and retired.
THEOREM ActiveExactCorrect == Spec => []ActiveExact
BY AccountsCorrect, PTL DEF Accounts

\* While the program runs leftover_ is not negative: before the destructor each
\* uncounted task still has a permit outstanding, and afterwards none is uncounted.
LEMMA LeftoverWhileRunning == Accounts /\ Running => LeftoverNeverWraps
<1> SUFFICES ASSUME Accounts, Running PROVE leftover_ >= 0
  BY DEF LeftoverNeverWraps
<1>1. TypeOK
  BY DEF Accounts, TypeInv
<1>2. /\ leftover_ = Len(queue_) + Executing + (IF phase = "discount" THEN 1 ELSE 0) - Uncounted
      /\ phase \in {"ctor", "alive", "adding", "wake"} =>
             Len(queue_) = task_sem_ + Popping + Unsignalled
  BY DEF Accounts, LeftoverExact, PermitPerTask, Executing, Uncounted, Popping, Unsignalled
<1>3. /\ Popping \in Nat /\ Executing \in Nat /\ Unsignalled \in Nat /\ Uncounted \in Nat
      /\ Uncounted <= Unsignalled /\ Len(queue_) \in Nat /\ task_sem_ \in Nat
  BY <1>1, CountsAreNat DEF TypeOK
<1>4. CASE phase \in {"ctor", "alive", "adding", "wake"}
  BY <1>2, <1>3, <1>4
<1>5. CASE phase \in {"drain", "discount", "join", "destroyed"}
  <2>1. IsFiniteSet(DOMAIN call) /\ \A t \in DOMAIN call : call[t] \notin {"count"}
    BY <1>1, <1>5, ConstantsAssumption DEF Accounts, QuietDestruction, TypeOK
  <2>2. Uncounted = 0
    BY <2>1, CountFacts DEF Uncounted
  <2> QED
    BY <1>2, <1>3, <2>2
<1> QED
  BY <1>1, <1>4, <1>5 DEF TypeOK, Phase, Running

\* The unsigned counter leftover_ never wraps, although worker() may execute and
\* uncount a task before the enqueue call that pushed it has counted it.
THEOREM LeftoverNeverWrapsCorrect == Spec => []LeftoverNeverWraps
<1> DEFINE Halted == Running \/ LeftoverNeverWraps
<1>1. Init => Halted
  BY DEF Init, LeftoverNeverWraps
<1>2. Accounts /\ Halted /\ [Next]_vars => Halted'
  <2> SUFFICES ASSUME Accounts, Halted, [Next]_vars, ~Running'
               PROVE  LeftoverNeverWraps'
    OBVIOUS
  <2>1. LeftoverNeverWraps
    BY LeftoverWhileRunning
  <2>2. leftover_' = leftover_
    <3>1. ASSUME NEW t \in Tasks, Enqueue(t) PROVE leftover_' = leftover_
      BY <3>1 DEF Enqueue, EnqueueBegin, EnqueueReject, EnqueuePush, EnqueueAbandon,
         EnqueueCount, EnqueueSignal, Signal, Advance, Running, nonTaskVars, phaseVars
    <3>2. ASSUME NEW w \in Threads, Worker(w) PROVE leftover_' = leftover_
      BY <3>2 DEF Worker, WorkerStart, WorkerLoop, WorkerAcquire, WorkerTimeout, WorkerPop, Take,
         WorkerPopEmpty, WorkerRun, WorkerThrow, WorkerUncount, WorkerSize, WorkerLoad,
         WorkerCompare, Compare, WorkerRetire, WorkerStay, WorkerLeave, Exit, Goto, Running,
         nonPcVars, nonResizeVars, taskVars, phaseVars
    <3>3. CASE Destroy
      BY <3>3 DEF Destroy, DestroyWake, DestroyDrain, DestroyDiscount, DestroyDrained, DestroyJoin,
         Running, nonResizeVars, taskVars
    <3> QED
      BY <3>1, <3>2, <3>3 DEF Next, Spawn, RemoveStore, RemoveLoad, AddThreads, Shutdown,
         DestroyBegin, DestroyStop, Finished, vars, nonResizeVars, taskVars
  <2> QED
    BY <2>1, <2>2 DEF LeftoverNeverWraps
<1> QED
  BY <1>1, <1>2, AccountsCorrect, LeftoverWhileRunning, PTL DEF Spec

-----------------------------------------------------------------------------
(***************************************************************************)
(* Who holds a std::function.                                              *)
(***************************************************************************)

\* How far its enqueue call is says what may have become of the function.
CallsKnow ==
    \A t \in Tasks :
        /\ call[t] = "idle" => fn[t] = "none"
        /\ call[t] = "push" => fn[t] = "held"
        /\ call[t] = "rejected" => fn[t] \in {"none", "deleted"}
        /\ call[t] \in {"count", "signal", "returned"} => fn[t] \in {"queued", "taken", "deleted"}

\* The queue holds each queued function once.
QueueHolds ==
    /\ \A i, j \in 1..Len(queue_) : queue_[i] = queue_[j] => i = j
    /\ \A i \in 1..Len(queue_) : fn[queue_[i]] = "queued"
    /\ \A t \in Tasks : fn[t] = "queued" => \E i \in 1..Len(queue_) : queue_[i] = t

\* One worker holds each function that was taken from it.
WorkersHold ==
    /\ \A w \in Threads : worker[w] = "run" => ptr[w] \in Tasks /\ fn[ptr[w]] = "taken"
    /\ \A t \in Tasks : fn[t] = "taken" => \E w \in Threads : worker[w] = "run" /\ ptr[w] = t
    /\ \A v, w \in Threads : worker[v] = "run" /\ worker[w] = "run" /\ ptr[v] = ptr[w] => v = w

\* Only a deleted function was called, and once.
CalledOnce == \A t \in Tasks : ran[t] <= IF fn[t] = "deleted" THEN 1 ELSE 0

Held == CallsKnow /\ QueueHolds /\ WorkersHold /\ CalledOnce

\* The invariant says what OneHolderPerTask says.
LEMMA HeldIsOneHolder == ASSUME TypeOK, Held PROVE OneHolderPerTask
<1>1. \A i \in 1..Len(queue_) : queue_[i] \in Tasks BY DEF TypeOK
<1>2. \A t \in Tasks : (fn[t] = "queued") <=> (\E i \in 1..Len(queue_) : queue_[i] = t)
  BY <1>1 DEF Held, QueueHolds
<1>3. \A t \in Tasks : (fn[t] = "taken") <=> (\E w \in Threads : worker[w] = "run" /\ ptr[w] = t)
  BY DEF Held, WorkersHold
<1> QED BY <1>2, <1>3 DEF Held, QueueHolds, WorkersHold, CalledOnce, OneHolderPerTask

\* Nobody holds anything when the pool is constructed.
LEMMA HeldInit == Init => Held
BY DEF Init, Held, CallsKnow, QueueHolds, WorkersHold, CalledOnce

\* Steps that move no function.
LEMMA HeldElsewhere ==
    ASSUME Held, UNCHANGED <<queue_, fn, ran, ptr>>,
           \A t \in Tasks : \/ call'[t] = call[t]
                            \/ /\ call[t] \in {"count", "signal"}
                               /\ call'[t] \in {"signal", "returned"}
                            \/ call[t] = "idle" /\ call'[t] = "rejected",
           \A w \in Threads : worker'[w] = "run" <=> worker[w] = "run"
    PROVE  Held'
<1>1. CallsKnow' BY DEF Held, CallsKnow
<1>2. QueueHolds' /\ CalledOnce' BY DEF Held, QueueHolds, CalledOnce
<1>3. WorkersHold' BY DEF Held, WorkersHold
<1> QED BY <1>1, <1>2, <1>3 DEF Held

\* The steps of enqueue.
LEMMA HeldEnqueue == ASSUME TypeOK, Held, NEW t \in Tasks, Enqueue(t) PROVE Held'
<1> USE DEF Advance, nonTaskVars, localVars, sizeVars, resizeVars, phaseVars
<1>1. CASE EnqueueBegin(t)
  <2>1. /\ call[t] = "idle" /\ call' = [call EXCEPT ![t] = "push"]
        /\ fn' = [fn EXCEPT ![t] = "held"]
        /\ UNCHANGED <<queue_, ran, worker, ptr>>
    BY <1>1 DEF EnqueueBegin
  <2>2. fn[t] = "none" BY <2>1 DEF Held, CallsKnow
  <2>3. CallsKnow' BY <2>1 DEF Held, CallsKnow, TypeOK
  <2>4. QueueHolds' BY <2>1, <2>2 DEF Held, QueueHolds, TypeOK
  <2>5. WorkersHold' BY <2>1, <2>2 DEF Held, WorkersHold, TypeOK
  <2>6. CalledOnce' BY <2>1, <2>2 DEF Held, CalledOnce, TypeOK
  <2> QED BY <2>3, <2>4, <2>5, <2>6 DEF Held
<1>2. CASE EnqueueReject(t)
  <2>1. \A u \in Tasks : call'[u] = call[u] \/ (call[u] = "idle" /\ call'[u] = "rejected")
    BY <1>2 DEF EnqueueReject, TypeOK
  <2> QED BY <1>2, <2>1, HeldElsewhere DEF EnqueueReject
<1>3. CASE EnqueuePush(t)
  <2>1. /\ call[t] = "push" /\ call' = [call EXCEPT ![t] = "count"]
        /\ fn' = [fn EXCEPT ![t] = "queued"]
        /\ queue_' = Append(queue_, t)
        /\ UNCHANGED <<ran, worker, ptr>>
    BY <1>3 DEF EnqueuePush
  <2>2. fn[t] = "held" BY <2>1 DEF Held, CallsKnow
  <2>3. CallsKnow' BY <2>1 DEF Held, CallsKnow, TypeOK
  <2>4. QueueHolds'
    <3> DEFINE n == Len(queue_)
    <3>0. queue_ \in Seq(Tasks) /\ queue_' = Append(queue_, t) BY <2>1 DEF TypeOK
    <3>1. /\ n \in Nat /\ Len(queue_') = n + 1
          /\ \A i \in 1..n : queue_'[i] = queue_[i]
          /\ queue_'[n + 1] = t
      BY <3>0
    <3>2. \A i \in 1..n : queue_[i] \in Tasks /\ queue_[i] # t
      BY <2>2 DEF Held, QueueHolds, TypeOK
    <3>3. \A i \in 1..(n + 1) : i \in 1..n \/ i = n + 1 BY <3>1
    <3>4. fn'[t] = "queued" /\ \A u \in Tasks : u # t => fn'[u] = fn[u] BY <2>1 DEF TypeOK
    <3> HIDE DEF n
    <3>5. \A i, j \in 1..(n + 1) : queue_'[i] = queue_'[j] => i = j
      <4>1. \A i, j \in 1..n : queue_[i] = queue_[j] => i = j BY DEF Held, QueueHolds, n
      <4> SUFFICES ASSUME NEW i \in 1..(n + 1), NEW j \in 1..(n + 1), queue_'[i] = queue_'[j]
                   PROVE  i = j
        OBVIOUS
      <4>2. i \in 1..n /\ j \in 1..n => i = j BY <3>1, <4>1
      <4>3. i \in 1..n /\ j = n + 1 => FALSE BY <3>1, <3>2
      <4>4. i = n + 1 /\ j \in 1..n => FALSE BY <3>1, <3>2
      <4> QED BY <3>3, <4>2, <4>3, <4>4
    <3>6. \A i \in 1..(n + 1) : fn'[queue_'[i]] = "queued"
      <4>1. \A i \in 1..n : fn[queue_[i]] = "queued" BY DEF Held, QueueHolds, n
      <4> SUFFICES ASSUME NEW i \in 1..(n + 1) PROVE fn'[queue_'[i]] = "queued"
        OBVIOUS
      <4>2. CASE i = n + 1 BY <3>1, <3>4, <4>2
      <4>3. CASE i \in 1..n
        <5>1. queue_[i] \in Tasks /\ queue_[i] # t BY <3>2, <4>3
        <5>2. fn'[queue_[i]] = "queued" BY <3>4, <4>1, <4>3, <5>1
        <5> QED BY <3>1, <4>3, <5>2
      <4> QED BY <3>3, <4>2, <4>3
    <3>7. ASSUME NEW u \in Tasks, fn'[u] = "queued"
          PROVE  \E i \in 1..(n + 1) : queue_'[i] = u
      <4>1. CASE u = t BY <3>1, <4>1
      <4>2. CASE u # t
        <5>1. PICK i \in 1..n : queue_[i] = u BY <3>4, <3>7, <4>2 DEF Held, QueueHolds, n
        <5> QED BY <3>1, <5>1
      <4> QED BY <4>1, <4>2
    <3> QED BY <3>1, <3>5, <3>6, <3>7 DEF QueueHolds
  <2>5. WorkersHold' BY <2>1, <2>2 DEF Held, WorkersHold, TypeOK
  <2>6. CalledOnce' BY <2>1, <2>2 DEF Held, CalledOnce, TypeOK
  <2> QED BY <2>3, <2>4, <2>5, <2>6 DEF Held
<1>4. CASE EnqueueAbandon(t)
  <2>1. /\ call[t] = "push" /\ call' = [call EXCEPT ![t] = "rejected"]
        /\ fn' = [fn EXCEPT ![t] = "deleted"]
        /\ UNCHANGED <<queue_, ran, worker, ptr>>
    BY <1>4 DEF EnqueueAbandon
  <2>2. fn[t] = "held" BY <2>1 DEF Held, CallsKnow
  <2>3. CallsKnow' BY <2>1 DEF Held, CallsKnow, TypeOK
  <2>4. QueueHolds' BY <2>1, <2>2 DEF Held, QueueHolds, TypeOK
  <2>5. WorkersHold' BY <2>1, <2>2 DEF Held, WorkersHold, TypeOK
  <2>6. CalledOnce' BY <2>1, <2>2 DEF Held, CalledOnce, TypeOK
  <2> QED BY <2>3, <2>4, <2>5, <2>6 DEF Held
<1>5. CASE EnqueueCount(t) \/ EnqueueSignal(t)
  <2>1. \A u \in Tasks : \/ call'[u] = call[u]
                         \/ call[u] \in {"count", "signal"} /\ call'[u] \in {"signal", "returned"}
    BY <1>5 DEF EnqueueCount, EnqueueSignal, Signal, TypeOK
  <2> QED BY <1>5, <2>1, HeldElsewhere DEF EnqueueCount, EnqueueSignal, Signal
<1> QED BY <1>1, <1>2, <1>3, <1>4, <1>5 DEF Enqueue

\* queue_.pop: the function at the head leaves the queue.
LEMMA HeadLeaves ==
    ASSUME TypeOK, Held, queue_ # <<>>, NEW s \in {"taken", "deleted"},
           queue_' = Tail(queue_), fn' = [fn EXCEPT ![Head(queue_)] = s]
    PROVE  Head(queue_) \in Tasks /\ fn[Head(queue_)] = "queued" /\ QueueHolds'
<1> DEFINE n == Len(queue_)
<1> DEFINE h == Head(queue_)
<1>1. /\ n \in Nat /\ n >= 1 /\ h = queue_[1] /\ h \in Tasks
      /\ \A i \in 1..n : queue_[i] \in Tasks
      /\ Len(queue_') = n - 1
      /\ \A i \in 1..(n - 1) : queue_'[i] = queue_[i + 1]
  BY DEF TypeOK
<1> HIDE DEF n, h
<1>2. /\ \A i, j \in 1..n : queue_[i] = queue_[j] => i = j
      /\ \A i \in 1..n : fn[queue_[i]] = "queued"
      /\ \A t \in Tasks : fn[t] = "queued" => \E i \in 1..n : queue_[i] = t
  BY DEF Held, QueueHolds, n
<1>3. fn'[h] = s /\ \A t \in Tasks : t # h => fn'[t] = fn[t] BY <1>1 DEF TypeOK, h
<1>4. \A i \in 1..(n - 1) : i + 1 \in 1..n /\ queue_[i + 1] # h BY <1>1, <1>2
<1>5. fn[h] = "queued" BY <1>1, <1>2
<1>6. \A i, j \in 1..(n - 1) : queue_'[i] = queue_'[j] => i = j BY <1>1, <1>2, <1>4
<1>7. \A i \in 1..(n - 1) : fn'[queue_'[i]] = "queued" BY <1>1, <1>2, <1>3, <1>4
<1>8. ASSUME NEW t \in Tasks, fn'[t] = "queued"
      PROVE  \E i \in 1..(n - 1) : queue_'[i] = t
  <2>1. t # h /\ fn[t] = "queued" BY <1>3, <1>8
  <2>2. PICK i \in 1..n : queue_[i] = t BY <1>2, <2>1
  <2>3. i # 1 BY <1>1, <2>1, <2>2
  <2>4. i - 1 \in 1..(n - 1) /\ (i - 1) + 1 = i BY <1>1, <2>3
  <2> QED BY <1>1, <2>2, <2>4
<1> QED BY <1>1, <1>5, <1>6, <1>7, <1>8 DEF QueueHolds, h

\* The steps of a worker.
LEMMA HeldWorker ==
    ASSUME TypeOK, Held, NEW w \in Threads, Worker(w) \/ Spawn(w) PROVE Held'
<1> USE DEF Goto, localVars, sizeVars, resizeVars, phaseVars, taskVars, nonPcVars, nonResizeVars
<1>1. CASE WorkerPop(w)
  <2> DEFINE h == Head(queue_)
  <2>1. /\ worker[w] = "pop" /\ worker' = [worker EXCEPT ![w] = "run"]
        /\ queue_ # <<>> /\ queue_' = Tail(queue_)
        /\ ptr' = [ptr EXCEPT ![w] = h]
        /\ fn' = [fn EXCEPT ![h] = "taken"]
        /\ UNCHANGED <<call, ran>>
    BY <1>1 DEF WorkerPop, Take
  <2>2. h \in Tasks /\ fn[h] = "queued" /\ QueueHolds' BY <2>1, HeadLeaves
  <2> HIDE DEF h
  <2>3. CallsKnow' BY <2>1, <2>2 DEF Held, CallsKnow, TypeOK
  <2>4. WorkersHold'
    <3>1. /\ worker'[w] = "run" /\ ptr'[w] = h /\ fn'[h] = "taken"
          /\ \A v \in Threads : v # w => worker'[v] = worker[v] /\ ptr'[v] = ptr[v]
          /\ \A t \in Tasks : t # h => fn'[t] = fn[t]
      BY <2>1, <2>2 DEF TypeOK
    <3>2. \A v \in Threads : worker[v] = "run" => ptr[v] \in Tasks /\ ptr[v] # h
      BY <2>2 DEF Held, WorkersHold
    <3>3. \A v \in Threads : worker'[v] = "run" => ptr'[v] \in Tasks /\ fn'[ptr'[v]] = "taken"
      <4> SUFFICES ASSUME NEW v \in Threads, worker'[v] = "run"
                   PROVE  ptr'[v] \in Tasks /\ fn'[ptr'[v]] = "taken"
        OBVIOUS
      <4>1. CASE v = w BY <2>2, <3>1, <4>1
      <4>2. CASE v # w
        <5>1. worker[v] = "run" /\ ptr'[v] = ptr[v] BY <3>1, <4>2
        <5>2. ptr[v] \in Tasks /\ fn[ptr[v]] = "taken" BY <5>1 DEF Held, WorkersHold
        <5>3. fn'[ptr[v]] = fn[ptr[v]] BY <3>1, <3>2, <5>1, <5>2
        <5> QED BY <5>1, <5>2, <5>3
      <4> QED BY <4>1, <4>2
    <3>4. \A t \in Tasks : fn'[t] = "taken" => \E v \in Threads : worker'[v] = "run" /\ ptr'[v] = t
      <4> SUFFICES ASSUME NEW t \in Tasks, fn'[t] = "taken"
                   PROVE  \E v \in Threads : worker'[v] = "run" /\ ptr'[v] = t
        OBVIOUS
      <4>1. CASE t = h BY <3>1, <4>1
      <4>2. CASE t # h
        <5>1. PICK v \in Threads : worker[v] = "run" /\ ptr[v] = t
          BY <3>1, <4>2 DEF Held, WorkersHold
        <5>2. v # w BY <2>1, <5>1
        <5> QED BY <3>1, <5>1, <5>2
      <4> QED BY <4>1, <4>2
    <3>5. \A u, v \in Threads : worker'[u] = "run" /\ worker'[v] = "run" /\ ptr'[u] = ptr'[v] => u = v
      <4>1. \A u, v \in Threads : worker[u] = "run" /\ worker[v] = "run" /\ ptr[u] = ptr[v] => u = v
        BY DEF Held, WorkersHold
      <4> SUFFICES ASSUME NEW u \in Threads, NEW v \in Threads, worker'[u] = "run",
                          worker'[v] = "run", ptr'[u] = ptr'[v]
                   PROVE  u = v
        OBVIOUS
      <4>2. u # w /\ v # w => u = v BY <3>1, <4>1
      <4>3. u = w => v = w BY <3>1, <3>2
      <4>4. v = w => u = w BY <3>1, <3>2
      <4> QED BY <4>2, <4>3, <4>4
    <3> QED BY <3>3, <3>4, <3>5 DEF WorkersHold
  <2>5. CalledOnce' BY <2>1, <2>2 DEF Held, CalledOnce, TypeOK
  <2> QED BY <2>2, <2>3, <2>4, <2>5 DEF Held
<1>2. CASE WorkerRun(w)
  <2> DEFINE p == ptr[w]
  <2>1. /\ worker[w] = "run" /\ worker' = [worker EXCEPT ![w] = "uncount"]
        /\ ran' = [ran EXCEPT ![p] = @ + 1]
        /\ fn' = [fn EXCEPT ![p] = "deleted"]
        /\ UNCHANGED <<queue_, call, ptr>>
    BY <1>2 DEF WorkerRun
  <2>2. p \in Tasks /\ fn[p] = "taken" BY <2>1 DEF Held, WorkersHold
  <2>3. \A v \in Threads : v # w /\ worker[v] = "run" => ptr[v] # p
    BY <2>1 DEF Held, WorkersHold
  <2> HIDE DEF p
  <2>4. CallsKnow' BY <2>1, <2>2 DEF Held, CallsKnow, TypeOK
  <2>5. QueueHolds'
    <3>1. \A t \in Tasks : fn'[t] = "queued" => fn[t] = "queued" BY <2>1, <2>2 DEF TypeOK
    <3>2. \A i \in 1..Len(queue_) : queue_[i] \in Tasks /\ queue_[i] # p
      BY <2>2 DEF Held, QueueHolds, TypeOK
    <3> QED BY <2>1, <2>2, <3>1, <3>2 DEF Held, QueueHolds, TypeOK
  <2>6. WorkersHold'
    <3>1. /\ worker'[w] = "uncount" /\ fn'[p] = "deleted"
          /\ \A v \in Threads : v # w => worker'[v] = worker[v]
          /\ \A t \in Tasks : t # p => fn'[t] = fn[t]
      BY <2>1, <2>2 DEF TypeOK
    <3>2. \A t \in Tasks : fn'[t] = "taken" => \E v \in Threads : worker'[v] = "run" /\ ptr'[v] = t
      <4> SUFFICES ASSUME NEW t \in Tasks, fn'[t] = "taken"
                   PROVE  \E v \in Threads : worker'[v] = "run" /\ ptr'[v] = t
        OBVIOUS
      <4>1. t # p /\ fn[t] = "taken" BY <3>1
      <4>2. PICK v \in Threads : worker[v] = "run" /\ ptr[v] = t BY <4>1 DEF Held, WorkersHold
      <4>3. v # w BY <4>1, <4>2 DEF p
      <4> QED BY <2>1, <3>1, <4>2, <4>3
    <3>3. \A v \in Threads : worker'[v] = "run" => v # w /\ worker[v] = "run" /\ ptr'[v] = ptr[v]
      BY <2>1, <3>1
    <3>4. \A v \in Threads : worker'[v] = "run" => ptr'[v] \in Tasks /\ fn'[ptr'[v]] = "taken"
      <4> SUFFICES ASSUME NEW v \in Threads, worker'[v] = "run"
                   PROVE  ptr'[v] \in Tasks /\ fn'[ptr'[v]] = "taken"
        OBVIOUS
      <4>1. v # w /\ worker[v] = "run" /\ ptr'[v] = ptr[v] BY <3>3
      <4>2. ptr[v] \in Tasks /\ fn[ptr[v]] = "taken" BY <4>1 DEF Held, WorkersHold
      <4>3. fn'[ptr[v]] = fn[ptr[v]] BY <2>3, <3>1, <4>1, <4>2
      <4> QED BY <4>1, <4>2, <4>3
    <3>5. \A u, v \in Threads : worker'[u] = "run" /\ worker'[v] = "run" /\ ptr'[u] = ptr'[v] => u = v
      <4>1. \A u, v \in Threads : worker[u] = "run" /\ worker[v] = "run" /\ ptr[u] = ptr[v] => u = v
        BY DEF Held, WorkersHold
      <4> QED BY <3>3, <4>1
    <3> QED BY <3>2, <3>4, <3>5 DEF WorkersHold
  <2>7. CalledOnce' BY <2>1, <2>2 DEF Held, CalledOnce, TypeOK
  <2> QED BY <2>4, <2>5, <2>6, <2>7 DEF Held
<1>3. CASE \/ WorkerStart(w) \/ WorkerLoop(w) \/ WorkerAcquire(w) \/ WorkerTimeout(w)
           \/ WorkerPopEmpty(w) \/ WorkerThrow(w) \/ WorkerUncount(w) \/ WorkerSize(w)
           \/ WorkerLoad(w) \/ WorkerCompare(w) \/ WorkerRetire(w) \/ WorkerStay(w)
           \/ WorkerLeave(w) \/ Spawn(w)
  <2>1. UNCHANGED <<queue_, fn, ran, ptr, call>>
    BY <1>3 DEF WorkerStart, WorkerLoop, WorkerAcquire, WorkerTimeout, WorkerPopEmpty, WorkerThrow,
         WorkerUncount, WorkerSize, WorkerLoad, WorkerCompare, Compare, WorkerRetire, WorkerStay,
         WorkerLeave, Exit, Spawn
  <2>2. \/ worker' = worker
        \/ /\ worker[w] # "run"
           /\ \E to \in WorkerPC \ {"run"} : worker' = [worker EXCEPT ![w] = to]
    BY <1>3 DEF WorkerStart, WorkerLoop, WorkerAcquire, WorkerTimeout, WorkerPopEmpty, WorkerThrow,
         WorkerUncount, WorkerSize, WorkerLoad, WorkerCompare, Compare, WorkerRetire, WorkerStay,
         WorkerLeave, Exit, Spawn, WorkerPC
  <2>3. \A v \in Threads : worker'[v] = "run" <=> worker[v] = "run" BY <2>2 DEF TypeOK
  <2> QED BY <2>1, <2>3, HeldElsewhere
<1> QED BY <1>1, <1>2, <1>3 DEF Worker

\* The steps of the owner, of remove_threads and of shutdown.
LEMMA HeldOwner ==
    ASSUME TypeOK, Held,
           \/ \E r \in Removals : RemoveStore(r) \/ \E n \in RemoveSizes : RemoveLoad(r, n)
           \/ \E n \in AddSizes : AddThreads(n)
           \/ Shutdown \/ DestroyBegin \/ Destroy \/ UNCHANGED vars
    PROVE  Held'
<1> USE DEF localVars, sizeVars, resizeVars, phaseVars, taskVars, nonResizeVars
<1>1. CASE DestroyDrain
  <2> DEFINE h == Head(queue_)
  <2>1. /\ queue_ # <<>> /\ queue_' = Tail(queue_)
        /\ fn' = [fn EXCEPT ![h] = "deleted"]
        /\ UNCHANGED <<call, ran, worker, ptr>>
    BY <1>1 DEF DestroyDrain
  <2>2. h \in Tasks /\ fn[h] = "queued" /\ QueueHolds' BY <2>1, HeadLeaves
  <2> HIDE DEF h
  <2>3. CallsKnow' BY <2>1, <2>2 DEF Held, CallsKnow, TypeOK
  <2>4. WorkersHold' BY <2>1, <2>2 DEF Held, WorkersHold, TypeOK
  <2>5. CalledOnce' BY <2>1, <2>2 DEF Held, CalledOnce, TypeOK
  <2> QED BY <2>2, <2>3, <2>4, <2>5 DEF Held
<1>2. CASE ~DestroyDrain
  <2>1. UNCHANGED <<queue_, fn, ran, ptr, call, worker>>
    BY <1>2 DEF RemoveStore, RemoveLoad, AddThreads, Shutdown, DestroyBegin, DestroyStop, Destroy,
         DestroyWake, DestroyDiscount, DestroyDrained, DestroyJoin, vars
  <2> QED BY <2>1, HeldElsewhere
<1> QED BY <1>1, <1>2

\* Every step of the pool passes a function from one holder to the next.
LEMMA HeldNext == ASSUME TypeOK, Held, [Next]_vars PROVE Held'
<1>1. CASE \E t \in Tasks : Enqueue(t) BY <1>1, HeldEnqueue
<1>2. CASE \E w \in Threads : Worker(w) \/ Spawn(w) BY <1>2, HeldWorker
<1>3. CASE \/ \E r \in Removals : RemoveStore(r) \/ \E n \in RemoveSizes : RemoveLoad(r, n)
           \/ \E n \in AddSizes : AddThreads(n)
           \/ Shutdown \/ DestroyBegin \/ Destroy \/ UNCHANGED vars
  BY <1>3, HeldOwner
<1> QED BY <1>1, <1>2, <1>3 DEF Next, Finished

\* Who holds a function is an invariant.
LEMMA HeldCorrect == Spec => []Held
<1>1. Init => Held BY HeldInit
<1>2. TypeOK /\ Held /\ [Next]_vars => Held' BY HeldNext
<1> QED BY <1>1, <1>2, TypeCorrect, PTL DEF Spec

\* A std::function never has two holders, is called at most once, and is neither
\* called nor deleted again once a worker or the destructor deleted it.
THEOREM OneHolderPerTaskCorrect == Spec => []OneHolderPerTask
<1>1. TypeOK /\ Held => OneHolderPerTask BY HeldIsOneHolder
<1> QED BY <1>1, TypeCorrect, HeldCorrect, PTL

-----------------------------------------------------------------------------
(***************************************************************************)
(* What the destructor leaves.                                             *)
(***************************************************************************)

\* The queue stays empty once it was drained: no enqueue call is in progress.
\* No thread is left once they were joined.
Emptied ==
    /\ phase \in {"join", "destroyed"} => queue_ = <<>>
    /\ phase = "destroyed" => \A w \in Threads : worker[w] \in {"unborn", "gone"}

\* Before the destructor there is nothing to show of its end.
LEMMA EmptiedLater ==
    ASSUME TypeOK, QuietDestruction, Emptied, [Next]_vars,
           phase' \in {"join", "destroyed"}
    PROVE  Emptied'
<1> USE DEF localVars, sizeVars, resizeVars, phaseVars, taskVars, nonPcVars, nonResizeVars,
        nonTaskVars, Alive, Running
<1>1. CASE \E t \in Tasks : Enqueue(t)
  <2>1. PICK t \in Tasks : Enqueue(t) BY <1>1
  <2>2. phase' = phase /\ worker' = worker
    BY <2>1 DEF Enqueue, EnqueueBegin, EnqueueReject, EnqueuePush, EnqueueAbandon, EnqueueCount,
         EnqueueSignal, Signal
  <2>3. call[t] \in {"idle", "returned", "rejected"} BY <2>2 DEF QuietDestruction
  <2>4. queue_' = queue_
    BY <2>1, <2>3 DEF Advance, Enqueue, EnqueueBegin, EnqueueReject, EnqueuePush, EnqueueAbandon,
         EnqueueCount, EnqueueSignal, Signal
  <2> QED BY <2>2, <2>4 DEF Emptied
<1>2. CASE \E w \in Threads : Worker(w) \/ Spawn(w)
  <2>1. PICK w \in Threads : Worker(w) \/ Spawn(w) BY <1>2
  <2>2. worker[w] \notin {"unborn", "gone"} /\ phase' = phase
    BY <2>1 DEF Worker, WorkerStart, WorkerLoop, WorkerAcquire, WorkerTimeout, WorkerPop, Take,
         WorkerPopEmpty, WorkerRun, WorkerThrow, WorkerUncount, WorkerSize, WorkerLoad,
         WorkerCompare, Compare, WorkerRetire, WorkerStay, WorkerLeave, Exit, Spawn, Goto
  <2>3. phase = "join" /\ queue_ = <<>> BY <2>2 DEF Emptied
  <2>4. queue_' = queue_
    BY <2>1, <2>3 DEF Worker, WorkerStart, WorkerLoop, WorkerAcquire, WorkerTimeout, WorkerPop, Take,
         WorkerPopEmpty, WorkerRun, WorkerThrow, WorkerUncount, WorkerSize, WorkerLoad,
         WorkerCompare, Compare, WorkerRetire, WorkerStay, WorkerLeave, Exit, Spawn
  <2> QED BY <2>2, <2>3, <2>4 DEF Emptied
<1>3. CASE \/ \E r \in Removals : RemoveStore(r) \/ \E n \in RemoveSizes : RemoveLoad(r, n)
           \/ \E n \in AddSizes : AddThreads(n)
           \/ Shutdown \/ DestroyBegin \/ Destroy \/ UNCHANGED vars
  BY <1>3 DEF Emptied, RemoveStore, RemoveLoad, AddThreads, Shutdown, DestroyBegin, DestroyStop,
       Destroy, DestroyWake, DestroyDrain, DestroyDiscount, DestroyDrained, DestroyJoin, vars
<1> QED BY <1>1, <1>2, <1>3 DEF Next, Finished

\* Emptied is an invariant.
LEMMA EmptiedCorrect == Spec => []Emptied
<1>1. Init => Emptied BY DEF Init, Emptied
<1>2. TypeOK /\ QuietDestruction /\ Emptied /\ [Next]_vars => Emptied'
  BY EmptiedLater DEF Emptied
<1>3. Spec => []QuietDestruction BY AccountsCorrect, PTL DEF Accounts
<1> QED BY <1>1, <1>2, <1>3, TypeCorrect, PTL DEF Spec

\* Nobody holds a function then, and the counters count nobody.
LEMMA EmptiedIsClean == Accounts /\ Held /\ Emptied => NothingLeftBehind
<1> SUFFICES ASSUME Accounts, Held, Emptied, phase = "destroyed"
             PROVE  /\ \A w \in Threads : worker[w] \in {"unborn", "gone"}
                    /\ queue_ = <<>>
                    /\ \A t \in Tasks : fn[t] \in {"none", "deleted"}
                    /\ leftover_ = 0
                    /\ active_threads_ = 0
  BY DEF NothingLeftBehind
<1>1. /\ \A w \in Threads : worker[w] \in {"unborn", "gone"}
      /\ queue_ = <<>> /\ Len(queue_) = 0
  BY DEF Emptied
<1>2. TypeOK /\ \A t \in Tasks : call[t] \in {"idle", "returned", "rejected"}
  BY DEF Accounts, TypeInv, QuietDestruction
<1>3. \A t \in Tasks : fn[t] \in {"none", "deleted"}
  <2>1. \A t \in Tasks : fn[t] # "queued" BY <1>1 DEF Held, QueueHolds
  <2>2. \A t \in Tasks : fn[t] # "taken" BY <1>1 DEF Held, WorkersHold
  <2>3. \A t \in Tasks : fn[t] # "held" BY <1>2 DEF Held, CallsKnow
  <2> QED BY <1>2, <2>1, <2>2, <2>3 DEF TypeOK, FnState
<1>4. /\ IsFiniteSet(DOMAIN worker) /\ DOMAIN worker = Threads
      /\ IsFiniteSet(DOMAIN call) /\ DOMAIN call = Tasks
  BY <1>2, ConstantsAssumption DEF TypeOK
<1>5. \A x \in DOMAIN worker : worker[x] \notin {"run", "uncount"} BY <1>1, <1>4
<1>6. \A x \in DOMAIN worker : worker[x] \notin WorkerPC \ {"unborn", "start", "gone"}
  BY <1>1, <1>4
<1>7. \A x \in DOMAIN call : call[x] \notin {"count"} BY <1>2, <1>4
<1>8. Count(worker, {"run", "uncount"}) = 0 BY <1>4, <1>5, CountFacts
<1>9. Count(worker, WorkerPC \ {"unborn", "start", "gone"}) = 0 BY <1>4, <1>6, CountFacts
<1>10. Count(call, {"count"}) = 0 BY <1>4, <1>7, CountFacts
<1>11. leftover_ = 0 BY <1>1, <1>8, <1>10 DEF Accounts, LeftoverExact, Running
<1>12. active_threads_ = 0 BY <1>9 DEF Accounts, ActiveExact
<1> QED BY <1>1, <1>3, <1>11, <1>12

\* When ~ThreadPool() returns no thread, queued task or std::function is left,
\* and get_tasks_left() and get_thread_count() would answer zero.
THEOREM NothingLeftBehindCorrect == Spec => []NothingLeftBehind
BY EmptiedIsClean, AccountsCorrect, HeldCorrect, EmptiedCorrect, PTL

-----------------------------------------------------------------------------
(***************************************************************************)
(* Every step of the pool is a step of TaskPool, or none.                  *)
(***************************************************************************)

\* Only the given task's status changes.
LEMMA OneStatusMoves ==
    ASSUME NEW t \in Tasks, NEW from, NEW to,
           StatusOf(t) = from, StatusOf(t)' = to,
           \A u \in Tasks : u # t => StatusOf(u)' = StatusOf(u),
           stop_' = stop_
    PROVE  Pool!Move(t, from, to)
<1> HIDE DEF StatusOf
<1>1. [u \in Tasks |-> StatusOf(u)]' = [[u \in Tasks |-> StatusOf(u)] EXCEPT ![t] = to]
  OBVIOUS
<1>2. [u \in Tasks |-> StatusOf(u)][t] = from OBVIOUS
<1> QED BY <1>1, <1>2 DEF Pool!Move

\* No task's status changes.
LEMMA NoStatusMoves ==
    ASSUME \A u \in Tasks : StatusOf(u)' = StatusOf(u), stop_' = stop_
    PROVE  UNCHANGED Pool!poolVars
<1> HIDE DEF StatusOf
<1>1. [u \in Tasks |-> StatusOf(u)]' = [u \in Tasks |-> StatusOf(u)] OBVIOUS
<1> QED BY <1>1 DEF Pool!poolVars

\* All calls are new and the pool is open.
LEMMA RefinesInit == Init => Pool!Init
BY DEF Init, Pool!Init, StatusOf

\* The steps of enqueue: a call is submitted, accepted or rejected.
LEMMA RefinesEnqueue ==
    ASSUME TypeOK, Held, NEW t \in Tasks, Enqueue(t) PROVE [Pool!Next]_(Pool!poolVars)
<1> USE DEF Advance, nonTaskVars, localVars, sizeVars, resizeVars, phaseVars
<1>1. CASE EnqueueBegin(t)
  <2>1. /\ StatusOf(t) = "new" /\ StatusOf(t)' = "submitting"
        /\ \A u \in Tasks : u # t => StatusOf(u)' = StatusOf(u)
        /\ ~stop_ /\ stop_' = stop_
    BY <1>1 DEF EnqueueBegin, StatusOf, TypeOK
  <2>2. Pool!Move(t, "new", "submitting") BY <2>1, OneStatusMoves
  <2> QED BY <2>1, <2>2 DEF Pool!Next, Pool!Submit
<1>2. CASE EnqueueReject(t)
  <2>1. /\ StatusOf(t) = "new" /\ StatusOf(t)' = "rejected"
        /\ \A u \in Tasks : u # t => StatusOf(u)' = StatusOf(u)
        /\ stop_ /\ stop_' = stop_
    BY <1>2 DEF EnqueueReject, StatusOf, TypeOK
  <2>2. Pool!Move(t, "new", "rejected") BY <2>1, OneStatusMoves
  <2> QED BY <2>1, <2>2 DEF Pool!Next, Pool!Reject
<1>3. CASE EnqueuePush(t)
  <2>1. /\ StatusOf(t) = "submitting" /\ StatusOf(t)' = "accepted"
        /\ \A u \in Tasks : u # t => StatusOf(u)' = StatusOf(u)
        /\ stop_' = stop_
    BY <1>3 DEF EnqueuePush, StatusOf, TypeOK
  <2>2. Pool!Move(t, "submitting", "accepted") BY <2>1, OneStatusMoves
  <2> QED BY <2>2 DEF Pool!Next, Pool!Accept
<1>4. CASE EnqueueAbandon(t)
  <2>1. /\ StatusOf(t) = "submitting" /\ StatusOf(t)' = "rejected"
        /\ \A u \in Tasks : u # t => StatusOf(u)' = StatusOf(u)
        /\ stop_ /\ stop_' = stop_
    BY <1>4 DEF EnqueueAbandon, StatusOf, TypeOK
  <2>2. Pool!Move(t, "submitting", "rejected") BY <2>1, OneStatusMoves
  <2> QED BY <2>1, <2>2 DEF Pool!Next, Pool!Reject
<1>5. CASE EnqueueCount(t) \/ EnqueueSignal(t)
  <2>1. /\ \A u \in Tasks : StatusOf(u)' = StatusOf(u)
        /\ stop_' = stop_
    BY <1>5 DEF EnqueueCount, EnqueueSignal, Signal, StatusOf, TypeOK
  <2> QED BY <2>1, NoStatusMoves
<1> QED BY <1>1, <1>2, <1>3, <1>4, <1>5 DEF Enqueue

\* The steps of a worker: a task starts or is done.
LEMMA RefinesWorker ==
    ASSUME TypeOK, Held, NEW w \in Threads, Worker(w) \/ Spawn(w)
    PROVE  [Pool!Next]_(Pool!poolVars)
<1> USE DEF Goto, localVars, sizeVars, resizeVars, phaseVars, taskVars, nonPcVars, nonResizeVars
<1>1. CASE WorkerPop(w)
  <2>1. /\ queue_ # <<>> /\ queue_' = Tail(queue_)
        /\ fn' = [fn EXCEPT ![Head(queue_)] = "taken"]
        /\ UNCHANGED <<call, ran, stop_>>
    BY <1>1 DEF WorkerPop, Take
  <2>2. PICK h \in Tasks : fn[h] = "queued" /\ fn' = [fn EXCEPT ![h] = "taken"]
    BY <2>1, HeadLeaves
  <2>3. call[h] \in {"count", "signal", "returned"} BY <2>2 DEF Held, CallsKnow, TypeOK, CallPC
  <2>4. /\ StatusOf(h) = "accepted" /\ StatusOf(h)' = "running"
        /\ \A u \in Tasks : u # h => StatusOf(u)' = StatusOf(u)
    BY <2>1, <2>2, <2>3 DEF StatusOf, TypeOK
  <2>5. Pool!Move(h, "accepted", "running") BY <2>1, <2>2, <2>4, OneStatusMoves
  <2> QED BY <2>2, <2>5 DEF Pool!Next, Pool!Start
<1>2. CASE WorkerRun(w)
  <2>1. /\ worker[w] = "run"
        /\ ran' = [ran EXCEPT ![ptr[w]] = @ + 1]
        /\ fn' = [fn EXCEPT ![ptr[w]] = "deleted"]
        /\ UNCHANGED <<call, stop_>>
    BY <1>2 DEF WorkerRun
  <2>2. PICK p \in Tasks : /\ fn[p] = "taken"
                           /\ ran' = [ran EXCEPT ![p] = @ + 1]
                           /\ fn' = [fn EXCEPT ![p] = "deleted"]
    BY <2>1 DEF Held, WorkersHold
  <2>3. call[p] \in {"count", "signal", "returned"} BY <2>2 DEF Held, CallsKnow, TypeOK, CallPC
  <2>4. ran'[p] > 0 BY <2>1, <2>2 DEF TypeOK
  <2>5. /\ StatusOf(p) = "running" /\ StatusOf(p)' = "done"
        /\ \A u \in Tasks : u # p => StatusOf(u)' = StatusOf(u)
    BY <2>1, <2>2, <2>3, <2>4 DEF StatusOf, TypeOK
  <2>6. Pool!Move(p, "running", "done") BY <2>1, <2>2, <2>5, OneStatusMoves
  <2> QED BY <2>2, <2>6 DEF Pool!Next, Pool!Finish
<1>3. CASE \/ WorkerStart(w) \/ WorkerLoop(w) \/ WorkerAcquire(w) \/ WorkerTimeout(w)
           \/ WorkerPopEmpty(w) \/ WorkerThrow(w) \/ WorkerUncount(w) \/ WorkerSize(w)
           \/ WorkerLoad(w) \/ WorkerCompare(w) \/ WorkerRetire(w) \/ WorkerStay(w)
           \/ WorkerLeave(w) \/ Spawn(w)
  <2>1. UNCHANGED <<fn, ran, call, stop_>>
    BY <1>3 DEF WorkerStart, WorkerLoop, WorkerAcquire, WorkerTimeout, WorkerPopEmpty, WorkerThrow,
         WorkerUncount, WorkerSize, WorkerLoad, WorkerCompare, Compare, WorkerRetire, WorkerStay,
         WorkerLeave, Exit, Spawn
  <2> QED BY <2>1, NoStatusMoves DEF StatusOf
<1> QED BY <1>1, <1>2, <1>3 DEF Worker

\* The steps of the owner and of shutdown: the pool closes, or a task is dropped.
LEMMA RefinesOwner ==
    ASSUME TypeOK, QuietDestruction, Held,
           \/ \E r \in Removals : RemoveStore(r) \/ \E n \in RemoveSizes : RemoveLoad(r, n)
           \/ \E n \in AddSizes : AddThreads(n)
           \/ Shutdown \/ DestroyBegin \/ Destroy \/ UNCHANGED vars
    PROVE  [Pool!Next]_(Pool!poolVars)
<1> USE DEF localVars, sizeVars, resizeVars, phaseVars, taskVars, nonResizeVars
<1>1. CASE DestroyDrain
  <2>1. /\ phase = "drain"
        /\ queue_ # <<>> /\ queue_' = Tail(queue_)
        /\ fn' = [fn EXCEPT ![Head(queue_)] = "deleted"]
        /\ UNCHANGED <<call, ran, stop_>>
    BY <1>1 DEF DestroyDrain
  <2>2. PICK h \in Tasks : fn[h] = "queued" /\ fn' = [fn EXCEPT ![h] = "deleted"]
    BY <2>1, HeadLeaves
  <2>3. call[h] \in {"count", "signal", "returned"} BY <2>2 DEF Held, CallsKnow, TypeOK, CallPC
  <2>4. ran[h] = 0 BY <2>2 DEF Held, CalledOnce, TypeOK
  <2>5. /\ StatusOf(h) = "accepted" /\ StatusOf(h)' = "dropped"
        /\ \A u \in Tasks : u # h => StatusOf(u)' = StatusOf(u)
    BY <2>1, <2>2, <2>3, <2>4 DEF StatusOf, TypeOK
  <2>6. Pool!Move(h, "accepted", "dropped") BY <2>1, <2>2, <2>5, OneStatusMoves
  <2>7. stop_ BY <2>1 DEF QuietDestruction
  <2> QED BY <2>2, <2>6, <2>7 DEF Pool!Next, Pool!Drop
<1>2. CASE Shutdown \/ DestroyBegin
  <2>1. UNCHANGED <<call, fn, ran>> /\ stop_' = TRUE
    BY <1>2 DEF Shutdown, DestroyBegin, DestroyStop
  <2>2. \A u \in Tasks : StatusOf(u)' = StatusOf(u) BY <2>1 DEF StatusOf
  <2>3. CASE stop_ BY <2>1, <2>2, <2>3, NoStatusMoves DEF TypeOK
  <2>4. CASE ~stop_
    <3> HIDE DEF StatusOf
    <3>1. [u \in Tasks |-> StatusOf(u)]' = [u \in Tasks |-> StatusOf(u)] BY <2>2
    <3> QED BY <2>1, <2>4, <3>1 DEF Pool!Next, Pool!Close
  <2> QED BY <2>3, <2>4
<1>3. CASE ~DestroyDrain /\ ~Shutdown /\ ~DestroyBegin
  <2>1. UNCHANGED <<fn, ran, call, stop_>>
    BY <1>3 DEF RemoveStore, RemoveLoad, AddThreads, Destroy,
         DestroyWake, DestroyDiscount, DestroyDrained, DestroyJoin, vars
  <2> QED BY <2>1, NoStatusMoves DEF StatusOf
<1> QED BY <1>1, <1>2, <1>3

\* Every step is a step of TaskPool, or changes nothing there.
LEMMA RefinesNext ==
    ASSUME TypeOK, QuietDestruction, Held, [Next]_vars PROVE [Pool!Next]_(Pool!poolVars)
<1>1. CASE \E t \in Tasks : Enqueue(t) BY <1>1, RefinesEnqueue
<1>2. CASE \E w \in Threads : Worker(w) \/ Spawn(w) BY <1>2, RefinesWorker
<1>3. CASE \/ \E r \in Removals : RemoveStore(r) \/ \E n \in RemoveSizes : RemoveLoad(r, n)
           \/ \E n \in AddSizes : AddThreads(n)
           \/ Shutdown \/ DestroyBegin \/ Destroy \/ UNCHANGED vars
  BY <1>3, RefinesOwner
<1> QED BY <1>1, <1>2, <1>3 DEF Next, Finished

\* enqueue, worker() and the destructor implement TaskPool: an accepted task
\* starts at most once, finishes at most once and is dropped unexecuted only
\* after stop_ was set; a call that began while the pool was open is rejected
\* only if it was stopped meanwhile.
THEOREM PoolImplementsTaskPool == Spec => ImplementsTaskPool
<1>1. Init => Pool!Init BY RefinesInit
<1>2. TypeOK /\ QuietDestruction /\ Held /\ [Next]_vars => [Pool!Next]_(Pool!poolVars)
  BY RefinesNext
<1>3. Spec => []QuietDestruction BY AccountsCorrect, PTL DEF Accounts
<1> QED BY <1>1, <1>2, <1>3, TypeCorrect, HeldCorrect, PTL DEF Spec, ImplementsTaskPool, Pool!Spec
=============================================================================
