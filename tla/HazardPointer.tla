--------------------------- MODULE HazardPointer ----------------------------
(***************************************************************************)
(* hazptr::HazPtrDomain, HazPtrHolder and RetirePointer (common).          *)
(*                                                                         *)
(* The library is driven the way its client MPMCQueue::dequeue drives it:  *)
(* a shared pointer, here cell, is loaded, protected, and loaded again; it *)
(* is followed if it did not change; a node that was unlinked from it is   *)
(* passed to RetirePointer.  Some threads also call Scan.                  *)
(*                                                                         *)
(* The build targets x86: a store that is not seq_cst (protect uses        *)
(* release) may sit in the store buffer of its core while later loads of   *)
(* that core are done.  Buffered are the threads of which the model shows  *)
(* this.                                                                   *)
(* Lists are kept as sets, as no property depends on their order.          *)
(***************************************************************************)
EXTENDS Integers, FiniteSets

CONSTANTS
    Threads,
    NoThread,
    Registering,       \* the threads that call RegisterThread
    Readers,           \* the threads that have a holder at times
    Followers,         \* those of them that protect a pointer and follow it
    Retirers,          \* the threads that unlink nodes and retire them
    Scanners,          \* the threads that call Scan
    Nodes,             \* the nodes that cell may point to, each once
    FirstNode,         \* the node it points to at first
    nullptr,
    scan_threshold_,
    kGlobalThreshold,
    Buffered           \* the threads that have a store buffer

ASSUME HazardAssumption ==
    /\ IsFiniteSet(Threads)
    /\ NoThread \notin Threads
    /\ Followers \subseteq Readers
    /\ Registering \cup Readers \cup Retirers \cup Scanners \cup Buffered \subseteq Threads
    /\ FirstNode \in Nodes
    /\ nullptr \notin Nodes
    /\ scan_threshold_ \in Nat \ {0}
    /\ kGlobalThreshold \in Nat

\* Each thread has at most one holder at a time, so a thread needs one slot.
Slots == 1..Cardinality(Threads)

VARIABLES
    cell, unlinked, freed,     \* the client's pointer; nodes taken from it; nodes deleted
    slots,                     \* how many HazardPointer slots the domain has
    owner_, hazard_ptr_,       \* the slots
    buffer,                    \* the node whose protect is in the thread's store buffer
    held, seen,                \* each thread's slot (0: none), and its local pointer or nullptr
    pc,
    registered,                \* all_thread_data_
    retired_list_,             \* of each thread
    global_retired_,
    mutex,                     \* who holds global_retired_mutex_
    unchecked, at, to_reclaim, \* reclaim_all on each thread
    overlooked,                \* history: nodes of which isProtected missed a slot or a store
    torn                       \* a container was accessed by two threads at once

clientVars == <<cell, unlinked>>
slotVars == <<slots, owner_, hazard_ptr_, buffer, held>>
retireVars == <<retired_list_, global_retired_, mutex>>
reclaimVars == <<unchecked, at, to_reclaim>>
races == <<overlooked, torn>>
vars == <<clientVars, freed, slotVars, seen, pc, registered, retireVars, reclaimVars, races>>

TypeOK ==
    /\ cell \in Nodes /\ unlinked \subseteq Nodes /\ freed \subseteq Nodes
    /\ slots \in Slots \cup {0}
    /\ owner_ \in [Slots -> Threads \cup {NoThread}]
    /\ hazard_ptr_ \in [Slots -> Nodes \cup {nullptr}]
    /\ buffer \in [Threads -> Nodes \cup {nullptr}]
    /\ held \in [Threads -> Slots \cup {0}]
    /\ seen \in [Threads -> Nodes \cup {nullptr}]
    /\ pc \in [Threads -> {"register", "push", "idle", "link", "protect", "check", "use", "retire",
                           "emplace", "size", "submit", "splice", "lock", "walk", "delete"}]
    /\ registered \subseteq Threads
    /\ retired_list_ \in [Threads -> SUBSET Nodes]
    /\ global_retired_ \subseteq Nodes
    /\ mutex \in Threads \cup {NoThread}
    /\ unchecked \in [Threads -> SUBSET Nodes]
    /\ at \in [Threads -> Slots \cup {0}]
    /\ to_reclaim \in [Threads -> SUBSET Nodes]
    /\ overlooked \subseteq Nodes
    /\ torn \in BOOLEAN

Init ==
    /\ cell = FirstNode /\ unlinked = {} /\ freed = {}
    /\ slots = 0
    /\ owner_ = [s \in Slots |-> NoThread]
    /\ hazard_ptr_ = [s \in Slots |-> nullptr]
    /\ buffer = [t \in Threads |-> nullptr]
    /\ held = [t \in Threads |-> 0]
    /\ seen = [t \in Threads |-> nullptr]
    /\ pc = [t \in Threads |-> IF t \in Registering THEN "register" ELSE "idle"]
    /\ registered = {}
    /\ retired_list_ = [t \in Threads |-> {}]
    /\ global_retired_ = {}
    /\ mutex = NoThread
    /\ unchecked = [t \in Threads |-> {}]
    /\ at = [t \in Threads |-> 0]
    /\ to_reclaim = [t \in Threads |-> {}]
    /\ overlooked = {}
    /\ torn = FALSE

Step(t, from, to) == ~torn /\ pc[t] = from /\ pc' = [pc EXCEPT ![t] = to]

-----------------------------------------------------------------------------
(***************************************************************************)
(* Slots: HazPtrHolder, and acquire and release of the domain.             *)
(***************************************************************************)

\* RegisterThread, which a thread calls before all else if it calls it: push_back,
\* under a mutex that Scan does not take, takes two steps.
Register(t) ==
    /\ Step(t, "register", "push")
    /\ UNCHANGED <<clientVars, freed, slotVars, seen, registered, retireVars, reclaimVars, races>>

Push(t) ==
    /\ Step(t, "push", "idle")
    /\ registered' = registered \cup {t}
    /\ UNCHANGED <<clientVars, freed, slotVars, seen, retireVars, reclaimVars, races>>

FreeSlots == {s \in 1..slots : owner_[s] = NoThread}

\* A new slot whose next_ is not set yet; its thread holds list_mutex_.
Linking == \E t \in Threads : pc[t] = "link"

Take(t, s) ==
    /\ t \in Readers
    /\ held[t] = 0
    /\ ~Linking
    /\ owner_' = [owner_ EXCEPT ![s] = t]
    /\ held' = [held EXCEPT ![t] = s]
    /\ UNCHANGED <<clientVars, freed, hazard_ptr_, buffer, seen, registered, retireVars,
                   reclaimVars, races>>

\* acquire, under list_mutex_: a free slot, the latest first, ...
Acquire(t) ==
    /\ Step(t, "idle", "idle")
    /\ \E s \in FreeSlots : Take(t, s) /\ \A r \in FreeSlots : r <= s
    /\ UNCHANGED slots

\* ... or a new one, which head_ points to first ...
AcquireNew(t) ==
    /\ FreeSlots = {}
    /\ Step(t, "idle", "link")
    /\ Take(t, slots + 1)
    /\ slots' = slots + 1

\* ... and whose next_ is set afterwards.
Link(t) ==
    /\ Step(t, "link", "idle")
    /\ UNCHANGED <<clientVars, freed, slotVars, seen, registered, retireVars, reclaimVars, races>>

\* The client loads the pointer, ...
Load(t) ==
    /\ t \in Followers
    /\ held[t] # 0
    /\ Step(t, "idle", "protect")
    /\ seen' = [seen EXCEPT ![t] = cell]
    /\ UNCHANGED <<clientVars, freed, slotVars, registered, retireVars, reclaimVars, races>>

\* ... protects it, ...
Protect(t) ==
    /\ Step(t, "protect", "check")
    /\ buffer[t] = nullptr
    /\ IF t \in Buffered
         THEN buffer' = [buffer EXCEPT ![t] = seen[t]] /\ UNCHANGED hazard_ptr_
         ELSE hazard_ptr_' = [hazard_ptr_ EXCEPT ![held[t]] = seen[t]] /\ UNCHANGED buffer
    /\ UNCHANGED <<clientVars, freed, slots, owner_, held, seen, registered, retireVars,
                   reclaimVars, races>>

\* (the processor writes a buffered store to memory)
Flush(t) ==
    /\ ~torn
    /\ buffer[t] # nullptr
    /\ hazard_ptr_' = [hazard_ptr_ EXCEPT ![held[t]] = buffer[t]]
    /\ buffer' = [buffer EXCEPT ![t] = nullptr]
    /\ UNCHANGED <<clientVars, freed, slots, owner_, held, seen, pc, registered, retireVars,
                   reclaimVars, races>>

Recheck(t, valid) ==
    /\ Step(t, "check", IF valid THEN "use" ELSE "idle")
    /\ seen' = IF valid THEN seen ELSE [seen EXCEPT ![t] = nullptr]
    /\ UNCHANGED <<clientVars, freed, slotVars, registered, retireVars, reclaimVars, races>>

\* Mutant: the pointer is not loaded again.
CheckNothing(t) == Recheck(t, TRUE)

\* ... loads it again, ...
Check(t) == Recheck(t, cell = seen[t])

\* ... and follows it.
Use(t) ==
    /\ Step(t, "use", "idle")
    /\ seen' = [seen EXCEPT ![t] = nullptr]
    /\ UNCHANGED <<clientVars, freed, slotVars, registered, retireVars, reclaimVars, races>>

\* HazPtrHolder::release.
Release(t) ==
    /\ held[t] # 0
    /\ buffer[t] = nullptr
    /\ Step(t, "idle", "idle")
    /\ hazard_ptr_' = [hazard_ptr_ EXCEPT ![held[t]] = nullptr]
    /\ owner_' = [owner_ EXCEPT ![held[t]] = NoThread]
    /\ held' = [held EXCEPT ![t] = 0]
    /\ UNCHANGED <<clientVars, freed, slots, buffer, seen, registered, retireVars, reclaimVars,
                   races>>

-----------------------------------------------------------------------------
(***************************************************************************)
(* RetirePointer.                                                          *)
(***************************************************************************)

\* The client unlinks a node (a locked instruction, which empties the buffer).
Unlink(t, n) ==
    /\ t \in Retirers
    /\ buffer[t] = nullptr
    /\ n \in Nodes \ (unlinked \cup {cell})
    /\ Step(t, "idle", "retire")
    /\ cell' = n
    /\ unlinked' = unlinked \cup {cell}
    /\ seen' = [seen EXCEPT ![t] = cell]
    /\ UNCHANGED <<freed, slotVars, registered, retireVars, reclaimVars, races>>

\* tl.retired_list_.emplace_back, without a lock, takes two steps.
EmplaceBegin(t) ==
    /\ Step(t, "retire", "emplace")
    /\ UNCHANGED <<clientVars, freed, slotVars, seen, registered, retireVars, reclaimVars, races>>

Emplace(t) ==
    /\ Step(t, "emplace", "size")
    /\ retired_list_' = [retired_list_ EXCEPT ![t] = @ \cup {seen[t]}]
    /\ seen' = [seen EXCEPT ![t] = nullptr]
    /\ UNCHANGED <<clientVars, freed, slotVars, registered, global_retired_, mutex, reclaimVars,
                   races>>

\* The size is read without the lock, too.
CheckSize(t) ==
    /\ LET full == Cardinality(retired_list_[t]) >= scan_threshold_
       IN  Step(t, "size", IF full THEN "submit" ELSE "idle")
    /\ UNCHANGED <<clientVars, freed, slotVars, seen, registered, retireVars, reclaimVars, races>>

SubmitLeaving(t, rest) ==
    /\ mutex = NoThread
    /\ LET all == global_retired_ \cup retired_list_[t]
           full == Cardinality(all) > kGlobalThreshold
       IN  /\ Step(t, "submit", IF full THEN "splice" ELSE "idle")
           /\ global_retired_' = all
           /\ mutex' = IF full THEN t ELSE NoThread
    /\ retired_list_' = [retired_list_ EXCEPT ![t] = rest]
    /\ UNCHANGED <<clientVars, freed, slotVars, seen, registered, reclaimVars, races>>

\* Mutant: the list is copied, not moved.
SubmitCopy(t) == SubmitLeaving(t, retired_list_[t])

\* Under global_retired_mutex_: splice; if there is too much, Scan is called,
\* with the mutex held.
Submit(t) == SubmitLeaving(t, {})

-----------------------------------------------------------------------------
(***************************************************************************)
(* Scan and reclaim_all.                                                   *)
(***************************************************************************)
Scan(t) ==
    /\ t \in Scanners
    /\ Step(t, "idle", "splice")
    /\ UNCHANGED <<clientVars, freed, slotVars, seen, registered, retireVars, reclaimVars, races>>

\* Another thread is in the middle of an emplace_back to one of the lists, or of a
\* push_back to all_thread_data_.
Racing(t, who) ==
    \E u \in Threads \ {t} : pc[u] = "push" \/ (pc[u] = "emplace" /\ u \in who)

SpliceOf(t, who) ==
    /\ mutex = NoThread
    /\ buffer[t] = nullptr
    /\ Step(t, "splice", "lock")
    /\ global_retired_' = global_retired_ \cup UNION {retired_list_[u] : u \in who}
    /\ retired_list_' = [u \in Threads |-> IF u \in who THEN {} ELSE retired_list_[u]]
    /\ torn' \in (IF Racing(t, who) THEN BOOLEAN ELSE {FALSE})
    /\ UNCHANGED <<clientVars, freed, slotVars, seen, registered, mutex, reclaimVars, overlooked>>

\* Mutant: only the caller's list is collected.
SpliceOwn(t) == SpliceOf(t, registered \cap {t})

\* The lists of all registered threads are moved, under global_retired_mutex_,
\* which their owners do not take when they append, nor a thread that registers
\* (to lock it empties the buffer).  If they race, either order of the two, or torn
\* containers, may come of it.
Splice(t) == SpliceOf(t, registered)

Lock(t) ==
    /\ mutex = NoThread
    /\ Step(t, "lock", "walk")
    /\ mutex' = t
    /\ unchecked' = [unchecked EXCEPT ![t] = global_retired_]
    /\ at' = [at EXCEPT ![t] = slots]
    /\ UNCHANGED <<clientVars, freed, slotVars, seen, registered, retired_list_, global_retired_,
                   to_reclaim, races>>

Candidate(t) == CHOOSE n \in unchecked[t] : TRUE

walkLeaves == <<clientVars, freed, slotVars, seen, registered, retired_list_, mutex, torn>>

\* next_ of a slot: that of the latest is not set until Link.
Older(s) == IF s = slots /\ Linking THEN 0 ELSE s - 1

\* What it misses of a node: the slots behind a new one, and a protect that is still
\* in a store buffer.
Misses(n, s) ==
    \/ Older(s) # s - 1
    \/ \E t \in Threads : held[t] = s /\ buffer[t] = n

\* isProtected reads the slots one after the other, without a lock.
ReadSlot(t) ==
    /\ Step(t, "walk", "walk")
    /\ unchecked[t] # {}
    /\ at[t] # 0
    /\ IF hazard_ptr_[at[t]] = Candidate(t)
         THEN /\ unchecked' = [unchecked EXCEPT ![t] = @ \ {Candidate(t)}]
              /\ at' = [at EXCEPT ![t] = slots]
              /\ UNCHANGED overlooked
         ELSE /\ at' = [at EXCEPT ![t] = Older(@)]
              /\ overlooked' = overlooked \cup {n \in {Candidate(t)} : Misses(n, at[t])}
              /\ UNCHANGED unchecked
    /\ UNCHANGED <<global_retired_, to_reclaim, walkLeaves>>

\* No slot holds the node: it moves to to_reclaim.
Condemn(t) ==
    /\ Step(t, "walk", "walk")
    /\ unchecked[t] # {}
    /\ at[t] = 0
    /\ unchecked' = [unchecked EXCEPT ![t] = @ \ {Candidate(t)}]
    /\ global_retired_' = global_retired_ \ {Candidate(t)}
    /\ to_reclaim' = [to_reclaim EXCEPT ![t] = @ \cup {Candidate(t)}]
    /\ at' = [at EXCEPT ![t] = slots]
    /\ UNCHANGED <<overlooked, walkLeaves>>

Unlock(t) ==
    /\ Step(t, "walk", "delete")
    /\ unchecked[t] = {}
    /\ mutex' = NoThread
    /\ at' = [at EXCEPT ![t] = 0]
    /\ UNCHANGED <<clientVars, freed, slotVars, seen, registered, retired_list_, global_retired_,
                   unchecked, to_reclaim, races>>

\* The deleters are called, without the lock.
Delete(t) ==
    /\ Step(t, "delete", "idle")
    /\ freed' = freed \cup to_reclaim[t]
    /\ to_reclaim' = [to_reclaim EXCEPT ![t] = {}]
    /\ UNCHANGED <<clientVars, slotVars, seen, registered, retireVars, unchecked, at, races>>

-----------------------------------------------------------------------------
\* A thread that is in the middle of an operation goes on with it.
Continue(t) == \/ Register(t) \/ Push(t) \/ Link(t) \/ Protect(t) \/ Check(t) \/ Use(t)
               \/ EmplaceBegin(t) \/ Emplace(t) \/ CheckSize(t) \/ Submit(t)
               \/ Splice(t) \/ Lock(t) \/ ReadSlot(t) \/ Condemn(t) \/ Unlock(t) \/ Delete(t)

\* A thread that is between two operations may begin one.
Begin(t) == \/ Acquire(t) \/ AcquireNew(t) \/ Load(t) \/ Release(t) \/ Scan(t)
            \/ \E n \in Nodes : Unlink(t, n)

\* What follows torn containers is undefined.
Undefined == torn /\ UNCHANGED vars

Next == \/ \E t \in Threads : Continue(t) \/ Begin(t) \/ Flush(t)
        \/ Undefined

Spec == Init /\ [][Next]_vars

\* Operations that were begun go on (a thread that waits for the mutex gets it
\* if it is free again and again), stores reach memory, holders leave their
\* scope, and the scanners keep calling Scan, as the tests' wait_for does.
Fairness ==
    /\ \A t \in Threads : SF_vars(Continue(t))
    /\ \A t \in Buffered : WF_vars(Flush(t))
    /\ \A t \in Readers : SF_vars(Release(t))
    /\ \A t \in Scanners : SF_vars(Scan(t))

FairSpec == Spec /\ Fairness

-----------------------------------------------------------------------------
(***************************************************************************)
(* Properties.                                                             *)
(***************************************************************************)
Places(n) == {<<"local", t>> : t \in {u \in Threads : n \in retired_list_[u]}}
             \cup {<<"taken", t>> : t \in {u \in Threads : n \in to_reclaim[u]}}
             \cup {<<"retiring", t>> : t \in {u \in Threads : pc[u] \in {"retire", "emplace"}
                                                              /\ seen[u] = n}}
             \cup (IF n \in global_retired_ THEN {<<"global", NoThread>>} ELSE {})

\* A node is deleted while a thread that protected it, and found it in place, follows
\* it only if isProtected, which reads the slots one by one and without a lock, has
\* overlooked it: it met a new slot that was not linked to the older ones yet, or
\* read the slot before protect's store had reached it.
DeletedInUseWasOverlooked ==
    \A t \in Threads : pc[t] = "use" => seen[t] \notin freed \ overlooked

\* "Not reclaimed while protected" (hazptr_test.cpp:26).
NoUseAfterReclaim ==
    \A t \in Threads : pc[t] = "use" => seen[t] \notin freed

\* Until Scan has met an emplace_back or a push_back half-way, an unlinked node is
\* in exactly one list until it is deleted, and in none thereafter: the splices of
\* RetirePointer and Scan neither lose a node nor have it deleted twice.
RetiredInOnePlace ==
    ~torn => \A n \in unlinked : Cardinality(Places(n)) = (IF n \in freed THEN 0 ELSE 1)

\* Two holders never share a slot: one would take the other's protection away.
SlotsExclusive ==
    \A t, u \in Threads : t # u /\ held[t] # 0 => held[t] # held[u]

\* What Scan does not find: the lists of the threads that never registered.
Stranded == UNION {retired_list_[t] : t \in Threads \ Registering}

\* Every node that was passed to RetirePointer is reclaimed in the end, if holders
\* leave and Scan is called again and again, unless a container was torn before, or
\* the node waits in the list of a thread that never registered, which submits none
\* before it has scan_threshold_ of them: again and again there is no other left.
\* (A node is unlinked once, so this says that each is reclaimed or stranded.)
RetiredIsReclaimed ==
    []<>(\/ unlinked \subseteq freed \cup Stranded
         \/ torn)
=============================================================================
