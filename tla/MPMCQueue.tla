----------------------------- MODULE MPMCQueue ------------------------------
(***************************************************************************)
(* MPMCQueue<T> (common/include/mpmc_queue.hpp), with HazPtrHolder and     *)
(* RetirePointer of the type of its nodes, and release_hazard_pointer,     *)
(* which the repository does not define, as HazPtrHolder::release.         *)
(*                                                                         *)
(* Every call is made by a thread of its own.  Each load, store and        *)
(* compare-and-swap is a step, in the order of the program (module         *)
(* HazardPointer shows what store buffers and half-linked slots do).  The  *)
(* node that enqueue call e allocates is e, and home is its address:       *)
(* fresh, or that of a node that was freed.  The code compares and follows *)
(* addresses.  A variable holds the node that was last seen at the address *)
(* it has.  Of the domain, reclaim_all is left, which reads the slots one  *)
(* after the other.                                                        *)
(***************************************************************************)
EXTENDS Integers, FiniteSets, Sequences, Functions

CONSTANTS
    Enqs, Deqs,   \* the calls
    dummy, nullptr, nothing

ASSUME QueueAssumption ==
    /\ dummy \notin Enqs
    /\ nullptr \notin Enqs \cup {dummy}
    /\ nothing \notin Enqs \cup {"empty"}
    /\ Enqs \cap Deqs = {}

Nodes == Enqs \cup {dummy}
Pointers == Nodes \cup {nullptr}
Calls == Enqs \cup Deqs

VARIABLES
    head, tail, next,             \* the queue
    pc, curr_head, curr_tail, nxt,   \* each call
    hp_head, hp_next,             \* what the holders of a dequeue call protect
    result,
    home,                         \* the address of each node
    retired, freed,
    victim, unread,               \* reclaim_all: a node, and the slots not yet read
    stale,                        \* enqueue used its unprotected curr_tail too late
    wasEmpty                      \* history: the dequeue calls that Fifo lets return false

queueVars == <<head, tail, next>>
localVars == <<curr_head, curr_tail, nxt>>
hazardVars == <<hp_head, hp_next>>
memoryVars == <<home, retired, freed, victim, unread>>
vars == <<queueVars, pc, localVars, hazardVars, result, memoryVars, stale, wasEmpty>>

\* The nodes from n on.
ChainFrom(n) ==
    LET chain[p \in Pointers] == IF p = nullptr THEN <<>> ELSE <<p>> \o chain[next[p]]
    IN  chain[n]
InQueue == Range(ChainFrom(head))

\* The nodes that are in memory, and the one at the address of p now: another one, if
\* p was freed and its memory allocated again.
Allocated == {dummy} \cup {e \in Enqs : pc[e] # "idle"}
Live == Allocated \ freed
Here(p) ==
    IF p \in freed /\ (\E n \in Live : home[n] = home[p])
    THEN CHOOSE n \in Live : home[n] = home[p]
    ELSE p

InProgress == {c \in Calls : pc[c] \notin {"idle", "done"}}

Undecided == {d \in Deqs : pc[d] \notin {"idle", "read", "retire", "done"}}

PC == {"idle", "load", "protect", "check", "tail", "next", "protect next", "check again",
       "link", "swing", "help", "pop", "read", "retire", "done"}

TypeOK ==
    /\ head \in Pointers /\ tail \in Nodes /\ next \in [Nodes -> Pointers]
    /\ pc \in [Calls -> PC]
    /\ curr_head \in [Deqs -> Pointers]
    /\ curr_tail \in [Calls -> Pointers]
    /\ nxt \in [Calls -> Pointers]
    /\ hp_head \in [Deqs -> Pointers] /\ hp_next \in [Deqs -> Pointers]
    /\ result \in [Deqs -> Enqs \cup {nothing, "empty"}]
    /\ home \in [Nodes -> Nodes]
    /\ retired \subseteq Nodes /\ freed \subseteq Nodes
    /\ victim \in Pointers
    /\ unread \subseteq Deqs \X {1, 2}
    /\ stale \in BOOLEAN
    /\ wasEmpty \subseteq Deqs

Init ==
    /\ head = dummy /\ tail = dummy
    /\ next = [n \in Nodes |-> nullptr]
    /\ pc = [c \in Calls |-> "idle"]
    /\ curr_head = [d \in Deqs |-> nullptr]
    /\ curr_tail = [c \in Calls |-> nullptr]
    /\ nxt = [c \in Calls |-> nullptr]
    /\ hp_head = [d \in Deqs |-> nullptr] /\ hp_next = [d \in Deqs |-> nullptr]
    /\ result = [d \in Deqs |-> nothing]
    /\ home = [n \in Nodes |-> n]
    /\ retired = {} /\ freed = {}
    /\ victim = nullptr /\ unread = {}
    /\ stale = FALSE
    /\ wasEmpty = {}

Step(c, from, to) == ~stale /\ pc[c] = from /\ pc' = [pc EXCEPT ![c] = to]

\* A step that only changes the local variables of c, or none.
Local(c, from, to) ==
    Step(c, from, to) /\ UNCHANGED <<queueVars, hazardVars, result, memoryVars, stale, wasEmpty>>

Goto(c, from, to) == Local(c, from, to) /\ UNCHANGED localVars

LoadTail(c, from, to) ==
    /\ Local(c, from, to)
    /\ curr_tail' = [curr_tail EXCEPT ![c] = tail]
    /\ UNCHANGED <<curr_head, nxt>>

Destroyed == head = nullptr

-----------------------------------------------------------------------------
(***************************************************************************)
(* enqueue.                                                                *)
(***************************************************************************)
\* new Node<T>(data)
EnqueueBegin(e) ==
    /\ ~Destroyed
    /\ Step(e, "idle", "load")
    /\ \E a \in ({e} \cup {home[n] : n \in freed}) \ {home[n] : n \in Live} :
        home' = [home EXCEPT ![e] = a]
    /\ UNCHANGED <<queueVars, localVars, hazardVars, result, retired, freed, victim, unread,
                   stale, wasEmpty>>

EnqueueLoadTail(e) == LoadTail(e, "load", "next")

\* curr_tail is followed without protection.
EnqueueLoadNext(e) ==
    /\ Step(e, "next", "check")
    /\ LET n == Here(curr_tail[e])
       IN  /\ stale' = (n \in freed)
           /\ curr_tail' = [curr_tail EXCEPT ![e] = n]
           /\ nxt' = [nxt EXCEPT ![e] = next[n]]
    /\ UNCHANGED <<queueVars, curr_head, hazardVars, result, memoryVars, wasEmpty>>

EnqueueCheck(e) ==
    LET same == home[curr_tail[e]] = home[tail]
    IN  /\ Local(e, "check", IF ~same THEN "load" ELSE IF nxt[e] = nullptr THEN "link" ELSE "help")
        /\ curr_tail' = [curr_tail EXCEPT ![e] = IF same /\ nxt[e] = nullptr THEN tail ELSE @]
        /\ UNCHANGED <<curr_head, nxt>>

\* The model ends where the memory is free, or is that of another node, to which the
\* compare-and-swap would link.
Link(e, free) ==
    LET last == curr_tail[e]
        links == free /\ last \notin freed
    IN  /\ Step(e, "link", IF links THEN "swing" ELSE "load")
        /\ stale' = (last \in freed /\ (Here(last) = last \/ next[Here(last)] = nullptr))
        /\ next' = IF links THEN [next EXCEPT ![last] = e] ELSE next
        /\ UNCHANGED <<head, tail, localVars, hazardVars, result, memoryVars, wasEmpty>>

\* Mutant: a store, where there is a compare-and-swap.
EnqueueStore(e) == Link(e, TRUE)

\* The compare-and-swap of curr_tail->next from nullptr.
EnqueueLink(e) == Link(e, next[curr_tail[e]] = nullptr)

\* Mutant: the new value is passed as the expected one.
MoveTailNever(c, to) == tail' = (IF tail = to THEN to ELSE tail) /\ UNCHANGED stale

\* tail.compare_exchange_weak(curr_tail, to), which also moves a tail that is another
\* node at the address of curr_tail.  There the model ends.
MoveTail(c, to) ==
    LET same == home[curr_tail[c]] = home[tail]
    IN  /\ tail' = IF same THEN to ELSE tail
        /\ stale' = (same /\ curr_tail[c] # tail)

EnqueueSwing(e) ==
    /\ Step(e, "swing", "done")
    /\ MoveTail(e, e)
    /\ UNCHANGED <<head, next, localVars, hazardVars, result, memoryVars, wasEmpty>>

\* A lagging tail is moved, in enqueue and in dequeue.
Help(c) ==
    /\ Step(c, "help", "load")
    /\ MoveTail(c, nxt[c])
    /\ UNCHANGED <<head, next, localVars, hazardVars, result, memoryVars, wasEmpty>>

Enqueue(e) == \/ EnqueueLoadTail(e) \/ EnqueueLoadNext(e) \/ EnqueueCheck(e)
              \/ EnqueueLink(e) \/ EnqueueSwing(e)

-----------------------------------------------------------------------------
(***************************************************************************)
(* dequeue.                                                                *)
(***************************************************************************)
DequeueBegin(d) ==
    /\ ~Destroyed
    /\ Step(d, "idle", "load")
    /\ wasEmpty' = wasEmpty \cup (IF next[head] = nullptr THEN {d} ELSE {})
    /\ UNCHANGED <<queueVars, localVars, hazardVars, result, memoryVars, stale>>

DequeueLoadHead(d) ==
    /\ Local(d, "load", "protect")
    /\ curr_head' = [curr_head EXCEPT ![d] = head]
    /\ UNCHANGED <<curr_tail, nxt>>

DequeueProtect(d) ==
    /\ Step(d, "protect", "check")
    /\ hp_head' = [hp_head EXCEPT ![d] = curr_head[d]]
    /\ UNCHANGED <<queueVars, localVars, hp_next, result, memoryVars, stale, wasEmpty>>

\* Mutant: head is not loaded again.
DequeueTrust(d) == Goto(d, "check", "tail")

DequeueCheck(d) ==
    LET same == home[curr_head[d]] = home[head]
    IN  /\ Local(d, "check", IF same THEN "tail" ELSE "load")
        /\ curr_head' = [curr_head EXCEPT ![d] = IF same THEN head ELSE @]
        /\ UNCHANGED <<curr_tail, nxt>>

DequeueLoadTail(d) == LoadTail(d, "tail", "next")

DequeueLoadNext(d) ==
    /\ Local(d, "next", "protect next")
    /\ nxt' = [nxt EXCEPT ![d] = next[curr_head[d]]]
    /\ UNCHANGED <<curr_head, curr_tail>>

DequeueProtectNext(d) ==
    /\ Step(d, "protect next", "check again")
    /\ hp_next' = [hp_next EXCEPT ![d] = nxt[d]]
    /\ UNCHANGED <<queueVars, localVars, hp_head, result, memoryVars, stale, wasEmpty>>

Unprotect(d) == hp_head' = [hp_head EXCEPT ![d] = nullptr]
                /\ hp_next' = [hp_next EXCEPT ![d] = nullptr]

DequeueEmpty(d) ==
    /\ Step(d, "check again", "done")
    /\ home[curr_head[d]] = home[head]
    /\ nxt[d] = nullptr
    /\ result' = [result EXCEPT ![d] = "empty"]
    /\ Unprotect(d)
    /\ UNCHANGED <<queueVars, localVars, memoryVars, stale, wasEmpty>>

Choose(d, nonempty, lagging) ==
    LET same == home[curr_head[d]] = home[head]
    IN  /\ Goto(d, "check again", IF ~same THEN "load" ELSE IF lagging THEN "help" ELSE "pop")
        /\ same => nonempty

\* Mutants: the test for a lagging tail comes before that for an empty queue;
\* head may overtake tail.
DequeueChooseFirst(d) == Choose(d, TRUE, home[curr_head[d]] = home[curr_tail[d]])

DequeueOvertake(d) == Choose(d, nxt[d] # nullptr, FALSE)

DequeueChoose(d) == Choose(d, nxt[d] # nullptr, home[curr_head[d]] = home[curr_tail[d]])

DequeuePop(d) ==
    /\ LET won == home[curr_head[d]] = home[head]
       IN  /\ Step(d, "pop", IF won THEN "read" ELSE "load")
           /\ head' = IF won THEN nxt[d] ELSE head
           /\ wasEmpty' = IF won /\ next[nxt[d]] = nullptr THEN wasEmpty \cup (Undecided \ {d})
                          ELSE wasEmpty
    /\ UNCHANGED <<tail, next, localVars, hazardVars, result, memoryVars, stale>>

\* result = next->data, and the holders release their slots.
DequeueRead(d) ==
    /\ Step(d, "read", "retire")
    /\ result' = [result EXCEPT ![d] = nxt[d]]
    /\ Unprotect(d)
    /\ UNCHANGED <<queueVars, localVars, memoryVars, stale, wasEmpty>>

DequeueRetire(d) ==
    /\ Step(d, "retire", "done")
    /\ retired' = retired \cup {curr_head[d]}
    /\ UNCHANGED <<queueVars, localVars, hazardVars, result, home, freed, victim, unread, stale, wasEmpty>>

Dequeue(d) == \/ DequeueLoadHead(d) \/ DequeueProtect(d) \/ DequeueCheck(d)
              \/ DequeueLoadTail(d) \/ DequeueLoadNext(d) \/ DequeueProtectNext(d)
              \/ DequeueEmpty(d) \/ DequeueChoose(d) \/ DequeuePop(d)
              \/ DequeueRead(d) \/ DequeueRetire(d)

-----------------------------------------------------------------------------
(***************************************************************************)
(* reclaim_all, for one retired node at a time, and the destructor, which  *)
(* runs when no call is in progress.                                       *)
(***************************************************************************)
reclaimLeaves == <<queueVars, pc, localVars, hazardVars, result, stale, wasEmpty>>

ReclaimBegin(n) ==
    /\ ~stale
    /\ victim = nullptr
    /\ n \in retired
    /\ victim' = n
    /\ unread' = (InProgress \cap Deqs) \X {1, 2}
    /\ UNCHANGED <<home, retired, freed, reclaimLeaves>>

ReclaimRead(slot) ==
    /\ ~stale
    /\ slot \in unread
    /\ LET p == (IF slot[2] = 1 THEN hp_head ELSE hp_next)[slot[1]]
       IN  IF p # nullptr /\ home[p] = home[victim]
           THEN victim' = nullptr /\ unread' = {}
           ELSE unread' = unread \ {slot} /\ UNCHANGED victim
    /\ UNCHANGED <<home, retired, freed, reclaimLeaves>>

ReclaimDelete ==
    /\ ~stale
    /\ victim # nullptr
    /\ unread = {}
    /\ retired' = retired \ {victim}
    /\ freed' = freed \cup {victim}
    /\ victim' = nullptr
    /\ UNCHANGED <<home, unread, reclaimLeaves>>

DestroyFreeing(nodes) ==
    /\ ~stale
    /\ ~Destroyed
    /\ InProgress = {}
    /\ freed' = freed \cup nodes
    /\ head' = nullptr
    /\ UNCHANGED <<tail, next, pc, localVars, hazardVars, result, home, retired, victim, unread,
                   stale, wasEmpty>>

\* Mutant: the dummy node, which holds no item, is left.
DestroyItems == DestroyFreeing(InQueue \ {head})

Destroy == DestroyFreeing(InQueue)

-----------------------------------------------------------------------------
\* What follows a stale access is not modelled; after the last call and the
\* destructor nothing happens.
Stop == (stale \/ (Destroyed /\ retired = {})) /\ UNCHANGED vars

Next == \/ \E e \in Enqs : EnqueueBegin(e) \/ Enqueue(e)
        \/ \E d \in Deqs : DequeueBegin(d) \/ Dequeue(d)
        \/ \E c \in Calls : Help(c)
        \/ \E n \in Nodes : ReclaimBegin(n)
        \/ \E slot \in Deqs \X {1, 2} : ReclaimRead(slot)
        \/ ReclaimDelete \/ Destroy \/ Stop

Spec == Init /\ [][Next]_vars

\* Threads that are in a call are scheduled.
FairSpec ==
    /\ Spec
    /\ \A e \in Enqs : WF_vars(Enqueue(e) \/ Help(e))
    /\ \A d \in Deqs : WF_vars(Dequeue(d) \/ Help(d))

-----------------------------------------------------------------------------
(***************************************************************************)
(* Properties.  They speak of the time before stale: an enqueue call has   *)
(* no hazard pointer, and may follow a tail that was dequeued and          *)
(* reclaimed since, or take a node that was allocated in its place for it. *)
(***************************************************************************)

\* tail never falls behind head and lags by one node at most, whichever call helps
\* and whichever was stopped between its two compare-and-swaps, until an enqueue call
\* uses a curr_tail that was freed since it was loaded.  (Its compare-and-swap on tail
\* can then succeed at an address that was allocated again, and put tail behind head.)
TailNotBehind ==
    /\ ~stale /\ ~Destroyed => tail \in InQueue /\ Len(ChainFrom(tail)) <= 2
    /\ stale => \E e \in Enqs : curr_tail[e] \in freed

\* dequeue follows head and next only while they are not reclaimed, although
\* reclaim_all reads the slots one by one (line 118: "read the data safely").
DequeueTouchesNoFreed ==
    ~stale => \A d \in Deqs :
        /\ pc[d] = "next" => curr_head[d] \notin freed
        /\ pc[d] = "read" => nxt[d] \notin freed

\* Every node is in one place: with the call that allocated it, in the queue, with
\* the dequeue call that is to retire it, retired, or freed; so none is leaked or
\* deleted twice, by the destructor either.
NodesAccounted ==
    ~stale =>
        LET private == {e \in Enqs : pc[e] \notin {"swing", "done"}}
            retiring(n) == {d \in Deqs : pc[d] \in {"read", "retire"} /\ curr_head[d] = n}
            linked == IF Destroyed THEN {} ELSE InQueue
            One(S, n) == IF n \in S THEN 1 ELSE 0
        IN  \A n \in Nodes : One(private, n) + One(linked, n) + Cardinality(retiring(n))
                             + One(retired, n) + One(freed, n) = 1

\* MPMCQueue implements Fifo: items come out in order and once, and false is
\* returned only if the queue was empty during the call.
Abstract == INSTANCE Fifo WITH
    open <- ~Destroyed,
    begun <- {d \in Deqs : pc[d] # "idle"},
    items <- IF Destroyed THEN <<>> ELSE Tail(ChainFrom(head)),
    added <- {e \in Enqs : pc[e] \in {"swing", "done"}},
    got <- [d \in Deqs |-> IF pc[d] = "read" THEN nxt[d] ELSE result[d]]

ImplementsFifo == Abstract!Spec

\* Every call returns: the loops of enqueue and dequeue end, as a call goes round
\* only if another one made progress.  (Each call is made once, so it is the same
\* to say that again and again none is in progress.)
CallsReturn == []<>(InProgress = {} \/ stale)
=============================================================================
