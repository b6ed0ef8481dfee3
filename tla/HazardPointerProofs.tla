------------------------ MODULE HazardPointerProofs -------------------------
(***************************************************************************)
(* Proofs about HazardPointer, for any number of threads and nodes and any *)
(* thresholds.                                                             *)
(***************************************************************************)
EXTENDS HazardPointer, FiniteSetTheorems, TLAPS

-----------------------------------------------------------------------------
(***************************************************************************)
(* Types, and the ownership of slots.                                      *)
(***************************************************************************)
\* There are finitely many threads.
LEMMA ThreadCount == Cardinality(Threads) \in Nat
BY HazardAssumption, FS_CardinalityType

\* A thread that goes on with a pointer has one.
HasPointer ==
    \A t \in Threads :
        pc[t] \in {"protect", "check", "use", "retire", "emplace"} => seen[t] \in Nodes

\* A slot has an owner exactly while the owner's holder has the slot, and slots that
\* do not exist yet have none.
Owned ==
    /\ \A s \in Slots : owner_[s] # NoThread => held[owner_[s]] = s
    /\ \A t \in Threads : held[t] # 0 => held[t] <= slots /\ owner_[held[t]] = t

SlotInv == TypeOK /\ HasPointer /\ Owned

\* No slot is owned in the beginning.
LEMMA SlotInit == Init => SlotInv
<1> SUFFICES ASSUME Init PROVE TypeOK /\ HasPointer /\ Owned
  BY DEF SlotInv
<1>1. TypeOK BY Zenon, HazardAssumption DEF Init, TypeOK
<1>2. HasPointer BY DEF Init, HasPointer
<1>3. Owned BY DEF Init, Owned
<1> QED BY <1>1, <1>2, <1>3

\* As every slot in use belongs to another thread, there is room for one more slot
\* if a thread has none.
LEMMA RoomForSlot ==
    ASSUME SlotInv, NEW t \in Threads, held[t] = 0, \A s \in 1..slots : owner_[s] # NoThread
    PROVE  slots + 1 \in Slots
<1> DEFINE f == [s \in 1..slots |-> owner_[s]]
           others == Threads \ {t}
<1>1. slots \in Nat /\ 1..slots \subseteq Slots
  BY ThreadCount DEF SlotInv, TypeOK, Slots
<1>2. \A s \in 1..slots : owner_[s] \in others /\ held[owner_[s]] = s
  BY <1>1 DEF SlotInv, TypeOK, Owned
<1>3. f \in Injection(1..slots, others)
  BY <1>2 DEF Injection, IsInjective
<1>4. IsFiniteSet(others) /\ Cardinality(others) = Cardinality(Threads) - 1
  BY HazardAssumption, FS_RemoveElement
<1>5. Cardinality(1..slots) <= Cardinality(others)
  BY <1>3, <1>4, FS_Injection
<1>6. Cardinality(1..slots) = slots
  BY <1>1, FS_Interval
<1> QED BY <1>1, <1>4, <1>5, <1>6, ThreadCount DEF Slots

\* What acquire does.
Takes(t, s) ==
    /\ owner_[s] = NoThread
    /\ slots' \in Slots
    /\ slots <= slots'
    /\ s <= slots'
    /\ owner_' = [owner_ EXCEPT ![s] = t]
    /\ held' = [held EXCEPT ![t] = s]

\* A free slot is one nobody owns.
LEMMA AcquireTakes ==
    ASSUME SlotInv, NEW t \in Threads, Acquire(t)
    PROVE  \E s \in Slots : Takes(t, s)
<1>1. slots \in Nat /\ 1..slots \subseteq Slots
  BY ThreadCount DEF SlotInv, TypeOK, Slots
<1>2. PICK s \in 1..slots : /\ owner_[s] = NoThread
                            /\ slots' = slots
                            /\ owner_' = [owner_ EXCEPT ![s] = t]
                            /\ held' = [held EXCEPT ![t] = s]
  BY Zenon DEF Acquire, Take, FreeSlots
<1>3. s \in Slots /\ s <= slots /\ slots \in Slots BY <1>1, <1>2 DEF SlotInv, TypeOK, Slots
<1>4. slots <= slots' BY <1>1, <1>2
<1>5. Takes(t, s) BY <1>2, <1>3, <1>4 DEF Takes
<1> QED BY <1>3, <1>5

\* So is a new one.
LEMMA AcquireNewTakes ==
    ASSUME SlotInv, NEW t \in Threads, AcquireNew(t)
    PROVE  \E s \in Slots : Takes(t, s)
<1>1. slots \in Nat
  BY ThreadCount DEF SlotInv, TypeOK, Slots
<1>2. /\ slots' = slots + 1
      /\ owner_' = [owner_ EXCEPT ![slots + 1] = t]
      /\ held' = [held EXCEPT ![t] = slots + 1]
      /\ held[t] = 0
      /\ \A s \in 1..slots : owner_[s] # NoThread
  BY DEF AcquireNew, Take, FreeSlots
<1>3. slots + 1 \in Slots BY <1>2, RoomForSlot
<1>4. owner_[slots + 1] = NoThread
  <2>1. SUFFICES ASSUME owner_[slots + 1] # NoThread PROVE FALSE
    OBVIOUS
  <2>2. owner_[slots + 1] \in Threads BY <1>3, <2>1 DEF SlotInv, TypeOK
  <2>3. held[owner_[slots + 1]] = slots + 1 BY <1>3, <2>1 DEF SlotInv, Owned
  <2>4. held[owner_[slots + 1]] <= slots BY <1>1, <2>2, <2>3 DEF SlotInv, Owned
  <2> QED BY <1>1, <2>3, <2>4
<1>5. Takes(t, slots + 1) BY <1>1, <1>2, <1>3, <1>4 DEF Takes
<1> QED BY <1>3, <1>5

\* What a step of t leaves alone in the other threads: all but acquire and
\* Release leave the slots to their owners.
LEMMA OwnedElsewhere ==
    ASSUME Owned, UNCHANGED <<slots, owner_, held>>
    PROVE  Owned'
BY DEF Owned

\* The steps that begin an operation keep the slots exclusive.
LEMMA SlotBegin ==
    ASSUME SlotInv, NEW t \in Threads, Begin(t)
    PROVE  SlotInv'
<1> USE DEF clientVars, slotVars, retireVars, reclaimVars, races, Step
<1>1. CASE Acquire(t) \/ AcquireNew(t)
  <2>1. PICK s \in Slots : Takes(t, s) BY <1>1, AcquireTakes, AcquireNewTakes
  <2>2. PICK to \in {"idle", "link"} :
              /\ pc' = [pc EXCEPT ![t] = to]
              /\ UNCHANGED <<clientVars, freed, hazard_ptr_, buffer, seen, registered, retireVars,
                             reclaimVars, races>>
              /\ held[t] = 0
    BY <1>1 DEF Acquire, AcquireNew, Take
  <2>3. TypeOK' BY <2>1, <2>2 DEF Takes, SlotInv, TypeOK
  <2>4. HasPointer' BY <2>2 DEF SlotInv, TypeOK, HasPointer
  <2>5. s # 0 /\ s \in Nat /\ slots \in Nat /\ slots' \in Nat
    BY <2>1, ThreadCount DEF Takes, Slots, SlotInv, TypeOK
  <2>6. ASSUME NEW r \in Slots, owner_'[r] # NoThread PROVE held'[owner_'[r]] = r
    <3>1. CASE r = s BY <2>1, <3>1 DEF Takes, SlotInv, TypeOK
    <3>2. CASE r # s
      <4>1. owner_'[r] = owner_[r] BY <2>1, <3>2 DEF Takes, SlotInv, TypeOK
      <4>2. owner_[r] \in Threads /\ held[owner_[r]] = r
        BY <2>6, <4>1 DEF SlotInv, TypeOK, Owned
      <4>3. r # 0 BY DEF Slots
      <4>4. owner_[r] # t BY <2>2, <4>2, <4>3
      <4> QED BY <2>1, <4>1, <4>2, <4>4 DEF Takes, SlotInv, TypeOK
    <3> QED BY <3>1, <3>2
  <2>7. ASSUME NEW u \in Threads, held'[u] # 0 PROVE held'[u] <= slots' /\ owner_'[held'[u]] = u
    <3>1. CASE u = t BY <2>1, <3>1 DEF Takes, SlotInv, TypeOK
    <3>2. CASE u # t
      <4>1. held'[u] = held[u] /\ held[u] # 0 /\ held[u] \in Slots
        BY <2>1, <2>7, <3>2 DEF Takes, SlotInv, TypeOK
      <4>2. held[u] <= slots /\ owner_[held[u]] = u BY <4>1 DEF SlotInv, Owned
      <4>3. held[u] # s BY <2>1, <3>2, <4>2, HazardAssumption DEF Takes
      <4>4. held[u] <= slots'
        BY <2>1, <2>5, <4>1, <4>2, ThreadCount DEF Takes, Slots
      <4> QED BY <2>1, <4>1, <4>2, <4>3, <4>4 DEF Takes, SlotInv, TypeOK
    <3> QED BY <3>1, <3>2
  <2> QED BY <2>3, <2>4, <2>6, <2>7 DEF SlotInv, Owned
<1>2. CASE Load(t)
  <2>1. TypeOK' BY <1>2 DEF Load, SlotInv, TypeOK
  <2>2. HasPointer' BY <1>2 DEF Load, SlotInv, TypeOK, HasPointer
  <2> QED BY <1>2, <2>1, <2>2, OwnedElsewhere DEF Load, SlotInv
<1>3. CASE Release(t)
  <2>1. TypeOK' BY <1>3, HazardAssumption DEF Release, SlotInv, TypeOK
  <2>2. HasPointer' BY <1>3 DEF Release, SlotInv, TypeOK, HasPointer
  <2>3. /\ held[t] # 0
        /\ owner_' = [owner_ EXCEPT ![held[t]] = NoThread]
        /\ held' = [held EXCEPT ![t] = 0]
        /\ slots' = slots
    BY <1>3 DEF Release
  <2>4. held[t] \in Slots /\ owner_[held[t]] = t
    BY <2>3 DEF SlotInv, TypeOK, Owned
  <2>5. ASSUME NEW r \in Slots, owner_'[r] # NoThread PROVE held'[owner_'[r]] = r
    <3>1. r # held[t] /\ owner_'[r] = owner_[r]
      BY <2>3, <2>5 DEF SlotInv, TypeOK
    <3>2. held[owner_[r]] = r /\ owner_[r] \in Threads
      BY <2>5, <3>1 DEF SlotInv, TypeOK, Owned
    <3> QED BY <2>3, <3>1, <3>2 DEF SlotInv, TypeOK
  <2>6. ASSUME NEW u \in Threads, held'[u] # 0 PROVE held'[u] <= slots' /\ owner_'[held'[u]] = u
    <3>1. u # t /\ held'[u] = held[u] /\ held[u] # 0
      BY <2>3, <2>6 DEF SlotInv, TypeOK
    <3>2. held[u] \in Slots /\ held[u] <= slots /\ owner_[held[u]] = u
      BY <3>1 DEF SlotInv, TypeOK, Owned
    <3>3. held[u] # held[t] BY <2>4, <3>1, <3>2
    <3> QED BY <2>3, <3>1, <3>2, <3>3 DEF SlotInv, TypeOK
  <2> QED BY <2>1, <2>2, <2>5, <2>6 DEF SlotInv, Owned
<1>4. CASE Scan(t)
  <2>1. TypeOK' BY <1>4 DEF Scan, SlotInv, TypeOK
  <2>2. HasPointer' BY <1>4 DEF Scan, SlotInv, TypeOK, HasPointer
  <2> QED BY <1>4, <2>1, <2>2, OwnedElsewhere DEF Scan, SlotInv
<1>5. ASSUME NEW n \in Nodes, Unlink(t, n) PROVE SlotInv'
  <2>1. TypeOK' BY <1>5 DEF Unlink, SlotInv, TypeOK
  <2>2. HasPointer' BY <1>5 DEF Unlink, SlotInv, TypeOK, HasPointer
  <2> QED BY <1>5, <2>1, <2>2, OwnedElsewhere DEF Unlink, SlotInv
<1> QED BY <1>1, <1>2, <1>3, <1>4, <1>5 DEF Begin

\* So do the steps inside an operation.
LEMMA SlotContinue ==
    ASSUME SlotInv, NEW t \in Threads, Continue(t) \/ Flush(t)
    PROVE  SlotInv'
<1> USE DEF clientVars, slotVars, retireVars, reclaimVars, races, Step, SlotInv
<1>1. CASE Register(t) \/ Push(t) \/ Link(t) \/ CheckSize(t)
  <2>1. TypeOK' BY <1>1 DEF Register, Push, Link, CheckSize, TypeOK
  <2>2. HasPointer' BY <1>1 DEF Register, Push, Link, CheckSize, TypeOK, HasPointer
  <2> QED BY <1>1, <2>1, <2>2, OwnedElsewhere DEF Register, Push, Link, CheckSize
<1>2. CASE Protect(t)
  <2>1. TypeOK' BY <1>2 DEF Protect, TypeOK
  <2>2. HasPointer' BY <1>2 DEF Protect, TypeOK, HasPointer
  <2> QED BY <1>2, <2>1, <2>2, OwnedElsewhere DEF Protect
<1>3. CASE Check(t)
  <2>1. TypeOK' BY <1>3 DEF Check, Recheck, TypeOK
  <2>2. HasPointer' BY <1>3 DEF Check, Recheck, TypeOK, HasPointer
  <2> QED BY <1>3, <2>1, <2>2, OwnedElsewhere DEF Check, Recheck
<1>4. CASE Use(t) \/ EmplaceBegin(t)
  <2>1. TypeOK' BY <1>4 DEF Use, EmplaceBegin, TypeOK
  <2>2. HasPointer' BY <1>4 DEF Use, EmplaceBegin, TypeOK, HasPointer
  <2> QED BY <1>4, <2>1, <2>2, OwnedElsewhere DEF Use, EmplaceBegin
<1>5. CASE Emplace(t)
  <2>1. pc' = [pc EXCEPT ![t] = "size"] /\ seen' = [seen EXCEPT ![t] = nullptr]
    BY <1>5 DEF Emplace
  <2>2. seen[t] \in Nodes BY <1>5 DEF Emplace, HasPointer
  <2>3. retired_list_' \in [Threads -> SUBSET Nodes]
    BY <1>5, <2>2 DEF Emplace, TypeOK
  <2>4. UNCHANGED <<clientVars, freed, slotVars, registered, global_retired_, mutex, reclaimVars,
                    races>>
    BY <1>5 DEF Emplace
  <2>5. TypeOK' BY Zenon, <2>1, <2>3, <2>4 DEF TypeOK
  <2>6. HasPointer' BY <2>1 DEF TypeOK, HasPointer
  <2> QED BY <2>4, <2>5, <2>6, OwnedElsewhere
<1>6. CASE Submit(t)
  <2>1. PICK to \in {"splice", "idle"} : pc' = [pc EXCEPT ![t] = to]
    BY Zenon, <1>6 DEF Submit, SubmitLeaving
  <2>2. /\ global_retired_' = global_retired_ \cup retired_list_[t]
        /\ retired_list_' = [retired_list_ EXCEPT ![t] = {}]
        /\ mutex' \in {t, NoThread}
        /\ UNCHANGED <<clientVars, freed, slotVars, seen, registered, reclaimVars, races>>
    BY <1>6 DEF Submit, SubmitLeaving
  <2>3. TypeOK' BY <2>1, <2>2 DEF TypeOK
  <2>4. HasPointer' BY <2>1, <2>2 DEF TypeOK, HasPointer
  <2> QED BY <2>2, <2>3, <2>4, OwnedElsewhere
<1>7. CASE Splice(t)
  <2>1. /\ pc' = [pc EXCEPT ![t] = "lock"]
        /\ global_retired_' = global_retired_ \cup UNION {retired_list_[u] : u \in registered}
        /\ retired_list_' = [u \in Threads |-> IF u \in registered THEN {} ELSE retired_list_[u]]
        /\ torn' \in BOOLEAN
        /\ UNCHANGED <<clientVars, freed, slotVars, seen, registered, mutex, reclaimVars, overlooked>>
    BY Zenon, <1>7 DEF Splice, SpliceOf
  <2>2. global_retired_' \subseteq Nodes /\ retired_list_' \in [Threads -> SUBSET Nodes]
    BY <2>1 DEF TypeOK
  <2>3. TypeOK' BY <2>1, <2>2 DEF TypeOK
  <2>4. HasPointer' BY <2>1 DEF TypeOK, HasPointer
  <2> QED BY <2>1, <2>3, <2>4, OwnedElsewhere
<1>8. CASE Lock(t)
  <2>1. TypeOK' BY <1>8 DEF Lock, TypeOK
  <2>2. HasPointer' BY <1>8 DEF Lock, TypeOK, HasPointer
  <2> QED BY <1>8, <2>1, <2>2, OwnedElsewhere DEF Lock
<1>9. CASE ReadSlot(t)
  <2>1. Older(at[t]) \in Slots \cup {0}
    BY <1>9, ThreadCount DEF ReadSlot, Older, TypeOK, Slots
  <2>2. Candidate(t) \in Nodes BY <1>9 DEF ReadSlot, Candidate, TypeOK
  <2>3. at' \in [Threads -> Slots \cup {0}] /\ overlooked' \subseteq Nodes
    BY <1>9, <2>1, <2>2 DEF ReadSlot, walkLeaves, TypeOK
  <2>4. TypeOK' BY <1>9, <2>3 DEF ReadSlot, walkLeaves, TypeOK
  <2>5. HasPointer' BY <1>9 DEF ReadSlot, walkLeaves, TypeOK, HasPointer
  <2> QED BY <1>9, <2>4, <2>5, OwnedElsewhere DEF ReadSlot, walkLeaves
<1>10. CASE Condemn(t)
  <2>1. Candidate(t) \in Nodes BY <1>10 DEF Condemn, Candidate, TypeOK
  <2>2. TypeOK' BY <1>10, <2>1 DEF Condemn, walkLeaves, TypeOK
  <2>3. HasPointer' BY <1>10 DEF Condemn, walkLeaves, TypeOK, HasPointer
  <2> QED BY <1>10, <2>2, <2>3, OwnedElsewhere DEF Condemn, walkLeaves
<1>11. CASE Unlock(t)
  <2>1. TypeOK' BY <1>11 DEF Unlock, TypeOK
  <2>2. HasPointer' BY <1>11 DEF Unlock, TypeOK, HasPointer
  <2> QED BY <1>11, <2>1, <2>2, OwnedElsewhere DEF Unlock
<1>12. CASE Delete(t)
  <2>1. TypeOK' BY <1>12 DEF Delete, TypeOK
  <2>2. HasPointer' BY <1>12 DEF Delete, TypeOK, HasPointer
  <2> QED BY <1>12, <2>1, <2>2, OwnedElsewhere DEF Delete
<1>13. CASE Flush(t)
  <2>1. TypeOK' BY Zenon, <1>13 DEF Flush, TypeOK
  <2>2. HasPointer' BY <1>13 DEF Flush, TypeOK, HasPointer
  <2> QED BY <1>13, <2>1, <2>2, OwnedElsewhere DEF Flush
<1> QED BY <1>1, <1>2, <1>3, <1>4, <1>5, <1>6, <1>7, <1>8, <1>9, <1>10, <1>11, <1>12, <1>13
        DEF Continue

\* Every step keeps the slots exclusive.
LEMMA SlotNext == SlotInv /\ [Next]_vars => SlotInv'
<1>1. SlotInv /\ UNCHANGED vars => SlotInv'
  BY DEF vars, clientVars, slotVars, retireVars, reclaimVars, races, SlotInv, TypeOK, HasPointer, Owned
<1> QED BY <1>1, SlotBegin, SlotContinue DEF Next, Undefined

\* The slots are exclusive in every reachable state.
LEMMA SlotCorrect == Spec => []SlotInv
BY SlotInit, SlotNext, PTL DEF Spec

\* Type correctness; the domain never has more slots than there are threads.
THEOREM TypeCorrect == Spec => []TypeOK
BY SlotCorrect, PTL DEF SlotInv

\* acquire never gives a slot that another holder has, with or without store
\* buffers.
THEOREM HoldersShareNoSlot == Spec => []SlotsExclusive
<1>1. SlotInv => SlotsExclusive BY DEF SlotInv, Owned, SlotsExclusive
<1> QED BY <1>1, SlotCorrect, PTL

-----------------------------------------------------------------------------
(***************************************************************************)
(* A protected node is reclaimed only if isProtected has overlooked it.    *)
(***************************************************************************)

\* The lists of the domain, and what was deleted, are nodes that were unlinked.
Listed ==
    /\ cell \notin unlinked
    /\ freed \cup global_retired_ \subseteq unlinked
    /\ \A t \in Threads : retired_list_[t] \cup unchecked[t] \cup to_reclaim[t] \subseteq unlinked
    /\ \A t \in Threads : pc[t] \in {"retire", "emplace"} => seen[t] \in unlinked

\* A pointer that a thread has protected is in its slot, or in the store buffer and
\* on its way to it.
Published ==
    \A t \in Threads :
        /\ pc[t] \in {"protect", "check", "use"} => held[t] # 0
        /\ pc[t] \in {"check", "use"} => \/ hazard_ptr_[held[t]] = seen[t] /\ buffer[t] = nullptr
                                         \/ buffer[t] = seen[t]

\* isProtected on thread u is examining n.
Examines(u, n) == pc[u] = "walk" /\ unchecked[u] # {} /\ Candidate(u) = n

\* A node n that is published in slot s was not deleted and u will not delete it:
\* to_reclaim does not hold it, and isProtected, if it examines n, has not passed s.
Spared(n, s, u) ==
    /\ n \notin freed
    /\ n \notin to_reclaim[u]
    /\ Examines(u, n) => s <= at[u]

\* Nobody deletes a node in use, unless it was overlooked.
Guarded ==
    \A t, u \in Threads :
        pc[t] = "use" => seen[t] \in overlooked \/ Spared(seen[t], held[t], u)

SafeInv == Listed /\ Published /\ Guarded

\* Nothing is protected, retired or walked in the beginning.
LEMMA SafeInit == Init => SafeInv
<1> SUFFICES ASSUME Init PROVE Listed /\ Published /\ Guarded
  BY DEF SafeInv
<1>1. Listed BY DEF Init, Listed
<1>2. Published BY DEF Init, Published
<1>3. Guarded BY DEF Init, Guarded
<1> QED BY <1>1, <1>2, <1>3

\* A step of t does not change what belongs to another thread, except that Splice
\* takes its retired_list_.
LEMMA StepOfOne ==
    ASSUME SlotInv, NEW t \in Threads, Begin(t) \/ Continue(t), NEW u \in Threads, u # t
    PROVE  /\ pc'[u] = pc[u] /\ seen'[u] = seen[u] /\ held'[u] = held[u]
           /\ unchecked'[u] = unchecked[u] /\ at'[u] = at[u] /\ to_reclaim'[u] = to_reclaim[u]
           /\ buffer'[u] = buffer[u]
<1> USE DEF clientVars, slotVars, retireVars, reclaimVars, races, Step, SlotInv, TypeOK
<1>1. CASE Acquire(t) \/ AcquireNew(t)
  BY <1>1 DEF Acquire, AcquireNew, Take
<1>2. CASE Load(t) \/ Release(t) \/ Scan(t) \/ \E n \in Nodes : Unlink(t, n)
  BY <1>2 DEF Load, Release, Scan, Unlink
<1>3. CASE Register(t) \/ Push(t) \/ Link(t) \/ Protect(t) \/ Check(t) \/ Use(t) \/ EmplaceBegin(t)
  BY <1>3 DEF Register, Push, Link, Protect, Check, Recheck, Use, EmplaceBegin
<1>4. CASE Emplace(t) \/ CheckSize(t) \/ Submit(t) \/ Splice(t)
  BY Zenon, <1>4 DEF Emplace, CheckSize, Submit, SubmitLeaving, Splice, SpliceOf
<1>5. CASE Lock(t) \/ ReadSlot(t)
  BY <1>5 DEF Lock, ReadSlot, walkLeaves
<1>6. CASE Condemn(t) \/ Unlock(t) \/ Delete(t)
  BY <1>6 DEF Condemn, walkLeaves, Unlock, Delete
<1> QED BY Zenon, <1>1, <1>2, <1>3, <1>4, <1>5, <1>6 DEF Begin, Continue

\* What is listed for reclamation was unlinked before.
LEMMA ListedNext ==
    ASSUME SlotInv, Listed, NEW t \in Threads, Begin(t) \/ Continue(t)
    PROVE  Listed'
<1> USE DEF clientVars, slotVars, retireVars, reclaimVars, races, Step
<1>1. ASSUME UNCHANGED <<clientVars, freed, seen, retireVars, reclaimVars>>,
             NEW to, pc' = [pc EXCEPT ![t] = to],
             to \notin {"retire", "emplace"} \/ pc[t] \in {"retire", "emplace"}
      PROVE  Listed'
  BY <1>1 DEF Listed, SlotInv, TypeOK
<1>2. CASE Acquire(t) \/ AcquireNew(t) \/ Release(t) \/ Scan(t) \/ Register(t) \/ Push(t) \/ Link(t)
           \/ Protect(t) \/ EmplaceBegin(t) \/ CheckSize(t)
  BY Zenon, <1>1, <1>2 DEF Acquire, AcquireNew, Take, Release, Scan, Register, Push, Link, Protect,
     EmplaceBegin, CheckSize
<1>3. CASE Load(t) \/ Check(t) \/ Use(t)
  <2>1. /\ UNCHANGED <<clientVars, freed, retireVars, reclaimVars>>
        /\ \A u \in Threads : pc'[u] \in {"retire", "emplace"} =>
                                  pc[u] \in {"retire", "emplace"} /\ seen'[u] = seen[u]
    BY <1>3 DEF Load, Check, Recheck, Use, SlotInv, TypeOK
  <2> QED BY <2>1 DEF Listed
<1>4. ASSUME NEW n \in Nodes, Unlink(t, n) PROVE Listed'
  BY <1>4 DEF Unlink, Listed, SlotInv, TypeOK
<1>5. CASE Emplace(t)
  <2>1. /\ UNCHANGED <<cell, unlinked, freed, global_retired_, unchecked, to_reclaim>>
        /\ pc[t] = "emplace" /\ retired_list_' = [retired_list_ EXCEPT ![t] = @ \cup {seen[t]}]
    BY <1>5 DEF Emplace
  <2>2. \A u \in Threads : pc'[u] \in {"retire", "emplace"} =>
                              pc[u] \in {"retire", "emplace"} /\ seen'[u] = seen[u]
    BY <1>5 DEF Emplace, SlotInv, TypeOK
  <2>3. seen[t] \in unlinked BY <2>1 DEF Listed
  <2>4. \A u \in Threads : retired_list_'[u] \subseteq unlinked
    BY <2>1, <2>3 DEF Listed, SlotInv, TypeOK
  <2> QED BY Zenon, <2>1, <2>2, <2>4 DEF Listed
<1>6. CASE Submit(t)
  BY <1>6 DEF Submit, SubmitLeaving, Listed, SlotInv, TypeOK
<1>7. CASE Splice(t)
  <2>1. /\ UNCHANGED <<cell, unlinked, freed, unchecked, to_reclaim, seen>>
        /\ retired_list_' = [u \in Threads |-> IF u \in registered THEN {} ELSE retired_list_[u]]
        /\ global_retired_' = global_retired_ \cup UNION {retired_list_[u] : u \in registered}
    BY Zenon, <1>7 DEF Splice, SpliceOf
  <2>2. \A u \in Threads : pc'[u] \in {"retire", "emplace"} => pc[u] \in {"retire", "emplace"}
    BY <1>7 DEF Splice, SpliceOf, SlotInv, TypeOK
  <2>3. UNION {retired_list_[u] : u \in registered} \subseteq unlinked BY DEF Listed, SlotInv, TypeOK
  <2>4. \A u \in Threads : retired_list_'[u] \subseteq unlinked BY <2>1 DEF Listed
  <2> QED BY Zenon, <2>1, <2>2, <2>3, <2>4 DEF Listed
<1>8. CASE Lock(t)
  BY <1>8 DEF Lock, Listed, SlotInv, TypeOK
<1>9. CASE ReadSlot(t)
  BY <1>9 DEF ReadSlot, walkLeaves, Listed, SlotInv, TypeOK
<1>10. CASE Condemn(t)
  <2>1. Candidate(t) \in unchecked[t] BY <1>10 DEF Condemn, Candidate
  <2>2. Candidate(t) \in unlinked BY <2>1 DEF Listed
  <2>3. /\ UNCHANGED <<cell, unlinked, freed, retired_list_, seen>>
        /\ unchecked' = [unchecked EXCEPT ![t] = @ \ {Candidate(t)}]
        /\ global_retired_' = global_retired_ \ {Candidate(t)}
        /\ to_reclaim' = [to_reclaim EXCEPT ![t] = @ \cup {Candidate(t)}]
    BY <1>10 DEF Condemn, walkLeaves
  <2>4. \A u \in Threads : pc'[u] \in {"retire", "emplace"} => pc[u] \in {"retire", "emplace"}
    BY <1>10 DEF Condemn, SlotInv, TypeOK
  <2>5. \A u \in Threads : unchecked'[u] \subseteq unlinked /\ to_reclaim'[u] \subseteq unlinked
    BY <2>2, <2>3 DEF Listed, SlotInv, TypeOK
  <2> QED BY Zenon, <2>3, <2>4, <2>5 DEF Listed
<1>11. CASE Unlock(t)
  BY <1>11 DEF Unlock, Listed, SlotInv, TypeOK
<1>12. CASE Delete(t)
  BY <1>12 DEF Delete, Listed, SlotInv, TypeOK
<1> QED BY <1>2, <1>3, <1>4, <1>5, <1>6, <1>7, <1>8, <1>9, <1>10, <1>11, <1>12
        DEF Begin, Continue

\* A holder that found its node in place has published it.
LEMMA PublishedNext ==
    ASSUME SlotInv, Published, NEW t \in Threads, Begin(t) \/ Continue(t)
    PROVE  Published'
<1> USE DEF clientVars, slotVars, retireVars, reclaimVars, races, Step
<1>1. ASSUME NEW u \in Threads, u # t, held[u] # 0
      PROVE  hazard_ptr_'[held[u]] = hazard_ptr_[held[u]]
  <2>1. held[u] # held[t] /\ held[u] \in Slots
    BY <1>1 DEF SlotInv, Owned, TypeOK
  <2>2. CASE Protect(t) \/ Release(t)
    BY <2>1, <2>2 DEF Protect, Release, SlotInv, TypeOK
  <2>3. CASE ~(Protect(t) \/ Release(t))
    BY Zenon, <2>3 DEF Begin, Acquire, AcquireNew, Take, Load, Scan, Unlink, Continue, Register, Push, Link,
       Check, Recheck, Use, EmplaceBegin, Emplace, CheckSize, Submit, SubmitLeaving, Splice, SpliceOf,
       Lock, ReadSlot, Condemn, walkLeaves, Unlock, Delete
  <2> QED BY <2>2, <2>3
<1> DEFINE Pub(u) == /\ pc[u] \in {"protect", "check", "use"} => held[u] # 0
                     /\ pc[u] \in {"check", "use"} =>
                            \/ hazard_ptr_[held[u]] = seen[u] /\ buffer[u] = nullptr
                            \/ buffer[u] = seen[u]
<1>2. ASSUME NEW u \in Threads, u # t PROVE Pub(u)'
  <2>1. pc'[u] = pc[u] /\ seen'[u] = seen[u] /\ held'[u] = held[u] /\ buffer'[u] = buffer[u]
    BY <1>2, StepOfOne
  <2> QED BY Zenon, <1>1, <1>2, <2>1 DEF Published
<1>3. ASSUME pc'[t] \notin {"protect", "check", "use"} PROVE Pub(t)'
  BY <1>3
<1>4. ASSUME Load(t) PROVE Pub(t)'
  BY <1>4 DEF Load, SlotInv, TypeOK
<1>5. ASSUME Protect(t) PROVE Pub(t)'
  <2>1. held[t] # 0 /\ held[t] \in Slots /\ buffer[t] = nullptr
    BY <1>5 DEF Protect, Published, SlotInv, TypeOK
  <2>2. CASE t \in Buffered BY <1>5, <2>1, <2>2 DEF Protect, SlotInv, TypeOK
  <2>3. CASE t \notin Buffered BY <1>5, <2>1, <2>3 DEF Protect, SlotInv, TypeOK
  <2> QED BY <2>2, <2>3
<1>6. ASSUME Check(t) PROVE Pub(t)'
  <2>1. UNCHANGED <<held, hazard_ptr_, buffer>> /\ pc[t] = "check" BY <1>6 DEF Check, Recheck
  <2>2. \/ pc'[t] = "use" /\ seen' = seen
        \/ pc'[t] = "idle"
    BY <1>6 DEF Check, Recheck, SlotInv, TypeOK
  <2> QED BY Zenon, <2>1, <2>2 DEF Published
<1>7. ASSUME ~(Load(t) \/ Protect(t) \/ Check(t))
      PROVE  pc'[t] \notin {"protect", "check", "use"}
  <2>1. CASE Begin(t)
    BY <1>7, <2>1 DEF Begin, Acquire, AcquireNew, Release, Scan, Unlink, SlotInv, TypeOK
  <2>2. CASE \/ Register(t) \/ Push(t) \/ Link(t) \/ Use(t) \/ EmplaceBegin(t) \/ Emplace(t)
             \/ CheckSize(t) \/ Submit(t) \/ Splice(t)
    BY Zenon, <2>2 DEF Register, Push, Link, Use, EmplaceBegin, Emplace, CheckSize, Submit, SubmitLeaving,
       Splice, SpliceOf, SlotInv, TypeOK
  <2>3. CASE Lock(t) \/ ReadSlot(t) \/ Condemn(t) \/ Unlock(t) \/ Delete(t)
    BY <2>3 DEF Lock, ReadSlot, Condemn, Unlock, Delete, SlotInv, TypeOK
  <2> QED BY <1>7, <2>1, <2>2, <2>3 DEF Continue
<1>8. Pub(t)' BY <1>3, <1>4, <1>5, <1>6, <1>7
<1> QED BY <1>2, <1>8 DEF Published

\* A store that leaves the buffer arrives in its slot.
LEMMA PublishedFlush ==
    ASSUME SlotInv, Published, NEW t \in Threads, Flush(t)
    PROVE  Published'
<1>1. /\ UNCHANGED <<pc, seen, held>>
      /\ buffer[t] # nullptr
      /\ hazard_ptr_' = [hazard_ptr_ EXCEPT ![held[t]] = buffer[t]]
      /\ buffer' = [buffer EXCEPT ![t] = nullptr]
  BY DEF Flush
<1> SUFFICES ASSUME NEW u \in Threads, pc[u] \in {"check", "use"}
             PROVE  \/ hazard_ptr_'[held[u]] = seen[u] /\ buffer'[u] = nullptr
                    \/ buffer'[u] = seen[u]
  BY <1>1 DEF Published
<1>2. held[u] # 0 /\ held[u] \in Slots BY DEF Published, SlotInv, TypeOK
<1>3. CASE u = t
  <2>1. buffer[t] = seen[u] BY <1>1, <1>3 DEF Published
  <2> QED BY <1>1, <1>2, <1>3, <2>1 DEF SlotInv, TypeOK
<1>4. CASE u # t
  <2>1. held[u] # held[t] BY <1>2, <1>4 DEF SlotInv, Owned
  <2>2. hazard_ptr_'[held[u]] = hazard_ptr_[held[u]] /\ buffer'[u] = buffer[u]
    BY <1>1, <1>2, <1>4, <2>1 DEF SlotInv, TypeOK
  <2> QED BY <2>2 DEF Published
<1> QED BY <1>3, <1>4

\* A slot that is not the one just read, and was not passed, is still to be read.
LEMMA SlotBefore == \A i, j \in Nat : i <= j /\ i # j => i <= j - 1
OBVIOUS

\* The node n is in slot s or on its way to it.
Arrives(n, s) == hazard_ptr_[s] = n \/ \E r \in Threads : held[r] = s /\ buffer[r] = n

\* What reclaim_all on t may do to such a node, if it is not deleted: unless it
\* overlooks n, it does not pass slot s with n, and does not condemn n.
LEMMA WalkSparesPublished ==
    ASSUME SlotInv, NEW t \in Threads, Begin(t) \/ Continue(t),
           NEW n \in Nodes, NEW s \in Slots, s <= slots, Arrives(n, s),
           Spared(n, s, t)
    PROVE  n \in overlooked' \/ Spared(n, s, t)'
<1> USE DEF Spared, clientVars, slotVars, retireVars, reclaimVars, races, Step
<1>0. s \in Nat \ {0} /\ slots \in Nat /\ at[t] \in Nat
  BY ThreadCount DEF Slots, SlotInv, TypeOK
<1>1. CASE Lock(t)
  BY <1>0, <1>1 DEF Lock, SlotInv, TypeOK
<1>2. CASE ReadSlot(t)
  <2>1. /\ UNCHANGED <<freed, to_reclaim, slots>>
        /\ pc[t] = "walk" /\ unchecked[t] # {} /\ at[t] # 0
    BY Zenon, <1>2 DEF ReadSlot, walkLeaves
  <2>2. CASE hazard_ptr_[at[t]] = Candidate(t)
    BY <1>0, <1>2, <2>1, <2>2 DEF ReadSlot, SlotInv, TypeOK
  <2>3. CASE hazard_ptr_[at[t]] # Candidate(t)
    <3>1. /\ unchecked' = unchecked /\ at'[t] = Older(at[t])
          /\ overlooked' = overlooked \cup {m \in {Candidate(t)} : Misses(m, at[t])}
      BY <1>2, <2>3 DEF ReadSlot, SlotInv, TypeOK
    <3>2. ASSUME Examines(t, n)', n \notin overlooked' PROVE s <= at'[t]
      <4>1. Candidate(t) = n BY Zenon, <3>1, <3>2 DEF Examines, Candidate
      <4>2. s <= at[t] BY <2>1, <4>1 DEF Examines
      <4>3. ~Misses(n, at[t]) BY <3>1, <3>2, <4>1
      <4>4. s # at[t] BY <2>3, <4>1, <4>3 DEF Arrives, Misses
      <4>5. at'[t] = at[t] - 1 BY <3>1, <4>3 DEF Misses
      <4>6. s \in Nat /\ at[t] \in Nat BY <1>0
      <4> QED BY <4>2, <4>4, <4>5, <4>6, SlotBefore, Zenon
    <3> QED BY Zenon, <2>1, <3>2
  <2> QED BY Zenon, <2>2, <2>3
<1>3. CASE Condemn(t)
  <2>1. Candidate(t) # n
    BY <1>0, <1>3 DEF Condemn, Examines
  <2> QED BY <1>0, <1>3, <2>1 DEF Condemn, walkLeaves, SlotInv, TypeOK
<1>4. CASE Unlock(t)
  BY <1>4 DEF Unlock, Examines, SlotInv, TypeOK
<1>5. CASE Delete(t)
  BY <1>5 DEF Delete, Examines, SlotInv, TypeOK
<1>6. ASSUME UNCHANGED <<freed, to_reclaim>>, pc'[t] # "walk"
      PROVE  Spared(n, s, t)'
  BY Zenon, <1>6 DEF Examines
<1>7. CASE Begin(t)
  <2>1. UNCHANGED <<freed, to_reclaim>> /\ pc'[t] # "walk"
    BY Zenon, <1>7 DEF Begin, Acquire, AcquireNew, Take, Load, Release, Scan, Unlink, SlotInv, TypeOK
  <2> QED BY <1>6, <2>1
<1>8. CASE Register(t) \/ Push(t) \/ Link(t) \/ Protect(t) \/ Check(t) \/ Use(t)
  <2>1. UNCHANGED <<freed, to_reclaim>> /\ pc'[t] # "walk"
    BY Zenon, <1>8 DEF Register, Push, Link, Protect, Check, Recheck, Use, SlotInv, TypeOK
  <2> QED BY <1>6, <2>1
<1>9. CASE EmplaceBegin(t) \/ Emplace(t) \/ CheckSize(t) \/ Submit(t) \/ Splice(t)
  <2>1. UNCHANGED <<freed, to_reclaim>> /\ pc'[t] # "walk"
    BY Zenon, <1>9 DEF EmplaceBegin, Emplace, CheckSize, Submit, SubmitLeaving, Splice, SpliceOf, SlotInv, TypeOK
  <2> QED BY <1>6, <2>1
<1> QED BY Zenon, <1>1, <1>2, <1>3, <1>4, <1>5, <1>7, <1>8, <1>9 DEF Continue

\* What was overlooked stays so.
LEMMA OverlookedGrows ==
    ASSUME NEW t \in Threads, Begin(t) \/ Continue(t)
    PROVE  overlooked \subseteq overlooked'
<1> USE DEF races
<1>1. CASE Begin(t)
  BY Zenon, <1>1 DEF Begin, Acquire, AcquireNew, Take, Load, Release, Scan, Unlink
<1>2. CASE ReadSlot(t)
  BY <1>2 DEF ReadSlot
<1>3. CASE Continue(t) /\ ~ReadSlot(t)
  BY Zenon, <1>3 DEF Continue, Register, Push, Link, Protect, Check, Recheck, Use, EmplaceBegin, Emplace,
     CheckSize, Submit, SubmitLeaving, Splice, SpliceOf, Lock, Condemn, Unlock, Delete
<1> QED BY <1>1, <1>2, <1>3

\* A walk over the slots that is in progress has not passed a protecting slot.
LEMMA GuardedNext ==
    ASSUME SlotInv, Listed, Published, Guarded, NEW t \in Threads, Begin(t) \/ Continue(t)
    PROVE  Guarded'
<1> SUFFICES ASSUME NEW r \in Threads, NEW u \in Threads, pc'[r] = "use"
             PROVE  (seen[r] \in overlooked \/ Spared(seen[r], held[r], u))'
  BY DEF Guarded
<1> USE DEF clientVars, slotVars, retireVars, reclaimVars, races, Step
<1>1. CASE pc[r] = "use"
  <2>1. r # t
    <3>1. CASE Begin(t)
      BY Zenon, <1>1, <3>1 DEF Begin, Acquire, AcquireNew, Take, Load, Release, Scan, Unlink
    <3>2. CASE Use(t)
      BY <3>2 DEF Use, SlotInv, TypeOK
    <3>3. CASE Continue(t) /\ ~Use(t)
      BY Zenon, <1>1, <3>3 DEF Continue, Register, Push, Link, Protect, Check, Recheck, EmplaceBegin, Emplace,
         CheckSize, Submit, SubmitLeaving, Splice, SpliceOf, Lock, ReadSlot, Condemn, Unlock, Delete
    <3> QED BY <3>1, <3>2, <3>3
  <2>2. PICK n \in Nodes, s \in Slots : n = seen[r] /\ s = held[r] /\ s <= slots /\ Arrives(n, s)
    BY <1>1 DEF SlotInv, TypeOK, HasPointer, Owned, Published, Arrives
  <2>3. seen'[r] = n /\ held'[r] = s BY Zenon, <2>1, <2>2, StepOfOne
  <2>4. CASE n \in overlooked BY Zenon, <2>3, <2>4, OverlookedGrows
  <2>5. CASE n \notin overlooked
    <3>1. Spared(n, s, t) /\ Spared(n, s, u) BY <1>1, <2>2, <2>5 DEF Guarded
    <3>2. n \in overlooked' \/ Spared(n, s, t)' BY Zenon, <2>2, <3>1, WalkSparesPublished
    <3>3. CASE u # t
      <4>1. /\ pc'[u] = pc[u] /\ unchecked'[u] = unchecked[u] /\ at'[u] = at[u]
            /\ to_reclaim'[u] = to_reclaim[u]
        BY Zenon, <3>3, StepOfOne
      <4> QED BY <2>3, <3>1, <3>2, <4>1 DEF Spared, Examines, Candidate
    <3> QED BY <2>3, <3>2, <3>3 DEF Spared, Examines, Candidate
  <2> QED BY <2>4, <2>5
<1>2. CASE pc[r] # "use"
  <2>1. r = t BY <1>2, StepOfOne
  <2>2. Check(t)
    <3>1. CASE Begin(t)
      BY Zenon, <2>1, <3>1 DEF Begin, Acquire, AcquireNew, Take, Load, Release, Scan, Unlink, SlotInv, TypeOK
    <3>2. CASE \/ Register(t) \/ Push(t) \/ Link(t) \/ Protect(t) \/ Use(t) \/ EmplaceBegin(t)
               \/ Emplace(t) \/ CheckSize(t) \/ Submit(t)
      BY Zenon, <2>1, <3>2 DEF Register, Push, Link, Protect, Use, EmplaceBegin, Emplace, CheckSize, Submit,
         SubmitLeaving, SlotInv, TypeOK
    <3>3. CASE Splice(t) \/ Lock(t) \/ ReadSlot(t) \/ Condemn(t) \/ Unlock(t) \/ Delete(t)
      BY Zenon, <2>1, <3>3 DEF Splice, SpliceOf, Lock, ReadSlot, Condemn, Unlock, Delete, SlotInv, TypeOK
    <3> QED BY <3>1, <3>2, <3>3 DEF Continue
  <2>3. cell = seen[t] /\ UNCHANGED <<freed, seen, reclaimVars>>
    BY <2>1, <2>2 DEF Check, Recheck, SlotInv, TypeOK
  <2>4. seen[t] \notin freed /\ seen[t] \notin to_reclaim[u] /\ seen[t] \notin unchecked[u]
    BY Zenon, <2>3 DEF Listed
  <2>5. ~Examines(u, seen[t])'
    BY <2>3, <2>4 DEF Examines, Candidate
  <2> QED BY <2>1, <2>3, <2>4, <2>5 DEF Spared
<1> QED BY <1>1, <1>2

\* A store that leaves the buffer changes nothing of this.
LEMMA SafeFlush ==
    ASSUME SlotInv, SafeInv, NEW t \in Threads, Flush(t)
    PROVE  SafeInv'
<1>1. UNCHANGED <<cell, unlinked, freed, held, seen, pc, retired_list_, global_retired_, mutex, unchecked,
                  at, to_reclaim, overlooked>>
  BY DEF Flush, clientVars, retireVars, reclaimVars, races
<1>2. Listed' BY <1>1 DEF SafeInv, Listed
<1>3. Published' BY PublishedFlush DEF SafeInv
<1>4. Guarded' BY <1>1 DEF SafeInv, Guarded, Spared, Examines, Candidate
<1> QED BY <1>2, <1>3, <1>4 DEF SafeInv

\* Every step keeps the protection intact.
LEMMA SafeNext == SlotInv /\ SafeInv /\ [Next]_vars => SafeInv'
<1> SUFFICES ASSUME SlotInv, SafeInv, [Next]_vars PROVE SafeInv'
  OBVIOUS
<1>1. CASE UNCHANGED vars
  <2> USE <1>1 DEF vars, clientVars, slotVars, retireVars, reclaimVars, races
  <2>1. Listed' BY DEF SafeInv, Listed
  <2>2. Published' BY DEF SafeInv, Published
  <2>3. Guarded' BY DEF SafeInv, Guarded, Spared, Examines, Candidate
  <2> QED BY <2>1, <2>2, <2>3 DEF SafeInv
<1>2. ASSUME NEW t \in Threads, Begin(t) \/ Continue(t) PROVE SafeInv'
  BY <1>2, ListedNext, PublishedNext, GuardedNext DEF SafeInv
<1> QED BY <1>1, <1>2, SafeFlush DEF Next, Undefined

\* For any number of threads, with or without store buffers: a node is deleted while
\* a thread follows it only if isProtected met a slot that was not linked yet, or a
\* slot that protect's store had not reached yet.
THEOREM NoOtherUseAfterReclaim == Spec => []DeletedInUseWasOverlooked
<1>1. SafeInv => DeletedInUseWasOverlooked
  BY DEF SafeInv, Guarded, Spared, DeletedInUseWasOverlooked
<1> QED BY <1>1, SafeInit, SafeNext, SlotCorrect, PTL DEF Spec

-----------------------------------------------------------------------------
(***************************************************************************)
(* A node that was unlinked is in one list until it is deleted, with or    *)
(* without store buffers.  kind says in which sort of place a node is, and *)
(* by which thread's it is.                                                *)
(***************************************************************************)
Kinds == {"linked", "retiring", "local", "global", "taken", "freed"}

Retires(t, n) == pc[t] \in {"retire", "emplace"} /\ seen[t] = n

\* The lists in which thread t has node n, given its place.
Lists(kind, by, n, t) ==
    /\ Retires(t, n) <=> (kind[n] = "retiring" /\ by[n] = t)
    /\ n \in retired_list_[t] <=> (kind[n] = "local" /\ by[n] = t)
    /\ n \in to_reclaim[t] <=> (kind[n] = "taken" /\ by[n] = t)

Where(kind, by) ==
    /\ kind \in [Nodes -> Kinds] /\ by \in [Nodes -> Threads \cup {NoThread}]
    /\ kind[cell] = "linked"
    /\ \A n \in Nodes : /\ n \in unlinked <=> kind[n] # "linked"
                        /\ n \in global_retired_ <=> kind[n] = "global"
                        /\ n \in freed <=> kind[n] = "freed"
                        /\ kind[n] \in {"retiring", "local", "taken"} => by[n] \in Threads
    /\ \A n \in Nodes, t \in Threads : Lists(kind, by, n, t)

\* The thread that walks global_retired_ holds the mutex, so what it has not checked
\* yet is still there.
Walking == \A t \in Threads : pc[t] = "walk" => mutex = t /\ unchecked[t] \subseteq global_retired_

\* Only the holder of the mutex takes nodes from global_retired_.
LEMMA WalkingNext ==
    ASSUME SlotInv, Walking, NEW t \in Threads, Begin(t) \/ Continue(t)
    PROVE  Walking'
<1> USE DEF clientVars, slotVars, retireVars, reclaimVars, races, Step
<1>1. ASSUME UNCHANGED <<mutex, global_retired_>>, pc'[t] # "walk" PROVE Walking'
  BY Zenon, <1>1, StepOfOne DEF Walking
<1>2. CASE Begin(t)
  <2>1. UNCHANGED <<mutex, global_retired_>> /\ pc'[t] # "walk"
    BY Zenon, <1>2 DEF Begin, Acquire, AcquireNew, Take, Load, Release, Scan, Unlink, SlotInv, TypeOK
  <2> QED BY <1>1, <2>1
<1>3. CASE \/ Register(t) \/ Push(t) \/ Link(t) \/ Protect(t) \/ Check(t) \/ Use(t)
           \/ EmplaceBegin(t) \/ Emplace(t) \/ CheckSize(t) \/ Delete(t)
  <2>1. UNCHANGED <<mutex, global_retired_>> /\ pc'[t] # "walk"
    BY Zenon, <1>3 DEF Register, Push, Link, Protect, Check, Recheck, Use, EmplaceBegin, Emplace, CheckSize,
       Delete, SlotInv, TypeOK
  <2> QED BY <1>1, <2>1
<1>4. ASSUME mutex = NoThread \/ mutex = t, pc'[t] # "walk" PROVE Walking'
  <2>1. ASSUME NEW u \in Threads, pc'[u] = "walk" PROVE FALSE
    <3>1. u # t BY <1>4, <2>1
    <3>2. pc[u] = "walk" BY <2>1, <3>1, StepOfOne
    <3> QED BY <1>4, <3>1, <3>2, HazardAssumption DEF Walking
  <2> QED BY <2>1 DEF Walking
<1>5. CASE Submit(t) \/ Splice(t)
  <2>1. mutex = NoThread /\ pc'[t] # "walk"
    BY Zenon, <1>5 DEF Submit, SubmitLeaving, Splice, SpliceOf, SlotInv, TypeOK
  <2> QED BY <1>4, <2>1
<1>6. CASE Unlock(t)
  <2>1. mutex = t /\ pc'[t] # "walk" BY <1>6 DEF Unlock, Walking, SlotInv, TypeOK
  <2> QED BY <1>4, <2>1
<1>7. ASSUME mutex = NoThread \/ mutex = t, mutex' = t, unchecked'[t] \subseteq global_retired_'
      PROVE  Walking'
  <2>1. ASSUME NEW u \in Threads, pc'[u] = "walk" PROVE u = t
    <3>1. u # t => pc[u] = "walk" BY <2>1, StepOfOne
    <3> QED BY <1>7, <3>1, HazardAssumption DEF Walking
  <2> QED BY Zenon, <1>7, <2>1 DEF Walking
<1>8. CASE Lock(t)
  <2>1. mutex = NoThread /\ mutex' = t /\ unchecked'[t] \subseteq global_retired_'
    BY <1>8 DEF Lock, SlotInv, TypeOK
  <2> QED BY <1>7, <2>1
<1>9. CASE ReadSlot(t) \/ Condemn(t)
  <2>1. mutex = t /\ mutex' = t /\ unchecked[t] \subseteq global_retired_
    BY <1>9 DEF ReadSlot, Condemn, walkLeaves, Walking
  <2>2. unchecked \in [Threads -> SUBSET Nodes] BY DEF SlotInv, TypeOK
  <2>3. CASE ReadSlot(t)
    <3>1. unchecked'[t] \subseteq unchecked[t] /\ global_retired_' = global_retired_
      BY <2>2, <2>3 DEF ReadSlot
    <3> QED BY <1>7, <2>1, <3>1
  <2>4. CASE Condemn(t)
    <3>1. /\ unchecked'[t] = unchecked[t] \ {Candidate(t)}
          /\ global_retired_' = global_retired_ \ {Candidate(t)}
      BY <2>2, <2>4 DEF Condemn
    <3>2. unchecked'[t] \subseteq global_retired_' BY Zenon, <2>1, <3>1
    <3> QED BY <1>7, <2>1, <3>2
  <2> QED BY <1>9, <2>3, <2>4
<1> QED BY <1>2, <1>3, <1>5, <1>6, <1>8, <1>9 DEF Continue

\* Only a step of a thread itself makes it retire a node, or hand one on.
LEMMA RetiresElsewhere ==
    ASSUME SlotInv, NEW t \in Threads, Begin(t) \/ Continue(t), NEW u \in Threads, u # t, NEW n
    PROVE  (Retires(u, n)' <=> Retires(u, n)) /\ to_reclaim'[u] = to_reclaim[u]
BY StepOfOne DEF Retires

\* The types of kind and by; the node that cell points to is linked.
LEMMA WhereType ==
    ASSUME NEW kind, NEW by, Where(kind, by)
    PROVE  /\ kind \in [Nodes -> Kinds] /\ by \in [Nodes -> Threads \cup {NoThread}]
           /\ kind[cell] = "linked"
BY DEF Where

\* A step that takes no node from one place to another.
LEMMA WhereSame ==
    ASSUME SlotInv, NEW kind, NEW by, Where(kind, by), NEW t \in Threads, Begin(t) \/ Continue(t),
           UNCHANGED <<cell, unlinked, freed, retired_list_, global_retired_, to_reclaim>>,
           \A n \in Nodes : Retires(t, n)' <=> Retires(t, n)
    PROVE  Where(kind, by)'
<1>1. \A n \in Nodes, u \in Threads : Retires(u, n)' <=> Retires(u, n) BY RetiresElsewhere
<1>2. \A n \in Nodes, u \in Threads : Lists(kind, by, n, u)' BY Zenon, <1>1 DEF Where, Lists
<1> QED BY <1>2 DEF Where

\* The client unlinks the node that cell points to, and is to retire it.
LEMMA WhereUnlink ==
    ASSUME SlotInv, NEW kind, NEW by, Where(kind, by), NEW t \in Threads, NEW m \in Nodes, Unlink(t, m)
    PROVE  \E k, b : Where(k, b)'
<1> PICK k, b : k = [kind EXCEPT ![cell] = "retiring"] /\ b = [by EXCEPT ![cell] = t]
  BY Zenon
<1>1. /\ pc[t] = "idle" /\ pc' = [pc EXCEPT ![t] = "retire"] /\ m \notin unlinked /\ m # cell
      /\ cell' = m /\ unlinked' = unlinked \cup {cell} /\ seen' = [seen EXCEPT ![t] = cell]
      /\ UNCHANGED <<freed, retired_list_, global_retired_, to_reclaim>>
  BY DEF Unlink, Step, retireVars, reclaimVars
<1>2. cell \in Nodes /\ pc[t] \notin {"retire", "emplace"} BY <1>1 DEF SlotInv, TypeOK
<1>3. Begin(t) BY DEF Begin
<1>4. k \in [Nodes -> Kinds] /\ b \in [Nodes -> Threads \cup {NoThread}] BY Zenon DEF Where, Kinds
<1>5. k[cell] = "retiring" /\ b[cell] = t /\ \A n \in Nodes \ {cell} : k[n] = kind[n] /\ b[n] = by[n]
  BY <1>2, WhereType
<1>6. \A n \in Nodes : ~Retires(t, n) /\ (Retires(t, n)' <=> n = cell)
  <2>1. pc'[t] = "retire" /\ seen'[t] = cell BY <1>1 DEF SlotInv, TypeOK
  <2> QED BY <1>2, <2>1 DEF Retires
<1>7. \A u \in Threads \ {t}, n \in Nodes : Retires(u, n)' <=> Retires(u, n) BY <1>3, RetiresElsewhere
<1>8. k[cell'] = "linked" BY <1>1, <1>5 DEF Where
<1>9. \A n \in Nodes : /\ n \in unlinked' <=> k[n] # "linked"
                       /\ n \in global_retired_' <=> k[n] = "global"
                       /\ n \in freed' <=> k[n] = "freed"
                       /\ k[n] \in {"retiring", "local", "taken"} => b[n] \in Threads
  BY <1>1, <1>2, <1>5 DEF Where
<1>10. \A n \in Nodes, u \in Threads : Lists(k, b, n, u)'
  <2> TAKE n \in Nodes, u \in Threads
  <2>1. retired_list_'[u] = retired_list_[u] /\ to_reclaim'[u] = to_reclaim[u] BY <1>1
  <2>2. Lists(kind, by, n, u) BY DEF Where
  <2>3. CASE n = cell
    <3>1. kind[n] = "linked" BY <2>3, WhereType
    <3>2. Retires(u, n)' <=> t = u BY <1>6, <1>7, <2>2, <2>3, <3>1 DEF Lists
    <3> QED BY Zenon, <1>5, <2>1, <2>2, <2>3, <3>1, <3>2 DEF Lists
  <2>4. CASE n # cell
    <3>1. Retires(u, n)' <=> Retires(u, n) BY <1>6, <1>7, <2>4
    <3> QED BY <1>5, <2>1, <2>2, <2>4, <3>1 DEF Lists
  <2> QED BY <2>3, <2>4
<1>11. Where(k, b)' BY Zenon, <1>4, <1>8, <1>9, <1>10 DEF Where
<1> QED BY <1>11

\* emplace_back puts the node into the thread's own list.
LEMMA WhereEmplace ==
    ASSUME SlotInv, NEW kind, NEW by, Where(kind, by), NEW t \in Threads, Emplace(t)
    PROVE  \E k : Where(k, by)'
<1> PICK k : k = [kind EXCEPT ![seen[t]] = "local"] BY Zenon
<1>1. /\ pc[t] = "emplace" /\ pc'[t] = "size"
      /\ retired_list_' = [retired_list_ EXCEPT ![t] = @ \cup {seen[t]}]
      /\ UNCHANGED <<cell, unlinked, freed, global_retired_, to_reclaim>>
  BY DEF Emplace, Step, clientVars, reclaimVars, SlotInv, TypeOK
<1>2. seen[t] \in Nodes /\ retired_list_ \in [Threads -> SUBSET Nodes]
  BY <1>1 DEF SlotInv, TypeOK, HasPointer
<1>3. Continue(t) BY DEF Continue
<1>4. k \in [Nodes -> Kinds] BY Zenon DEF Where, Kinds
<1>5. k[seen[t]] = "local" /\ \A n \in Nodes \ {seen[t]} : k[n] = kind[n] BY <1>2, WhereType
<1>6. kind[seen[t]] = "retiring" /\ by[seen[t]] = t
  <2>1. Retires(t, seen[t]) BY <1>1 DEF Retires
  <2>2. Lists(kind, by, seen[t], t) BY <1>2 DEF Where
  <2> QED BY <2>1, <2>2 DEF Lists
<1>7. \A n \in Nodes : ~Retires(t, n)' /\ (Retires(t, n) <=> n = seen[t]) BY <1>1 DEF Retires
<1>8. \A u \in Threads \ {t}, n \in Nodes : Retires(u, n)' <=> Retires(u, n) BY <1>3, RetiresElsewhere
<1>9. k[cell'] = "linked"
  <2>1. cell' = cell /\ cell \in Nodes /\ kind[cell] = "linked" BY <1>1, WhereType DEF SlotInv, TypeOK
  <2>2. cell # seen[t] BY <1>6, <2>1
  <2> QED BY <1>5, <2>1, <2>2
<1>10. \A n \in Nodes : /\ n \in unlinked' <=> k[n] # "linked"
                        /\ n \in global_retired_' <=> k[n] = "global"
                        /\ n \in freed' <=> k[n] = "freed"
                        /\ k[n] \in {"retiring", "local", "taken"} => by[n] \in Threads
  BY Zenon, <1>1, <1>5, <1>6 DEF Where
<1>11. \A n \in Nodes, u \in Threads : Lists(k, by, n, u)'
  <2> TAKE n \in Nodes, u \in Threads
  <2>1. /\ retired_list_'[u] = IF u = t THEN retired_list_[u] \cup {seen[t]} ELSE retired_list_[u]
        /\ to_reclaim'[u] = to_reclaim[u]
    BY Zenon, <1>1, <1>2
  <2>2. Lists(kind, by, n, u) BY DEF Where
  <2>3. CASE n = seen[t]
    <3>1. kind[n] = "retiring" /\ by[n] = t /\ k[n] = "local" BY <1>5, <1>6, <2>3
    <3>2. ~Retires(u, n)' BY Zenon, <1>7, <1>8, <2>2, <3>1 DEF Lists
    <3>3. n \in retired_list_'[u] <=> t = u BY <2>1, <2>2, <2>3, <3>1 DEF Lists
    <3> QED BY Zenon, <2>1, <2>2, <3>1, <3>2, <3>3 DEF Lists
  <2>4. CASE n # seen[t]
    <3>1. Retires(u, n)' <=> Retires(u, n) BY <1>7, <1>8, <2>4
    <3>2. n \in retired_list_'[u] <=> n \in retired_list_[u] BY <2>1, <2>4
    <3> QED BY Zenon, <1>5, <2>1, <2>2, <2>4, <3>1, <3>2 DEF Lists
  <2> QED BY <2>3, <2>4
<1>12. Where(k, by)' BY Zenon, <1>4, <1>9, <1>10, <1>11 DEF Where
<1> QED BY <1>12

\* The lists of the threads in who are moved to the global list, under the mutex.
LEMMA WhereSplice ==
    ASSUME SlotInv, NEW kind, NEW by, Where(kind, by), NEW t \in Threads, NEW who \in SUBSET Threads,
           (Submit(t) /\ who = {t}) \/ (Splice(t) /\ who = registered)
    PROVE  \E k : Where(k, by)'
<1> DEFINE k == [n \in Nodes |-> IF kind[n] = "local" /\ by[n] \in who THEN "global" ELSE kind[n]]
<1>1. retired_list_ \in [Threads -> SUBSET Nodes] BY DEF SlotInv, TypeOK
<1>2. /\ \A u \in Threads : retired_list_'[u] = IF u \in who THEN {} ELSE retired_list_[u]
      /\ global_retired_' = global_retired_ \cup UNION {retired_list_[u] : u \in who}
  <2>1. CASE Submit(t) /\ who = {t}
    <3>1. /\ retired_list_' = [retired_list_ EXCEPT ![t] = {}]
          /\ global_retired_' = global_retired_ \cup retired_list_[t]
      BY <2>1 DEF Submit, SubmitLeaving
    <3> QED BY <1>1, <2>1, <3>1
  <2>2. CASE Splice(t) /\ who = registered
    BY Zenon, <2>2 DEF Splice, SpliceOf
  <2> QED BY Zenon, <2>1, <2>2
<1>3. /\ pc[t] \notin {"retire", "emplace"} /\ pc'[t] \notin {"retire", "emplace"}
      /\ UNCHANGED <<cell, unlinked, freed, to_reclaim>>
  BY Zenon DEF Submit, SubmitLeaving, Splice, SpliceOf, Step, clientVars, reclaimVars, SlotInv, TypeOK
<1>4. Continue(t) BY DEF Continue
<1>5. k \in [Nodes -> Kinds] BY DEF Where, Kinds
<1>6. \A n \in Nodes : k[n] = IF kind[n] = "local" /\ by[n] \in who THEN "global" ELSE kind[n] OBVIOUS
<1> HIDE DEF k
<1>7. \A n \in Nodes, u \in Threads : Retires(u, n)' <=> Retires(u, n)
  BY Zenon, <1>3, <1>4, RetiresElsewhere DEF Retires
<1>8. \A n \in Nodes : n \in UNION {retired_list_[u] : u \in who} <=> kind[n] = "local" /\ by[n] \in who
  <2> TAKE n \in Nodes
  <2>1. \A u \in Threads : n \in retired_list_[u] <=> (kind[n] = "local" /\ by[n] = u) BY DEF Where, Lists
  <2> QED BY Zenon, <2>1
<1>9. k[cell'] = "linked" BY <1>3, <1>6 DEF Where, SlotInv, TypeOK
<1>10. \A n \in Nodes : /\ n \in unlinked' <=> k[n] # "linked"
                        /\ n \in global_retired_' <=> k[n] = "global"
                        /\ n \in freed' <=> k[n] = "freed"
                        /\ k[n] \in {"retiring", "local", "taken"} => by[n] \in Threads
  BY Zenon, <1>2, <1>3, <1>6, <1>8 DEF Where
<1>11. \A n \in Nodes, u \in Threads : Lists(k, by, n, u)'
  <2> TAKE n \in Nodes, u \in Threads
  <2>1. /\ retired_list_'[u] = IF u \in who THEN {} ELSE retired_list_[u]
        /\ to_reclaim'[u] = to_reclaim[u] /\ (Retires(u, n)' <=> Retires(u, n))
    BY <1>2, <1>3, <1>7
  <2>2. Lists(kind, by, n, u) BY DEF Where
  <2>3. k[n] = IF kind[n] = "local" /\ by[n] \in who THEN "global" ELSE kind[n] BY Zenon, <1>6
  <2> QED BY <2>1, <2>2, <2>3 DEF Lists
<1>12. Where(k, by)' BY <1>5, <1>9, <1>10, <1>11 DEF Where
<1> QED BY <1>12

\* A node of the global list that no slot holds is taken.
LEMMA WhereCondemn ==
    ASSUME SlotInv, NEW kind, NEW by, Where(kind, by), Walking, NEW t \in Threads, Condemn(t)
    PROVE  \E k, b : Where(k, b)'
<1> PICK c : c = Candidate(t) OBVIOUS
<1> PICK k, b : k = [kind EXCEPT ![c] = "taken"] /\ b = [by EXCEPT ![c] = t] BY Zenon
<1>1. /\ pc[t] = "walk" /\ pc'[t] = "walk"
      /\ global_retired_' = global_retired_ \ {c}
      /\ to_reclaim' = [to_reclaim EXCEPT ![t] = @ \cup {c}]
      /\ UNCHANGED <<cell, unlinked, freed, retired_list_>>
  BY DEF Condemn, Step, walkLeaves, clientVars, SlotInv, TypeOK
<1>2. c \in Nodes /\ kind[c] = "global" /\ to_reclaim \in [Threads -> SUBSET Nodes]
  <2>1. c \in unchecked[t] BY DEF Condemn, Candidate
  <2> QED BY <1>1, <2>1 DEF Walking, Where, SlotInv, TypeOK
<1>3. Continue(t) BY DEF Continue
<1>4. k \in [Nodes -> Kinds] /\ b \in [Nodes -> Threads \cup {NoThread}] BY Zenon DEF Where, Kinds
<1>5. k[c] = "taken" /\ b[c] = t /\ \A n \in Nodes \ {c} : k[n] = kind[n] /\ b[n] = by[n]
  BY <1>2, WhereType
<1>6. \A n \in Nodes, u \in Threads : Retires(u, n)' <=> Retires(u, n)
  BY <1>1, <1>3, RetiresElsewhere DEF Retires
<1>7. k[cell'] = "linked" BY <1>1, <1>2, <1>5 DEF Where, SlotInv, TypeOK
<1>8. \A n \in Nodes : /\ n \in unlinked' <=> k[n] # "linked"
                       /\ n \in global_retired_' <=> k[n] = "global"
                       /\ n \in freed' <=> k[n] = "freed"
                       /\ k[n] \in {"retiring", "local", "taken"} => b[n] \in Threads
  BY Zenon, <1>1, <1>2, <1>5 DEF Where
<1>9. \A n \in Nodes, u \in Threads : Lists(k, b, n, u)'
  <2> TAKE n \in Nodes, u \in Threads
  <2>1. /\ to_reclaim'[u] = IF u = t THEN to_reclaim[u] \cup {c} ELSE to_reclaim[u]
        /\ retired_list_'[u] = retired_list_[u] /\ (Retires(u, n)' <=> Retires(u, n))
    BY <1>1, <1>2, <1>6
  <2>2. Lists(kind, by, n, u) BY DEF Where
  <2>3. CASE n = c
    <3>1. kind[n] = "global" /\ k[n] = "taken" /\ b[n] = t BY <1>2, <1>5, <2>3
    <3>2. n \in to_reclaim'[u] <=> t = u BY Zenon, <2>1, <2>2, <2>3, <3>1 DEF Lists
    <3> QED BY Zenon, <2>1, <2>2, <3>1, <3>2 DEF Lists
  <2>4. CASE n # c
    <3>1. k[n] = kind[n] /\ b[n] = by[n] BY <1>5, <2>4
    <3>2. n \in to_reclaim'[u] <=> n \in to_reclaim[u] BY <2>1, <2>4
    <3> QED BY Zenon, <2>1, <2>2, <3>1, <3>2 DEF Lists
  <2> QED BY <2>3, <2>4
<1>10. Where(k, b)' BY Zenon, <1>4, <1>7, <1>8, <1>9 DEF Where
<1> QED BY <1>10

\* The nodes that a thread has taken are deleted.
LEMMA WhereDelete ==
    ASSUME SlotInv, NEW kind, NEW by, Where(kind, by), NEW t \in Threads, Delete(t)
    PROVE  \E k : Where(k, by)'
<1> PICK k : k = [n \in Nodes |-> IF kind[n] = "taken" /\ by[n] = t THEN "freed" ELSE kind[n]]
  BY Zenon
<1>1. /\ pc[t] = "delete" /\ pc'[t] = "idle"
      /\ freed' = freed \cup to_reclaim[t] /\ to_reclaim' = [to_reclaim EXCEPT ![t] = {}]
      /\ UNCHANGED <<cell, unlinked, global_retired_, retired_list_>>
  BY Zenon DEF Delete, Step, clientVars, retireVars, SlotInv, TypeOK
<1>2. to_reclaim \in [Threads -> SUBSET Nodes] BY Zenon DEF SlotInv, TypeOK
<1>3. Continue(t) BY Zenon DEF Continue
<1>4. k \in [Nodes -> Kinds] BY DEF Where, Kinds
<1>5. \A n \in Nodes : k[n] = IF kind[n] = "taken" /\ by[n] = t THEN "freed" ELSE kind[n] BY Zenon
<1>6. \A n \in Nodes, u \in Threads : Retires(u, n)' <=> Retires(u, n)
  BY Zenon, <1>1, <1>3, RetiresElsewhere DEF Retires
<1>7. k[cell'] = "linked" BY <1>1, <1>5 DEF Where, SlotInv, TypeOK
<1>8. \A n \in Nodes : /\ n \in unlinked' <=> k[n] # "linked"
                       /\ n \in global_retired_' <=> k[n] = "global"
                       /\ n \in freed' <=> k[n] = "freed"
                       /\ k[n] \in {"retiring", "local", "taken"} => by[n] \in Threads
  <2> TAKE n \in Nodes
  <2>1. /\ n \in unlinked <=> kind[n] # "linked"
        /\ n \in global_retired_ <=> kind[n] = "global"
        /\ n \in freed <=> kind[n] = "freed"
        /\ kind[n] \in {"retiring", "local", "taken"} => by[n] \in Threads
    BY DEF Where
  <2>2. n \in to_reclaim[t] <=> (kind[n] = "taken" /\ by[n] = t) BY DEF Where, Lists
  <2>3. k[n] = IF kind[n] = "taken" /\ by[n] = t THEN "freed" ELSE kind[n] BY <1>5
  <2> QED BY Zenon, <1>1, <2>1, <2>2, <2>3
<1>9. \A n \in Nodes, u \in Threads : Lists(k, by, n, u)'
  <2> TAKE n \in Nodes, u \in Threads
  <2>1. /\ to_reclaim'[u] = IF u = t THEN {} ELSE to_reclaim[u]
        /\ retired_list_'[u] = retired_list_[u] /\ (Retires(u, n)' <=> Retires(u, n))
    BY <1>1, <1>2, <1>6
  <2>2. Lists(kind, by, n, u) BY DEF Where
  <2>3. k[n] = IF kind[n] = "taken" /\ by[n] = t THEN "freed" ELSE kind[n] BY Zenon, <1>5
  <2> QED BY Zenon, <2>1, <2>2, <2>3 DEF Lists
<1>10. Where(k, by)' BY <1>4, <1>7, <1>8, <1>9 DEF Where
<1> QED BY Zenon, <1>10

PlaceInv == Walking /\ \E kind, by : Where(kind, by)

\* At first every node is linked and no thread walks.
LEMMA PlaceInit == Init => PlaceInv
<1> SUFFICES ASSUME Init PROVE PlaceInv OBVIOUS
<1> DEFINE kind == [n \in Nodes |-> "linked"]
           by == [n \in Nodes |-> NoThread]
<1>1. Walking BY DEF Init, Walking
<1>2. \A n \in Nodes, t \in Threads : ~Retires(t, n) BY DEF Init, Retires
<1>3. Where(kind, by) BY <1>2, HazardAssumption DEF Init, Where, Lists, Kinds
<1> QED BY <1>1, <1>3 DEF PlaceInv

\* Every step leaves each node in one place, with kind and by changed as the step moves it.
LEMMA PlaceNext == SlotInv /\ PlaceInv /\ [Next]_vars => PlaceInv'
<1> SUFFICES ASSUME SlotInv, PlaceInv, [Next]_vars PROVE PlaceInv' OBVIOUS
<1> USE DEF clientVars, slotVars, retireVars, reclaimVars, races
<1>1. PICK kind, by : Where(kind, by) BY DEF PlaceInv
<1>2. ASSUME UNCHANGED <<clientVars, freed, seen, pc, retireVars, reclaimVars>> PROVE PlaceInv'
  <2>1. \A n \in Nodes, t \in Threads : Retires(t, n)' <=> Retires(t, n) BY <1>2 DEF Retires
  <2>2. Where(kind, by)'
    <3>1. \A n \in Nodes, t \in Threads : Lists(kind, by, n, t)' BY <1>1, <1>2, <2>1 DEF Where, Lists
    <3> QED BY <1>1, <1>2, <3>1 DEF Where
  <2>3. Walking' BY Zenon, <1>2 DEF PlaceInv, Walking
  <2> QED BY <2>2, <2>3 DEF PlaceInv
<1>3. ASSUME NEW t \in Threads, Flush(t) PROVE PlaceInv' BY <1>2, <1>3 DEF Flush
<1>4. ASSUME NEW t \in Threads, Begin(t) \/ Continue(t) PROVE PlaceInv'
  <2>1. Walking' BY <1>4, WalkingNext DEF PlaceInv
  <2>2. ASSUME UNCHANGED <<clientVars, freed, retired_list_, global_retired_, to_reclaim>>,
               \/ pc[t] \notin {"retire", "emplace"} /\ pc'[t] \notin {"retire", "emplace"}
               \/ pc[t] = "retire" /\ pc'[t] = "emplace" /\ seen' = seen
        PROVE  Where(kind, by)'
    <3>1. \A n \in Nodes : Retires(t, n)' <=> Retires(t, n) BY <2>2 DEF Retires
    <3> QED BY Zenon, <1>1, <1>4, <2>2, <3>1, WhereSame
  <2>3. CASE Acquire(t) \/ AcquireNew(t) \/ Load(t) \/ Release(t) \/ Scan(t)
    <3>1. /\ UNCHANGED <<clientVars, freed, retired_list_, global_retired_, to_reclaim>>
          /\ pc[t] = "idle" /\ pc'[t] \in {"idle", "link", "protect", "splice"}
      BY Zenon, <2>3 DEF Acquire, AcquireNew, Take, Load, Release, Scan, Step, SlotInv, TypeOK
    <3> QED BY <2>1, <2>2, <3>1 DEF PlaceInv
  <2>4. CASE \/ Register(t) \/ Push(t) \/ Link(t) \/ Protect(t) \/ Check(t) \/ Use(t)
             \/ CheckSize(t)
    <3>1. /\ UNCHANGED <<clientVars, freed, retired_list_, global_retired_, to_reclaim>>
          /\ pc[t] \notin {"retire", "emplace"} /\ pc'[t] \notin {"retire", "emplace"}
      BY Zenon, <2>4 DEF Register, Push, Link, Protect, Check, Recheck, Use, CheckSize, Step, SlotInv, TypeOK
    <3> QED BY <2>1, <2>2, <3>1 DEF PlaceInv
  <2>5. CASE EmplaceBegin(t)
    <3>1. /\ UNCHANGED <<clientVars, freed, retired_list_, global_retired_, to_reclaim>>
          /\ pc[t] = "retire" /\ pc'[t] = "emplace" /\ seen' = seen
      BY <2>5 DEF EmplaceBegin, Step, SlotInv, TypeOK
    <3> QED BY Zenon, <2>1, <2>2, <3>1 DEF PlaceInv
  <2>6. CASE Lock(t) \/ ReadSlot(t) \/ Unlock(t)
    <3>1. /\ UNCHANGED <<clientVars, freed, retired_list_, global_retired_, to_reclaim>>
          /\ pc[t] \in {"lock", "walk"} /\ pc'[t] \in {"walk", "delete"}
      BY Zenon, <2>6 DEF Lock, ReadSlot, Unlock, walkLeaves, Step, SlotInv, TypeOK
    <3> QED BY Zenon, <2>1, <2>2, <3>1 DEF PlaceInv
  <2>7. ASSUME NEW n \in Nodes, Unlink(t, n) PROVE PlaceInv'
    BY <1>1, <2>1, <2>7, WhereUnlink DEF PlaceInv
  <2>8. CASE Emplace(t) BY <1>1, <2>1, <2>8, WhereEmplace DEF PlaceInv
  <2>9. CASE Submit(t)
    <3>1. PICK who \in SUBSET Threads : who = {t} BY Zenon
    <3>2. \E k : Where(k, by)' BY <1>1, <2>9, <3>1, WhereSplice
    <3> QED BY <2>1, <3>2 DEF PlaceInv
  <2>10. CASE Splice(t)
    <3>1. PICK who \in SUBSET Threads : who = registered BY DEF SlotInv, TypeOK
    <3>2. \E k : Where(k, by)' BY <1>1, <2>10, <3>1, WhereSplice
    <3> QED BY <2>1, <3>2 DEF PlaceInv
  <2>11. CASE Condemn(t) BY <1>1, <2>1, <2>11, WhereCondemn DEF PlaceInv
  <2>12. CASE Delete(t) BY <1>1, <2>1, <2>12, WhereDelete DEF PlaceInv
  <2> QED BY <1>4, <2>3, <2>4, <2>5, <2>6, <2>7, <2>8, <2>9, <2>10, <2>11, <2>12 DEF Begin, Continue
<1>5. ASSUME UNCHANGED vars PROVE PlaceInv' BY <1>2, <1>5 DEF vars
<1> QED BY <1>3, <1>4, <1>5 DEF Next, Undefined

\* An unlinked node is in exactly one list until it is deleted, and in none thereafter,
\* however the calls of RetirePointer and Scan interleave, up to the first one that
\* meets an emplace_back or a push_back of another thread half-way.
THEOREM EveryRetiredNodeInOnePlace == Spec => []RetiredInOnePlace
<1>1. SlotInv /\ PlaceInv => RetiredInOnePlace
  <2> SUFFICES ASSUME SlotInv, PlaceInv, NEW n \in unlinked
               PROVE  Cardinality(Places(n)) = (IF n \in freed THEN 0 ELSE 1)
    BY DEF RetiredInOnePlace
  <2>1. PICK kind, by : Where(kind, by) BY DEF PlaceInv
  <2>2. n \in Nodes /\ kind[n] \in {"retiring", "local", "global", "taken", "freed"}
    BY <2>1 DEF SlotInv, TypeOK, Where, Kinds
  <2>3. /\ \A t \in Threads : /\ n \in retired_list_[t] <=> (kind[n] = "local" /\ by[n] = t)
                              /\ n \in to_reclaim[t] <=> (kind[n] = "taken" /\ by[n] = t)
                              /\ (pc[t] \in {"retire", "emplace"} /\ seen[t] = n)
                                   <=> (kind[n] = "retiring" /\ by[n] = t)
        /\ n \in global_retired_ <=> kind[n] = "global"
        /\ n \in freed <=> kind[n] = "freed"
        /\ kind[n] \in {"retiring", "local", "taken"} => by[n] \in Threads
    <3>1. \A t \in Threads : Lists(kind, by, n, t) BY <2>1, <2>2 DEF Where
    <3>2. /\ n \in global_retired_ <=> kind[n] = "global"
          /\ n \in freed <=> kind[n] = "freed"
          /\ kind[n] \in {"retiring", "local", "taken"} => by[n] \in Threads
      BY <2>1, <2>2 DEF Where
    <3> QED BY <3>1, <3>2 DEF Lists, Retires
  <2> DEFINE locals == {u \in Threads : n \in retired_list_[u]}
             takers == {u \in Threads : n \in to_reclaim[u]}
             retirers == {u \in Threads : pc[u] \in {"retire", "emplace"} /\ seen[u] = n}
  <2>4. {<<"local", t>> : t \in locals} = IF kind[n] = "local" THEN {<<"local", by[n]>>} ELSE {}
    BY <2>3
  <2>5. {<<"taken", t>> : t \in takers} = IF kind[n] = "taken" THEN {<<"taken", by[n]>>} ELSE {}
    BY <2>3
  <2>6. {<<"retiring", t>> : t \in retirers} =
          IF kind[n] = "retiring" THEN {<<"retiring", by[n]>>} ELSE {}
    BY <2>3
  <2>7. Places(n) = IF kind[n] = "freed" THEN {}
                    ELSE {<<kind[n], IF kind[n] = "global" THEN NoThread ELSE by[n]>>}
    BY <2>2, <2>3, <2>4, <2>5, <2>6 DEF Places
  <2>8. CASE n \in freed BY <2>3, <2>7, <2>8, FS_EmptySet
  <2>9. CASE n \notin freed
    <3>1. PICK p : Places(n) = {p} BY Zenon, <2>3, <2>7, <2>9
    <3>2. Cardinality({p}) = 1 BY Zenon, FS_Singleton
    <3> QED BY <2>9, <3>1, <3>2
  <2> QED BY <2>8, <2>9
<1>2. Spec => [](SlotInv /\ PlaceInv)
  BY SlotCorrect, PlaceInit, PlaceNext, PTL DEF Spec
<1> QED BY <1>1, <1>2, PTL
=============================================================================
