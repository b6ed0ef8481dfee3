-------------------------- MODULE MPMCQueueProofs ---------------------------
(***************************************************************************)
(* What follows from the inductive invariant of MPMCQueueInvariant: the    *)
(* safety properties of MPMCQueue, and that it implements Fifo.            *)
(***************************************************************************)
EXTENDS MPMCQueueInvariant, FiniteSetTheorems

-----------------------------------------------------------------------------
(***************************************************************************)
(* The properties.                                                         *)
(***************************************************************************)
\* Every variable keeps its type: a compare-and-swap never puts nullptr into tail.
THEOREM TypeCorrect == Spec => []TypeOK
<1>1. IInv => TypeOK BY DEF IInv
<1> QED BY <1>1, Invariance, PTL

\* tail never falls behind head and lags by one node at most, until an enqueue call
\* uses a curr_tail that was freed since it was loaded.
THEOREM TailStaysClose == Spec => []TailNotBehind
<1>1. IInv => TailNotBehind
  <2> SUFFICES ASSUME IInv, ~stale, ~Destroyed PROVE tail \in InQueue /\ Len(ChainFrom(tail)) <= 2
    BY DEF TailNotBehind, IInv, StaleTail
  <2>1. TypeOK BY DEF IInv
  <2>2. PICK s, pos : QInv(s, pos) BY DEF IInv
  <2>3. /\ tail \in Nodes /\ pos[head] <= pos[tail] /\ Len(s) - 1 <= pos[tail] /\ s \in Seq(Nodes)
        /\ pos[tail] \in 1..Len(s)
    <3>1. /\ pos[head] <= pos[tail] /\ 1 <= pos[head] /\ Len(s) - 1 <= pos[tail]
          /\ s \in Seq(Nodes) /\ pos \in [Nodes -> 0..Len(s)]
      BY <2>2 DEF QInv, Ends, Order
    <3>2. tail \in Nodes /\ head \in Nodes BY <2>1 DEF TypeOK, Destroyed, Pointers
    <3>3. pos[tail] \in 0..Len(s) /\ pos[head] \in 0..Len(s) BY <3>1, <3>2
    <3>4. Len(s) \in Nat BY <3>1
    <3>5. pos[tail] \in 1..Len(s) BY <3>1, <3>3, <3>4
    <3> QED BY <3>1, <3>2, <3>5
  <2>4. tail \in InQueue BY <2>1, <2>2, <2>3, InQueueIs
  <2>5. ChainFrom(tail) = Suffix(s, pos[tail]) BY <2>2, <2>3, ChainIsSuffix DEF QInv
  <2>6. Len(Suffix(s, pos[tail])) = Len(s) - pos[tail] + 1 BY Zenon, <2>3, SuffixStep
  <2> QED BY <2>3, <2>4, <2>5, <2>6
<1> QED BY <1>1, Invariance, PTL

\* dequeue follows head and next only while they are not reclaimed.
THEOREM DequeueIsSafe == Spec => []DequeueTouchesNoFreed
<1>1. IInv => DequeueTouchesNoFreed
  BY Zenon DEF IInv, QInv, Guarded, Protected, DequeueTouchesNoFreed
<1> QED BY <1>1, Invariance, PTL

\* Every node is in one place: with the call that allocated it, in the queue, with the
\* dequeue call that is to retire it, retired, or freed.
THEOREM EveryNodeAccounted == Spec => []NodesAccounted
<1>1. IInv => NodesAccounted
  <2> SUFFICES ASSUME IInv, ~stale PROVE NodesAccounted BY DEF NodesAccounted
  <2>1. TypeOK BY DEF IInv
  <2>2. PICK s, pos : QInv(s, pos) BY DEF IInv
  <2> DEFINE private == {e \in Enqs : pc[e] \notin {"swing", "done"}}
             retiring(n) == {d \in Deqs : pc[d] \in {"read", "retire"} /\ curr_head[d] = n}
             linked == IF Destroyed THEN {} ELSE InQueue
             One(S, n) == IF n \in S THEN 1 ELSE 0
  <2> SUFFICES ASSUME NEW n \in Nodes
               PROVE  One(private, n) + One(linked, n) + Cardinality(retiring(n))
                      + One(retired, n) + One(freed, n) = 1
    BY DEF NodesAccounted
  <2>3. pos \in [Nodes -> Nat] /\ Enqs \subseteq Nodes /\ pos[dummy] = 1 /\ pos[n] \in Nat
    BY <2>1, <2>2, Typed
  <2>4. n \in private <=> pos[n] = 0
    <3>1. n = dummy \/ n \in Enqs BY DEF Nodes
    <3>2. n = dummy => pos[n] # 0 /\ n \notin Enqs BY <2>3, QueueAssumption
    <3>3. n \in Enqs => (pos[n] # 0 <=> pc[n] \in {"swing", "done"}) BY <2>2 DEF QInv, Linked
    <3> QED BY <3>1, <3>2, <3>3
  <2>5. ~Destroyed => head \in Nodes /\ pos[head] \in Nat /\ 1 <= pos[head]
    BY <2>1, <2>2, <2>3, Typed DEF QInv, Ends
  <2>6. n \in linked <=> ~Destroyed /\ pos[head] <= pos[n] BY <2>1, <2>2, InQueueIs
  <2>7. n \in retired \cup freed => pos[n] # 0 /\ (~Destroyed => pos[n] < pos[head])
    BY <2>2 DEF QInv, Memory
  <2>8. ASSUME NEW d \in retiring(n)
        PROVE  /\ n \notin retired \cup freed /\ pos[n] # 0 /\ ~Destroyed /\ pos[n] < pos[head]
               /\ \A x \in retiring(n) : x = d
    <3>1. d \in Deqs /\ d \in Retiring /\ curr_head[d] = n /\ pc[d] \in {"read", "retire"}
      BY DEF Retiring
    <3>2. 1 <= pos[n] /\ pos[n] < pos[head] BY Zenon, <2>2, <3>1 DEF QInv, DequeueKnows
    <3>3. d \in InProgress BY <3>1 DEF InProgress, Calls
    <3>4. n \notin retired \cup freed /\ ~Destroyed BY <2>2, <3>1, <3>3 DEF QInv, Memory, Ends
    <3>5. ASSUME NEW x \in retiring(n) PROVE x = d
      <4>1. x \in Retiring /\ curr_head[x] = n BY DEF Retiring
      <4> QED BY <2>2, <3>1, <4>1 DEF QInv, Memory
    <3> QED BY <2>3, <3>2, <3>4, <3>5
  <2>9. retired \cap freed = {} BY <2>2 DEF QInv, Memory
  <2>10. ASSUME pos[n] # 0, Destroyed \/ pos[n] < pos[head], n \notin retired \cup freed
         PROVE  retiring(n) # {}
    <3>1. PICK d \in Retiring : curr_head[d] = n BY <2>2, <2>10 DEF QInv, Memory
    <3> QED BY <3>1 DEF Retiring
  <2>11. Cardinality(retiring(n)) = IF retiring(n) = {} THEN 0 ELSE 1
    <3>1. CASE retiring(n) = {} BY <3>1, FS_EmptySet
    <3>2. CASE retiring(n) # {}
      <4>1. PICK d : d \in retiring(n) BY <3>2
      <4>2. retiring(n) = {d} BY <2>8, <4>1
      <4> QED BY Zenon, <4>2, <3>2, FS_Singleton
    <3> QED BY <3>1, <3>2
  <2> HIDE DEF private, retiring, linked
  <2>12. CASE n \in private
    <3>1. n \notin linked BY <2>4, <2>5, <2>6, <2>12
    <3>2. n \notin retired /\ n \notin freed /\ retiring(n) = {} BY <2>4, <2>7, <2>8, <2>12
    <3> QED BY <2>11, <2>12, <3>1, <3>2
  <2>13. CASE n \in linked
    <3>1. n \notin private /\ ~(pos[n] < pos[head]) /\ ~Destroyed BY <2>3, <2>4, <2>5, <2>6, <2>13
    <3>2. n \notin retired /\ n \notin freed /\ retiring(n) = {} BY <2>7, <2>8, <3>1
    <3> QED BY <2>11, <2>13, <3>1, <3>2
  <2>14. CASE n \notin private /\ n \notin linked
    <3>1. pos[n] # 0 /\ (Destroyed \/ pos[n] < pos[head]) BY <2>3, <2>4, <2>5, <2>6, <2>14
    <3>2. n \in retired \cup freed <=> retiring(n) = {} BY <2>8, <2>10, <3>1
    <3> QED BY <2>9, <2>11, <2>14, <3>2
  <2> QED BY <2>12, <2>13, <2>14
<1> QED BY <1>1, Invariance, PTL

-----------------------------------------------------------------------------
(***************************************************************************)
(* Sequences of nodes.                                                     *)
(***************************************************************************)
\* Two sequences with the same elements are equal.
LEMMA SameSequence ==
    ASSUME NEW a \in Seq(Nodes), NEW b \in Seq(Nodes), Len(a) = Len(b),
           \A k \in 1..Len(a) : a[k] = b[k]
    PROVE  a = b
OBVIOUS

\* What Tail removes from a sequence of nodes.
LEMMA TailOfNodes ==
    ASSUME NEW a \in Seq(Nodes), a # <<>>
    PROVE  /\ Tail(a) \in Seq(Nodes) /\ Len(Tail(a)) = Len(a) - 1
           /\ \A k \in 1..Len(Tail(a)) : Tail(a)[k] = a[k + 1]
OBVIOUS

\* What Append adds to a sequence of nodes.
LEMMA AppendNode ==
    ASSUME NEW a \in Seq(Nodes), NEW e \in Nodes
    PROVE  /\ Append(a, e) \in Seq(Nodes) /\ Len(Append(a, e)) = Len(a) + 1
           /\ \A k \in 1..Len(a) : Append(a, e)[k] = a[k]
           /\ Append(a, e)[Len(a) + 1] = e
OBVIOUS

\* A suffix is a sequence of nodes.
LEMMA SuffixType ==
    ASSUME NEW s \in Seq(Nodes), NEW i \in 1..(Len(s) + 1)
    PROVE  /\ Suffix(s, i) \in Seq(Nodes)
           /\ Len(Suffix(s, i)) = Len(s) - i + 1
           /\ DOMAIN Suffix(s, i) = 1..(Len(s) - i + 1)
<1> DEFINE m == Len(s) - i + 1
<1>1. m \in Nat OBVIOUS
<1>2. \A k \in 1..m : s[k + i - 1] \in Nodes OBVIOUS
<1>3. Suffix(s, i) = [k \in 1..m |-> s[k + i - 1]] BY DEF Suffix
<1> HIDE DEF m
<1>4. Suffix(s, i) \in [1..m -> Nodes] BY <1>2, <1>3
<1>5. Suffix(s, i) \in Seq(Nodes) /\ Len(Suffix(s, i)) = m BY <1>1, <1>4
<1> QED BY <1>4, <1>5 DEF m

\* Its tail is the next suffix, and its head the node at the position.
LEMMA SuffixTail ==
    ASSUME NEW s \in Seq(Nodes), NEW i \in 1..Len(s)
    PROVE  Tail(Suffix(s, i)) = Suffix(s, i + 1) /\ Head(Suffix(s, i)) = s[i]
<1> DEFINE a == Suffix(s, i)
           b == Suffix(s, i + 1)
<1>1. /\ a \in Seq(Nodes) /\ Len(a) = Len(s) - i + 1
  BY SuffixType
<1>2. b \in Seq(Nodes) /\ Len(b) = Len(s) - i /\ DOMAIN b = 1..(Len(s) - i)
  <2>1. i + 1 \in 1..(Len(s) + 1) /\ Len(s) - (i + 1) + 1 = Len(s) - i OBVIOUS
  <2> QED BY Zenon, <2>1, SuffixType
<1>3. \A k \in 1..(Len(s) - i) : b[k] = a[k + 1] BY DEF Suffix
<1> HIDE DEF a, b
<1>4. a # <<>> BY <1>1
<1>5. /\ Tail(a) \in Seq(Nodes) /\ Len(Tail(a)) = Len(a) - 1
      /\ \A k \in 1..Len(Tail(a)) : Tail(a)[k] = a[k + 1]
  BY <1>1, <1>4, TailOfNodes
<1>6. Len(Tail(a)) = Len(b) /\ Len(b) = Len(s) - i
  <2>1. (Len(s) - i + 1) - 1 = Len(s) - i OBVIOUS
  <2> QED BY <1>1, <1>2, <1>5, <2>1
<1>7. \A k \in 1..Len(b) : Tail(a)[k] = b[k] BY <1>3, <1>5, <1>6
<1>8. Tail(a) = b BY Zenon, <1>2, <1>5, <1>6, <1>7, SameSequence
<1>9. Head(a) = a[1] BY <1>1, <1>4
<1>10. a[1] = s[i] BY DEF a, Suffix
<1> QED BY <1>8, <1>9, <1>10 DEF a, b
\* Appending a node to the sequence appends it to every suffix.
LEMMA SuffixAppend ==
    ASSUME NEW s \in Seq(Nodes), NEW i \in 1..(Len(s) + 1), NEW e \in Nodes
    PROVE  Suffix(Append(s, e), i) = Append(Suffix(s, i), e)
<1> DEFINE t == Append(s, e)
           a == Suffix(s, i)
           b == Suffix(t, i)
           m == Len(s) - i + 1
<1>1. /\ t \in Seq(Nodes) /\ Len(t) = Len(s) + 1 /\ \A k \in 1..Len(s) : t[k] = s[k]
      /\ t[Len(s) + 1] = e
  BY AppendNode
<1>2. a \in Seq(Nodes) /\ Len(a) = m BY SuffixType
<1> HIDE DEF t
<1>3. b \in Seq(Nodes) /\ Len(b) = m + 1 /\ m \in Nat
  <2>1. i \in 1..(Len(t) + 1) /\ Len(t) - i + 1 = m + 1 /\ m \in Nat BY <1>1
  <2> QED BY <1>1, <2>1, SuffixType
<1>4. ASSUME NEW k \in 1..m PROVE b[k] = a[k]
  <2>1. k + i - 1 \in 1..Len(s) OBVIOUS
  <2>2. a[k] = s[k + i - 1] BY DEF Suffix
  <2>3. b[k] = t[k + i - 1] BY <1>1 DEF Suffix
  <2> QED BY <1>1, <2>1, <2>2, <2>3
<1>5. b[m + 1] = e
  <2>1. (m + 1) + i - 1 = Len(s) + 1 OBVIOUS
  <2>2. b[m + 1] = t[(m + 1) + i - 1] BY <1>1 DEF Suffix
  <2> QED BY <1>1, <2>1, <2>2
<1> HIDE DEF a, b, m
<1>6. /\ Append(a, e) \in Seq(Nodes) /\ Len(Append(a, e)) = m + 1
      /\ \A k \in 1..m : Append(a, e)[k] = a[k]
      /\ Append(a, e)[m + 1] = e
  BY <1>2, AppendNode
<1>7. \A k \in 1..(m + 1) : k \in 1..m \/ k = m + 1 BY <1>3
<1>8. \A k \in 1..(m + 1) : b[k] = Append(a, e)[k] BY <1>4, <1>5, <1>6, <1>7
<1>9. b = Append(a, e) BY <1>3, <1>6, <1>8, SameSequence
<1> QED BY <1>9 DEF a, b, t

-----------------------------------------------------------------------------
(***************************************************************************)
(* The queue implements Fifo: linking a node adds its item, moving head    *)
(* takes one, finding no next node is a miss, and the other steps stutter. *)
(***************************************************************************)
\* The items of Fifo, and what the invariant says they are.
Items == IF Destroyed THEN <<>> ELSE Tail(ChainFrom(head))
ItemsInOrder == \A s, pos : TypeOK /\ QInv(s, pos) /\ ~Destroyed => Items = Suffix(s, pos[head] + 1)

\* The nodes from head on, without head, are a suffix of the order.
LEMMA ItemsAreInOrder == ItemsInOrder
<1> SUFFICES ASSUME NEW s, NEW pos, TypeOK, QInv(s, pos), ~Destroyed
             PROVE  Items = Suffix(s, pos[head] + 1)
  BY DEF ItemsInOrder
<1>1. head \in Nodes /\ pos[head] \in 1..Len(s) /\ s \in Seq(Nodes)
  <2>1. 1 <= pos[head] /\ s \in Seq(Nodes) BY DEF QInv, Ends, Order
  <2> QED BY <2>1, Typed
<1>2. ChainFrom(head) = Suffix(s, pos[head]) BY <1>1, ChainIsSuffix DEF QInv
<1>3. Tail(Suffix(s, pos[head])) = Suffix(s, pos[head] + 1) BY <1>1, SuffixTail
<1> QED BY <1>2, <1>3 DEF Items

\* The same of the next state.
LEMMA ItemsInOrderNext == ItemsInOrder'
BY ItemsAreInOrder, PTL

\* The queue of Fifo is empty when the first node has no next.
LEMMA EmptyIs ==
    ASSUME TypeOK, NEW s, NEW pos, QInv(s, pos), ~Destroyed
    PROVE  Items = <<>> <=> next[head] = nullptr
<1>1. /\ head \in Nodes /\ pos[head] \in Nat /\ Len(s) \in Nat /\ pos[head] # 0
      /\ pos[head] <= Len(s) /\ nullptr \notin Nodes /\ s \in Seq(Nodes)
  <2>1. 1 <= pos[head] /\ s \in Seq(Nodes) BY DEF QInv, Ends, Order
  <2> QED BY <2>1, Typed
<1>2. Items = Suffix(s, pos[head] + 1) BY ItemsAreInOrder DEF ItemsInOrder
<1>3. next[head] = nullptr <=> pos[head] = Len(s) BY <1>1 DEF QInv, Order
<1>4. Suffix(s, pos[head] + 1) \in Seq(Nodes) /\ Len(Suffix(s, pos[head] + 1)) = Len(s) - pos[head]
  <2>1. pos[head] + 1 \in 1..(Len(s) + 1) /\ Len(s) - (pos[head] + 1) + 1 = Len(s) - pos[head] BY <1>1
  <2> QED BY <1>1, <2>1, SuffixType
<1>5. Items = <<>> <=> Len(s) - pos[head] = 0 BY <1>2, <1>4
<1> QED BY <1>1, <1>3, <1>5

\* The same as a state formula.
ItemsEmpty ==
    \A s, pos : TypeOK /\ QInv(s, pos) /\ ~Destroyed => (Items = <<>> <=> next[head] = nullptr)

\* It holds in every state.
LEMMA ItemsEmptyIs == ItemsEmpty
BY EmptyIs DEF ItemsEmpty

\* What Fifo has for each dequeue call: the item from the moment that head moves.
Got == [d \in Deqs |-> IF pc[d] = "read" THEN nxt[d] ELSE result[d]]

\* A call that has begun is undecided iff Fifo has nothing for it.
LEMMA UndecidedIs ==
    ASSUME TypeOK, NEW s, NEW pos, QInv(s, pos), NEW d \in Deqs
    PROVE  pc[d] # "idle" => (d \in Undecided <=> Got[d] = nothing)
<1>1. result[d] = nothing <=> pc[d] \notin {"retire", "done"} BY Zenon DEF QInv, Answers
<1>2. ASSUME pc[d] = "read" PROVE nxt[d] # nothing
  <2>1. nxt[d] = next[curr_head[d]] /\ nxt[d] # nullptr /\ curr_head[d] \in Nodes
        /\ 1 <= pos[curr_head[d]]
    BY Zenon, <1>2 DEF QInv, DequeueKnows
  <2>2. nxt[d] \in Enqs BY <2>1, NextIsItem
  <2> QED BY <2>2, QueueAssumption
<1> QED BY <1>1, <1>2 DEF Undecided, Got

\* The items stay if head and the chain do.
LEMMA ItemsUnmoved ==
    ASSUME head' = head, next' = next
    PROVE  Items' = Items
BY DEF Items, ChainFrom, Destroyed

\* What Fifo sees.
Seen == <<Destroyed, Items, {e \in Enqs : pc[e] \in {"swing", "done"}},
          {d \in Deqs : pc[d] # "idle"}, Got, wasEmpty>>

\* What leaves Seen alone leaves the variables of Fifo alone.
LEMMA SeenIs == UNCHANGED Seen => UNCHANGED Abstract!vars
BY DEF Seen, Abstract!vars, Items, Got

\* A step that moves neither head nor a next pointer, and takes no call from or to
\* the points that Fifo sees, is a stuttering step.
LEMMA Stutters ==
    ASSUME head' = head, next' = next, wasEmpty' = wasEmpty,
           \A e \in Enqs : pc'[e] \in {"swing", "done"} <=> pc[e] \in {"swing", "done"},
           \A d \in Deqs : /\ pc'[d] = "idle" <=> pc[d] = "idle"
                           /\ Got'[d] = Got[d]
    PROVE  UNCHANGED Seen
<1>1. Destroyed' = Destroyed BY DEF Destroyed
<1>2. Items' = Items BY ItemsUnmoved
<1>3. {e \in Enqs : pc[e] \in {"swing", "done"}}' = {e \in Enqs : pc[e] \in {"swing", "done"}} OBVIOUS
<1>4. {d \in Deqs : pc[d] # "idle"}' = {d \in Deqs : pc[d] # "idle"} OBVIOUS
<1>5. Got' = Got BY DEF Got
<1> QED BY <1>1, <1>2, <1>3, <1>4, <1>5 DEF Seen

\* A call that is in progress finds the queue open.
LEMMA OpenInProgress ==
    ASSUME NEW s, NEW pos, QInv(s, pos), NEW c \in Calls, pc[c] \notin {"idle", "done"}
    PROVE  ~Destroyed
BY DEF QInv, Ends, InProgress

\* Linking a node is an Add.
LEMMA LinkRefines ==
    ASSUME TypeOK, NEW s, NEW pos, QInv(s, pos), NEW e \in Enqs,
           EnqueueLink(e), next[curr_tail[e]] = nullptr, curr_tail[e] \notin freed,
           TypeOK', QInv(Append(s, e), [pos EXCEPT ![e] = Len(s) + 1])'
    PROVE  Abstract!Next
<1> USE DEF localVars, hazardVars, memoryVars
<1>1. e \in Calls /\ e \in Nodes /\ e \notin Deqs BY QueueAssumption DEF Calls, Nodes
<1>2. /\ pc[e] = "link" /\ pc' = [pc EXCEPT ![e] = "swing"]
      /\ UNCHANGED <<head, tail, localVars, hazardVars, result, memoryVars, wasEmpty>>
  BY DEF EnqueueLink, Link, Step
<1>3. ~Destroyed BY <1>1, <1>2, OpenInProgress
<1>4. pc \in [Calls -> PC] BY DEF TypeOK
<1>5. pos \in [Nodes -> Nat] /\ head \in Nodes /\ s \in Seq(Nodes) /\ pos[head] \in 1..Len(s)
  <2>1. 1 <= pos[head] /\ s \in Seq(Nodes) BY <1>3 DEF QInv, Ends, Order
  <2> QED BY <1>3, <2>1, Typed
<1>6. pos[e] = 0 BY <1>2 DEF QInv, Linked
<1>7. head # e /\ [pos EXCEPT ![e] = Len(s) + 1][head] = pos[head] BY <1>5, <1>6
<1>8. Items = Suffix(s, pos[head] + 1) BY <1>3, ItemsAreInOrder DEF ItemsInOrder
<1>9. ~Destroyed' /\ head' = head BY <1>2, <1>3 DEF Destroyed
<1>10. Items' = Suffix(Append(s, e), pos[head] + 1)
  BY Zenon, <1>7, <1>9, ItemsInOrderNext DEF ItemsInOrder
<1>11. Items' = Append(Items, e)
  <2>1. pos[head] + 1 \in 1..(Len(s) + 1) /\ e \in Nodes BY <1>5 DEF Nodes
  <2> QED BY <1>5, <1>8, <1>10, <2>1, SuffixAppend
<1>12. \A d \in Deqs : pc'[d] = pc[d] BY <1>1, <1>2, <1>4 DEF Calls
<1>13. Got' = Got BY <1>2, <1>12 DEF Got
<1>14. {d \in Deqs : pc[d] # "idle"}' = {d \in Deqs : pc[d] # "idle"} BY <1>12
<1>15. /\ e \notin {x \in Enqs : pc[x] \in {"swing", "done"}}
       /\ {x \in Enqs : pc[x] \in {"swing", "done"}}' =
            {x \in Enqs : pc[x] \in {"swing", "done"}} \cup {e}
  BY <1>2, <1>4 DEF Calls
<1>16. Abstract!Add(e)
  BY Zenon, <1>2, <1>3, <1>9, <1>11, <1>13, <1>14, <1>15 DEF Abstract!Add, Items, Got
<1> QED BY <1>3, <1>16 DEF Abstract!Next

\* Moving head is a Take.
LEMMA TakeRefines ==
    ASSUME TypeOK, NEW s, NEW pos, QInv(s, pos), NEW d \in Deqs,
           DequeuePop(d), head = curr_head[d], TypeOK', QInv(s, pos)'
    PROVE  Abstract!Next
<1> USE DEF localVars, hazardVars, memoryVars
<1>1. d \in Calls /\ d \notin Enqs BY QueueAssumption DEF Calls
<1>2. /\ pc[d] = "pop" /\ pc' = [pc EXCEPT ![d] = "read"] /\ head' = nxt[d]
      /\ wasEmpty' = IF next[nxt[d]] = nullptr THEN wasEmpty \cup (Undecided \ {d}) ELSE wasEmpty
      /\ UNCHANGED <<tail, next, localVars, hazardVars, result, memoryVars, stale>>
  BY DEF DequeuePop, Step
<1>3. ~Destroyed BY <1>1, <1>2, OpenInProgress
<1>4. pc \in [Calls -> PC] BY DEF TypeOK
<1>5. pos \in [Nodes -> Nat] /\ head \in Nodes /\ s \in Seq(Nodes) /\ pos[head] \in 1..Len(s)
  <2>1. 1 <= pos[head] /\ s \in Seq(Nodes) BY Zenon, <1>3 DEF QInv, Ends, Order
  <2> QED BY <1>3, <2>1, Typed
<1>6. nxt[d] = next[head] /\ nxt[d] # nullptr BY Zenon, <1>2 DEF QInv, DequeueKnows
<1>7. nxt[d] \in Enqs /\ pos[nxt[d]] = pos[head] + 1
  <2>1. 1 <= pos[head] BY <1>5
  <2> QED BY <1>5, <1>6, <2>1, NextIsItem
<1>8. ~Destroyed' BY <1>2, <1>6 DEF Destroyed
<1>9. Items = Suffix(s, pos[head] + 1) BY <1>3, ItemsAreInOrder DEF ItemsInOrder
<1>10. Items' = Suffix(s, pos[head] + 2)
  <2>1. pos[head'] + 1 = pos[head] + 2 BY <1>2, <1>5, <1>7
  <2> QED BY <1>8, <2>1, ItemsInOrderNext DEF ItemsInOrder
<1>11. Items # <<>> BY <1>3, <1>6, EmptyIs
<1>12. pos[head] + 1 \in 1..Len(s) /\ s[pos[head] + 1] = nxt[d]
  <2>1. nxt[d] \in Nodes /\ pos[nxt[d]] # 0 BY <1>5, <1>7 DEF Nodes
  <2>2. pos[nxt[d]] <= Len(s) BY <2>1, Typed
  <2>3. s[pos[nxt[d]]] = nxt[d] BY <2>1 DEF QInv, Order
  <2> QED BY <1>5, <1>7, <2>2, <2>3
<1>13. Items' = Tail(Items) /\ Head(Items) = nxt[d]
  <2>1. (pos[head] + 1) + 1 = pos[head] + 2 BY <1>5
  <2> QED BY <1>5, <1>9, <1>10, <1>12, <2>1, SuffixTail
<1>14. Items' = <<>> <=> next[nxt[d]] = nullptr
  <2>1. ItemsEmpty' BY ItemsEmptyIs, PTL
  <2> QED BY <1>2, <1>8, <2>1 DEF ItemsEmpty
<1>15. d \in Undecided /\ Got[d] = nothing
  <2>1. d \in Undecided BY <1>2 DEF Undecided
  <2> QED BY <1>2, <2>1, UndecidedIs
<1>16. Undecided \ {d} = {x \in {y \in Deqs : pc[y] # "idle"} \ {d} : Got[x] = nothing}
  BY UndecidedIs DEF Undecided
<1>17. Got' = [Got EXCEPT ![d] = nxt[d]] BY Zenon, <1>1, <1>2, <1>4 DEF Got, Calls
<1>18. /\ d \in {x \in Deqs : pc[x] # "idle"}
       /\ {x \in Deqs : pc[x] # "idle"}' = {x \in Deqs : pc[x] # "idle"}
  BY <1>1, <1>2, <1>4 DEF Calls
<1>19. {x \in Enqs : pc[x] \in {"swing", "done"}}' = {x \in Enqs : pc[x] \in {"swing", "done"}}
  BY <1>1, <1>2, <1>4 DEF Calls
<1>20. Abstract!Take(d)
  BY Zenon, <1>2, <1>3, <1>8, <1>11, <1>13, <1>14, <1>15, <1>16, <1>17, <1>18, <1>19
     DEF Abstract!Take, Items, Got
<1> QED BY <1>3, <1>20 DEF Abstract!Next

\* The start of a dequeue call is a Begin, and its finding of an empty queue a Miss.
LEMMA BeginRefines ==
    ASSUME TypeOK, NEW s, NEW pos, QInv(s, pos), NEW d \in Deqs, DequeueBegin(d)
    PROVE  Abstract!Next
<1> USE DEF queueVars, localVars, hazardVars, memoryVars
<1>1. d \in Calls /\ d \notin Enqs BY QueueAssumption DEF Calls
<1>2. /\ ~Destroyed /\ pc[d] = "idle" /\ pc' = [pc EXCEPT ![d] = "load"]
      /\ wasEmpty' = wasEmpty \cup (IF next[head] = nullptr THEN {d} ELSE {})
      /\ UNCHANGED <<queueVars, localVars, hazardVars, result, memoryVars, stale>>
  BY DEF DequeueBegin, Step
<1>3. pc \in [Calls -> PC] BY DEF TypeOK
<1>4. Items = <<>> <=> next[head] = nullptr BY <1>2, EmptyIs
<1>5. Destroyed' = Destroyed BY <1>2 DEF Destroyed
<1>6. Items' = Items BY <1>2, ItemsUnmoved
<1>7. Got' = Got BY <1>1, <1>2, <1>3 DEF Got, Calls
<1>8. /\ d \notin {x \in Deqs : pc[x] # "idle"}
      /\ {x \in Deqs : pc[x] # "idle"}' = {x \in Deqs : pc[x] # "idle"} \cup {d}
  BY <1>1, <1>2, <1>3 DEF Calls
<1>9. {x \in Enqs : pc[x] \in {"swing", "done"}}' = {x \in Enqs : pc[x] \in {"swing", "done"}}
  BY <1>1, <1>2, <1>3 DEF Calls
<1>10. Abstract!Begin(d)
  BY <1>2, <1>4, <1>5, <1>6, <1>7, <1>8, <1>9 DEF Abstract!Begin, Items, Got
<1> QED BY <1>2, <1>10 DEF Abstract!Next

\* To return false is a Miss: the queue was empty during the call.
LEMMA EmptyRefines ==
    ASSUME TypeOK, NEW s, NEW pos, QInv(s, pos), NEW d \in Deqs, DequeueEmpty(d)
    PROVE  Abstract!Next
<1> USE DEF queueVars, localVars, hazardVars, memoryVars
<1>1. d \in Calls /\ d \notin Enqs BY QueueAssumption DEF Calls
<1>2. /\ pc[d] = "check again" /\ pc' = [pc EXCEPT ![d] = "done"] /\ nxt[d] = nullptr
      /\ result' = [result EXCEPT ![d] = "empty"]
      /\ UNCHANGED <<queueVars, localVars, wasEmpty>>
  BY Zenon DEF DequeueEmpty, Step
<1>3. pc \in [Calls -> PC] /\ result \in [Deqs -> Enqs \cup {nothing, "empty"}] BY DEF TypeOK
<1>4. ~Destroyed BY Zenon, <1>1, <1>2, OpenInProgress
<1>5. d \in wasEmpty BY Zenon, <1>2 DEF QInv, Answers
<1>6. Got[d] = nothing
  <2>1. d \in Undecided BY Zenon, <1>2 DEF Undecided
  <2> QED BY Zenon, <1>2, <2>1, UndecidedIs
<1>7. Destroyed' = Destroyed BY Zenon, <1>2 DEF Destroyed
<1>8. Items' = Items BY Zenon, <1>2, ItemsUnmoved
<1>9. Got' = [Got EXCEPT ![d] = "empty"] BY Zenon, <1>1, <1>2, <1>3 DEF Got, Calls
<1>10. {x \in Deqs : pc[x] # "idle"}' = {x \in Deqs : pc[x] # "idle"}
  BY Zenon, <1>1, <1>2, <1>3 DEF Calls
<1>11. {x \in Enqs : pc[x] \in {"swing", "done"}}' = {x \in Enqs : pc[x] \in {"swing", "done"}}
  BY Zenon, <1>1, <1>2, <1>3 DEF Calls
<1>12. Abstract!Miss(d)
  BY Zenon, <1>2, <1>5, <1>6, <1>7, <1>8, <1>9, <1>10, <1>11 DEF Abstract!Miss, Items, Got
<1> QED BY <1>4, <1>12 DEF Abstract!Next

\* The destructor is a Close.
LEMMA DestroyRefines ==
    ASSUME Destroy
    PROVE  Abstract!Next
<1>1. ~Destroyed /\ Destroyed' /\ UNCHANGED <<pc, nxt, result, wasEmpty>>
  BY DEF Destroy, DestroyFreeing, Destroyed, localVars
<1>2. Abstract!Close BY <1>1 DEF Abstract!Close
<1> QED BY <1>1, <1>2 DEF Abstract!Next

\* The other steps of the calls, and those of reclaim_all, are not seen.
LEMMA EnqueueStutters ==
    ASSUME TypeOK, NEW e \in Enqs,
           \/ EnqueueBegin(e) \/ EnqueueLoadTail(e) \/ EnqueueLoadNext(e) \/ EnqueueCheck(e)
           \/ EnqueueLink(e) /\ next[curr_tail[e]] # nullptr
           \/ EnqueueSwing(e) \/ Help(e)
    PROVE  UNCHANGED Seen
<1> USE DEF queueVars, localVars, hazardVars, memoryVars, Step, Local, Goto
<1>1. e \in Calls /\ e \notin Deqs BY QueueAssumption DEF Calls
<1>2. pc \in [Calls -> PC] /\ nxt \in [Calls -> Pointers] BY DEF TypeOK
<1>3. /\ head' = head /\ next' = next /\ wasEmpty' = wasEmpty /\ result' = result
      /\ \A x \in Calls \ {e} : pc'[x] = pc[x] /\ nxt'[x] = nxt[x]
      /\ pc'[e] \in {"swing", "done"} <=> pc[e] \in {"swing", "done"}
  BY <1>1, <1>2 DEF EnqueueBegin, EnqueueLoadTail, LoadTail, EnqueueLoadNext, EnqueueCheck,
                    EnqueueLink, Link, EnqueueSwing, Help
<1>4. \A x \in Enqs : pc'[x] \in {"swing", "done"} <=> pc[x] \in {"swing", "done"}
  BY Zenon, <1>3 DEF Calls
<1>5. \A d \in Deqs : pc'[d] = pc[d] /\ nxt'[d] = nxt[d] BY <1>1, <1>3 DEF Calls
<1>6. \A d \in Deqs : Got'[d] = Got[d] BY <1>3, <1>5 DEF Got
<1> QED BY <1>3, <1>4, <1>5, <1>6, Stutters

\* No other step of a dequeue call is seen by Fifo.
LEMMA DequeueStutters ==
    ASSUME TypeOK, NEW d \in Deqs,
           \/ DequeueLoadHead(d) \/ DequeueProtect(d) \/ DequeueCheck(d)
           \/ DequeueLoadTail(d) \/ DequeueLoadNext(d) \/ DequeueProtectNext(d) \/ DequeueChoose(d)
           \/ DequeuePop(d) /\ home[curr_head[d]] # home[head]
           \/ DequeueRead(d) \/ DequeueRetire(d) \/ Help(d)
    PROVE  UNCHANGED Seen
<1> USE DEF queueVars, localVars, hazardVars, memoryVars, Step, Local, Goto
<1>1. d \in Calls /\ d \notin Enqs BY QueueAssumption DEF Calls
<1>2. /\ pc \in [Calls -> PC] /\ nxt \in [Calls -> Pointers]
      /\ result \in [Deqs -> Enqs \cup {nothing, "empty"}]
  BY DEF TypeOK
<1>3. /\ head' = head /\ next' = next /\ wasEmpty' = wasEmpty
      /\ \A x \in Calls \ {d} : pc'[x] = pc[x] /\ nxt'[x] = nxt[x]
      /\ \A x \in Deqs \ {d} : result'[x] = result[x]
      /\ pc'[d] # "idle" /\ pc[d] # "idle"
  BY Zenon, <1>1, <1>2 DEF DequeueLoadHead, DequeueProtect, DequeueCheck, DequeueLoadTail, LoadTail,
                    DequeueLoadNext, DequeueProtectNext, DequeueChoose, Choose, DequeuePop,
                    DequeueRead, DequeueRetire, Help
<1>4. IF pc[d] = "read" THEN pc'[d] # "read" /\ result'[d] = nxt[d]
      ELSE pc'[d] # "read" /\ result'[d] = result[d]
  BY Zenon, <1>1, <1>2 DEF DequeueLoadHead, DequeueProtect, DequeueCheck, DequeueLoadTail, LoadTail,
                    DequeueLoadNext, DequeueProtectNext, DequeueChoose, Choose, DequeuePop,
                    DequeueRead, DequeueRetire, Help
<1>5. \A x \in Enqs : pc'[x] = pc[x] BY Zenon, <1>1, <1>3 DEF Calls
<1>6. \A x \in Deqs : Got'[x] = Got[x] BY <1>3, <1>4 DEF Got, Calls
<1>7. \A x \in Deqs : pc'[x] = "idle" <=> pc[x] = "idle" BY <1>3 DEF Calls
<1> QED BY <1>3, <1>5, <1>6, <1>7, Stutters

\* Reclaiming is not seen by Fifo.
LEMMA ReclaimStutters ==
    ASSUME \/ \E n \in Nodes : ReclaimBegin(n)
           \/ \E slot \in Deqs \X {1, 2} : ReclaimRead(slot)
           \/ ReclaimDelete
    PROVE  UNCHANGED Seen
<1>1. UNCHANGED <<head, next, pc, nxt, result, wasEmpty>>
  BY DEF ReclaimBegin, ReclaimRead, ReclaimDelete, reclaimLeaves, queueVars, localVars
<1>2. \A d \in Deqs : Got'[d] = Got[d] BY <1>1 DEF Got
<1> QED BY <1>1, <1>2, Stutters

\* Every step is a step of Fifo, or is not seen by it.
LEMMA StepRefines == IInv /\ IInv' /\ [Next]_vars => [Abstract!Next]_Abstract!vars
<1> SUFFICES ASSUME IInv, IInv', [Next]_vars PROVE Abstract!Next \/ UNCHANGED Seen BY SeenIs
<1>1. TypeOK /\ TypeOK' BY DEF IInv
<1>2. CASE UNCHANGED vars
  <2>1. UNCHANGED <<head, next, pc, nxt, result, wasEmpty>> BY <1>2 DEF vars, queueVars, localVars
  <2>2. \A d \in Deqs : Got'[d] = Got[d] BY <2>1 DEF Got
  <2> QED BY <2>1, <2>2, Stutters
<1>3. CASE Next /\ stale BY <1>2, <1>3, StaleStops
<1>4. CASE Next /\ ~stale
  <2>1. PICK s, pos : QInv(s, pos) BY <1>4 DEF IInv
  <2>2. ASSUME NEW e \in Enqs, EnqueueLink(e), next[curr_tail[e]] = nullptr PROVE Abstract!Next
    BY Zenon, <1>1, <2>1, <2>2, LinkStep, LinkRefines
  <2>3. ASSUME NEW e \in Enqs,
               EnqueueBegin(e) \/ (Enqueue(e) /\ ~(EnqueueLink(e) /\ next[curr_tail[e]] = nullptr))
                 \/ Help(e)
        PROVE  UNCHANGED Seen
    BY <1>1, <2>3, EnqueueStutters DEF Enqueue
  <2>4. ASSUME NEW d \in Deqs, DequeueBegin(d) \/ DequeueEmpty(d) PROVE Abstract!Next
    BY <1>1, <2>1, <2>4, BeginRefines, EmptyRefines
  <2>5. ASSUME NEW d \in Deqs, DequeuePop(d) PROVE home[curr_head[d]] = home[head] <=> head = curr_head[d]
    <3>1. pc[d] = "pop" BY <2>5 DEF DequeuePop, Step
    <3>2. Homes BY DEF IInv
    <3> QED BY Zenon, <1>1, <2>1, <3>1, <3>2, SameHead
  <2>6. ASSUME NEW d \in Deqs, DequeuePop(d), head = curr_head[d] PROVE Abstract!Next
    BY <1>1, <2>1, <2>6, TakeStep, TakeRefines
  <2>7. ASSUME NEW d \in Deqs,
               Help(d) \/ (Dequeue(d) /\ ~DequeueEmpty(d) /\ ~(DequeuePop(d) /\ head = curr_head[d]))
        PROVE  UNCHANGED Seen
    BY <1>1, <2>5, <2>7, DequeueStutters DEF Dequeue
  <2>8. ASSUME NEW c \in Calls, Help(c) PROVE UNCHANGED Seen BY <2>3, <2>7, <2>8 DEF Calls
  <2>9. ASSUME \/ \E n \in Nodes : ReclaimBegin(n)
               \/ \E slot \in Deqs \X {1, 2} : ReclaimRead(slot)
               \/ ReclaimDelete
        PROVE  UNCHANGED Seen
    BY <2>9, ReclaimStutters
  <2>10. ASSUME Destroy PROVE Abstract!Next BY <2>10, DestroyRefines
  <2>11. ASSUME Stop PROVE Abstract!Next \/ UNCHANGED Seen
    <3>1. UNCHANGED vars BY <2>11 DEF Stop
    <3> QED BY <1>2, <3>1
  <2>12. ASSUME NEW e \in Enqs, EnqueueBegin(e) \/ Enqueue(e) PROVE Abstract!Next \/ UNCHANGED Seen
    BY <2>2, <2>3, <2>12
  <2>13. ASSUME NEW d \in Deqs, DequeueBegin(d) \/ Dequeue(d) PROVE Abstract!Next \/ UNCHANGED Seen
    BY <2>4, <2>6, <2>7, <2>13
  <2> QED BY <1>4, <2>8, <2>9, <2>10, <2>11, <2>12, <2>13 DEF Next
<1> QED BY <1>2, <1>3, <1>4

\* The initial state maps to Fifo's.
LEMMA InitRefines == Init => Abstract!Init
<1> SUFFICES ASSUME Init PROVE Abstract!Init OBVIOUS
<1>1. TypeOK BY InitInv DEF IInv
<1>2. PICK s, pos : QInv(s, pos)
  <2>1. ~stale BY DEF Init
  <2> QED BY <2>1, InitInv DEF IInv
<1>3. ~Destroyed BY QueueAssumption DEF Init, Destroyed
<1>4. next[head] = nullptr BY DEF Init, Nodes
<1>5. Items = <<>> BY <1>1, <1>2, <1>3, <1>4, EmptyIs
<1>6. \A c \in Calls : pc[c] = "idle" BY DEF Init
<1>7. Got = [d \in Deqs |-> nothing] BY <1>6 DEF Init, Got, Calls
<1>8. {e \in Enqs : pc[e] \in {"swing", "done"}} = {} /\ {d \in Deqs : pc[d] # "idle"} = {}
  BY <1>6 DEF Calls
<1>9. wasEmpty = {} BY DEF Init
<1> QED BY <1>3, <1>5, <1>7, <1>8, <1>9 DEF Abstract!Init, Items, Got

\* MPMCQueue implements Fifo, for any number of calls: items come out in the order in
\* which they went in, each once, and a dequeue call returns false only if the queue
\* was empty at some time during the call.
THEOREM QueueIsFifo == Spec => ImplementsFifo
<1> QED BY InitRefines, StepRefines, Invariance, PTL DEF Spec, ImplementsFifo, Abstract!Spec

=============================================================================
