------------------------- MODULE MPMCQueueInvariant --------------------------
(***************************************************************************)
(* Proofs about MPMCQueue, for any number of enqueue and dequeue calls.    *)
(*                                                                         *)
(* The nodes that were ever linked form one sequence s, from the dummy     *)
(* node to the last.  The queue is the part of it from head on: next       *)
(* pointers are never changed once set.  pos gives the position of a node  *)
(* in s, and 0 to those that are not linked yet; the inductive invariant   *)
(* speaks of positions.                                                    *)
(***************************************************************************)
EXTENDS MPMCQueue, WellFoundedInduction, TLAPS

-----------------------------------------------------------------------------
(***************************************************************************)
(* The inductive invariant.                                                *)
(***************************************************************************)
\* s are the linked nodes in their order, and pos their positions.
Order(s, pos) ==
    /\ s \in Seq(Nodes) /\ Len(s) >= 1
    /\ pos \in [Nodes -> 0..Len(s)]
    /\ pos[dummy] = 1
    /\ \A i \in 1..Len(s) : pos[s[i]] = i
    /\ \A n \in Nodes : pos[n] # 0 => s[pos[n]] = n
    /\ \A n \in Nodes :
        IF pos[n] = 0 \/ pos[n] = Len(s) THEN next[n] = nullptr
        ELSE next[n] \in Nodes /\ pos[next[n]] = pos[n] + 1

\* The linked nodes are those whose enqueue call has done its first compare-and-swap.
Linked(pos) == \A e \in Enqs : pos[e] # 0 <=> pc[e] \in {"swing", "done"}

\* head is not behind tail, and tail is the last node or the one before.
Ends(s, pos) ==
    /\ Destroyed => InProgress = {}
    /\ ~Destroyed => /\ 1 <= pos[head] /\ pos[head] <= pos[tail]
                     /\ Len(s) - 1 <= pos[tail]

\* What an enqueue call knows of the nodes that it has loaded.
EnqueueKnows(e, pos) ==
    /\ pc[e] \in {"next", "check", "link", "swing", "help"} => curr_tail[e] \in Nodes
    /\ pc[e] = "link" => 1 <= pos[curr_tail[e]] /\ pos[curr_tail[e]] <= pos[tail]
    /\ pc[e] = "check" /\ nxt[e] # nullptr => nxt[e] = next[curr_tail[e]]
    /\ pc[e] = "swing" => next[curr_tail[e]] = e
    /\ pc[e] = "help" => nxt[e] # nullptr /\ nxt[e] = next[curr_tail[e]]

\* What a dequeue call knows of the nodes that it has loaded.
DequeueKnows(d, pos) ==
    /\ pc[d] \notin {"idle", "load", "done"} =>
        curr_head[d] \in Nodes /\ 1 <= pos[curr_head[d]] /\ pos[curr_head[d]] <= pos[head]
    /\ pc[d] \in {"next", "protect next", "check again", "pop", "help"} =>
        /\ curr_tail[d] \in Nodes
        /\ pos[curr_head[d]] <= pos[curr_tail[d]] /\ pos[curr_tail[d]] <= pos[tail]
    /\ pc[d] \in {"protect next", "check again"} /\ nxt[d] # nullptr =>
        nxt[d] = next[curr_head[d]]
    /\ pc[d] \in {"pop", "help", "read"} => nxt[d] # nullptr /\ nxt[d] = next[curr_head[d]]
    /\ pc[d] = "help" => curr_tail[d] = curr_head[d]
    /\ pc[d] = "pop" => curr_tail[d] # curr_head[d]
    /\ pc[d] \in {"read", "retire"} => pos[curr_head[d]] < pos[head]

Retiring == {d \in Deqs : pc[d] \in {"read", "retire"}}

\* The nodes before head are retired, freed, or with the call that is to retire them.
Memory(pos) ==
    /\ retired \cap freed = {}
    /\ victim # nullptr => victim \in retired
    /\ \A d \in Retiring : curr_head[d] \notin retired \cup freed
    /\ \A d, x \in Retiring : curr_head[d] = curr_head[x] => d = x
    /\ \A n \in retired \cup freed : pos[n] # 0 /\ (~Destroyed => pos[n] < pos[head])
    /\ \A n \in Nodes : pos[n] # 0 /\ (Destroyed \/ pos[n] < pos[head]) =>
        n \in retired \cup freed \/ \E d \in Retiring : curr_head[d] = n

\* A node that slot k of dequeue call d protects is not freed, and a reclaim_all that
\* examines it has not read the slot yet.
Protected(d, k, n) == n \notin freed /\ (victim = n => <<d, k>> \in unread)

Guarded(d) ==
    /\ pc[d] \in {"check", "tail", "next", "protect next", "check again", "pop", "help", "read"} =>
        /\ hp_head[d] \in Allocated /\ curr_head[d] \in Allocated
        /\ home[hp_head[d]] = home[curr_head[d]]
    /\ pc[d] \in {"tail", "next", "protect next", "check again", "pop", "help", "read"} =>
        Protected(d, 1, curr_head[d])
    /\ pc[d] \in {"check again", "pop", "read"} => hp_next[d] = nxt[d]
    /\ pc[d] \in {"pop", "read"} => Protected(d, 2, nxt[d])

\* Who has a result; and who may return false.
Answers(d) ==
    /\ result[d] = nothing <=> pc[d] \notin {"retire", "done"}
    /\ d \in Undecided /\ next[head] = nullptr => d \in wasEmpty
    /\ pc[d] \in {"protect next", "check again"} /\ nxt[d] = nullptr => d \in wasEmpty

QInv(s, pos) ==
    /\ Order(s, pos) /\ Linked(pos) /\ Ends(s, pos) /\ Memory(pos)
    /\ \A e \in Enqs : EnqueueKnows(e, pos)
    /\ \A d \in Deqs : DequeueKnows(d, pos) /\ Guarded(d) /\ Answers(d)

\* No two nodes in memory have the same address.
Homes == \A m, n \in Live : home[m] = home[n] => m = n

\* An enqueue call has used its curr_tail after that was freed.
StaleTail == \E e \in Enqs : curr_tail[e] \in freed

IInv == TypeOK /\ Homes /\ IF stale THEN StaleTail ELSE \E s, pos : QInv(s, pos)

-----------------------------------------------------------------------------
(***************************************************************************)
(* The arithmetic of positions, each fact as its uses need it.             *)
(***************************************************************************)
\* A position that is not before a linked one is linked.
LEMMA AtLeastOne == \A i, j \in Nat : 1 <= i /\ i <= j => 1 <= j
OBVIOUS

\* Positions start at one; zero means not linked.
LEMMA NotZero == \A i \in Nat : 1 <= i <=> i # 0
OBVIOUS

\* No position is behind itself.
LEMMA AtMostItself == \A i \in Nat : i <= i
OBVIOUS

\* The order of positions is transitive.
LEMMA AtMostTrans == \A i, j, k \in Nat : i <= j /\ j <= k => i <= k
OBVIOUS

\* The next position is not before this one, and not zero.
LEMMA NextPosition == \A i \in Nat : \A j : j = i + 1 => i <= j /\ 1 <= j /\ ~(j < i)
OBVIOUS

\* Between two positions that differ there is room for one more.
LEMMA RoomForNext == \A i, j, k \in Nat : i <= j /\ j <= k /\ i # j => i + 1 <= k
OBVIOUS

\* A position after the last is not before any, and the last is one less.
LEMMA PastTheLast == \A i, j \in Nat : /\ j <= i => ~(i + 1 < j)
                                       /\ (i + 1) - 1 <= i
OBVIOUS

-----------------------------------------------------------------------------
(***************************************************************************)
(* What ChainFrom computes.  Induction is over the distance from the end   *)
(* of the chain: a set of naturals has a least element.                    *)
(***************************************************************************)
\* A nonempty set of naturals has a least element.
LEMMA LeastNatural ==
    ASSUME NEW T, T \subseteq Nat, T # {}
    PROVE  \E m \in T : \A k \in T : m <= k
<1> DEFINE R == OpToRel(<, Nat)
<1>1. IsWellFoundedOn(R, Nat) BY NatLessThanWellFounded, Zenon
<1>2. \A i, j \in Nat : i < j => <<i, j>> \in R BY DEF OpToRel
<1> HIDE DEF R
<1>3. PICK m \in T : \A k \in T : ~(<<k, m>> \in R) BY Zenon, <1>1, WFMin
<1>4. \A k \in T : ~(k < m) BY Zenon, <1>2, <1>3
<1> QED BY <1>4

\* The nodes of s from position i on.
Suffix(s, i) == [k \in 1..(Len(s) - i + 1) |-> s[k + i - 1]]

\* A suffix is its first node followed by the next suffix.
LEMMA SuffixStep ==
    ASSUME NEW s \in Seq(Nodes), NEW i \in 1..Len(s)
    PROVE  /\ Suffix(s, i) \in Seq(Nodes)
           /\ Len(Suffix(s, i)) = Len(s) - i + 1
           /\ i < Len(s) => Suffix(s, i) = <<s[i]>> \o Suffix(s, i + 1)
           /\ i = Len(s) => Suffix(s, i) = <<s[i]>> \o <<>>
<1>1. Suffix(s, i) \in Seq(Nodes) BY DEF Suffix
<1>2. Len(Suffix(s, i)) = Len(s) - i + 1 BY DEF Suffix
<1>3. ASSUME i < Len(s) PROVE Suffix(s, i) = <<s[i]>> \o Suffix(s, i + 1)
  <2>1. Suffix(s, i + 1) \in Seq(Nodes) /\ Len(Suffix(s, i + 1)) = Len(s) - i
    BY <1>3 DEF Suffix
  <2> QED BY <1>1, <1>2, <1>3, <2>1 DEF Suffix
<1>4. ASSUME i = Len(s) PROVE Suffix(s, i) = <<s[i]>> \o <<>>
  BY <1>1, <1>2, <1>4 DEF Suffix
<1> QED BY <1>1, <1>2, <1>3, <1>4

\* The equation by which ChainFrom is defined.
Follows(f) == f = [p \in Pointers |-> IF p = nullptr THEN <<>> ELSE <<p>> \o f[next[p]]]

\* If some function satisfies that equation, ChainFrom is given by one that does.
LEMMA ChainFollows ==
    ASSUME NEW f, Follows(f)
    PROVE  \E g : Follows(g) /\ \A n : ChainFrom(n) = g[n]
<1> DEFINE g == CHOOSE h : Follows(h)
<1>1. Follows(g) BY Zenon
<1>2. ASSUME NEW n PROVE ChainFrom(n) = g[n] BY DEF ChainFrom, Follows
<1> QED BY <1>1, <1>2, Zenon

\* Such a function exists as the linked nodes are in an order and the last has no next.
LEMMA FollowsExists ==
    ASSUME NEW s, NEW pos, Order(s, pos)
    PROVE  \E f : Follows(f)
<1> DEFINE f == [p \in Pointers |-> IF p = nullptr THEN <<>>
                                    ELSE IF pos[p] = 0 THEN <<p>> \o <<>> ELSE Suffix(s, pos[p])]
<1>1. s \in Seq(Nodes) /\ Len(s) \in Nat /\ pos \in [Nodes -> 0..Len(s)] BY DEF Order
<1>2. nullptr \notin Nodes BY QueueAssumption DEF Nodes
<1>3. ASSUME NEW p \in Nodes PROVE f[p] = <<p>> \o f[next[p]]
  <2>1. CASE pos[p] = 0
    <3>1. next[p] = nullptr BY <2>1 DEF Order
    <3> QED BY <1>2, <2>1, <3>1 DEF Pointers
  <2>2. CASE pos[p] = Len(s) /\ pos[p] # 0
    <3>1. next[p] = nullptr /\ s[pos[p]] = p BY <2>2 DEF Order
    <3>2. pos[p] \in 1..Len(s) BY <1>1, <2>2
    <3>3. f[p] = Suffix(s, pos[p]) /\ f[nullptr] = <<>> BY <1>2, <2>2 DEF Pointers
    <3>4. Suffix(s, pos[p]) = <<s[pos[p]]>> \o <<>> BY Zenon, <1>1, <2>2, <3>2, SuffixStep
    <3> QED BY Zenon, <3>1, <3>3, <3>4
  <2>3. CASE pos[p] # 0 /\ pos[p] # Len(s)
    <3>1. next[p] \in Nodes /\ pos[next[p]] = pos[p] + 1 /\ s[pos[p]] = p BY <2>3 DEF Order
    <3>2. pos[p] \in 1..Len(s) /\ pos[p] < Len(s) /\ pos[p] + 1 # 0 BY <1>1, <2>3
    <3>3. f[p] = Suffix(s, pos[p]) /\ f[next[p]] = Suffix(s, pos[p] + 1)
      BY <1>2, <2>3, <3>1, <3>2 DEF Pointers
    <3>4. Suffix(s, pos[p]) = <<s[pos[p]]>> \o Suffix(s, pos[p] + 1)
      BY Zenon, <1>1, <3>2, SuffixStep
    <3> QED BY Zenon, <3>1, <3>3, <3>4
  <2> QED BY Zenon, <2>1, <2>2, <2>3
<1>4. f[nullptr] = <<>> BY DEF Pointers
<1>5. f = [p \in Pointers |-> f[p]] OBVIOUS
<1> HIDE DEF f
<1>6. f = [p \in Pointers |-> IF p = nullptr THEN <<>> ELSE <<p>> \o f[next[p]]]
  BY Zenon, <1>3, <1>4, <1>5 DEF Pointers
<1> QED BY <1>6 DEF Follows

\* ChainFrom(n) are the linked nodes from n on.
LEMMA ChainIsSuffix ==
    ASSUME NEW s, NEW pos, Order(s, pos), NEW n \in Nodes, pos[n] # 0
    PROVE  ChainFrom(n) = Suffix(s, pos[n])
<1>1. PICK g : Follows(g) /\ \A m : ChainFrom(m) = g[m] BY FollowsExists, ChainFollows
<1>2. s \in Seq(Nodes) /\ Len(s) \in Nat \ {0} /\ pos \in [Nodes -> 0..Len(s)] BY DEF Order
<1>3. nullptr \notin Nodes BY QueueAssumption DEF Nodes
<1> DEFINE Wrong == {k \in Nat : k < Len(s) /\ g[s[Len(s) - k]] # Suffix(s, Len(s) - k)}
<1>4. SUFFICES Wrong = {}
  <2>1. pos[n] \in 1..Len(s) /\ s[pos[n]] = n BY <1>2 DEF Order
  <2>2. Len(s) - pos[n] \in Nat /\ Len(s) - pos[n] < Len(s) /\ Len(s) - (Len(s) - pos[n]) = pos[n]
    BY <1>2, <2>1
  <2>3. g[s[pos[n]]] = Suffix(s, pos[n]) BY <1>4, <2>2
  <2> QED BY <1>1, <2>1, <2>3
<1>5. SUFFICES ASSUME Wrong # {} PROVE FALSE OBVIOUS
<1>6. PICK k \in Wrong : \A j \in Wrong : k <= j
  <2>1. Wrong \subseteq Nat OBVIOUS
  <2> HIDE DEF Wrong
  <2> QED BY Zenon, <1>5, <2>1, LeastNatural
<1> DEFINE i == Len(s) - k
<1>7. i \in 1..Len(s) /\ s[i] \in Nodes /\ pos[s[i]] = i BY <1>2, <1>6 DEF Order
<1>8. g[s[i]] = <<s[i]>> \o g[next[s[i]]]
  <2>1. g = [p \in Pointers |-> IF p = nullptr THEN <<>> ELSE <<p>> \o g[next[p]]]
    BY Zenon, <1>1 DEF Follows
  <2>2. s[i] \in Pointers /\ s[i] # nullptr BY <1>3, <1>7 DEF Pointers
  <2> HIDE DEF i
  <2> QED BY Zenon, <2>1, <2>2
<1>9. CASE i = Len(s)
  <2>1. next[s[i]] = nullptr BY <1>7, <1>9 DEF Order
  <2>2. g[nullptr] = <<>> BY <1>1 DEF Follows, Pointers
  <2>3. Suffix(s, i) = <<s[i]>> \o <<>> BY Zenon, <1>2, <1>7, <1>9, SuffixStep
  <2> QED BY <1>6, <1>8, <2>1, <2>2, <2>3
<1>10. CASE i # Len(s)
  <2>1. k - 1 \in Nat /\ k - 1 < Len(s) /\ k - 1 < k /\ Len(s) - (k - 1) = i + 1
    BY <1>2, <1>6, <1>10
  <2>2. k - 1 \notin Wrong BY <1>6, <2>1
  <2>3. g[s[i + 1]] = Suffix(s, i + 1) BY <2>1, <2>2
  <2>4. next[s[i]] = s[i + 1]
    <3>1. next[s[i]] \in Nodes /\ pos[next[s[i]]] = i + 1
      <4>1. pos[s[i]] # 0 /\ pos[s[i]] # Len(s) BY <1>7, <1>10
      <4>2. next[s[i]] \in Nodes /\ pos[next[s[i]]] = pos[s[i]] + 1 BY Zenon, <1>7, <4>1 DEF Order
      <4> QED BY <1>7, <4>2
    <3>2. i + 1 # 0 BY <1>7
    <3> QED BY <3>1, <3>2 DEF Order
  <2>5. Suffix(s, i) = <<s[i]>> \o Suffix(s, i + 1)
    <3>1. i \in 1..Len(s) /\ i < Len(s) BY <1>2, <1>7, <1>10
    <3> HIDE DEF i
    <3> QED BY Zenon, <1>2, <3>1, SuffixStep
  <2> QED BY Zenon, <1>6, <1>8, <2>3, <2>4, <2>5
<1> QED BY <1>9, <1>10

-----------------------------------------------------------------------------
(***************************************************************************)
(* Types.  A pointer that is followed is not null.                         *)
(***************************************************************************)
\* The facts about types that the steps need.
LEMMA Typed ==
    ASSUME TypeOK, NEW s, NEW pos, QInv(s, pos)
    PROVE  /\ Len(s) \in Nat \ {0} /\ pos \in [Nodes -> Nat] /\ \A n \in Nodes : pos[n] <= Len(s)
           /\ tail \in Nodes /\ next \in [Nodes -> Pointers]
           /\ nullptr \notin Nodes /\ dummy \in Nodes /\ Enqs \subseteq Nodes
           /\ ~Destroyed => head \in Nodes
           /\ pos[dummy] = 1
<1>1. s \in Seq(Nodes) /\ Len(s) >= 1 /\ pos \in [Nodes -> 0..Len(s)] /\ pos[dummy] = 1
  BY DEF QInv, Order
<1>2. nullptr \notin Nodes /\ dummy \in Nodes /\ Enqs \subseteq Nodes
  BY QueueAssumption DEF Nodes
<1>3. Len(s) \in Nat \ {0} BY <1>1
<1>4. pos \in [Nodes -> Nat] /\ \A n \in Nodes : pos[n] <= Len(s) BY <1>1, <1>3
<1>5. tail \in Nodes /\ next \in [Nodes -> Pointers] /\ (~Destroyed => head \in Nodes)
  BY DEF TypeOK, Destroyed, Pointers
<1> QED BY <1>1, <1>2, <1>3, <1>4, <1>5

\* The node after a linked one is an item.
LEMMA NextIsItem ==
    ASSUME TypeOK, NEW s, NEW pos, QInv(s, pos), NEW n \in Nodes, next[n] # nullptr
    PROVE  next[n] \in Enqs /\ pos[next[n]] = pos[n] + 1 /\ 1 <= pos[n]
<1>1. pos[n] # 0 /\ next[n] \in Nodes /\ pos[next[n]] = pos[n] + 1 BY DEF QInv, Order
<1>2. pos[n] \in Nat /\ pos[dummy] = 1 BY Typed
<1>3. 1 <= pos[n] BY <1>1, <1>2, NotZero, Zenon
<1>4. next[n] # dummy BY <1>1, <1>2
<1> QED BY <1>1, <1>3, <1>4 DEF Nodes

\* A linked node is allocated, and in memory if it is not before head.
LEMMA LinkedAllocated ==
    ASSUME TypeOK, NEW s, NEW pos, QInv(s, pos), NEW n \in Nodes, 1 <= pos[n]
    PROVE  /\ n \in Allocated
           /\ ~Destroyed /\ pos[head] <= pos[n] => n \in Live
<1>1. pos[n] \in Nat BY Typed
<1>2. pos[n] # 0 BY <1>1, NotZero, Zenon
<1>3. n \in Allocated
  <2>1. n \in Enqs => pc[n] \in {"swing", "done"} BY <1>2 DEF QInv, Linked
  <2> QED BY <2>1 DEF Allocated, Nodes
<1>4. ~Destroyed /\ pos[head] <= pos[n] => n \notin freed
  <2> SUFFICES ASSUME ~Destroyed, pos[head] <= pos[n], n \in freed PROVE FALSE OBVIOUS
  <2>1. pos[n] < pos[head] BY DEF QInv, Memory
  <2>2. pos[head] \in Nat BY Typed
  <2> QED BY <1>1, <2>1, <2>2
<1> QED BY <1>3, <1>4 DEF Live

\* head and tail are in memory.
LEMMA EndsLive ==
    ASSUME TypeOK, NEW s, NEW pos, QInv(s, pos), ~Destroyed
    PROVE  head \in Live /\ tail \in Live
<1>1. head \in Nodes /\ tail \in Nodes /\ pos[head] \in Nat /\ pos[tail] \in Nat BY Typed
<1>2. 1 <= pos[head] /\ pos[head] <= pos[tail] BY DEF QInv, Ends
<1>3. 1 <= pos[tail] /\ pos[head] <= pos[head] BY <1>1, <1>2, AtLeastOne, AtMostItself, Zenon
<1> QED BY <1>1, <1>2, <1>3, LinkedAllocated

\* A dequeue call that has protected curr_head compares it with head as if they were nodes.
LEMMA SameHead ==
    ASSUME TypeOK, Homes, NEW s, NEW pos, QInv(s, pos), NEW d \in Deqs,
           pc[d] \in {"check again", "pop"}
    PROVE  home[curr_head[d]] = home[head] <=> curr_head[d] = head
<1>1. curr_head[d] \in Live BY Zenon DEF QInv, Guarded, Protected, Live
<1>2. ~Destroyed BY Zenon DEF QInv, Ends, InProgress, Calls
<1>3. head \in Live BY Zenon, <1>2, EndsLive
<1> QED BY Zenon, <1>1, <1>3 DEF Homes

\* What is at the address of a node: itself, while it is not freed.
LEMMA HereIs ==
    ASSUME NEW p \in Nodes
    PROVE  /\ Here(p) \in Nodes
           /\ p \notin freed => Here(p) = p
           /\ Here(p) \in freed => Here(p) = p
<1>1. Live \subseteq Nodes /\ Live \cap freed = {} BY DEF Live, Allocated, Nodes
<1> QED BY <1>1 DEF Here

\* The queue are the linked nodes from head on.
LEMMA InQueueIs ==
    ASSUME TypeOK, NEW s, NEW pos, QInv(s, pos), ~Destroyed
    PROVE  InQueue = {n \in Nodes : pos[head] <= pos[n]}
<1>1. head \in Nodes /\ pos[head] \in 1..Len(s) /\ s \in Seq(Nodes)
  <2>1. 1 <= pos[head] /\ s \in Seq(Nodes) BY DEF QInv, Ends, Order
  <2> QED BY <2>1, Typed
<1>2. InQueue = Range(Suffix(s, pos[head])) BY <1>1, ChainIsSuffix DEF InQueue, QInv
<1>3. DOMAIN Suffix(s, pos[head]) = 1..(Len(s) - pos[head] + 1) BY DEF Suffix
<1>4. ASSUME NEW n \in InQueue PROVE n \in Nodes /\ pos[head] <= pos[n]
  <2>1. PICK k \in 1..(Len(s) - pos[head] + 1) : n = Suffix(s, pos[head])[k]
    BY <1>2, <1>3 DEF Range
  <2>2. n = s[k + pos[head] - 1] /\ k + pos[head] - 1 \in 1..Len(s) BY <1>1, <2>1 DEF Suffix
  <2>3. n \in Nodes /\ pos[n] = k + pos[head] - 1 BY <1>1, <2>2 DEF QInv, Order
  <2> QED BY <1>1, <2>1, <2>3
<1>5. ASSUME NEW n \in Nodes, pos[head] <= pos[n] PROVE n \in InQueue
  <2>1. pos[n] \in 1..Len(s) /\ s[pos[n]] = n BY <1>1, <1>5, Typed DEF QInv, Order
  <2> DEFINE k == pos[n] - pos[head] + 1
  <2>2. k \in 1..(Len(s) - pos[head] + 1) /\ k + pos[head] - 1 = pos[n] BY <1>1, <1>5, <2>1
  <2>3. Suffix(s, pos[head])[k] = n BY <2>1, <2>2 DEF Suffix
  <2> HIDE DEF k
  <2> QED BY <1>2, <1>3, <2>2, <2>3 DEF Range
<1> QED BY <1>4, <1>5

\* A step keeps the types.
LEMMA TypeStep ==
    ASSUME TypeOK, ~stale, NEW s, NEW pos, QInv(s, pos), Next
    PROVE  TypeOK'
<1> USE DEF queueVars, localVars, hazardVars, memoryVars, Step, Local, Goto, PC
<1>1. ASSUME NEW e \in Enqs, EnqueueBegin(e) \/ Enqueue(e) PROVE TypeOK'
  <2>1. e \in Calls /\ e \in Nodes /\ EnqueueKnows(e, pos) BY DEF Calls, Nodes, QInv
  <2>2. CASE EnqueueBegin(e)
    <3>1. PICK a \in {e} \cup {home[n] : n \in freed} : home' = [home EXCEPT ![e] = a]
      BY Zenon, <2>2 DEF EnqueueBegin
    <3>2. a \in Nodes
      <4>1. home \in [Nodes -> Nodes] /\ freed \subseteq Nodes BY Zenon DEF TypeOK
      <4>2. \A n \in freed : home[n] \in Nodes BY <4>1
      <4> QED BY Zenon, <2>1, <4>2
    <3>3. home' \in [Nodes -> Nodes] BY Zenon, <2>1, <3>1, <3>2 DEF TypeOK
    <3> QED BY Zenon, <2>1, <2>2, <3>3 DEF EnqueueBegin, TypeOK
  <2>3. CASE EnqueueLoadTail(e) BY Zenon, <2>1, <2>3 DEF EnqueueLoadTail, LoadTail, TypeOK, Pointers
  <2>4. CASE EnqueueLoadNext(e)
    <3> DEFINE n == Here(curr_tail[e])
    <3>1. curr_tail[e] \in Nodes BY <2>1, <2>4 DEF EnqueueLoadNext, EnqueueKnows
    <3>2. n \in Nodes BY <3>1, HereIs
    <3>3. /\ stale' \in BOOLEAN /\ curr_tail' = [curr_tail EXCEPT ![e] = n]
          /\ nxt' = [nxt EXCEPT ![e] = next[n]]
      BY <2>4 DEF EnqueueLoadNext
    <3> HIDE DEF n
    <3>4. next[n] \in Pointers /\ n \in Pointers BY <3>2, Typed DEF Pointers
    <3>5. curr_tail' \in [Calls -> Pointers] /\ nxt' \in [Calls -> Pointers]
      BY Zenon, <2>1, <3>3, <3>4 DEF TypeOK
    <3> QED BY Zenon, <2>1, <2>4, <3>3, <3>5 DEF EnqueueLoadNext, TypeOK
  <2>5. CASE EnqueueCheck(e)
    <3>1. curr_tail' \in [Calls -> Pointers] BY Zenon, <2>1, <2>5 DEF EnqueueCheck, TypeOK, Pointers
    <3> QED BY Zenon, <2>1, <2>5, <3>1 DEF EnqueueCheck, TypeOK
  <2>6. CASE EnqueueLink(e)
    <3>1. next' \in [Nodes -> Pointers]
      BY Zenon, <2>1, <2>6 DEF EnqueueLink, Link, TypeOK, Pointers
    <3>2. pc' \in [Calls -> PC]
      BY Zenon, <2>1, <2>6 DEF EnqueueLink, Link, TypeOK
    <3>3. stale' \in BOOLEAN BY <2>6 DEF EnqueueLink, Link
    <3> QED BY Zenon, <2>6, <3>1, <3>2, <3>3 DEF EnqueueLink, Link, TypeOK
  <2>7. CASE EnqueueSwing(e)
    <3>1. tail' \in Nodes /\ stale' \in BOOLEAN BY Zenon, <2>1, <2>7 DEF EnqueueSwing, MoveTail, TypeOK
    <3> QED BY Zenon, <2>1, <2>7, <3>1 DEF EnqueueSwing, TypeOK
  <2> QED BY <1>1, <2>2, <2>3, <2>4, <2>5, <2>6, <2>7 DEF Enqueue
<1>2. ASSUME NEW d \in Deqs, DequeueBegin(d) \/ Dequeue(d) PROVE TypeOK'
  <2>1. d \in Calls /\ DequeueKnows(d, pos) BY DEF Calls, QInv
  <2>2. CASE DequeueBegin(d) BY Zenon, <2>1, <2>2 DEF DequeueBegin, TypeOK
  <2>3. CASE DequeueLoadHead(d) BY Zenon, <2>1, <2>3 DEF DequeueLoadHead, TypeOK
  <2>4. CASE DequeueProtect(d) BY Zenon, <2>1, <2>4 DEF DequeueProtect, TypeOK
  <2>5. CASE DequeueCheck(d)
    <3>1. curr_head' \in [Deqs -> Pointers] BY Zenon, <2>5 DEF DequeueCheck, TypeOK
    <3> QED BY Zenon, <2>1, <2>5, <3>1 DEF DequeueCheck, TypeOK
  <2>6. CASE DequeueLoadTail(d) BY Zenon, <2>1, <2>6 DEF DequeueLoadTail, LoadTail, TypeOK, Pointers
  <2>7. CASE DequeueLoadNext(d)
    <3>1. next[curr_head[d]] \in Pointers BY Zenon, <2>1, <2>7, Typed DEF DequeueLoadNext, DequeueKnows
    <3> QED BY Zenon, <2>1, <2>7, <3>1 DEF DequeueLoadNext, TypeOK
  <2>8. CASE DequeueProtectNext(d) BY Zenon, <2>1, <2>8 DEF DequeueProtectNext, TypeOK
  <2>9. CASE DequeueEmpty(d)
    BY Zenon, <2>1, <2>9 DEF DequeueEmpty, Unprotect, TypeOK, Pointers
  <2>10. CASE DequeueChoose(d) BY Zenon, <2>1, <2>10 DEF DequeueChoose, Choose, TypeOK
  <2>11. CASE DequeuePop(d)
    BY Zenon, <2>1, <2>11 DEF DequeuePop, TypeOK, Undecided
  <2>12. CASE DequeueRead(d)
    <3>1. nxt[d] \in Enqs
      <4>1. /\ curr_head[d] \in Nodes /\ 1 <= pos[curr_head[d]]
            /\ nxt[d] # nullptr /\ nxt[d] = next[curr_head[d]]
        BY <2>1, <2>12 DEF DequeueRead, DequeueKnows
      <4> QED BY <4>1, NextIsItem
    <3> QED BY Zenon, <2>1, <2>12, <3>1 DEF DequeueRead, Unprotect, TypeOK, Pointers
  <2>13. CASE DequeueRetire(d)
    <3>1. curr_head[d] \in Nodes BY <2>1, <2>13 DEF DequeueRetire, DequeueKnows
    <3> QED BY Zenon, <2>1, <2>13, <3>1 DEF DequeueRetire, TypeOK
  <2> QED BY <1>2, <2>2, <2>3, <2>4, <2>5, <2>6, <2>7, <2>8, <2>9, <2>10, <2>11, <2>12, <2>13
          DEF Dequeue
<1>3. ASSUME NEW c \in Calls, Help(c) PROVE TypeOK'
  <2>1. nxt[c] \in Nodes
    <3>1. nxt[c] # nullptr BY Zenon, <1>3 DEF Help, Calls, QInv, EnqueueKnows, DequeueKnows
    <3> QED BY Zenon, <3>1 DEF TypeOK, Pointers
  <2>2. tail' \in Nodes /\ stale' \in BOOLEAN BY Zenon, <1>3, <2>1 DEF Help, MoveTail, TypeOK
  <2> QED BY Zenon, <1>3, <2>2 DEF Help, TypeOK
<1>4. ASSUME NEW n \in Nodes, ReclaimBegin(n) PROVE TypeOK'
  BY Zenon, <1>4 DEF ReclaimBegin, reclaimLeaves, TypeOK, Pointers, InProgress
<1>5. ASSUME NEW slot \in Deqs \X {1, 2}, ReclaimRead(slot) PROVE TypeOK'
  BY Zenon, <1>5 DEF ReclaimRead, reclaimLeaves, TypeOK, Pointers
<1>6. CASE ReclaimDelete
  BY Zenon, <1>6 DEF ReclaimDelete, reclaimLeaves, TypeOK, Pointers
<1>7. CASE Destroy
  <2>1. InQueue \subseteq Nodes BY <1>7, InQueueIs DEF Destroy, DestroyFreeing
  <2> QED BY Zenon, <1>7, <2>1 DEF Destroy, DestroyFreeing, TypeOK, Pointers
<1>8. CASE Stop BY Zenon, <1>8 DEF Stop, vars, TypeOK
<1> QED BY <1>1, <1>2, <1>3, <1>4, <1>5, <1>6, <1>7, <1>8 DEF Next

\* A step allocates a node at most, at an address where none is.
LEMMA HomesStep ==
    ASSUME TypeOK, Homes, Next
    PROVE  Homes'
<1> USE DEF queueVars, localVars, hazardVars, memoryVars, reclaimLeaves
<1>1. ASSUME NEW e \in Enqs, EnqueueBegin(e) PROVE Homes'
  <2>1. e \in Calls /\ e \in Nodes /\ e # dummy BY QueueAssumption DEF Calls, Nodes
  <2>2. pc[e] = "idle" /\ pc' = [pc EXCEPT ![e] = "load"] /\ freed' = freed
    BY <1>1 DEF EnqueueBegin, Step
  <2>3. PICK a \in ({e} \cup {home[n] : n \in freed}) \ {home[n] : n \in Live} :
          home' = [home EXCEPT ![e] = a]
    BY Zenon, <1>1 DEF EnqueueBegin
  <2>4. e \notin Live /\ Live' \subseteq Live \cup {e} /\ Live \subseteq Nodes
    BY <2>1, <2>2 DEF Live, Allocated, TypeOK, Calls, Nodes
  <2>5. home'[e] = a /\ \A n \in Live : home'[n] = home[n] /\ home[n] # a
    BY <2>1, <2>3, <2>4 DEF TypeOK
  <2> QED BY <2>4, <2>5 DEF Homes
<1>2. ASSUME home' = home, freed \subseteq freed', NEW c \in Calls, pc[c] # "idle",
             \A x \in Calls : x # c => pc'[x] = pc[x]
      PROVE  Homes'
  <2>1. Live' \subseteq Live BY <1>2 DEF Live, Allocated, Calls
  <2> QED BY <1>2, <2>1 DEF Homes
<1>3. ASSUME NEW d \in Deqs, DequeueBegin(d) PROVE Homes'
  <2>1. UNCHANGED <<home, freed>> /\ pc' = [pc EXCEPT ![d] = "load"] BY <1>3 DEF DequeueBegin, Step
  <2>2. \A e \in Enqs : pc'[e] = pc[e] BY <2>1, QueueAssumption DEF TypeOK, Calls
  <2>3. Live' = Live BY <2>1, <2>2 DEF Live, Allocated
  <2> QED BY <2>1, <2>3 DEF Homes
<1>4. ASSUME NEW e \in Enqs, Enqueue(e) PROVE Homes'
  <2>1. /\ UNCHANGED <<home, freed>> /\ pc[e] # "idle"
        /\ \A x \in Calls : x # e => pc'[x] = pc[x]
    BY <1>4 DEF TypeOK, Enqueue, EnqueueLoadTail, EnqueueLoadNext, EnqueueCheck, EnqueueLink, Link,
                EnqueueSwing, LoadTail, Local, Step
  <2> QED BY <1>2, <2>1 DEF Calls
<1>5. ASSUME NEW d \in Deqs, Dequeue(d) PROVE Homes'
  <2>1. /\ UNCHANGED <<home, freed>> /\ pc[d] # "idle"
        /\ \A x \in Calls : x # d => pc'[x] = pc[x]
    BY Zenon, <1>5 DEF TypeOK, Dequeue, DequeueLoadHead, DequeueProtect, DequeueCheck, DequeueLoadTail,
                DequeueLoadNext, DequeueProtectNext, DequeueEmpty, DequeueChoose, Choose, DequeuePop,
                DequeueRead, DequeueRetire, LoadTail, Goto, Local, Step
  <2> QED BY <1>2, <2>1 DEF Calls
<1>6. ASSUME NEW c \in Calls, Help(c) PROVE Homes'
  <2>1. /\ UNCHANGED <<home, freed>> /\ pc[c] # "idle"
        /\ \A x \in Calls : x # c => pc'[x] = pc[x]
    BY <1>6 DEF TypeOK, Help, Step
  <2> QED BY <1>2, <2>1
<1>7. ASSUME UNCHANGED <<home, pc>>, freed \subseteq freed' PROVE Homes'
  <2>1. Live' \subseteq Live BY <1>7 DEF Live, Allocated
  <2> QED BY <1>7, <2>1 DEF Homes
<1>8. ASSUME NEW n \in Nodes, ReclaimBegin(n) PROVE Homes' BY <1>7, <1>8 DEF ReclaimBegin
<1>9. ASSUME NEW slot \in Deqs \X {1, 2}, ReclaimRead(slot) PROVE Homes'
  BY <1>7, <1>9 DEF ReclaimRead
<1>10. CASE ReclaimDelete BY <1>7, <1>10 DEF ReclaimDelete
<1>11. CASE Destroy BY <1>7, <1>11 DEF Destroy, DestroyFreeing
<1>12. CASE Stop BY <1>7, <1>12 DEF Stop, vars
<1> QED BY <1>1, <1>3, <1>4, <1>5, <1>6, <1>8, <1>9, <1>10, <1>11, <1>12 DEF Next

-----------------------------------------------------------------------------
(***************************************************************************)
(* Steps that take and retire no node.                                     *)
(***************************************************************************)
\* A step of call c that leaves the chain, the memory and the other calls alone.
Quiet(c, pos) ==
    /\ UNCHANGED <<head, next, retired, freed, victim, unread>>
    /\ \A n \in Allocated : home'[n] = home[n]
    /\ tail' \in Nodes /\ pos[tail] <= pos[tail']
    /\ pc'[c] # "idle"
    /\ \A x \in Calls \ {c} : pc'[x] = pc[x] /\ curr_tail'[x] = curr_tail[x] /\ nxt'[x] = nxt[x]
    /\ \A d \in Deqs \ {c} : /\ curr_head'[d] = curr_head[d] /\ result'[d] = result[d]
                             /\ hp_head'[d] = hp_head[d] /\ hp_next'[d] = hp_next[d]
    /\ wasEmpty \subseteq wasEmpty'
    /\ pc[c] \notin {"read", "retire"} /\ pc'[c] \notin {"read", "retire"}
    /\ c \in Enqs => (pc[c] \in {"swing", "done"} <=> pc'[c] \in {"swing", "done"})
    /\ ~Destroyed

\* What an enqueue call knows stays true if tail moves on.
LEMMA EnqueueStillKnows ==
    ASSUME TypeOK, NEW s, NEW pos, QInv(s, pos), NEW e \in Enqs, next' = next,
           tail' \in Nodes, pos[tail] <= pos[tail'],
           pc'[e] = pc[e], curr_tail'[e] = curr_tail[e], nxt'[e] = nxt[e]
    PROVE  EnqueueKnows(e, pos)'
<1>1. EnqueueKnows(e, pos) BY DEF QInv
<1>2. pos \in [Nodes -> Nat] /\ tail \in Nodes BY Typed
<1> QED BY <1>1, <1>2 DEF EnqueueKnows

\* What a dequeue call knows stays true if head and tail move on.
LEMMA DequeueStillKnows ==
    ASSUME TypeOK, NEW s, NEW pos, QInv(s, pos), NEW d \in Deqs, next' = next,
           ~Destroyed, head' \in Nodes, pos[head] <= pos[head'],
           tail' \in Nodes, pos[tail] <= pos[tail'],
           pc'[d] = pc[d], curr_head'[d] = curr_head[d], curr_tail'[d] = curr_tail[d], nxt'[d] = nxt[d]
    PROVE  DequeueKnows(d, pos)'
<1>1. DequeueKnows(d, pos) BY Zenon DEF QInv
<1>2. pos \in [Nodes -> Nat] /\ tail \in Nodes /\ head \in Nodes BY Typed
<1>3. \A n \in Nodes : /\ pos[n] <= pos[head] => pos[n] <= pos[head']
                       /\ pos[n] < pos[head] => pos[n] < pos[head']
                       /\ pos[n] <= pos[tail] => pos[n] <= pos[tail']
  BY <1>2
<1> QED BY Zenon, <1>1, <1>3 DEF DequeueKnows

\* What is protected stays so while memory is left alone.
LEMMA StillGuarded ==
    ASSUME NEW d \in Deqs, Guarded(d), UNCHANGED <<freed, victim, unread>>,
           Allocated \subseteq Allocated', \A n \in Allocated : home'[n] = home[n],
           pc'[d] = pc[d], curr_head'[d] = curr_head[d], nxt'[d] = nxt[d],
           hp_head'[d] = hp_head[d], hp_next'[d] = hp_next[d]
    PROVE  Guarded(d)'
BY Zenon DEF Guarded, Protected

\* A quiet step has only its own call to account for.
LEMMA QuietStep ==
    ASSUME TypeOK, NEW s, NEW pos, QInv(s, pos), NEW c \in Calls, Quiet(c, pos),
           c \in Enqs => EnqueueKnows(c, pos)',
           c \in Deqs => DequeueKnows(c, pos)' /\ Guarded(c)' /\ Answers(c)'
    PROVE  QInv(s, pos)'
<1>1. Enqs \subseteq Calls /\ Deqs \subseteq Calls /\ pos \in [Nodes -> Nat] /\ tail \in Nodes
      /\ head \in Nodes /\ Len(s) \in Nat
  BY Typed DEF Calls, Quiet
<1>2. Order(s, pos)' BY Zenon DEF QInv, Order, Quiet
<1>3. Linked(pos)'
  <2>1. \A e \in Enqs : pc'[e] \in {"swing", "done"} <=> pc[e] \in {"swing", "done"}
    BY <1>1 DEF Quiet
  <2> QED BY <2>1 DEF QInv, Linked
<1>4. Ends(s, pos)'
  <2>1. /\ ~Destroyed /\ head' = head /\ pos[tail] <= pos[tail'] /\ tail' \in Nodes
        /\ 1 <= pos[head] /\ pos[head] <= pos[tail] /\ Len(s) - 1 <= pos[tail]
    BY Zenon DEF QInv, Ends, Quiet
  <2>2. pos[head] \in Nat /\ pos[tail] \in Nat /\ pos[tail'] \in Nat BY <1>1, <2>1
  <2>3. pos[head] <= pos[tail'] BY <2>1, <2>2, AtMostTrans, Zenon
  <2>4. Len(s) - 1 <= pos[tail'] BY <1>1, <2>1, <2>2
  <2> QED BY <2>1, <2>3, <2>4 DEF Ends, Destroyed
<1>5. Memory(pos)'
  <2>1. Retiring' = Retiring BY <1>1 DEF Retiring, Quiet
  <2>2. \A d \in Retiring : curr_head'[d] = curr_head[d] BY DEF Retiring, Quiet
  <2>3. Memory(pos) /\ UNCHANGED <<head, retired, freed, victim>> BY DEF QInv, Quiet
  <2>4. Destroyed' <=> Destroyed BY <2>3 DEF Destroyed
  <2>5. /\ \A n \in retired \cup freed : pos[n] # 0 /\ (~Destroyed => pos[n] < pos[head])
        /\ \A n \in Nodes : pos[n] # 0 /\ (Destroyed \/ pos[n] < pos[head]) =>
            n \in retired \cup freed \/ \E d \in Retiring' : curr_head'[d] = n
    BY <2>1, <2>2, <2>3 DEF Memory
  <2>6. /\ \A d \in Retiring' : curr_head'[d] \notin retired \cup freed
        /\ \A d, x \in Retiring' : curr_head'[d] = curr_head'[x] => d = x
        /\ retired \cap freed = {} /\ (victim # nullptr => victim \in retired)
    BY <2>1, <2>2, <2>3 DEF Memory
  <2> QED BY <2>3, <2>4, <2>5, <2>6, Zenon DEF Memory
<1>6. ASSUME NEW e \in Enqs PROVE EnqueueKnows(e, pos)'
  <2>1. CASE e = c BY <2>1
  <2>2. CASE e # c BY <1>1, <2>2, EnqueueStillKnows DEF Quiet
  <2> QED BY <2>1, <2>2
<1>7. ASSUME NEW d \in Deqs PROVE DequeueKnows(d, pos)' /\ Guarded(d)' /\ Answers(d)'
  <2>1. CASE d = c BY <2>1
  <2>2. CASE d # c
    <3>1. DequeueKnows(d, pos)'
      <4>1. /\ UNCHANGED <<head, next>> /\ tail' \in Nodes /\ pos[tail] <= pos[tail'] /\ ~Destroyed
            /\ pc'[d] = pc[d] /\ curr_tail'[d] = curr_tail[d] /\ nxt'[d] = nxt[d]
            /\ curr_head'[d] = curr_head[d]
        BY Zenon, <1>1, <2>2 DEF Quiet
      <4>2. pos[head] \in Nat BY <1>1
      <4>3. pos[head] <= pos[head'] BY <4>1, <4>2, AtMostItself, Zenon
      <4> QED BY <1>1, <4>1, <4>3, DequeueStillKnows
    <3>2. Guarded(d)'
      <4>1. Allocated \subseteq Allocated' BY Zenon, <1>1 DEF Quiet, Allocated
      <4> QED BY <1>1, <2>2, <4>1, StillGuarded DEF Quiet, QInv
    <3>3. Answers(d)' BY Zenon, <1>1, <2>2 DEF QInv, Quiet, Answers, Undecided
    <3> QED BY <3>1, <3>2, <3>3
  <2> QED BY <2>1, <2>2
<1> QED BY <1>2, <1>3, <1>4, <1>5, <1>6, <1>7 DEF QInv

\* The steps of an enqueue call but the compare-and-swap that links its node.
LEMMA EnqueueQuiet ==
    ASSUME TypeOK, NEW s, NEW pos, QInv(s, pos), NEW e \in Enqs,
           \/ EnqueueBegin(e) \/ EnqueueLoadTail(e) \/ EnqueueLoadNext(e) \/ EnqueueCheck(e)
           \/ EnqueueLink(e) /\ next[curr_tail[e]] # nullptr
           \/ EnqueueSwing(e) \/ Help(e),
           ~stale'
    PROVE  QInv(s, pos)'
<1> USE DEF queueVars, localVars, hazardVars, memoryVars, Step, Local, Goto
<1>1. e \in Calls /\ e \notin Deqs BY QueueAssumption DEF Calls
<1>2. /\ EnqueueKnows(e, pos) /\ Ends(s, pos) /\ Linked(pos)
      /\ pos \in [Nodes -> Nat] /\ tail \in Nodes /\ next \in [Nodes -> Pointers]
      /\ pos[tail] <= pos[tail]
  <2>1. EnqueueKnows(e, pos) /\ Ends(s, pos) /\ Linked(pos) BY Zenon DEF QInv
  <2>2. pos \in [Nodes -> Nat] /\ tail \in Nodes /\ next \in [Nodes -> Pointers] BY Typed
  <2> QED BY <2>1, <2>2
<1>3. pc \in [Calls -> PC] /\ curr_tail \in [Calls -> Pointers] /\ nxt \in [Calls -> Pointers]
  BY DEF TypeOK
<1>4. pc[e] # "idle" /\ pc[e] # "done" => ~Destroyed BY <1>1, <1>2 DEF Ends, InProgress
<1>5. SUFFICES Quiet(e, pos) /\ EnqueueKnows(e, pos)' BY <1>1, QuietStep
<1>6. CASE EnqueueBegin(e)
  <2>1. \A n \in Allocated : home'[n] = home[n]
    BY <1>6, QueueAssumption DEF EnqueueBegin, Allocated, TypeOK, Nodes
  <2>3. Quiet(e, pos) BY <1>1, <1>2, <1>3, <1>6, <2>1 DEF EnqueueBegin, Quiet
  <2>2. EnqueueKnows(e, pos)' BY <1>1, <1>3, <1>6 DEF EnqueueBegin, EnqueueKnows
  <2> QED BY <2>2, <2>3
<1>7. CASE EnqueueLoadTail(e)
  <2>1. Quiet(e, pos) BY Zenon, <1>1, <1>2, <1>3, <1>4, <1>7 DEF EnqueueLoadTail, LoadTail, Quiet
  <2>2. EnqueueKnows(e, pos)'
    BY <1>1, <1>2, <1>3, <1>7 DEF EnqueueLoadTail, LoadTail, EnqueueKnows
  <2> QED BY <2>1, <2>2
<1>8. CASE EnqueueLoadNext(e)
  <2>1. Quiet(e, pos) BY Zenon, <1>1, <1>2, <1>3, <1>4, <1>8 DEF EnqueueLoadNext, Quiet
  <2>2. EnqueueKnows(e, pos)'
    <3> DEFINE n == Here(curr_tail[e])
    <3>1. n \in Nodes BY <1>2, <1>8, HereIs DEF EnqueueLoadNext, EnqueueKnows
    <3>2. pc'[e] = "check" /\ curr_tail'[e] = n /\ nxt'[e] = next[n] /\ next' = next
      BY <1>1, <1>3, <1>8 DEF EnqueueLoadNext
    <3> QED BY Zenon, <3>1, <3>2 DEF EnqueueKnows
  <2> QED BY <2>1, <2>2
<1>9. CASE EnqueueCheck(e)
  <2>1. Quiet(e, pos)
    <3>1. /\ pc[e] = "check" /\ pc'[e] \in {"load", "link", "help"}
          /\ \A x \in Calls \ {e} : pc'[x] = pc[x] /\ curr_tail'[x] = curr_tail[x]
          /\ UNCHANGED <<queueVars, curr_head, nxt, hazardVars, result, memoryVars, wasEmpty>>
      BY Zenon, <1>1, <1>3, <1>9 DEF EnqueueCheck
    <3> QED BY <1>1, <1>2, <1>4, <3>1 DEF Quiet
  <2>2. 1 <= pos[tail]
    <3>1. pc[e] = "check" BY Zenon, <1>9 DEF EnqueueCheck
    <3>2. ~Destroyed BY <1>4, <3>1
    <3>3. head \in Nodes BY <3>2, Typed
    <3>4. pos[head] \in Nat /\ pos[tail] \in Nat BY <1>2, <3>3
    <3>5. 1 <= pos[head] /\ pos[head] <= pos[tail] BY <1>2, <3>2 DEF Ends
    <3> QED BY <3>4, <3>5, AtLeastOne
  <2>3. EnqueueKnows(e, pos)'
    BY <1>1, <1>2, <1>3, <1>9, <2>2 DEF EnqueueCheck, EnqueueKnows
  <2> QED BY <2>1, <2>3
<1>10. CASE EnqueueLink(e) /\ next[curr_tail[e]] # nullptr
  <2>1. Quiet(e, pos) BY Zenon, <1>1, <1>2, <1>3, <1>4, <1>10 DEF EnqueueLink, Link, Quiet
  <2>2. EnqueueKnows(e, pos)' BY Zenon, <1>1, <1>3, <1>10 DEF EnqueueLink, Link, EnqueueKnows
  <2> QED BY <2>1, <2>2
<1>11. CASE EnqueueSwing(e)
  <2>1. tail' \in Nodes /\ pos[tail] <= pos[tail']
    <3>1. next[curr_tail[e]] = e /\ curr_tail[e] \in Nodes
      BY Zenon, <1>2, <1>11 DEF EnqueueSwing, EnqueueKnows
    <3>2. e \in Nodes /\ e # nullptr BY QueueAssumption DEF Nodes
    <3>3. pos[e] = pos[curr_tail[e]] + 1 BY Zenon, <3>1, <3>2, NextIsItem
    <3>4. tail' = tail \/ (tail = curr_tail[e] /\ tail' = e) BY Zenon, <1>11 DEF EnqueueSwing, MoveTail
    <3>5. pos[curr_tail[e]] <= pos[e] /\ pos[tail] <= pos[tail]
      <4>1. pos[curr_tail[e]] \in Nat /\ pos[tail] \in Nat BY <1>2, <3>1
      <4> QED BY <3>3, <4>1, NextPosition, AtMostItself, Zenon
    <3> QED BY Zenon, <1>2, <3>2, <3>4, <3>5
  <2>2. Quiet(e, pos) BY Zenon, <1>1, <1>2, <1>3, <1>4, <1>11, <2>1 DEF EnqueueSwing, Quiet
  <2>3. EnqueueKnows(e, pos)' BY Zenon, <1>1, <1>3, <1>11 DEF EnqueueSwing, EnqueueKnows
  <2> QED BY <2>2, <2>3
<1>12. CASE Help(e)
  <2>1. tail' \in Nodes /\ pos[tail] <= pos[tail']
    <3>1. nxt[e] = next[curr_tail[e]] /\ nxt[e] # nullptr /\ curr_tail[e] \in Nodes
      BY Zenon, <1>2, <1>12 DEF Help, EnqueueKnows
    <3>2. nxt[e] \in Nodes /\ pos[nxt[e]] = pos[curr_tail[e]] + 1
      BY Zenon, <3>1, NextIsItem DEF Nodes
    <3>3. tail' = tail \/ (tail = curr_tail[e] /\ tail' = nxt[e]) BY Zenon, <1>12 DEF Help, MoveTail
    <3>4. pos[curr_tail[e]] <= pos[nxt[e]] /\ pos[tail] <= pos[tail]
      <4>1. pos[curr_tail[e]] \in Nat /\ pos[tail] \in Nat BY Zenon, <1>2, <3>1
      <4> QED BY <3>2, <4>1, NextPosition, AtMostItself, Zenon
    <3> QED BY Zenon, <1>2, <3>2, <3>3, <3>4
  <2>2. Quiet(e, pos) BY Zenon, <1>1, <1>2, <1>3, <1>4, <1>12, <2>1 DEF Help, Quiet
  <2>3. EnqueueKnows(e, pos)' BY Zenon, <1>1, <1>3, <1>12 DEF Help, EnqueueKnows
  <2> QED BY <2>2, <2>3
<1> QED BY <1>6, <1>7, <1>8, <1>9, <1>10, <1>11, <1>12

\* The steps of a dequeue call but the compare-and-swap that takes a node and what follows.
LEMMA DequeueQuiet ==
    ASSUME TypeOK, Homes, NEW s, NEW pos, QInv(s, pos), NEW d \in Deqs,
           \/ DequeueBegin(d) \/ DequeueLoadHead(d) \/ DequeueProtect(d) \/ DequeueCheck(d)
           \/ DequeueLoadTail(d) \/ DequeueLoadNext(d) \/ DequeueProtectNext(d)
           \/ DequeueEmpty(d) \/ DequeueChoose(d)
           \/ DequeuePop(d) /\ head # curr_head[d]
           \/ Help(d),
           ~stale'
    PROVE  QInv(s, pos)'
<1> USE DEF queueVars, localVars, hazardVars, memoryVars, Step, Local, Goto
<1>1. d \in Calls /\ d \notin Enqs BY Zenon, QueueAssumption DEF Calls
<1>2. /\ DequeueKnows(d, pos) /\ Guarded(d) /\ Answers(d) /\ Ends(s, pos) /\ Memory(pos)
      /\ pos \in [Nodes -> Nat] /\ tail \in Nodes /\ next \in [Nodes -> Pointers]
      /\ pos[tail] <= pos[tail]
  <2>1. DequeueKnows(d, pos) /\ Guarded(d) /\ Answers(d) /\ Ends(s, pos) /\ Memory(pos)
    BY DEF QInv
  <2>2. pos \in [Nodes -> Nat] /\ tail \in Nodes /\ next \in [Nodes -> Pointers] BY Typed
  <2> QED BY <2>1, <2>2
<1>3. /\ pc \in [Calls -> PC] /\ curr_tail \in [Calls -> Pointers] /\ nxt \in [Calls -> Pointers]
      /\ curr_head \in [Deqs -> Pointers]
      /\ hp_head \in [Deqs -> Pointers] /\ hp_next \in [Deqs -> Pointers]
      /\ result \in [Deqs -> Enqs \cup {nothing, "empty"}]
  BY DEF TypeOK
<1>4. ~Destroyed /\ head \in Nodes /\ 1 <= pos[head] /\ pos[head] <= pos[tail]
  <2>1. ~Destroyed
    <3>1. pc[d] # "idle" /\ pc[d] # "done" => ~Destroyed BY Zenon, <1>1, <1>2 DEF Ends, InProgress
    <3> QED BY Zenon, <3>1 DEF DequeueBegin, DequeueLoadHead, DequeueProtect, DequeueCheck,
                 DequeueLoadTail, LoadTail, DequeueLoadNext, DequeueProtectNext, DequeueEmpty,
                 DequeueChoose, Choose, DequeuePop, Help
  <2> QED BY Zenon, <1>2, <2>1, Typed DEF Ends
<1>4a. head \in Live BY <1>4, EndsLive
<1>4b. pc[d] \in {"check again", "pop"} => (home[curr_head[d]] = home[head] <=> curr_head[d] = head)
  BY Zenon, SameHead
<1>4c. Allocated' = Allocated /\ home' = home
  <2>1. home' = home /\ \A x \in Calls \ {d} : pc'[x] = pc[x]
    BY Zenon, <1>3 DEF DequeueBegin, DequeueLoadHead, DequeueProtect, DequeueCheck,
                DequeueLoadTail, LoadTail, DequeueLoadNext, DequeueProtectNext, DequeueEmpty,
                DequeueChoose, Choose, DequeuePop, Help
  <2> QED BY <1>1, <2>1 DEF Allocated, Calls
<1>5. SUFFICES Quiet(d, pos) /\ DequeueKnows(d, pos)' /\ Guarded(d)' /\ Answers(d)'
  BY <1>1, QuietStep
<1>6. CASE DequeueBegin(d)
  <2>1. Quiet(d, pos) BY <1>1, <1>2, <1>3, <1>4, <1>6 DEF DequeueBegin, Quiet
  <2>2. DequeueKnows(d, pos)' BY Zenon, <1>1, <1>3, <1>6 DEF DequeueBegin, DequeueKnows
  <2>3. Guarded(d)' BY Zenon, <1>1, <1>3, <1>6 DEF DequeueBegin, Guarded
  <2>4. Answers(d)' BY <1>1, <1>2, <1>3, <1>6 DEF DequeueBegin, Answers, Undecided
  <2> QED BY <2>1, <2>2, <2>3, <2>4
<1>7. CASE DequeueLoadHead(d)
  <2>1. Quiet(d, pos) BY <1>1, <1>2, <1>3, <1>4, <1>7 DEF DequeueLoadHead, Quiet
  <2>2. DequeueKnows(d, pos)'
    <3>1. pc'[d] = "protect" /\ curr_head'[d] = head /\ head' = head
      BY <1>1, <1>3, <1>7 DEF DequeueLoadHead
    <3>2. pos[head] <= pos[head]
      <4>1. pos[head] \in Nat BY <1>2, <1>4
      <4> QED BY <4>1, AtMostItself, Zenon
    <3> QED BY <1>4, <3>1, <3>2 DEF DequeueKnows
  <2>3. Guarded(d)' BY <1>1, <1>3, <1>7 DEF DequeueLoadHead, Guarded
  <2>4. Answers(d)' BY <1>1, <1>2, <1>3, <1>7 DEF DequeueLoadHead, Answers, Undecided
  <2> QED BY <2>1, <2>2, <2>3, <2>4
<1>8. CASE DequeueProtect(d)
  <2>1. Quiet(d, pos) BY <1>1, <1>2, <1>3, <1>4, <1>8 DEF DequeueProtect, Quiet
  <2>2. DequeueKnows(d, pos)' BY Zenon, <1>1, <1>2, <1>3, <1>4, <1>8 DEF DequeueProtect, DequeueKnows
  <2>3. Guarded(d)'
    <3>1. curr_head[d] \in Allocated
      BY Zenon, <1>2, <1>8, LinkedAllocated DEF DequeueProtect, DequeueKnows
    <3> QED BY <1>1, <1>3, <1>4c, <1>8, <3>1 DEF DequeueProtect, Guarded
  <2>4. Answers(d)' BY <1>1, <1>2, <1>3, <1>8 DEF DequeueProtect, Answers, Undecided
  <2> QED BY <2>1, <2>2, <2>3, <2>4
<1>9. CASE DequeueCheck(d)
  <2>1. Quiet(d, pos)
    <3>1. /\ pc[d] = "check" /\ pc'[d] \in {"load", "tail"}
          /\ \A x \in Calls \ {d} : pc'[x] = pc[x]
          /\ \A x \in Deqs \ {d} : curr_head'[x] = curr_head[x]
          /\ UNCHANGED <<queueVars, curr_tail, nxt, hazardVars, result, memoryVars, wasEmpty>>
      BY <1>1, <1>3, <1>9 DEF DequeueCheck
    <3> QED BY Zenon, <1>1, <1>2, <1>4, <3>1 DEF Quiet
  <2>2. DequeueKnows(d, pos)'
    <3>1. /\ pc'[d] \in {"load", "tail"} /\ UNCHANGED queueVars
          /\ curr_head'[d] = head \/ curr_head'[d] = curr_head[d]
      BY <1>1, <1>3, <1>9 DEF DequeueCheck
    <3>2. curr_head[d] \in Nodes /\ 1 <= pos[curr_head[d]] /\ pos[curr_head[d]] <= pos[head]
      <4>1. pc[d] = "check" BY Zenon, <1>9 DEF DequeueCheck
      <4> QED BY <1>2, <4>1 DEF DequeueKnows
    <3>3. pos[head] <= pos[head] BY <1>2, <1>4
    <3>4. curr_head'[d] \in Nodes /\ 1 <= pos[curr_head'[d]] /\ pos[curr_head'[d]] <= pos[head']
      BY <1>4, <3>1, <3>2, <3>3
    <3> QED BY <3>1, <3>4 DEF DequeueKnows
  <2>3. Guarded(d)'
    <3>1. head \notin freed /\ victim # head
      BY <1>2, <1>4 DEF Memory, Destroyed
    <3>2. head \in Allocated BY <1>4a DEF Live
    <3> QED BY <1>1, <1>2, <1>3, <1>4c, <1>9, <3>1, <3>2 DEF DequeueCheck, Guarded, Protected
  <2>4. Answers(d)' BY <1>1, <1>2, <1>3, <1>9 DEF DequeueCheck, Answers, Undecided
  <2> QED BY <2>1, <2>2, <2>3, <2>4
<1>10. CASE DequeueLoadTail(d)
  <2>1. Quiet(d, pos) BY <1>1, <1>2, <1>3, <1>4, <1>10 DEF DequeueLoadTail, LoadTail, Quiet
  <2>2. DequeueKnows(d, pos)'
    <3>1. /\ pc[d] = "tail" /\ pc'[d] = "next" /\ curr_tail'[d] = tail
          /\ UNCHANGED <<head, tail, curr_head>>
      BY <1>1, <1>3, <1>10 DEF DequeueLoadTail, LoadTail
    <3>2. /\ curr_head[d] \in Nodes /\ 1 <= pos[curr_head[d]]
          /\ pos[curr_head[d]] <= pos[head]
      BY Zenon, <1>2, <3>1 DEF DequeueKnows
    <3>3. pos[curr_head[d]] \in Nat /\ pos[head] \in Nat /\ pos[tail] \in Nat BY <1>2, <1>4, <3>2
    <3>4. pos[curr_head[d]] <= pos[tail] BY <1>4, <3>2, <3>3, AtMostTrans, Zenon
    <3> QED BY Zenon, <1>2, <1>4, <3>1, <3>2, <3>4 DEF DequeueKnows
  <2>3. Guarded(d)'
    BY Zenon, <1>1, <1>2, <1>3, <1>4c, <1>10 DEF DequeueLoadTail, LoadTail, Guarded, Protected
  <2>4. Answers(d)' BY <1>1, <1>2, <1>3, <1>10 DEF DequeueLoadTail, LoadTail, Answers, Undecided
  <2> QED BY <2>1, <2>2, <2>3, <2>4
<1>11. CASE DequeueLoadNext(d)
  <2>1. Quiet(d, pos) BY Zenon, <1>1, <1>2, <1>3, <1>4, <1>11 DEF DequeueLoadNext, Quiet
  <2>2. DequeueKnows(d, pos)' BY Zenon, <1>1, <1>2, <1>3, <1>4, <1>11 DEF DequeueLoadNext, DequeueKnows
  <2>3. Guarded(d)' BY Zenon, <1>1, <1>2, <1>3, <1>4c, <1>11 DEF DequeueLoadNext, Guarded, Protected
  <2>4. next[curr_head[d]] = nullptr => d \in wasEmpty
    <3> SUFFICES ASSUME next[curr_head[d]] = nullptr PROVE next[head] = nullptr
      BY Zenon, <1>1, <1>2, <1>11 DEF DequeueLoadNext, Answers, Undecided
    <3>1. /\ curr_head[d] \in Nodes /\ 1 <= pos[curr_head[d]] /\ pos[curr_head[d]] <= pos[head]
      BY Zenon, <1>2, <1>11 DEF DequeueLoadNext, DequeueKnows
    <3>2. pos[curr_head[d]] = Len(s)
      <4>1. pos[curr_head[d]] # 0 BY <1>2, <3>1
      <4>2. pos[curr_head[d]] # Len(s) => next[curr_head[d]] \in Nodes
        BY Zenon, <3>1, <4>1 DEF QInv, Order
      <4> QED BY Zenon, <4>2, QueueAssumption DEF Nodes
    <3>3. pos[head] = Len(s) BY <1>2, <1>4, <3>1, <3>2, Typed
    <3> QED BY Zenon, <1>4, <3>3 DEF QInv, Order
  <2>5. Answers(d)' BY Zenon, <1>1, <1>2, <1>3, <1>11, <2>4 DEF DequeueLoadNext, Answers, Undecided
  <2> QED BY <2>1, <2>2, <2>3, <2>5
<1>12. CASE DequeueProtectNext(d)
  <2>1. Quiet(d, pos) BY Zenon, <1>1, <1>2, <1>3, <1>4, <1>12 DEF DequeueProtectNext, Quiet
  <2>2. DequeueKnows(d, pos)'
    BY Zenon, <1>1, <1>2, <1>3, <1>4, <1>12 DEF DequeueProtectNext, DequeueKnows
  <2>3. Guarded(d)' BY Zenon, <1>1, <1>2, <1>3, <1>4c, <1>12 DEF DequeueProtectNext, Guarded, Protected
  <2>4. Answers(d)' BY Zenon, <1>1, <1>2, <1>3, <1>12 DEF DequeueProtectNext, Answers, Undecided
  <2> QED BY <2>1, <2>2, <2>3, <2>4
<1>13. CASE DequeueEmpty(d)
  <2>1. Quiet(d, pos) BY Zenon, <1>1, <1>2, <1>3, <1>4, <1>13 DEF DequeueEmpty, Unprotect, Quiet
  <2>2. DequeueKnows(d, pos)' BY Zenon, <1>1, <1>3, <1>13 DEF DequeueEmpty, DequeueKnows
  <2>3. Guarded(d)' BY Zenon, <1>1, <1>3, <1>13 DEF DequeueEmpty, Guarded
  <2>4. Answers(d)'
    BY Zenon, <1>1, <1>2, <1>3, <1>13, QueueAssumption DEF DequeueEmpty, Answers, Undecided
  <2> QED BY <2>1, <2>2, <2>3, <2>4
<1>14. CASE DequeueChoose(d)
  <2>1. /\ pc[d] = "check again" /\ UNCHANGED <<queueVars, localVars, hazardVars, memoryVars, result>>
        /\ pc'[d] = IF curr_head[d] # head THEN "load"
                    ELSE IF home[curr_head[d]] = home[curr_tail[d]] THEN "help" ELSE "pop"
        /\ curr_head[d] = head => nxt[d] # nullptr
    BY Zenon, <1>1, <1>3, <1>4b, <1>14 DEF DequeueChoose, Choose
  <2>2. curr_head[d] = head => (home[curr_head[d]] = home[curr_tail[d]] <=> curr_head[d] = curr_tail[d])
    <3> SUFFICES ASSUME curr_head[d] = head PROVE curr_tail[d] \in Live BY <1>4a DEF Homes
    <3>1. curr_tail[d] \in Nodes /\ pos[head] <= pos[curr_tail[d]] BY Zenon, <1>2, <2>1 DEF DequeueKnows
    <3>2. pos[head] \in Nat /\ pos[curr_tail[d]] \in Nat BY Zenon, <1>2, <1>4, <3>1
    <3>3. 1 <= pos[curr_tail[d]] BY <1>4, <3>1, <3>2, AtLeastOne, Zenon
    <3> QED BY Zenon, <1>4, <3>1, <3>3, LinkedAllocated
  <2>3. Quiet(d, pos) BY Zenon, <1>1, <1>2, <1>3, <1>4, <1>14 DEF DequeueChoose, Choose, Quiet
  <2>4. DequeueKnows(d, pos)' BY Zenon, <1>2, <1>4, <2>1, <2>2 DEF DequeueKnows
  <2>5. curr_head[d] = head /\ nxt[d] # nullptr => nxt[d] \notin freed /\ victim # nxt[d]
    <3> SUFFICES ASSUME curr_head[d] = head, nxt[d] # nullptr
                 PROVE  nxt[d] \notin freed /\ victim # nxt[d]
      BY Zenon
    <3>1. nxt[d] = next[head] BY Zenon, <1>2, <2>1 DEF DequeueKnows
    <3>2. nxt[d] \in Nodes /\ pos[nxt[d]] = pos[head] + 1 BY Zenon, <1>4, <3>1, NextIsItem DEF Nodes
    <3>3. ~(pos[nxt[d]] < pos[head])
      <4>1. pos[head] \in Nat BY Zenon, <1>2, <1>4
      <4> QED BY <3>2, <4>1, NextPosition, Zenon
    <3> QED BY Zenon, <1>2, <1>4, <3>3 DEF Memory
  <2>6. Guarded(d)' BY Zenon, <1>2, <1>4c, <2>1, <2>5 DEF Guarded, Protected
  <2>7. Answers(d)' BY Zenon, <1>1, <1>2, <1>3, <1>14 DEF DequeueChoose, Choose, Answers, Undecided
  <2> QED BY <2>3, <2>4, <2>6, <2>7
<1>15. CASE DequeuePop(d) /\ head # curr_head[d]
  <2>1. /\ pc[d] = "pop" /\ pc' = [pc EXCEPT ![d] = "load"]
        /\ UNCHANGED <<queueVars, localVars, hazardVars, result, memoryVars, wasEmpty>>
    BY Zenon, <1>4b, <1>15 DEF DequeuePop
  <2>2. Quiet(d, pos) BY <1>1, <1>2, <1>3, <1>4, <2>1 DEF Quiet
  <2>3. pc'[d] = "load" BY <1>1, <1>3, <2>1
  <2>4. DequeueKnows(d, pos)' BY Zenon, <2>3 DEF DequeueKnows
  <2>5. Guarded(d)' BY Zenon, <2>3 DEF Guarded
  <2>6. Answers(d)' BY Zenon, <1>2, <2>1, <2>3 DEF Answers, Undecided
  <2> QED BY <2>2, <2>4, <2>5, <2>6
<1>16. CASE Help(d)
  <2>1. tail' \in Nodes /\ pos[tail] <= pos[tail']
    <3>1. /\ nxt[d] = next[curr_tail[d]] /\ nxt[d] # nullptr
          /\ curr_tail[d] \in Nodes /\ 1 <= pos[curr_tail[d]]
      BY Zenon, <1>2, <1>16 DEF Help, DequeueKnows
    <3>2. nxt[d] \in Nodes /\ pos[nxt[d]] = pos[curr_tail[d]] + 1
      BY Zenon, <3>1, NextIsItem DEF Nodes
    <3>3. tail' = tail \/ (tail = curr_tail[d] /\ tail' = nxt[d]) BY Zenon, <1>16 DEF Help, MoveTail
    <3>4. pos[curr_tail[d]] <= pos[nxt[d]]
      <4>1. pos[curr_tail[d]] \in Nat BY Zenon, <1>2, <3>1
      <4> QED BY <3>2, <4>1, NextPosition, Zenon
    <3>5. pos[tail] <= pos[tail]
      <4>1. pos[tail] \in Nat BY <1>2
      <4> QED BY <4>1, AtMostItself, Zenon
    <3> QED BY Zenon, <1>2, <3>2, <3>3, <3>4, <3>5
  <2>2. Quiet(d, pos) BY <1>1, <1>2, <1>3, <1>4, <1>16, <2>1 DEF Help, Quiet
  <2>3. DequeueKnows(d, pos)' BY Zenon, <1>1, <1>3, <1>16 DEF Help, DequeueKnows
  <2>4. Guarded(d)' BY <1>1, <1>3, <1>16 DEF Help, Guarded
  <2>5. Answers(d)' BY <1>1, <1>2, <1>3, <1>16 DEF Help, Answers, Undecided
  <2> QED BY <2>2, <2>3, <2>4, <2>5
<1> QED BY <1>6, <1>7, <1>8, <1>9, <1>10, <1>11, <1>12, <1>13, <1>14, <1>15, <1>16

-----------------------------------------------------------------------------
(***************************************************************************)
(* The compare-and-swaps that add and take a node, and what follows.       *)
(***************************************************************************)
\* A node is linked to the last one, which was not freed: the chain grows by it.
LEMMA LinkStep ==
    ASSUME TypeOK, NEW s, NEW pos, QInv(s, pos), NEW e \in Enqs,
           EnqueueLink(e), next[curr_tail[e]] = nullptr
    PROVE  /\ QInv(Append(s, e), [pos EXCEPT ![e] = Len(s) + 1])' /\ ~stale'
           /\ curr_tail[e] \notin freed
<1> USE DEF queueVars, localVars, hazardVars, memoryVars, Step
<1> DEFINE last == curr_tail[e]
           s2 == Append(s, e)
           pos2 == [pos EXCEPT ![e] = Len(s) + 1]
<1>1. /\ pos \in [Nodes -> Nat] /\ tail \in Nodes /\ next \in [Nodes -> Pointers]
      /\ Len(s) \in Nat \ {0} /\ nullptr \notin Nodes /\ pos[dummy] = 1
      /\ \A n \in Nodes : pos[n] <= Len(s)
  BY Typed
<1>2. e \in Calls /\ e \notin Deqs /\ e \in Nodes /\ e # dummy /\ e # nullptr
  BY QueueAssumption DEF Calls, Nodes
<1>3. pc[e] = "link" BY DEF EnqueueLink, Link
<1>4. pc \in [Calls -> PC] BY DEF TypeOK
<1>5. last \in Nodes /\ 1 <= pos[last] /\ pos[last] <= pos[tail]
  BY Zenon, <1>3 DEF QInv, EnqueueKnows
<1>6. pos[e] = 0 BY <1>2, <1>3 DEF QInv, Linked
<1>7. pos[last] = Len(s)
  <2>1. pos[last] # 0 BY <1>1, <1>5
  <2>2. pos[last] # Len(s) => next[last] \in Nodes BY Zenon, <1>5, <2>1 DEF QInv, Order
  <2> QED BY <1>1, <2>2
<1>8. e # last BY <1>1, <1>5, <1>6
<1>9. ~Destroyed /\ head \in Nodes /\ 1 <= pos[head] /\ pos[head] <= pos[tail]
  <2>1. ~Destroyed BY <1>2, <1>3 DEF QInv, Ends, InProgress
  <2> QED BY <2>1, Typed DEF QInv, Ends
<1>10. pos[tail] = Len(s) BY <1>1, <1>5, <1>7
<1>10a. last \notin freed
  <2>1. ~(pos[last] < pos[head]) BY <1>1, <1>7, <1>9
  <2> QED BY <1>9, <2>1 DEF QInv, Memory
<1>10b. /\ pc' = [pc EXCEPT ![e] = "swing"] /\ next' = [next EXCEPT ![last] = e] /\ ~stale'
        /\ UNCHANGED <<head, tail, localVars, hazardVars, result, memoryVars, wasEmpty>>
  BY Zenon, <1>10a DEF EnqueueLink, Link
<1>11. pos2 \in [Nodes -> Nat] /\ pos2[e] = Len(s) + 1 /\ \A n \in Nodes : n # e => pos2[n] = pos[n]
  BY <1>1, <1>2
<1>12. /\ next'[last] = e /\ \A n \in Nodes : n # last => next'[n] = next[n]
  BY Zenon, <1>1, <1>3, <1>10b, <1>5
<1>14. s \in Seq(Nodes) /\ s2 \in Seq(Nodes) /\ Len(s2) = Len(s) + 1 /\ s2[Len(s) + 1] = e
       /\ \A i \in 1..Len(s) : s2[i] = s[i] /\ s[i] \in Nodes /\ pos[s[i]] = i
  <2>1. s \in Seq(Nodes) /\ \A i \in 1..Len(s) : pos[s[i]] = i BY DEF QInv, Order
  <2> QED BY <1>2, <2>1
<1>15. \A n \in Nodes : pos[n] # 0 => s[pos[n]] = n BY DEF QInv, Order
<1> HIDE DEF last, s2, pos2
<1>16. Order(s2, pos2)'
  <2>1. Len(s2) >= 1 /\ pos2 \in [Nodes -> 0..Len(s2)] /\ pos2[dummy] = 1
    <3>1. ASSUME NEW n \in Nodes PROVE pos2[n] \in 0..Len(s2)
      <4>1. pos[n] \in 0..(Len(s) + 1) /\ Len(s) + 1 \in 0..(Len(s) + 1) BY <1>1
      <4>2. pos2[n] = pos[n] \/ pos2[n] = Len(s) + 1 BY <1>11
      <4> QED BY <1>14, <4>1, <4>2
    <3>2. pos2[dummy] = 1 BY <1>1, <1>2, <1>11 DEF Nodes
    <3> QED BY <1>1, <1>11, <1>14, <3>1, <3>2
  <2>2. ASSUME NEW i \in 1..Len(s2) PROVE pos2[s2[i]] = i
    <3>1. CASE i = Len(s) + 1 BY <1>11, <1>14, <3>1
    <3>2. CASE i # Len(s) + 1
      <4>1. i \in 1..Len(s) /\ i # 0 BY <1>1, <1>14, <3>2
      <4>2. s2[i] = s[i] /\ s[i] \in Nodes /\ pos[s[i]] = i BY <1>14, <4>1
      <4> QED BY <1>6, <1>11, <4>1, <4>2
    <3> QED BY <3>1, <3>2
  <2>3. ASSUME NEW n \in Nodes, pos2[n] # 0 PROVE s2[pos2[n]] = n
    <3>1. CASE n = e BY <1>11, <1>14, <3>1
    <3>2. CASE n # e
      <4>1. pos2[n] = pos[n] /\ pos[n] \in 1..Len(s) BY <1>1, <1>11, <2>3, <3>2
      <4> QED BY <1>14, <1>15, <4>1
    <3> QED BY <3>1, <3>2
  <2>4. ASSUME NEW n \in Nodes
        PROVE  IF pos2[n] = 0 \/ pos2[n] = Len(s2) THEN next'[n] = nullptr
               ELSE next'[n] \in Nodes /\ pos2[next'[n]] = pos2[n] + 1
    <3>1. CASE n = e
      <4>1. next[e] = nullptr BY Zenon, <1>2, <1>6 DEF QInv, Order
      <4> QED BY <1>2, <1>8, <1>11, <1>12, <1>14, <3>1, <4>1
    <3>2. CASE n = last
      <4>1. pos2[last] = Len(s) /\ next'[last] = e /\ pos2[e] = Len(s) + 1
        BY <1>5, <1>7, <1>8, <1>11, <1>12
      <4>2. Len(s) # 0 /\ Len(s) # Len(s2) BY <1>1, <1>14
      <4> QED BY <1>2, <3>2, <4>1, <4>2
    <3>3. CASE n # e /\ n # last
      <4>1. pos2[n] = pos[n] /\ next'[n] = next[n] BY <1>11, <1>12, <3>3
      <4>2. pos[n] # Len(s)
        <5>1. pos[n] = Len(s) => n = last BY <1>1, <1>5, <1>7, <1>15
        <5> QED BY <3>3, <5>1
      <4>3. pos[n] # Len(s2) BY <1>1, <1>14
      <4>4. CASE pos[n] = 0
        <5>1. next[n] = nullptr BY Zenon, <4>4 DEF QInv, Order
        <5> QED BY <4>1, <4>4, <5>1
      <4>5. CASE pos[n] # 0
        <5>1. next[n] \in Nodes /\ pos[next[n]] = pos[n] + 1 BY <4>2, <4>5 DEF QInv, Order
        <5>2. next[n] # e BY <1>1, <1>6, <5>1
        <5>3. pos2[next[n]] = pos[n] + 1 BY <1>11, <5>1, <5>2
        <5> QED BY <4>1, <4>3, <4>5, <5>1, <5>3
      <4> QED BY <4>4, <4>5
    <3> QED BY <3>1, <3>2, <3>3
  <2> QED BY <1>14, <2>1, <2>2, <2>3, <2>4 DEF Order
<1>17. Linked(pos2)'
  <2> SUFFICES ASSUME NEW x \in Enqs PROVE pos2[x] # 0 <=> pc'[x] \in {"swing", "done"}
    BY DEF Linked
  <2>1. CASE x = e
    <3>1. pc'[e] = "swing" BY <1>2, <1>3, <1>10b, <1>4
    <3>2. pos2[e] # 0 BY <1>1, <1>11
    <3> QED BY <2>1, <3>1, <3>2
  <2>2. CASE x # e
    <3>1. pc'[x] = pc[x] /\ x \in Nodes BY <1>3, <1>10b, <1>4, <2>2 DEF Calls, Nodes
    <3>2. pos2[x] = pos[x] BY <1>11, <2>2, <3>1
    <3>3. pos[x] # 0 <=> pc[x] \in {"swing", "done"} BY DEF QInv, Linked
    <3> QED BY <3>1, <3>2, <3>3
  <2> QED BY <2>1, <2>2
<1>18. \A n \in Nodes : pos[n] # 0 => n # e /\ pos2[n] = pos[n] BY <1>6, <1>11
<1>19. pos2[head] = pos[head] /\ pos2[tail] = pos[tail] /\ head # e /\ tail # e
  <2>1. pos[head] \in Nat /\ pos[tail] \in Nat BY <1>1, <1>9
  <2>2. pos[head] # 0 /\ pos[tail] # 0 BY <1>9, <2>1, AtLeastOne, NotZero, Zenon
  <2> QED BY <1>1, <1>9, <1>18, <2>2
<1>20. Ends(s2, pos2)'
  <2>1. Len(s2) - 1 <= pos2[tail]
    <3>1. Len(s2) = Len(s) + 1 /\ pos2[tail] = Len(s) /\ Len(s) \in Nat BY <1>1, <1>10, <1>14, <1>19
    <3> QED BY <3>1, PastTheLast, Zenon
  <2>2. 1 <= pos2[head] /\ pos2[head] <= pos2[tail] BY <1>9, <1>19
  <2> QED BY <1>3, <1>10b, <1>9, <2>1, <2>2 DEF Ends, Destroyed
<1>21. Memory(pos2)'
  <2>1. Retiring' = Retiring
    BY <1>2, <1>3, <1>10b, <1>4 DEF Retiring, Calls
  <2>2. \A n \in retired \cup freed : n \in Nodes /\ pos[n] # 0 /\ pos[n] < pos[head]
    BY <1>9 DEF QInv, Memory, TypeOK
  <2>3. ASSUME NEW n \in Nodes, pos2[n] # 0, pos2[n] < pos2[head] PROVE pos[n] # 0 /\ pos[n] < pos[head]
    <3>1. n # e
      <4>1. pos[head] \in Nat /\ Len(s) \in Nat BY <1>1, <1>9
      <4>2. ~(Len(s) + 1 < pos[head]) BY <1>9, <1>10, <4>1, PastTheLast, Zenon
      <4> QED BY <1>11, <1>19, <2>3, <4>2, Zenon
    <3> QED BY Zenon, <1>11, <1>19, <2>3, <3>1
  <2>4. \A n \in retired \cup freed : pos2[n] # 0 /\ pos2[n] < pos2[head]
    BY <1>18, <1>19, <2>2
  <2> QED BY Zenon, <1>3, <1>10b, <1>9, <2>1, <2>3, <2>4 DEF QInv, Memory, Destroyed
<1>22. ASSUME NEW x \in Enqs PROVE EnqueueKnows(x, pos2)'
  <2>1. CASE x = e
    <3>1. pc'[e] = "swing" /\ curr_tail'[e] = last /\ tail' = tail BY <1>2, <1>3, <1>10b, <1>4 DEF last
    <3>2. pos2[last] = pos[last] BY <1>5, <1>8, <1>11
    <3> QED BY <1>5, <1>12, <1>19, <2>1, <3>1, <3>2 DEF EnqueueKnows
  <2>2. CASE x # e
    <3>1. pc'[x] = pc[x] /\ EnqueueKnows(x, pos) BY <1>3, <1>10b, <1>4, <2>2 DEF Calls, QInv
    <3>2. \A n \in Nodes : next[n] # nullptr => next'[n] = next[n] BY <1>12 DEF last
    <3>3. \A n \in Nodes : 1 <= pos[n] => pos2[n] = pos[n] 
      <4>1. \A n \in Nodes : pos[n] \in Nat BY <1>1
      <4> QED BY <1>18, <4>1, NotZero, Zenon
    <3>4. x # nullptr BY QueueAssumption
    <3> QED BY Zenon, <1>3, <1>10b, <1>19, <3>1, <3>2, <3>3, <3>4 DEF EnqueueKnows
  <2> QED BY <2>1, <2>2
<1>23. ASSUME NEW d \in Deqs PROVE DequeueKnows(d, pos2)' /\ Guarded(d)' /\ Answers(d)'
  <2>1. pc'[d] = pc[d] /\ DequeueKnows(d, pos) /\ Guarded(d) /\ Answers(d)
    BY <1>2, <1>3, <1>10b, <1>4 DEF Calls, QInv
  <2>2. \A n \in Nodes : next[n] # nullptr => next'[n] = next[n] BY <1>12 DEF last
  <2>3. \A n \in Nodes : 1 <= pos[n] => pos2[n] = pos[n] 
      <4>1. \A n \in Nodes : pos[n] \in Nat BY <1>1
      <4> QED BY <1>18, <4>1, NotZero, Zenon
  <2>4. DequeueKnows(d, pos2)'
    <3>1. pc[d] \notin {"idle", "load", "done"} =>
            pos2[curr_head[d]] = pos[curr_head[d]] /\ curr_head[d] \in Nodes
      BY Zenon, <2>1, <2>3 DEF DequeueKnows
    <3>2. pc[d] \in {"next", "protect next", "check again", "pop", "help"} =>
            pos2[curr_tail[d]] = pos[curr_tail[d]]
      <4> SUFFICES ASSUME pc[d] \in {"next", "protect next", "check again", "pop", "help"}
                   PROVE  pos2[curr_tail[d]] = pos[curr_tail[d]]
        BY Zenon
      <4>1. /\ curr_head[d] \in Nodes /\ 1 <= pos[curr_head[d]]
            /\ curr_tail[d] \in Nodes /\ pos[curr_head[d]] <= pos[curr_tail[d]]
        BY Zenon, <2>1 DEF DequeueKnows
      <4>2. pos[curr_head[d]] \in Nat /\ pos[curr_tail[d]] \in Nat BY Zenon, <1>1, <4>1
      <4>3. 1 <= pos[curr_tail[d]] BY <4>1, <4>2, AtLeastOne, Zenon
      <4> QED BY Zenon, <2>3, <4>1, <4>3
    <3> QED BY Zenon, <1>3, <1>10b, <1>19, <2>1, <2>2, <3>1, <3>2 DEF DequeueKnows
  <2>5. Guarded(d)'
    <3>1. Allocated \subseteq Allocated' BY <1>2, <1>4, <1>10b DEF Allocated, Calls
    <3> QED BY Zenon, <1>10b, <2>1, <3>1, StillGuarded
  <2>6. Answers(d)'
    <3>1. next'[head] = nullptr => next[head] = nullptr BY <1>9, <2>2
    <3> QED BY Zenon, <1>3, <1>10b, <2>1, <3>1 DEF Answers, Undecided
  <2> QED BY <2>4, <2>5, <2>6
<1>24. QInv(s2, pos2)' BY <1>10b, <1>16, <1>17, <1>20, <1>21, <1>22, <1>23 DEF QInv
<1> QED BY <1>10a, <1>10b, <1>24 DEF s2, pos2, last

\* The compare-and-swap on head succeeds: the node before becomes the call's to retire.
LEMMA TakeStep ==
    ASSUME TypeOK, NEW s, NEW pos, QInv(s, pos), NEW d \in Deqs,
           DequeuePop(d), head = curr_head[d]
    PROVE  QInv(s, pos)'
<1> USE DEF queueVars, localVars, hazardVars, memoryVars, Step
<1>1. /\ pos \in [Nodes -> Nat] /\ tail \in Nodes /\ next \in [Nodes -> Pointers]
      /\ Len(s) \in Nat \ {0} /\ nullptr \notin Nodes
  BY Typed
<1>2. d \in Calls /\ d \notin Enqs BY QueueAssumption DEF Calls
<1>3. pc \in [Calls -> PC] BY DEF TypeOK
<1>4. /\ pc[d] = "pop" /\ pc' = [pc EXCEPT ![d] = "read"]
      /\ head' = nxt[d]
      /\ wasEmpty' = IF next[nxt[d]] = nullptr THEN wasEmpty \cup (Undecided \ {d}) ELSE wasEmpty
      /\ UNCHANGED <<tail, next, localVars, hazardVars, result, memoryVars, stale>>
  BY DEF DequeuePop
<1>5. ~Destroyed /\ head \in Nodes /\ 1 <= pos[head] /\ pos[head] <= pos[tail]
      /\ Len(s) - 1 <= pos[tail]
  <2>1. ~Destroyed BY Zenon, <1>2, <1>4 DEF QInv, Ends, InProgress
  <2> QED BY <2>1, Typed DEF QInv, Ends
<1>6. /\ curr_tail[d] \in Nodes /\ pos[head] <= pos[curr_tail[d]] /\ pos[curr_tail[d]] <= pos[tail]
      /\ nxt[d] # nullptr /\ nxt[d] = next[head] /\ curr_tail[d] # head
  BY Zenon, <1>4 DEF QInv, DequeueKnows
<1>7. head' \in Nodes /\ pos[head'] = pos[head] + 1 BY Zenon, <1>4, <1>5, <1>6, NextIsItem DEF Nodes
<1>8. \A m, n \in Nodes : pos[m] = pos[n] /\ 1 <= pos[m] => m = n
  <2>1. \A n \in Nodes : pos[n] # 0 => s[pos[n]] = n BY Zenon DEF QInv, Order
  <2> QED BY <1>1, <2>1
<1>9. pos[head'] <= pos[tail]
  <2>1. pos[head] # pos[curr_tail[d]] BY <1>5, <1>6, <1>8
  <2>2. pos[head] \in Nat /\ pos[curr_tail[d]] \in Nat /\ pos[tail] \in Nat BY <1>1, <1>5, <1>6
  <2>3. pos[head] + 1 <= pos[tail] BY <1>6, <2>1, <2>2, RoomForNext, Zenon
  <2> QED BY Zenon, <1>7, <2>3
<1>10. Order(s, pos)' BY Zenon, <1>4 DEF QInv, Order
<1>11. \A c \in Calls : c # d => pc'[c] = pc[c] BY Zenon, <1>3, <1>4
<1>11a. Allocated' = Allocated BY Zenon, <1>2, <1>11 DEF Allocated, Calls
<1>12. Linked(pos)' BY Zenon, <1>2, <1>11 DEF QInv, Linked, Calls
<1>13. ~Destroyed' BY <1>1, <1>7 DEF Destroyed
<1>14. Ends(s, pos)'
  <2>1. pos[head] \in Nat BY <1>1, <1>5
  <2>2. 1 <= pos[head'] BY <1>7, <2>1, NextPosition, Zenon
  <2> QED BY Zenon, <1>4, <1>5, <1>9, <1>13, <2>2 DEF Ends
<1>15. Memory(pos)'
  <2>1. Retiring' = Retiring \cup {d} BY <1>2, <1>3, <1>4, <1>11 DEF Retiring, Calls
  <2>2. ASSUME NEW x \in Retiring PROVE curr_head[x] \in Nodes /\ pos[curr_head[x]] < pos[head]
    BY Zenon DEF QInv, DequeueKnows, Retiring
  <2>3. \A n \in retired \cup freed : n \in Nodes /\ pos[n] # 0 /\ pos[n] < pos[head]
    BY Zenon, <1>5 DEF QInv, Memory, TypeOK
  <2>4. head \notin retired \cup freed BY <1>1, <1>5, <2>3
  <2>5. \A x \in Retiring : curr_head[x] # head BY <1>1, <1>5, <2>2
  <2>6. \A n \in retired \cup freed : pos[n] < pos[head'] BY <1>1, <1>5, <1>7, <2>3
  <2>7. ASSUME NEW n \in Nodes, pos[n] # 0, pos[n] < pos[head'] PROVE n = head \/ pos[n] < pos[head]
    <3>1. pos[n] = pos[head] \/ pos[n] < pos[head] BY <1>1, <1>5, <1>7, <2>7
    <3> QED BY <1>5, <1>8, <3>1
  <2>8. \A x \in Retiring \cup {d} : curr_head[x] \notin retired \cup freed
    BY Zenon, <2>4 DEF QInv, Memory
  <2>9. \A x, y \in Retiring \cup {d} : curr_head[x] = curr_head[y] => x = y
    BY Zenon, <2>5 DEF QInv, Memory
  <2>10. ASSUME NEW n \in Nodes, pos[n] # 0, pos[n] < pos[head']
         PROVE  n \in retired \cup freed \/ \E x \in Retiring \cup {d} : curr_head[x] = n
    BY Zenon, <2>7, <2>10 DEF QInv, Memory
  <2> QED BY Zenon, <1>4, <1>13, <2>1, <2>3, <2>6, <2>8, <2>9, <2>10 DEF QInv, Memory
<1>16. ASSUME NEW e \in Enqs PROVE EnqueueKnows(e, pos)'
  <2>1. tail' \in Nodes /\ pos[tail] <= pos[tail']
    <3>1. tail' = tail /\ pos[tail] \in Nat BY <1>1, <1>4
    <3> QED BY <1>1, <3>1, AtMostItself, Zenon
  <2>2. pc'[e] = pc[e] /\ curr_tail'[e] = curr_tail[e] /\ nxt'[e] = nxt[e] /\ next' = next
    BY Zenon, <1>2, <1>4, <1>11 DEF Calls
  <2> QED BY <2>1, <2>2, EnqueueStillKnows
<1>17. ASSUME NEW x \in Deqs PROVE DequeueKnows(x, pos)' /\ Guarded(x)' /\ Answers(x)'
  <2>1. DequeueKnows(x, pos) /\ Guarded(x) /\ Answers(x) BY DEF QInv
  <2>2. CASE x = d
    <3>1. pc'[x] = "read" /\ pc[x] = "pop" BY <1>2, <1>3, <1>4, <2>2
    <3>2. DequeueKnows(x, pos)'
      <4>1. pos[head] < pos[head'] /\ pos[head] <= pos[head'] BY <1>1, <1>5, <1>7
      <4> QED BY Zenon, <1>4, <1>5, <1>6, <2>2, <3>1, <4>1 DEF DequeueKnows
    <3>3. Guarded(x)' BY Zenon, <1>4, <1>11a, <2>1, <3>1 DEF Guarded, Protected
    <3>4. Answers(x)' BY Zenon, <1>4, <2>1, <3>1 DEF Answers, Undecided
    <3> QED BY <3>2, <3>3, <3>4
  <2>3. CASE x # d
    <3>1. pc'[x] = pc[x] BY <1>11, <2>3 DEF Calls
    <3>2. DequeueKnows(x, pos)'
      <4>1. pos[head] \in Nat /\ pos[tail] \in Nat BY <1>1, <1>5
      <4>2. pos[head] <= pos[head'] BY <1>7, <4>1, NextPosition, Zenon
      <4>3. tail' = tail BY Zenon, <1>4
      <4>4. pos[tail] <= pos[tail'] BY <4>1, <4>3, AtMostItself, Zenon
      <4> QED BY Zenon, <1>1, <1>4, <1>5, <1>7, <3>1, <4>2, <4>4, DequeueStillKnows
    <3>3. Guarded(x)' BY Zenon, <1>4, <1>11a, <2>1, <3>1, StillGuarded
    <3>4. Answers(x)' BY Zenon, <1>4, <2>1, <2>3, <3>1 DEF Answers, Undecided
    <3> QED BY <3>2, <3>3, <3>4
  <2> QED BY <2>2, <2>3
<1> QED BY <1>10, <1>12, <1>14, <1>15, <1>16, <1>17 DEF QInv

\* The item is read and the slots are released; the node before it is retired.
LEMMA RetireStep ==
    ASSUME TypeOK, NEW s, NEW pos, QInv(s, pos), NEW d \in Deqs, DequeueRead(d) \/ DequeueRetire(d)
    PROVE  QInv(s, pos)'
<1> USE DEF queueVars, localVars, hazardVars, memoryVars, Step
<1>1. /\ pos \in [Nodes -> Nat] /\ tail \in Nodes /\ pos[tail] <= pos[tail]
  <2>1. pos \in [Nodes -> Nat] /\ tail \in Nodes BY Typed
  <2> QED BY <2>1
<1>2. d \in Calls /\ d \notin Enqs BY QueueAssumption DEF Calls
<1>3. /\ pc \in [Calls -> PC] /\ result \in [Deqs -> Enqs \cup {nothing, "empty"}]
      /\ hp_head \in [Deqs -> Pointers] /\ hp_next \in [Deqs -> Pointers]
  BY DEF TypeOK
<1>4. /\ pc[d] \in {"read", "retire"}
      /\ pc' = [pc EXCEPT ![d] = IF pc[d] = "read" THEN "retire" ELSE "done"]
      /\ UNCHANGED <<queueVars, localVars, home, freed, victim, unread, stale, wasEmpty>>
  BY DEF DequeueRead, DequeueRetire
<1>5. \A c \in Calls : c # d => pc'[c] = pc[c] BY <1>3, <1>4
<1>5a. Allocated' = Allocated BY <1>2, <1>5 DEF Allocated, Calls
<1>6. \A x \in Deqs : x # d => /\ result'[x] = result[x]
                              /\ hp_head'[x] = hp_head[x] /\ hp_next'[x] = hp_next[x]
  BY Zenon, <1>3 DEF DequeueRead, DequeueRetire, Unprotect
<1>7. ~Destroyed /\ head \in Nodes /\ pos[head] <= pos[head]
  <2>1. ~Destroyed BY <1>2, <1>4 DEF QInv, Ends, InProgress
  <2> QED BY <1>1, <2>1, Typed
<1>8. DequeueKnows(d, pos) /\ Guarded(d) /\ Answers(d) BY DEF QInv
<1>9. Order(s, pos)' BY Zenon, <1>4 DEF QInv, Order
<1>10. Linked(pos)' BY Zenon, <1>2, <1>5 DEF QInv, Linked, Calls
<1>11. Ends(s, pos)' BY <1>4, <1>7 DEF QInv, Ends, Destroyed
<1>12. Memory(pos)'
  <2>1. CASE DequeueRead(d)
    <3>1. Retiring' = Retiring BY <1>2, <1>3, <1>5, <2>1 DEF DequeueRead, Retiring, Calls
    <3>2. retired' = retired BY <2>1 DEF DequeueRead
    <3> QED BY Zenon, <1>4, <3>1, <3>2 DEF QInv, Memory, Destroyed
  <2>2. CASE DequeueRetire(d)
    <3>1. Retiring' = Retiring \ {d} /\ d \in Retiring
      BY <1>2, <1>3, <1>5, <2>2 DEF DequeueRetire, Retiring, Calls
    <3>2. retired' = retired \cup {curr_head[d]} BY <2>2 DEF DequeueRetire
    <3>3. curr_head[d] \in Nodes /\ pos[curr_head[d]] # 0 /\ pos[curr_head[d]] < pos[head]
      <4>1. /\ curr_head[d] \in Nodes /\ 1 <= pos[curr_head[d]]
            /\ pos[curr_head[d]] < pos[head]
        BY Zenon, <1>4, <1>8 DEF DequeueKnows
      <4> QED BY <1>1, <4>1
    <3>4. curr_head[d] \notin freed BY Zenon, <3>1 DEF QInv, Memory
    <3> QED BY Zenon, <1>4, <3>1, <3>2, <3>3, <3>4 DEF QInv, Memory, Destroyed
  <2> QED BY <2>1, <2>2
<1>13. ASSUME NEW e \in Enqs PROVE EnqueueKnows(e, pos)'
  BY <1>1, <1>2, <1>4, <1>5, EnqueueStillKnows DEF Calls
<1>14. ASSUME NEW x \in Deqs PROVE DequeueKnows(x, pos)' /\ Guarded(x)' /\ Answers(x)'
  <2>1. DequeueKnows(x, pos) /\ Guarded(x) /\ Answers(x) BY DEF QInv
  <2>2. CASE x = d
    <3>1. DequeueKnows(x, pos)' BY Zenon, <1>2, <1>3, <1>4, <2>1, <2>2 DEF DequeueKnows
    <3>2. Guarded(x)' BY Zenon, <1>2, <1>3, <1>4, <2>2 DEF Guarded
    <3>3. result'[x] # nothing
      <4>1. CASE DequeueRead(d)
        <5>1. nxt[d] \in Enqs
          <6>1. /\ curr_head[d] \in Nodes /\ 1 <= pos[curr_head[d]]
                /\ nxt[d] # nullptr /\ nxt[d] = next[curr_head[d]]
            BY Zenon, <1>8, <4>1 DEF DequeueRead, DequeueKnows
          <6> QED BY Zenon, <6>1, NextIsItem
        <5> QED BY Zenon, <1>3, <2>2, <4>1, <5>1, QueueAssumption DEF DequeueRead
      <4>2. CASE DequeueRetire(d) BY Zenon, <1>8, <2>2, <4>2 DEF DequeueRetire, Answers
      <4> QED BY <4>1, <4>2
    <3>4. Answers(x)' BY <1>2, <1>3, <1>4, <2>2, <3>3 DEF Answers, Undecided
    <3> QED BY <3>1, <3>2, <3>4
  <2>3. CASE x # d
    <3>1. pc'[x] = pc[x] BY <1>5, <2>3 DEF Calls
    <3>2. DequeueKnows(x, pos)' BY Zenon, <1>1, <1>4, <1>7, <3>1, DequeueStillKnows
    <3>3. Guarded(x)' BY Zenon, <1>4, <1>5a, <1>6, <2>1, <2>3, <3>1, StillGuarded
    <3>4. Answers(x)' BY Zenon, <1>4, <1>6, <2>1, <2>3, <3>1 DEF Answers, Undecided
    <3> QED BY <3>2, <3>3, <3>4
  <2> QED BY <2>2, <2>3
<1> QED BY <1>9, <1>10, <1>11, <1>12, <1>13, <1>14 DEF QInv

-----------------------------------------------------------------------------
(***************************************************************************)
(* Reclamation and destruction.                                            *)
(***************************************************************************)
\* reclaim_all deletes no node that a call has protected and found in place.
LEMMA ReclaimStep ==
    ASSUME TypeOK, NEW s, NEW pos, QInv(s, pos),
           \/ \E n \in Nodes : ReclaimBegin(n)
           \/ \E slot \in Deqs \X {1, 2} : ReclaimRead(slot)
           \/ ReclaimDelete
    PROVE  QInv(s, pos)'
<1> USE DEF reclaimLeaves, queueVars, localVars, hazardVars
<1>1. UNCHANGED <<queueVars, pc, localVars, hazardVars, result, home, stale, wasEmpty>>
  BY Zenon DEF ReclaimBegin, ReclaimRead, ReclaimDelete
<1>2. Order(s, pos)' /\ Linked(pos)' /\ Ends(s, pos)'
  BY Zenon, <1>1 DEF QInv, Order, Linked, Ends, Destroyed, InProgress
<1>3. \A e \in Enqs : EnqueueKnows(e, pos)' BY Zenon, <1>1 DEF QInv, EnqueueKnows
<1>4. \A d \in Deqs : DequeueKnows(d, pos)' BY Zenon, <1>1 DEF QInv, DequeueKnows
<1>5. \A d \in Deqs : Answers(d)' BY Zenon, <1>1 DEF QInv, Answers, Undecided
<1>6. Retiring' = Retiring /\ \A d \in Retiring : curr_head'[d] = curr_head[d]
  BY <1>1 DEF Retiring
<1>6a. Allocated' = Allocated BY <1>1 DEF Allocated
<1>7. SUFFICES Memory(pos)' /\ \A d \in Deqs : Guarded(d)'
  BY <1>2, <1>3, <1>4, <1>5 DEF QInv
<1>8. ASSUME NEW n \in Nodes, ReclaimBegin(n) PROVE Memory(pos)' /\ \A d \in Deqs : Guarded(d)'
  <2>1. /\ victim' = n /\ n \in retired /\ unread' = (InProgress \cap Deqs) \X {1, 2}
        /\ UNCHANGED <<retired, freed>>
    BY <1>8 DEF ReclaimBegin
  <2>2. Memory(pos)' BY Zenon, <1>1, <1>6, <2>1 DEF QInv, Memory, Destroyed
  <2>3. ASSUME NEW d \in Deqs PROVE Guarded(d)'
    <3>1. pc[d] \notin {"idle", "done"} => <<d, 1>> \in unread' /\ <<d, 2>> \in unread'
      BY <2>1 DEF InProgress, Calls
    <3> QED BY Zenon, <1>1, <1>6a, <2>1, <3>1 DEF QInv, Guarded, Protected
  <2> QED BY <2>2, <2>3
<1>9. ASSUME NEW slot \in Deqs \X {1, 2}, ReclaimRead(slot)
      PROVE  Memory(pos)' /\ \A d \in Deqs : Guarded(d)'
  <2>1. UNCHANGED <<retired, freed>> BY <1>9 DEF ReclaimRead
  <2>2. CASE victim' = nullptr
    <3>1. Memory(pos)' BY Zenon, <1>1, <1>6, <2>1, <2>2 DEF QInv, Memory, Destroyed
    <3>2. ASSUME NEW d \in Deqs PROVE Guarded(d)'
      <4>1. pc[d] \in {"tail", "next", "protect next", "check again", "pop", "help", "read"} =>
              curr_head[d] # nullptr
        BY Zenon, QueueAssumption DEF QInv, DequeueKnows, Nodes
      <4>2. pc[d] \in {"pop", "read"} => nxt[d] # nullptr BY Zenon DEF QInv, DequeueKnows
      <4> QED BY Zenon, <1>1, <1>6a, <2>1, <2>2, <4>1, <4>2 DEF QInv, Guarded, Protected
    <3> QED BY <3>1, <3>2
  <2>3. CASE victim' # nullptr
    <3> DEFINE p == (IF slot[2] = 1 THEN hp_head ELSE hp_next)[slot[1]]
    <3>1. victim' = victim /\ unread' = unread \ {slot} /\ ~(p # nullptr /\ home[p] = home[victim])
      BY Zenon, <1>9, <2>3 DEF ReclaimRead
    <3>2. Memory(pos)' BY Zenon, <1>1, <1>6, <2>1, <3>1 DEF QInv, Memory, Destroyed
    <3>3. ASSUME NEW d \in Deqs PROVE Guarded(d)'
      <4>1. slot = <<d, 1>> => hp_head[d] = nullptr \/ home[hp_head[d]] # home[victim] BY <3>1
      <4>2. slot = <<d, 2>> => hp_next[d] = nullptr \/ victim # hp_next[d] BY <3>1
      <4>3. Guarded(d) /\ DequeueKnows(d, pos) BY DEF QInv
      <4>4. nullptr \notin Allocated BY QueueAssumption DEF Allocated
      <4>5. pc[d] \in {"tail", "next", "protect next", "check again", "pop", "help", "read"}
              /\ slot = <<d, 1>> => victim # curr_head[d]
        BY Zenon, <4>1, <4>3, <4>4 DEF Guarded
      <4>6. pc[d] \in {"pop", "read"} /\ slot = <<d, 2>> => victim # nxt[d]
        BY Zenon, <4>2, <4>3 DEF Guarded, DequeueKnows
      <4> HIDE DEF p
      <4> QED BY Zenon, <1>1, <1>6a, <2>1, <3>1, <4>3, <4>5, <4>6 DEF Guarded, Protected
    <3> QED BY <3>2, <3>3
  <2> QED BY <2>2, <2>3
<1>10. ASSUME ReclaimDelete PROVE Memory(pos)' /\ \A d \in Deqs : Guarded(d)'
  <2>1. /\ victim # nullptr /\ unread = {} /\ victim' = nullptr /\ UNCHANGED unread
        /\ retired' = retired \ {victim} /\ freed' = freed \cup {victim}
    BY <1>10 DEF ReclaimDelete
  <2>2. victim \in retired BY Zenon, <2>1 DEF QInv, Memory
  <2>3. Memory(pos)' BY Zenon, <1>1, <1>6, <2>1, <2>2 DEF QInv, Memory, Destroyed
  <2>4. ASSUME NEW d \in Deqs PROVE Guarded(d)'
    <3>1. pc[d] \in {"tail", "next", "protect next", "check again", "pop", "help", "read"} =>
            curr_head[d] # nullptr /\ curr_head[d] # victim
      BY Zenon, <2>1, QueueAssumption DEF QInv, DequeueKnows, Nodes, Guarded, Protected
    <3>2. pc[d] \in {"pop", "read"} => nxt[d] # nullptr /\ nxt[d] # victim
      BY Zenon, <2>1 DEF QInv, DequeueKnows, Guarded, Protected
    <3> QED BY Zenon, <1>1, <1>6a, <2>1, <3>1, <3>2 DEF QInv, Guarded, Protected
  <2> QED BY <2>3, <2>4
<1> QED BY <1>8, <1>9, <1>10

\* The destructor deletes what is in the queue, when no call is in progress.
LEMMA DestroyStep ==
    ASSUME TypeOK, NEW s, NEW pos, QInv(s, pos), Destroy
    PROVE  QInv(s, pos)'
<1> USE DEF localVars, hazardVars
<1>1. /\ ~Destroyed /\ InProgress = {} /\ freed' = freed \cup InQueue /\ head' = nullptr
      /\ UNCHANGED <<tail, next, pc, localVars, hazardVars, result, retired, victim, unread, wasEmpty>>
  BY DEF Destroy, DestroyFreeing
<1>2. InQueue = {n \in Nodes : pos[head] <= pos[n]} BY <1>1, InQueueIs
<1>3. \A c \in Calls : pc[c] \in {"idle", "done"} BY <1>1 DEF InProgress
<1>4. Order(s, pos)' BY Zenon, <1>1 DEF QInv, Order
<1>5. Linked(pos)' BY <1>1 DEF QInv, Linked
<1>6. Ends(s, pos)' BY <1>1 DEF Ends, Destroyed, InProgress
<1>7. Memory(pos)'
  <2>1. Retiring = {} /\ Retiring' = {} BY <1>1, <1>3 DEF Retiring, Calls
  <2>2. pos \in [Nodes -> Nat] /\ head \in Nodes /\ 1 <= pos[head]
    BY <1>1, Typed DEF QInv, Ends
  <2>3. \A n \in retired \cup freed : n \in Nodes /\ pos[n] # 0 /\ pos[n] < pos[head]
    BY <1>1 DEF QInv, Memory, TypeOK
  <2>4. retired \cap InQueue = {} BY <1>2, <2>2, <2>3
  <2>5. \A n \in InQueue : n \in Nodes /\ pos[n] # 0 BY <1>2, <2>2
  <2>6. ASSUME NEW n \in Nodes, pos[n] # 0 PROVE n \in retired \cup freed \cup InQueue
    <3>1. pos[n] < pos[head] \/ pos[head] <= pos[n] BY <2>2
    <3> QED BY Zenon, <1>1, <1>2, <2>1, <2>6, <3>1 DEF QInv, Memory
  <2>7. Destroyed' BY <1>1 DEF Destroyed
  <2> QED BY Zenon, <1>1, <2>1, <2>3, <2>4, <2>5, <2>6, <2>7 DEF QInv, Memory
<1>8. \A e \in Enqs : EnqueueKnows(e, pos)' BY Zenon, <1>1, <1>3 DEF EnqueueKnows, Calls
<1>9. ASSUME NEW d \in Deqs PROVE DequeueKnows(d, pos)' /\ Guarded(d)' /\ Answers(d)'
  <2>1. pc[d] \in {"idle", "done"} /\ pc'[d] = pc[d] BY <1>1, <1>3 DEF Calls
  <2>2. DequeueKnows(d, pos)' BY Zenon, <2>1 DEF DequeueKnows
  <2>3. Guarded(d)' BY Zenon, <2>1 DEF Guarded
  <2>4. Answers(d)' BY Zenon, <1>1, <2>1 DEF QInv, Answers, Undecided
  <2> QED BY <2>2, <2>3, <2>4
<1> QED BY <1>4, <1>5, <1>6, <1>7, <1>8, <1>9 DEF QInv

-----------------------------------------------------------------------------
(***************************************************************************)
(* Invariance.                                                             *)
(***************************************************************************)
LEMMA InitInv == Init => IInv
<1> SUFFICES ASSUME Init PROVE IInv OBVIOUS
<1> DEFINE s == <<dummy>>
<1> DEFINE pos == [n \in Nodes |-> IF n = dummy THEN 1 ELSE 0]
<1>1. dummy \in Nodes /\ nullptr \notin Nodes /\ pos \in [Nodes -> {0, 1}]
  BY QueueAssumption DEF Nodes
<1>2. TypeOK BY Zenon, <1>1 DEF Init, TypeOK, Pointers, PC
<1>3. s \in Seq(Nodes) /\ Len(s) = 1 /\ s[1] = dummy BY <1>1
<1>4. \A n \in Nodes : (pos[n] = 1 <=> n = dummy) /\ (pos[n] = 0 <=> n # dummy) OBVIOUS
<1> HIDE DEF s, pos
<1>5. pos \in [Nodes -> 0..1] BY <1>1
<1>6. Order(s, pos)
  <2>1. \A i \in 1..1 : pos[s[i]] = i BY <1>1, <1>3, <1>4
  <2>2. \A n \in Nodes : pos[n] # 0 => n = dummy /\ pos[n] = 1 BY <1>4
  <2>3. \A n \in Nodes : (pos[n] = 0 \/ pos[n] = 1) /\ next[n] = nullptr BY <1>4 DEF Init
  <2>4. \A n \in Nodes : pos[n] # 0 => s[pos[n]] = n BY <1>3, <2>2
  <2>5. pos[dummy] = 1 /\ Len(s) >= 1 BY <1>1, <1>3, <1>4
  <2> QED BY Zenon, <1>3, <1>5, <2>1, <2>3, <2>4, <2>5 DEF Order
<1>7. \A c \in Calls : pc[c] = "idle" BY DEF Init
<1>8. ~Destroyed /\ InProgress = {} BY <1>1, <1>7 DEF Init, Destroyed, InProgress
<1>9. Linked(pos) BY <1>4, <1>7, QueueAssumption DEF Linked, Nodes, Calls
<1>10. Ends(s, pos) BY <1>1, <1>3, <1>4, <1>8 DEF Init, Ends
<1>11. Retiring = {} BY <1>7 DEF Retiring, Calls
<1>12. Memory(pos)
  <2>1. \A n \in Nodes : ~(pos[n] # 0 /\ (Destroyed \/ pos[n] < pos[head])) BY <1>1, <1>4, <1>8 DEF Init
  <2> QED BY <1>11, <2>1 DEF Init, Memory
<1>13. \A e \in Enqs : EnqueueKnows(e, pos) BY <1>7 DEF EnqueueKnows, Calls
<1>14. \A d \in Deqs : DequeueKnows(d, pos) BY Zenon, <1>7 DEF DequeueKnows, Calls
<1>15. \A d \in Deqs : Guarded(d) BY Zenon, <1>7 DEF Guarded, Calls
<1>16. \A d \in Deqs : Answers(d)
  <2>1. \A d \in Deqs : pc[d] = "idle" /\ result[d] = nothing BY DEF Init, Calls
  <2> QED BY Zenon, <2>1 DEF Answers, Undecided
<1>17. QInv(s, pos)
  BY <1>6, <1>9, <1>10, <1>12, <1>13, <1>14, <1>15, <1>16 DEF QInv
<1>18. Homes /\ ~stale BY DEF Init, Homes, Live, Allocated, Nodes
<1> QED BY <1>2, <1>17, <1>18 DEF IInv

\* The invariant holds after a step that changes nothing.
LEMMA Unmoved ==
    ASSUME NEW s, NEW pos, QInv(s, pos), UNCHANGED vars
    PROVE  QInv(s, pos)'
<1> USE DEF vars, queueVars, localVars, hazardVars, memoryVars
<1>1. Order(s, pos)' BY Zenon DEF QInv, Order
<1>2. Linked(pos)' BY Zenon DEF QInv, Linked
<1>3. Ends(s, pos)' BY DEF QInv, Ends, Destroyed, InProgress
<1>4. Memory(pos)' BY Zenon DEF QInv, Memory, Retiring, Destroyed
<1>5. \A e \in Enqs : EnqueueKnows(e, pos)' BY Zenon DEF QInv, EnqueueKnows
<1>6. \A d \in Deqs : DequeueKnows(d, pos)' BY Zenon DEF QInv, DequeueKnows
<1>7. \A d \in Deqs : Guarded(d)' BY Zenon DEF QInv, Guarded, Protected, Allocated
<1>8. \A d \in Deqs : Answers(d)' BY Zenon DEF QInv, Answers, Undecided
<1> QED BY <1>1, <1>2, <1>3, <1>4, <1>5, <1>6, <1>7, <1>8 DEF QInv

\* Every step up to stale keeps the order of the linked nodes, or adds a node at its end.
LEMMA OrderStep ==
    ASSUME TypeOK, Homes, NEW s, NEW pos, QInv(s, pos), Next, ~stale'
    PROVE  \/ QInv(s, pos)'
           \/ \E e \in Enqs : /\ EnqueueLink(e) /\ next[curr_tail[e]] = nullptr
                              /\ QInv(Append(s, e), [pos EXCEPT ![e] = Len(s) + 1])'
<1>1. ASSUME NEW e \in Enqs, EnqueueLink(e), next[curr_tail[e]] = nullptr
      PROVE  QInv(Append(s, e), [pos EXCEPT ![e] = Len(s) + 1])'
  BY <1>1, LinkStep
<1>2. ASSUME NEW e \in Enqs,
             EnqueueBegin(e) \/ (Enqueue(e) /\ ~(EnqueueLink(e) /\ next[curr_tail[e]] = nullptr))
               \/ Help(e)
      PROVE  QInv(s, pos)'
  BY Zenon, <1>2, EnqueueQuiet DEF Enqueue
<1>3. ASSUME NEW d \in Deqs, DequeueBegin(d) \/ Dequeue(d) \/ Help(d) PROVE QInv(s, pos)'
  BY <1>3, DequeueQuiet, TakeStep, RetireStep DEF Dequeue
<1>4. ASSUME NEW c \in Calls, Help(c) PROVE QInv(s, pos)' BY <1>2, <1>3, <1>4 DEF Calls
<1>5. ASSUME \/ \E n \in Nodes : ReclaimBegin(n)
             \/ \E slot \in Deqs \X {1, 2} : ReclaimRead(slot)
             \/ ReclaimDelete
      PROVE  QInv(s, pos)'
  BY <1>5, ReclaimStep
<1>6. ASSUME Destroy PROVE QInv(s, pos)' BY <1>6, DestroyStep
<1>7. ASSUME Stop PROVE QInv(s, pos)' BY <1>7, Unmoved DEF Stop
<1> QED BY Zenon, <1>1, <1>2, <1>3, <1>4, <1>5, <1>6, <1>7 DEF Next

\* Only an enqueue call, by a curr_tail that was freed, leads to stale: a dequeue call
\* compares tail with a node that it protects.
LEMMA StaleStep ==
    ASSUME TypeOK, Homes, ~stale, NEW s, NEW pos, QInv(s, pos), Next, stale'
    PROVE  StaleTail'
<1> USE DEF queueVars, localVars, hazardVars, memoryVars, Step, Local, Goto
<1>1. \A n \in Nodes : pos[n] \in Nat BY Typed
<1>2. ASSUME NEW c \in Calls, pc[c] \in {"swing", "help"}, curr_tail[c] \in Nodes,
             next[curr_tail[c]] # nullptr, home[curr_tail[c]] = home[tail], curr_tail[c] # tail
      PROVE  curr_tail[c] \in freed
  <2>1. 1 <= pos[curr_tail[c]] BY <1>2, NextIsItem
  <2>2. curr_tail[c] \in Allocated BY <1>2, <2>1, LinkedAllocated
  <2>3. ~Destroyed BY Zenon, <1>2 DEF QInv, Ends, InProgress
  <2>4. tail \in Live BY <2>3, EndsLive
  <2> QED BY <1>2, <2>2, <2>4 DEF Homes, Live
<1>3. ASSUME NEW e \in Enqs, EnqueueBegin(e) \/ Enqueue(e) PROVE StaleTail'
  <2>1. e \in Calls /\ e # nullptr /\ curr_tail \in [Calls -> Pointers] /\ EnqueueKnows(e, pos)
    BY Zenon, QueueAssumption DEF Calls, TypeOK, QInv
  <2>2. CASE EnqueueLoadNext(e)
    <3> DEFINE n == Here(curr_tail[e])
    <3>1. n \in freed /\ freed' = freed /\ curr_tail' = [curr_tail EXCEPT ![e] = n]
      BY Zenon, <2>2 DEF EnqueueLoadNext
    <3> QED BY <2>1, <3>1 DEF StaleTail
  <2>3. CASE EnqueueLink(e) BY Zenon, <2>3 DEF EnqueueLink, Link, StaleTail
  <2>4. CASE EnqueueSwing(e)
    <3>1. /\ pc[e] = "swing" /\ home[curr_tail[e]] = home[tail] /\ curr_tail[e] # tail
          /\ UNCHANGED <<curr_tail, freed>>
      BY Zenon, <2>4 DEF EnqueueSwing, MoveTail
    <3>2. curr_tail[e] \in Nodes /\ next[curr_tail[e]] # nullptr BY Zenon, <2>1, <3>1 DEF EnqueueKnows
    <3> QED BY Zenon, <1>2, <2>1, <3>1, <3>2 DEF StaleTail
  <2> QED BY Zenon, <1>3, <2>2, <2>3, <2>4
          DEF Enqueue, EnqueueBegin, EnqueueLoadTail, LoadTail, EnqueueCheck
<1>4. ASSUME NEW c \in Calls, Help(c) PROVE StaleTail'
  <2>1. /\ pc[c] = "help" /\ home[curr_tail[c]] = home[tail] /\ curr_tail[c] # tail
        /\ UNCHANGED <<curr_tail, freed>>
    BY Zenon, <1>4 DEF Help, MoveTail
  <2>2. CASE c \in Enqs
    <3>1. curr_tail[c] \in Nodes /\ next[curr_tail[c]] # nullptr
      BY Zenon, <2>1, <2>2 DEF QInv, EnqueueKnows
    <3> QED BY Zenon, <1>2, <2>1, <2>2, <3>1 DEF StaleTail
  <2>3. CASE c \in Deqs
    <3>1. /\ curr_tail[c] = curr_head[c] /\ curr_head[c] \in Nodes /\ next[curr_tail[c]] # nullptr
          /\ curr_head[c] \notin freed
      <4>1. DequeueKnows(c, pos) /\ Guarded(c) BY <2>3 DEF QInv
      <4>2. curr_tail[c] = curr_head[c] /\ curr_head[c] \in Nodes BY <2>1, <4>1 DEF DequeueKnows
      <4>3. next[curr_head[c]] # nullptr BY <2>1, <4>1 DEF DequeueKnows
      <4>4. curr_head[c] \notin freed BY <2>1, <4>1 DEF Guarded, Protected
      <4> QED BY <4>2, <4>3, <4>4
    <3> QED BY <1>2, <2>1, <3>1
  <2> QED BY <2>2, <2>3 DEF Calls
<1>5. ASSUME NEW d \in Deqs, DequeueBegin(d) \/ Dequeue(d) PROVE FALSE
  BY Zenon, <1>5 DEF Dequeue, DequeueBegin, DequeueLoadHead, DequeueProtect, DequeueCheck, DequeueLoadTail,
              LoadTail, DequeueLoadNext, DequeueProtectNext, DequeueEmpty, DequeueChoose, Choose,
              DequeuePop, DequeueRead, DequeueRetire
<1>6. ASSUME \/ \E n \in Nodes : ReclaimBegin(n)
             \/ \E slot \in Deqs \X {1, 2} : ReclaimRead(slot)
             \/ ReclaimDelete \/ Destroy \/ Stop
      PROVE  FALSE
  BY Zenon, <1>6 DEF ReclaimBegin, ReclaimRead, ReclaimDelete, reclaimLeaves, Destroy, DestroyFreeing,
              Stop, vars
<1> QED BY <1>3, <1>4, <1>5, <1>6 DEF Next

\* The model ends at stale.
LEMMA StaleStops == Next /\ stale => UNCHANGED vars
BY Zenon DEF Next, Stop, EnqueueBegin, Enqueue, EnqueueLoadTail, EnqueueLoadNext, EnqueueCheck,
       EnqueueLink, Link, EnqueueSwing, Help, DequeueBegin, Dequeue, DequeueLoadHead,
       DequeueProtect, DequeueCheck, DequeueLoadTail, DequeueLoadNext, DequeueProtectNext,
       DequeueEmpty, DequeueChoose, Choose, DequeuePop, DequeueRead, DequeueRetire, ReclaimBegin,
       ReclaimRead, ReclaimDelete, Destroy, DestroyFreeing, LoadTail, Goto, Local, Step

\* Every step preserves the inductive invariant.
LEMMA StepInv == IInv /\ [Next]_vars => IInv'
<1> SUFFICES ASSUME IInv, [Next]_vars PROVE IInv' OBVIOUS
<1>1. TypeOK /\ Homes BY DEF IInv
<1>2. ~stale => \E s, pos : QInv(s, pos) BY DEF IInv
<1>3. CASE UNCHANGED vars
  <2>1. TypeOK' BY <1>1, <1>3 DEF vars, queueVars, localVars, hazardVars, memoryVars, TypeOK
  <2>2. Homes' BY Zenon, <1>1, <1>3 DEF vars, memoryVars, Homes, Live, Allocated
  <2>3. stale' = stale BY <1>3 DEF vars
  <2>4. stale => StaleTail'
    BY <1>3 DEF IInv, vars, localVars, memoryVars, StaleTail
  <2>5. ~stale => \E s, pos : QInv(s, pos)' BY <1>2, <1>3, Unmoved
  <2> QED BY <2>1, <2>2, <2>3, <2>4, <2>5 DEF IInv
<1>4. CASE Next /\ ~stale
  <2>1. PICK s, pos : QInv(s, pos) BY <1>2, <1>4
  <2>2. TypeOK' BY <1>1, <1>4, <2>1, TypeStep
  <2>3. Homes' BY <1>1, <1>4, HomesStep
  <2>4. ~stale' => \E t, at : QInv(t, at)' BY Zenon, <1>1, <1>4, <2>1, OrderStep
  <2>5. stale' => StaleTail' BY <1>1, <1>4, <2>1, StaleStep
  <2> QED BY <2>2, <2>3, <2>4, <2>5 DEF IInv
<1>5. Next /\ stale => UNCHANGED vars BY StaleStops
<1> QED BY <1>3, <1>4, <1>5

\* The inductive invariant: until an enqueue call uses a curr_tail that was freed since
\* it was loaded, the nodes that were ever linked are in one order, and what each call
\* knows of them is true.  Memory is allocated again once it is freed.
THEOREM Invariance == Spec => []IInv
<1> QED BY InitInv, StepInv, PTL DEF Spec
=============================================================================
