-------------------------------- MODULE Fifo --------------------------------
(***************************************************************************)
(* What MPMCQueue promises (common/include/mpmc_queue.hpp): the items come *)
(* out in the order in which they went in, each once, and dequeue returns  *)
(* false only if the queue was empty at some time during the call.         *)
(***************************************************************************)
EXTENDS Sequences

CONSTANTS Enqs, Deqs, nothing

VARIABLES
    open,      \* until the destructor
    items,     \* the queue
    added,     \* the enqueue calls that have taken effect
    begun,     \* the dequeue calls that have begun
    got,       \* what a dequeue call returns; "empty" for false
    wasEmpty   \* the dequeue calls during which the queue was empty

vars == <<open, items, added, begun, got, wasEmpty>>

Init == /\ open = TRUE
        /\ items = <<>>
        /\ added = {}
        /\ begun = {}
        /\ got = [d \in Deqs |-> nothing]
        /\ wasEmpty = {}

Add(e) ==
    /\ e \notin added
    /\ items' = Append(items, e)
    /\ added' = added \cup {e}
    /\ UNCHANGED <<open, begun, got, wasEmpty>>

Begin(d) ==
    /\ d \notin begun
    /\ begun' = begun \cup {d}
    /\ wasEmpty' = wasEmpty \cup (IF items = <<>> THEN {d} ELSE {})
    /\ UNCHANGED <<open, items, added, got>>

\* Taking the last item empties the queue for every call without a result.
Take(d) ==
    /\ d \in begun
    /\ got[d] = nothing
    /\ items # <<>>
    /\ got' = [got EXCEPT ![d] = Head(items)]
    /\ items' = Tail(items)
    /\ wasEmpty' = IF items' = <<>> THEN wasEmpty \cup {x \in begun \ {d} : got[x] = nothing}
                   ELSE wasEmpty
    /\ UNCHANGED <<open, added, begun>>

Miss(d) ==
    /\ d \in wasEmpty
    /\ got[d] = nothing
    /\ got' = [got EXCEPT ![d] = "empty"]
    /\ UNCHANGED <<open, items, added, begun, wasEmpty>>

\* The destructor drops the items that are left.
Close ==
    /\ open' = FALSE
    /\ items' = <<>>
    /\ UNCHANGED <<added, begun, got, wasEmpty>>

Next == /\ open
        /\ \/ \E e \in Enqs : Add(e)
           \/ \E d \in Deqs : Begin(d) \/ Take(d) \/ Miss(d)
           \/ Close

Spec == Init /\ [][Next]_vars
=============================================================================
