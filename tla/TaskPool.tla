------------------------------ MODULE TaskPool ------------------------------
(***************************************************************************)
(* What a ThreadPool promises its callers: the abstract specification that *)
(* module ThreadPool implements and that module TaskExecutor is built on.  *)
(*                                                                         *)
(* A task is identified with the enqueue call that submits it.  A call     *)
(* that begins while the pool is open is either accepted or, if the pool   *)
(* closes first, may be rejected; a call that begins later is rejected.    *)
(* An accepted task starts at most once.  It is dropped, unexecuted, only  *)
(* when the pool is closed.                                                *)
(***************************************************************************)
CONSTANT Tasks

VARIABLES status,   \* what became of the call that submits a task
          open      \* the pool has not been told to stop

poolVars == <<status, open>>

Status == {"new", "submitting", "accepted", "running", "done", "dropped",
           "rejected"}

TypeOK == /\ status \in [Tasks -> Status]
          /\ open \in BOOLEAN

Init == /\ status = [t \in Tasks |-> "new"]
        /\ open = TRUE

-----------------------------------------------------------------------------
Move(t, from, to) == /\ status[t] = from
                     /\ status' = [status EXCEPT ![t] = to]
                     /\ UNCHANGED open

Submit(t) == open /\ Move(t, "new", "submitting")

Accept(t) == Move(t, "submitting", "accepted")

Reject(t) == ~open /\ (Move(t, "new", "rejected") \/ Move(t, "submitting", "rejected"))

Start(t) == Move(t, "accepted", "running")

Finish(t) == Move(t, "running", "done")

Drop(t) == ~open /\ Move(t, "accepted", "dropped")

Close == /\ open
         /\ open' = FALSE
         /\ UNCHANGED status

Next == \/ Close
        \/ \E t \in Tasks : \/ Submit(t) \/ Accept(t) \/ Reject(t)
                            \/ Start(t)  \/ Finish(t) \/ Drop(t)

Spec == Init /\ [][Next]_poolVars
=============================================================================
