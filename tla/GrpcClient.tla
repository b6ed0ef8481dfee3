----------------------------- MODULE GrpcClient -----------------------------
(***************************************************************************)
(* dts::GrpcClient and its tags (common/include/grpc_client.hpp, common/   *)
(* src/grpc_client.cpp), over the client side of gRPC (external: a started *)
(* operation yields one event; Finish yields it once the server has ended  *)
(* the call; an operation may not be started on a queue that was shut      *)
(* down).                                                                  *)
(*                                                                         *)
(* Who acts: the callers, the completion thread (CompleteRpc), the server, *)
(* and the owner, who destroys the client when no call is in progress.     *)
(* AsyncNext and the Proceed of the event that it returns are one step.    *)
(***************************************************************************)
EXTENDS Integers

CONSTANTS
    Listens,     \* the calls of listen_results
    Unaries,     \* the calls of cancel_task(_async) and query_status(_async)
    Submits,     \* the calls of submit_task_async
    Syncs,       \* the calls of submit_task_sync
    MaxMessages  \* Bound: messages the server sends on a stream

ASSUME ClientAssumption == MaxMessages \in Nat /\ Listens \cap Unaries = {}

VARIABLES
    step_, status,     \* fields of each AsyncListenTag
    op,                \* the operation pending for a tag, or its event
    stream,            \* how the server has ended a stream
    delivered, told,   \* what the callback was called with: messages, a final error
    future, sync,      \* the futures of Submits; the calls of Syncs
    phase, thread,     \* the client's lifetime; where CompleteRpc is
    failure            \* how the program went wrong

tagVars == <<step_, status, op, stream, delivered, told>>
callVars == <<future, sync>>
vars == <<tagVars, callVars, phase, thread, failure>>

Pending == {"start", "read", "finish"}
Event == {"ok", "empty", "failed"}   \* "empty": ok, with a message that has no task
Running == failure = "none"

TypeOK ==
    /\ step_ \in [Listens -> {"absent", "kStart", "kRead", "kFinish", "deleted"}]
    /\ status \in [Listens -> {"OK", "CANCELLED", "error"}]
    /\ op \in [Listens \cup Unaries -> {"none"} \cup Pending \cup Event]
    /\ stream \in [Listens -> {"open", "OK", "error"}]
    /\ delivered \in [Listens -> 0..MaxMessages]
    /\ told \in [Listens -> BOOLEAN]
    /\ future \in [Submits -> {"none", "unready"}]
    /\ sync \in [Syncs -> {"idle", "calling", "returned", "thrown"}]
    /\ phase \in {"alive", "closing", "closed", "destroyed"}
    /\ thread \in {"loop", "next", "exited"}
    /\ failure \in {"none", "null tag", "second Finish", "closed queue"}

Init ==
    /\ step_ = [l \in Listens |-> "absent"]
    /\ status = [l \in Listens |-> "OK"]
    /\ op = [x \in Listens \cup Unaries |-> "none"]
    /\ stream = [l \in Listens |-> "open"]
    /\ delivered = [l \in Listens |-> 0]
    /\ told = [l \in Listens |-> FALSE]
    /\ future = [s \in Submits |-> "none"]
    /\ sync = [c \in Syncs |-> "idle"]
    /\ phase = "alive"
    /\ thread = "loop"
    /\ failure = "none"

Calling == Running /\ phase = "alive"

-----------------------------------------------------------------------------
(***************************************************************************)
(* The callers.                                                            *)
(***************************************************************************)
ListenResults(l) ==
    /\ Calling
    /\ step_[l] = "absent"
    /\ step_' = [step_ EXCEPT ![l] = "kStart"]
    /\ op' = [op EXCEPT ![l] = "start"]
    /\ UNCHANGED <<status, stream, delivered, told, callVars, phase, thread, failure>>

\* The reader is started without a tag and Finish is not called.  gRPC sends
\* nothing and yields no event, so the tag stays and the future is never ready.
SubmitTaskAsync(s) ==
    /\ Calling
    /\ future[s] = "none"
    /\ future' = [future EXCEPT ![s] = "unready"]
    /\ UNCHANGED <<tagVars, sync, phase, thread, failure>>

\* StartCall, then Finish with the tag that tag.release() gives away, ...
FinishUnary(u) ==
    /\ Calling
    /\ op[u] = "none"
    /\ op' = [op EXCEPT ![u] = "finish"]
    /\ UNCHANGED <<step_, status, stream, delivered, told, callVars, phase, thread, failure>>

\* ... then tag->promise, through the pointer that release() has set to null.
GetFuture(u) ==
    /\ Running
    /\ op[u] # "none"
    /\ failure' = "null tag"
    /\ UNCHANGED <<tagVars, callVars, phase, thread>>

Sync(c, from, to) ==
    /\ Running
    /\ sync[c] = from
    /\ sync' = [sync EXCEPT ![c] = to]
    /\ UNCHANGED <<tagVars, future, phase, thread, failure>>

SyncBegin(c) == phase = "alive" /\ Sync(c, "idle", "calling")

SyncAnswered(c) == Sync(c, "calling", "returned") \/ Sync(c, "calling", "thrown")

\* The deadline of five seconds.
SyncDeadline(c) == Sync(c, "calling", "thrown")

-----------------------------------------------------------------------------
(***************************************************************************)
(* gRPC and the server (external).                                         *)
(***************************************************************************)
Complete(x, pending, event) ==
    /\ Running
    /\ op[x] = pending
    /\ op' = [op EXCEPT ![x] = event]
    /\ UNCHANGED <<step_, delivered, told, callVars, phase, thread, failure>>

EndStream(l) ==
    /\ Running
    /\ step_[l] # "absent"
    /\ stream[l] = "open"
    /\ \E s \in {"OK", "error"} : stream' = [stream EXCEPT ![l] = s]
    /\ UNCHANGED <<step_, status, op, delivered, told, callVars, phase, thread, failure>>

Started(l) == Complete(l, "start", "ok") /\ UNCHANGED <<status, stream>>

\* The connection fails.
NotStarted(l) ==
    /\ Complete(l, "start", "failed")
    /\ stream' = [stream EXCEPT ![l] = "error"]
    /\ UNCHANGED status

Message(l) ==
    /\ delivered[l] < MaxMessages
    /\ Complete(l, "read", "ok") \/ Complete(l, "read", "empty")
    /\ UNCHANGED <<status, stream>>

ReadFails(l) ==
    /\ stream[l] # "open"
    /\ Complete(l, "read", "failed")
    /\ UNCHANGED <<status, stream>>

\* Finish overwrites the tag's status with the one the server has sent.
FinishDone(l) ==
    /\ stream[l] # "open"
    /\ Complete(l, "finish", "ok")
    /\ status' = [status EXCEPT ![l] = stream[l]]
    /\ UNCHANGED stream

UnaryAnswered(u) == Complete(u, "finish", "ok") /\ UNCHANGED <<status, stream>>

-----------------------------------------------------------------------------
(***************************************************************************)
(* CompleteRpc, and ProceedImpl of the tags.                               *)
(***************************************************************************)
At(from, to) == Running /\ thread = from /\ thread' = to

\* while (!shutdown_): without a look at what is left in the queue.
TestShutdown ==
    /\ At("loop", IF phase = "alive" THEN "next" ELSE "exited")
    /\ UNCHANGED <<tagVars, callVars, phase, failure>>

\* Mutant: Next is called, which has no deadline, and shutdown_ is set too late.
NextNoTimeout == FALSE

\* AsyncNext returns TIMEOUT: there was no event for a second.
NextTimeout ==
    /\ At("next", "loop")
    /\ \A x \in DOMAIN op : op[x] \notin Event
    /\ UNCHANGED <<tagVars, callVars, phase, failure>>

\* AsyncNext returns SHUTDOWN: nothing is pending any more.
NextShutdown ==
    /\ At("next", "exited")
    /\ phase = "closed"
    /\ \A x \in DOMAIN op : op[x] = "none"
    /\ UNCHANGED <<tagVars, callVars, phase, failure>>

\* AsyncNext returns the event of l, and Proceed starts another operation.
Goto(l, step, next) ==
    /\ At("next", "loop")
    /\ phase # "closed"
    /\ op[l] \in Event
    /\ step_' = [step_ EXCEPT ![l] = step]
    /\ op' = [op EXCEPT ![l] = next]
    /\ UNCHANGED <<stream, told, callVars, phase, failure>>

ProceedStart(l) ==
    /\ step_[l] = "kStart"
    /\ op[l] = "ok"
    /\ Goto(l, "kRead", "read")
    /\ UNCHANGED <<status, delivered>>

\* The callback gets the message, and the next one is read.
ProceedRead(l) ==
    /\ step_[l] = "kRead"
    /\ op[l] = "ok"
    /\ Goto(l, "kRead", "read")
    /\ delivered' = [delivered EXCEPT ![l] = @ + 1]
    /\ UNCHANGED status

Transition(l, next) ==
    /\ \/ step_[l] = "kStart" /\ op[l] = "failed"
       \/ step_[l] = "kRead" /\ op[l] \in {"failed", "empty"}
    /\ Goto(l, "kFinish", next)
    /\ status' = [status EXCEPT ![l] = IF op[l] = "failed" THEN "CANCELLED" ELSE @]
    /\ UNCHANGED delivered

\* Mutant: Finish is not called.
TransitionOnly(l) == Transition(l, "none")

TransitionToFinish(l) == Transition(l, "finish")

Suicide(l, error) ==
    /\ step_[l] = "kFinish"
    /\ op[l] = "ok"
    /\ At("next", "loop")
    /\ step_' = [step_ EXCEPT ![l] = "deleted"]
    /\ op' = [op EXCEPT ![l] = "none"]
    /\ told' = [told EXCEPT ![l] = error]
    /\ UNCHANGED <<status, stream, delivered, callVars, phase, failure>>

\* Mutant: the callback is called whatever the status is.
ProceedFinishTells(l) == Suicide(l, TRUE)

\* The callback is told of an error; delete this.
ProceedFinish(l) == Suicide(l, status[l] # "OK")

\* Proceed starts an operation on a queue that was shut down: gRPC aborts.
ProceedClosed(l) ==
    /\ At("next", "loop")
    /\ phase = "closed"
    /\ step_[l] \in {"kStart", "kRead"}
    /\ op[l] \in Event
    /\ failure' = "closed queue"
    /\ UNCHANGED <<tagVars, callVars, phase>>

\* The tag of cancel or query is still at kLaunch when the event of its Finish
\* comes, so Proceed calls Finish again: gRPC aborts.
ProceedUnary(u) ==
    /\ At("next", "loop")
    /\ op[u] = "ok"
    /\ failure' = "second Finish"
    /\ UNCHANGED <<tagVars, callVars, phase>>

Proceed(l) == \/ ProceedStart(l) \/ ProceedRead(l) \/ TransitionToFinish(l)
              \/ ProceedFinish(l) \/ ProceedClosed(l)

CompleteRpc == \/ TestShutdown \/ NextTimeout \/ NextShutdown
               \/ \E l \in Listens : Proceed(l)
               \/ \E u \in Unaries : ProceedUnary(u)

-----------------------------------------------------------------------------
(***************************************************************************)
(* The destructor.                                                         *)
(***************************************************************************)
Destructor(from, to) ==
    /\ Running
    /\ phase = from
    /\ phase' = to
    /\ UNCHANGED <<tagVars, callVars, thread, failure>>

DestroyBegin ==
    /\ \A c \in Syncs : sync[c] # "calling"
    /\ \A u \in Unaries : op[u] = "none"
    /\ Destructor("alive", "closing")

ShutdownQueue == Destructor("closing", "closed")

\* Mutant: the thread is detached.
DestroyDetached == Destructor("closed", "destroyed")

DestroyJoin == thread = "exited" /\ Destructor("closed", "destroyed")

-----------------------------------------------------------------------------
Finished == (phase = "destroyed" \/ ~Running) /\ UNCHANGED vars

Next == \/ \E l \in Listens : \/ ListenResults(l) \/ EndStream(l) \/ Started(l) \/ NotStarted(l)
                              \/ Message(l) \/ ReadFails(l) \/ FinishDone(l)
        \/ \E u \in Unaries : FinishUnary(u) \/ GetFuture(u) \/ UnaryAnswered(u)
        \/ \E s \in Submits : SubmitTaskAsync(s)
        \/ \E c \in Syncs : SyncBegin(c) \/ SyncAnswered(c) \/ SyncDeadline(c)
        \/ CompleteRpc
        \/ DestroyBegin \/ ShutdownQueue \/ DestroyJoin
        \/ Finished

Spec == Init /\ [][Next]_vars

\* The threads make progress, callbacks return, and gRPC completes
\* what the server has done.  Nobody has to call, and the server has to do
\* nothing.
Fairness ==
    /\ WF_vars(CompleteRpc)
    /\ WF_vars(ShutdownQueue \/ DestroyJoin)
    /\ \A l \in Listens : WF_vars(Started(l) \/ NotStarted(l) \/ ReadFails(l) \/ FinishDone(l))
    /\ \A u \in Unaries : WF_vars(GetFuture(u))

FairSpec == Spec /\ Fairness

-----------------------------------------------------------------------------
(***************************************************************************)
(* Properties.                                                             *)
(***************************************************************************)

\* From listen_results until it deletes itself, a tag has exactly one operation
\* or event outstanding, and a pending operation is the one that its step stands
\* for, whichever way the stream goes: no event finds a deleted tag, or a step
\* that takes it for another ("never reached", grpc_client.hpp:218), and Finish
\* is called once.
OneOperationPerTag ==
    \A l \in Listens :
        /\ step_[l] \in {"absent", "deleted"} <=> op[l] = "none"
        /\ op[l] \in Pending => <<step_[l], op[l]>> \in
              {<<"kStart", "start">>, <<"kRead", "read">>, <<"kFinish", "finish">>}

\* When the tag is gone, the callback has been told of an error if the server has
\* ended the stream with one, and only then: the CANCELLED that Proceed writes at
\* every end of a stream does not reach it.
ToldTheTruth ==
    \A l \in Listens : told[l] <=> (step_[l] = "deleted" /\ stream[l] = "error")

\* The callback of listen_results, which may refer to what the owner of the client
\* destroys next, is not called once the destructor has returned.
QuietAfterDestroy ==
    [][phase = "destroyed" => UNCHANGED <<delivered, told>>]_vars

\* A stream that ended with an error is reported, unless the client is destroyed
\* or the program fails.
ErrorIsTold ==
    \A l \in Listens : (stream[l] = "error") ~> (told[l] \/ phase # "alive" \/ ~Running)

\* The destructor returns even if streams are open that the server never ends,
\* unless Proceed starts an operation on the queue that it has shut down.
DestructorReturns == (phase = "closing") ~> (phase = "destroyed" \/ ~Running)
=============================================================================
