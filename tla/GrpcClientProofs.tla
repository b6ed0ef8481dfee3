-------------------------- MODULE GrpcClientProofs --------------------------
(***************************************************************************)
(* Proofs about GrpcClient, for any number of calls and of messages.       *)
(***************************************************************************)
EXTENDS GrpcClient, TLAPS

\* What the event of a tag tells CompleteRpc: a message was counted before it is
\* delivered, and what Finish has left in status is how the server has ended the
\* stream.
EventsTrue ==
    \A l \in Listens :
        /\ step_[l] = "kRead" /\ op[l] = "ok" => delivered[l] < MaxMessages
        /\ step_[l] = "kFinish" /\ op[l] = "ok" => stream[l] # "open" /\ status[l] = stream[l]
        /\ step_[l] = "kFinish" => op[l] \in {"finish", "ok"}
        /\ step_[l] = "deleted" => stream[l] # "open"

\* The destructor has joined the thread.
Joined == phase = "destroyed" => thread = "exited"

IInv == TypeOK /\ OneOperationPerTag /\ EventsTrue /\ ToldTheTruth /\ Joined

\* The invariant holds before the client is constructed.
LEMMA InitIInv == Init => IInv
BY ClientAssumption DEF Init, IInv, TypeOK, OneOperationPerTag, EventsTrue, ToldTheTruth, Joined,
   Pending, Event

USE DEF tagVars, callVars, Running, Pending, Event

\* What is said of the tags does not depend on anything else.
LEMMA TagsLeftAlone ==
    ASSUME OneOperationPerTag, EventsTrue, ToldTheTruth, UNCHANGED tagVars
    PROVE  OneOperationPerTag' /\ EventsTrue' /\ ToldTheTruth'
<1>1. OneOperationPerTag' BY DEF OneOperationPerTag
<1>2. EventsTrue' BY DEF EventsTrue
<1>3. ToldTheTruth' BY DEF ToldTheTruth
<1> QED BY <1>1, <1>2, <1>3

\* listen_results, and the calls that have no AsyncListenTag.
LEMMA CallersKeepIInv ==
    ASSUME IInv,
           \/ \E l \in Listens : ListenResults(l)
           \/ \E u \in Unaries : FinishUnary(u) \/ GetFuture(u)
           \/ \E s \in Submits : SubmitTaskAsync(s)
           \/ \E c \in Syncs : SyncBegin(c) \/ SyncAnswered(c) \/ SyncDeadline(c)
    PROVE  IInv'
<1> USE DEF Calling, IInv
<1>1. ASSUME NEW l \in Listens, ListenResults(l) PROVE IInv'
  <2>1. TypeOK' BY <1>1 DEF ListenResults, TypeOK
  <2>2. OneOperationPerTag' /\ EventsTrue' /\ ToldTheTruth' /\ Joined'
    BY <1>1, <2>1 DEF ListenResults, TypeOK, OneOperationPerTag, EventsTrue, ToldTheTruth, Joined
  <2> QED BY <2>1, <2>2
<1>2. ASSUME NEW u \in Unaries, FinishUnary(u) PROVE IInv'
  <2>1. TypeOK' BY <1>2 DEF FinishUnary, TypeOK
  <2>2. \A l \in Listens : op'[l] = op[l]
    BY <1>2, ClientAssumption DEF FinishUnary, TypeOK
  <2> QED BY <1>2, <2>1, <2>2 DEF FinishUnary, OneOperationPerTag, EventsTrue, ToldTheTruth, Joined
<1>3. ASSUME NEW u \in Unaries, GetFuture(u) PROVE IInv'
  BY <1>3, TagsLeftAlone DEF GetFuture, TypeOK, Joined
<1>4. ASSUME NEW s \in Submits, SubmitTaskAsync(s) PROVE IInv'
  BY <1>4, TagsLeftAlone DEF SubmitTaskAsync, TypeOK, Joined
<1>5. ASSUME NEW c \in Syncs, SyncBegin(c) \/ SyncAnswered(c) \/ SyncDeadline(c) PROVE IInv'
  <2>1. PICK from, to \in {"idle", "calling", "returned", "thrown"} : Sync(c, from, to)
    BY <1>5 DEF SyncBegin, SyncAnswered, SyncDeadline
  <2> QED BY <2>1, TagsLeftAlone DEF Sync, TypeOK, Joined
<1> QED BY <1>1, <1>2, <1>3, <1>4, <1>5

\* gRPC and the server.
LEMMA GrpcKeepsIInv ==
    ASSUME IInv,
           \/ \E l \in Listens : \/ EndStream(l) \/ Started(l) \/ NotStarted(l)
                                 \/ Message(l) \/ ReadFails(l) \/ FinishDone(l)
           \/ \E u \in Unaries : UnaryAnswered(u)
    PROVE  IInv'
<1> USE DEF IInv
<1>1. ASSUME NEW l \in Listens, EndStream(l) PROVE IInv'
  <2>1. TypeOK' BY <1>1 DEF EndStream, TypeOK
  <2> QED BY <1>1, <2>1 DEF EndStream, TypeOK, OneOperationPerTag, EventsTrue,
             ToldTheTruth, Joined
<1>2. ASSUME NEW l \in Listens, Started(l) PROVE IInv'
  <2>1. TypeOK' BY <1>2 DEF Started, Complete, TypeOK
  <2> QED BY <1>2, <2>1 DEF Started, Complete, TypeOK, OneOperationPerTag, EventsTrue,
             ToldTheTruth, Joined
<1>3. ASSUME NEW l \in Listens, NotStarted(l) PROVE IInv'
  <2>1. TypeOK' BY <1>3 DEF NotStarted, Complete, TypeOK
  <2> QED BY <1>3, <2>1 DEF NotStarted, Complete, TypeOK, OneOperationPerTag, EventsTrue,
             ToldTheTruth, Joined
<1>4. ASSUME NEW l \in Listens, Message(l) PROVE IInv'
  <2>1. PICK event \in {"ok", "empty"} : Complete(l, "read", event)
    BY <1>4 DEF Message
  <2>2. TypeOK' BY <1>4, <2>1 DEF Message, Complete, TypeOK
  <2> QED BY <1>4, <2>1, <2>2 DEF Message, Complete, TypeOK, OneOperationPerTag, EventsTrue,
             ToldTheTruth, Joined
<1>5. ASSUME NEW l \in Listens, ReadFails(l) PROVE IInv'
  <2>1. TypeOK' BY <1>5 DEF ReadFails, Complete, TypeOK
  <2> QED BY <1>5, <2>1 DEF ReadFails, Complete, TypeOK, OneOperationPerTag, EventsTrue,
             ToldTheTruth, Joined
<1>6. ASSUME NEW l \in Listens, FinishDone(l) PROVE IInv'
  <2>1. TypeOK' BY <1>6 DEF FinishDone, Complete, TypeOK
  <2> QED BY <1>6, <2>1 DEF FinishDone, Complete, TypeOK, OneOperationPerTag, EventsTrue,
             ToldTheTruth, Joined
<1>7. ASSUME NEW u \in Unaries, UnaryAnswered(u) PROVE IInv'
  <2>1. TypeOK' BY <1>7 DEF UnaryAnswered, Complete, TypeOK
  <2>2. \A l \in Listens : op'[l] = op[l]
    BY <1>7, ClientAssumption DEF UnaryAnswered, Complete, TypeOK
  <2> QED BY <1>7, <2>1, <2>2 DEF UnaryAnswered, Complete, OneOperationPerTag, EventsTrue,
             ToldTheTruth, Joined
<1> QED BY <1>1, <1>2, <1>3, <1>4, <1>5, <1>6, <1>7

\* CompleteRpc.
LEMMA ThreadKeepsIInv == ASSUME IInv, CompleteRpc PROVE IInv'
<1> USE DEF IInv, At
<1>1. CASE TestShutdown \/ NextTimeout \/ NextShutdown
  <2>1. UNCHANGED <<tagVars, callVars, phase, failure>> /\ thread' \in {"loop", "next", "exited"}
    BY <1>1 DEF TestShutdown, NextTimeout, NextShutdown
  <2>2. Joined' BY <1>1, <2>1 DEF TestShutdown, NextTimeout, NextShutdown, Joined
  <2> QED BY <2>1, <2>2, TagsLeftAlone DEF TypeOK
<1>2. ASSUME NEW l \in Listens, ProceedStart(l) PROVE IInv'
  <2>1. TypeOK' BY <1>2 DEF ProceedStart, Goto, TypeOK
  <2> QED BY <1>2, <2>1 DEF ProceedStart, Goto, TypeOK, OneOperationPerTag, EventsTrue,
             ToldTheTruth, Joined
<1>3. ASSUME NEW l \in Listens, ProceedRead(l) PROVE IInv'
  <2>1. delivered[l] < MaxMessages BY <1>3 DEF ProceedRead, EventsTrue
  <2>2. TypeOK' BY <1>3, <2>1, ClientAssumption DEF ProceedRead, Goto, TypeOK
  <2> QED BY <1>3, <2>2 DEF ProceedRead, Goto, TypeOK, OneOperationPerTag, EventsTrue, ToldTheTruth,
             Joined
<1>4. ASSUME NEW l \in Listens, TransitionToFinish(l) PROVE IInv'
  <2>1. TypeOK' BY <1>4 DEF TransitionToFinish, Transition, Goto, TypeOK
  <2> QED BY <1>4, <2>1 DEF TransitionToFinish, Transition, Goto, TypeOK, OneOperationPerTag,
             EventsTrue, ToldTheTruth, Joined
<1>5. ASSUME NEW l \in Listens, ProceedFinish(l) PROVE IInv'
  <2>1. stream[l] # "open" /\ status[l] = stream[l] BY <1>5 DEF ProceedFinish, Suicide, EventsTrue
  <2>2. TypeOK' /\ OneOperationPerTag' /\ EventsTrue' /\ Joined'
    BY <1>5, <2>1 DEF ProceedFinish, Suicide, TypeOK, OneOperationPerTag, EventsTrue, Joined
  <2>3. ASSUME NEW m \in Listens
        PROVE  told'[m] <=> (step_'[m] = "deleted" /\ stream'[m] = "error")
    <3>1. CASE m = l
      <4>1. told'[l] = (status[l] # "OK") /\ step_'[l] = "deleted" /\ stream' = stream
        BY <1>5 DEF ProceedFinish, Suicide, TypeOK
      <4>2. stream[l] = "error" <=> status[l] # "OK" BY <2>1 DEF TypeOK
      <4> QED BY <3>1, <4>1, <4>2
    <3>2. CASE m # l
      <4>1. told'[m] = told[m] /\ step_'[m] = step_[m] /\ stream' = stream
        BY <1>5, <3>2 DEF ProceedFinish, Suicide, TypeOK
      <4> QED BY <4>1 DEF ToldTheTruth
    <3> QED BY <3>1, <3>2
  <2> QED BY <2>2, <2>3 DEF ToldTheTruth
<1>6. ASSUME NEW l \in Listens, ProceedClosed(l) PROVE IInv'
  <2>1. TypeOK' BY <1>6 DEF ProceedClosed, TypeOK
  <2> QED BY <1>6, <2>1 DEF ProceedClosed, TypeOK, OneOperationPerTag, EventsTrue,
             ToldTheTruth, Joined
<1>7. ASSUME NEW u \in Unaries, ProceedUnary(u) PROVE IInv'
  <2>1. TypeOK' BY <1>7 DEF ProceedUnary, TypeOK
  <2> QED BY <1>7, <2>1 DEF ProceedUnary, TypeOK, OneOperationPerTag, EventsTrue,
             ToldTheTruth, Joined
<1> QED BY <1>1, <1>2, <1>3, <1>4, <1>5, <1>6, <1>7 DEF CompleteRpc, Proceed

\* The destructor, and steps that change nothing.
LEMMA RestKeepsIInv ==
    ASSUME IInv, DestroyBegin \/ ShutdownQueue \/ DestroyJoin \/ Finished \/ UNCHANGED vars
    PROVE  IInv'
<1> USE DEF IInv
<1>1. CASE DestroyBegin \/ ShutdownQueue \/ DestroyJoin
  <2>1. /\ UNCHANGED <<tagVars, callVars, thread, failure>>
        /\ phase' \in {"closing", "closed", "destroyed"}
    BY <1>1 DEF DestroyBegin, ShutdownQueue, DestroyJoin, Destructor
  <2>2. Joined' BY <1>1 DEF DestroyBegin, ShutdownQueue, DestroyJoin, Destructor, Joined
  <2> QED BY <2>1, <2>2, TagsLeftAlone DEF TypeOK
<1>2. CASE Finished \/ UNCHANGED vars
  <2>1. UNCHANGED vars BY <1>2 DEF Finished
  <2> QED BY <2>1, TagsLeftAlone DEF vars, TypeOK, Joined
<1> QED BY <1>1, <1>2

\* What the client, its completion-queue thread and gRPC know of each tag agrees in
\* every reachable state of AsyncClient.
THEOREM ClientInvariant == Spec => []IInv
<1>1. ASSUME IInv, [Next]_vars PROVE IInv'
  BY <1>1, CallersKeepIInv, GrpcKeepsIInv, ThreadKeepsIInv, RestKeepsIInv DEF Next
<1> QED BY <1>1, InitIInv, PTL DEF Spec

\* Type correctness.
THEOREM TypeCorrect == Spec => []TypeOK
BY ClientInvariant, PTL DEF IInv

\* Each AsyncListenTag has exactly one operation or event outstanding from
\* listen_results until it deletes itself.
THEOREM TagsHaveOneOperation == Spec => []OneOperationPerTag
BY ClientInvariant, PTL DEF IInv

\* The callback of listen_results is told of an error exactly if the server has
\* ended the stream with one.
THEOREM CallbackToldTheTruth == Spec => []ToldTheTruth
BY ClientInvariant, PTL DEF IInv

\* No callback is called once the destructor of the client has returned.
THEOREM NoCallbackAfterDestroy == Spec => QuietAfterDestroy
<1>1. ASSUME IInv, [Next]_vars PROVE [phase = "destroyed" => UNCHANGED <<delivered, told>>]_vars
  <2> SUFFICES ASSUME phase = "destroyed", Next PROVE UNCHANGED <<delivered, told>>
    BY <1>1
  <2>1. thread = "exited" BY <1>1 DEF IInv, Joined
  <2>2. ~CompleteRpc
    BY <2>1 DEF CompleteRpc, At, TestShutdown, NextTimeout, NextShutdown, Proceed, ProceedStart,
       ProceedRead, TransitionToFinish, Transition, Goto, ProceedFinish, Suicide, ProceedClosed,
       ProceedUnary
  <2> QED BY <2>2 DEF Next, ListenResults, EndStream, Started, NotStarted, Message, ReadFails,
             FinishDone, Complete, FinishUnary, GetFuture, UnaryAnswered, SubmitTaskAsync,
             SyncBegin, SyncAnswered, SyncDeadline, Sync, DestroyBegin, ShutdownQueue, DestroyJoin,
             Destructor, Finished, vars
<1> QED BY <1>1, ClientInvariant, PTL DEF Spec, QuietAfterDestroy
=============================================================================
