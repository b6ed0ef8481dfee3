---------------------------- MODULE AsyncServer -----------------------------
(***************************************************************************)
(* dts::AsyncServer and its AsyncCallContext objects (api-server), with    *)
(* the main function and signal handler of the server program, over the    *)
(* part of gRPC they use (external: a request is registered on a           *)
(* completion queue, an arriving call is matched with one, each operation  *)
(* yields one event, Finish fails if the call is dead, shutting the server *)
(* down fails the registered requests and waits for the calls in progress, *)
(* a queue that is shut down delivers what is pending and then ends).      *)
(*                                                                         *)
(* Who acts: one thread per completion queue, the main thread, and the     *)
(* clients.  A signal is handled by one of the threads.                    *)
(***************************************************************************)
EXTENDS Integers, FiniteSets

CONSTANTS
    CqCount,        \* completion queues, and threads that drive them
    Initial,        \* contexts created by Run
    Calls,          \* SubmitTask calls of the clients
    MayDie,         \* calls the client may abandon (cancel, deadline)
    SignalThreads   \* the threads the signal may be delivered to

Cqs == 0..(CqCount - 1)
Main == CqCount
Threads == Cqs \cup {Main}

\* Bound: a context is replaced at most once for every call.
Contexts == 0..(Initial + Cardinality(Calls) - 1)

ASSUME ServerAssumption ==
    /\ CqCount \in Nat \ {0}
    /\ Initial \in Nat
    /\ IsFiniteSet(Calls)
    /\ "none" \notin Calls
    /\ MayDie \subseteq Calls
    /\ SignalThreads \subseteq Threads

VARIABLES
    status_,      \* status_ of each context, or "unborn", "deleted"
    cq_,          \* the queue of each context
    op,           \* the operation pending for a context, or its event
    serves,       \* the call a context was matched with
    call,         \* what became of each call
    server,       \* the grpc::Server
    cq_open,      \* the queues that were not shut down
    thread,       \* DriveCompletionQueue on each queue
    main,         \* main()
    closing,      \* where a thread is in AsyncServer::Shutdown
    g_shutdown,
    failure       \* how the program went wrong

contextVars == <<status_, cq_, op, serves>>
vars == <<contextVars, call, server, cq_open, thread, main, closing, g_shutdown, failure>>

NoCall == "none"
Live(c) == status_[c] \in {"CREATE", "FINISH"}
InProgress(c) == Live(c) /\ serves[c] # NoCall
Running == failure = "none"

TypeOK ==
    /\ status_ \in [Contexts -> {"unborn", "CREATE", "FINISH", "deleted"}]
    /\ cq_ \in [Contexts -> Cqs]
    /\ op \in [Contexts -> {"none", "requested", "finishing", "ok", "failed"}]
    /\ serves \in [Contexts -> Calls \cup {NoCall}]
    /\ call \in [Calls -> {"new", "waiting", "matched", "answered", "dead", "refused"}]
    /\ server \in {"absent", "running", "closed"}
    /\ cq_open \in BOOLEAN
    /\ thread \in [Cqs -> {"absent", "next", "rearm", "exited"}]
    /\ main \in {"start", "created", "run", "loop", "last", "destroy", "exited"}
    /\ closing \in [Threads -> {"out", "server", "calls", "queues", "join"}]
    /\ g_shutdown \in BOOLEAN
    /\ failure \in {"none", "null server", "closed queue", "self join"}

Init ==
    /\ status_ = [c \in Contexts |-> "unborn"]
    /\ cq_ = [c \in Contexts |-> 0]
    /\ op = [c \in Contexts |-> "none"]
    /\ serves = [c \in Contexts |-> NoCall]
    /\ call = [k \in Calls |-> "new"]
    /\ server = "absent"
    /\ cq_open = TRUE
    /\ thread = [q \in Cqs |-> "absent"]
    /\ main = "start"
    /\ closing = [s \in Threads |-> "out"]
    /\ g_shutdown = FALSE
    /\ failure = "none"

-----------------------------------------------------------------------------
(***************************************************************************)
(* The start: main creates the AsyncServer and calls Run.  A signal that    *)
(* main handles comes between two of these steps.                          *)
(***************************************************************************)
ToCreate == {c \in 0..(Initial - 1) : status_[c] = "unborn"}

At(pc) == Running /\ main = pc /\ closing[Main] = "out"

CreateServer ==
    /\ At("start")
    /\ main' = "created"
    /\ UNCHANGED <<contextVars, call, server, cq_open, thread, closing, g_shutdown, failure>>

\* server_ stays null if gRPC cannot start the server.
BuildAndStart ==
    /\ At("created")
    /\ main' = "run"
    /\ server' \in {"running", "absent"}
    /\ UNCHANGED <<contextVars, call, cq_open, thread, closing, g_shutdown, failure>>

\* new AsyncCallContext, whose constructor registers a request.
NewContext(c, q) ==
    /\ cq_open
    /\ server # "absent"
    /\ status_' = [status_ EXCEPT ![c] = "CREATE"]
    /\ cq_' = [cq_ EXCEPT ![c] = q]
    /\ op' = [op EXCEPT ![c] = IF server = "running" THEN "requested" ELSE "failed"]

\* Contexts are created round robin.
CreateContext(c) ==
    /\ At("run")
    /\ c \in ToCreate
    /\ \A d \in ToCreate : c <= d
    /\ NewContext(c, c % CqCount)
    /\ UNCHANGED <<serves, call, server, cq_open, thread, main, closing, g_shutdown, failure>>

\* The request is registered with no server, or on a queue that was shut down,
\* which gRPC forbids.
CreateContextFails ==
    /\ At("run")
    /\ ToCreate # {}
    /\ \/ server = "absent" /\ failure' = "null server"
       \/ server # "absent" /\ ~cq_open /\ failure' = "closed queue"
    /\ UNCHANGED <<contextVars, call, server, cq_open, thread, main, closing, g_shutdown>>

\* The queues' threads are started in their order.  (Events before that wait.)
StartThread(q) ==
    /\ At("run")
    /\ ToCreate = {}
    /\ thread[q] = "absent"
    /\ \A p \in Cqs : p < q => thread[p] # "absent"
    /\ thread' = [thread EXCEPT ![q] = "next"]
    /\ UNCHANGED <<contextVars, call, server, cq_open, main, closing, g_shutdown, failure>>

RunReturns ==
    /\ At("run")
    /\ ToCreate = {}
    /\ \A q \in Cqs : thread[q] # "absent"
    /\ main' = "loop"
    /\ UNCHANGED <<contextVars, call, server, cq_open, thread, closing, g_shutdown, failure>>

Run == \/ CreateServer \/ BuildAndStart \/ CreateContextFails \/ RunReturns
       \/ \E c \in Contexts : CreateContext(c)
       \/ \E q \in Cqs : StartThread(q)

-----------------------------------------------------------------------------
(***************************************************************************)
(* gRPC and the clients (external).                                        *)
(***************************************************************************)
grpcLeaves == <<status_, cq_, server, cq_open, thread, main, closing, g_shutdown, failure>>

Arrive(k) ==
    /\ Running
    /\ server = "running"
    /\ call[k] = "new"
    /\ call' = [call EXCEPT ![k] = "waiting"]
    /\ UNCHANGED <<op, serves, grpcLeaves>>

Match(k, c) ==
    /\ Running
    /\ server = "running"
    /\ call[k] = "waiting"
    /\ op[c] = "requested"
    /\ call' = [call EXCEPT ![k] = "matched"]
    /\ op' = [op EXCEPT ![c] = "ok"]
    /\ serves' = [serves EXCEPT ![c] = k]
    /\ UNCHANGED grpcLeaves

FinishSent(c) ==
    /\ Running
    /\ op[c] = "finishing"
    /\ call' = [call EXCEPT ![serves[c]] = "answered"]
    /\ op' = [op EXCEPT ![c] = "ok"]
    /\ UNCHANGED <<serves, grpcLeaves>>

\* The call is dead, so Finish does not reach the wire.
FinishDead(c) ==
    /\ Running
    /\ op[c] = "finishing"
    /\ serves[c] \in MayDie
    /\ call' = [call EXCEPT ![serves[c]] = "dead"]
    /\ op' = [op EXCEPT ![c] = "failed"]
    /\ UNCHANGED <<serves, grpcLeaves>>

Grpc == \/ \E c \in Contexts : FinishSent(c) \/ FinishDead(c)
        \/ \E k \in Calls, c \in Contexts : Match(k, c)

-----------------------------------------------------------------------------
(***************************************************************************)
(* DriveCompletionQueue and AsyncCallContext::Proceed.                     *)
(***************************************************************************)
Drives(q, c) == /\ Running
                /\ thread[q] = "next"
                /\ closing[q] = "out"
                /\ cq_[c] = q

driverLeaves == <<cq_, serves, call, server, cq_open, main, closing, g_shutdown, failure>>

Abandon(q, c, st) ==
    /\ Drives(q, c)
    /\ op[c] = "failed"
    /\ status_' = [status_ EXCEPT ![c] = st]
    /\ op' = [op EXCEPT ![c] = "none"]
    /\ UNCHANGED <<thread, driverLeaves>>

\* Mutant: the context is not deleted.
ProceedFailedLeaks(q, c) == Abandon(q, c, status_[c])

\* Proceed(false).
ProceedFailed(q, c) == Abandon(q, c, "deleted")

Answer(q, c, st) ==
    /\ Drives(q, c)
    /\ op[c] = "ok"
    /\ status_[c] = "CREATE"
    /\ status_' = [status_ EXCEPT ![c] = st]
    /\ op' = [op EXCEPT ![c] = "finishing"]
    /\ UNCHANGED <<thread, driverLeaves>>

\* Mutant: status_ is not advanced, so the next event answers the call again.
ProceedCreateAgain(q, c) == Answer(q, c, "CREATE")

\* CREATE: OnSubmitTask, then Finish.
ProceedCreate(q, c) == Answer(q, c, "FINISH")

Retire(q, c, then) ==
    /\ Drives(q, c)
    /\ op[c] = "ok"
    /\ status_[c] = "FINISH"
    /\ status_' = [status_ EXCEPT ![c] = "deleted"]
    /\ op' = [op EXCEPT ![c] = "none"]
    /\ thread' = [thread EXCEPT ![q] = then]
    /\ UNCHANGED driverLeaves

\* Mutant: no new context replaces the deleted one.
ProceedFinishOnly(q, c) == Retire(q, c, "next")

\* FINISH: delete this, ...
ProceedFinish(q, c) == Retire(q, c, "rearm")

\* ... then a new AsyncCallContext takes its place.
Rearm(q) ==
    /\ Running
    /\ thread[q] = "rearm"
    /\ closing[q] = "out"
    /\ \E x \in Contexts : status_[x] = "unborn"
    /\ NewContext(CHOOSE x \in Contexts : status_[x] = "unborn", q)
    /\ thread' = [thread EXCEPT ![q] = "next"]
    /\ UNCHANGED <<serves, call, server, cq_open, main, closing, g_shutdown, failure>>

\* As in CreateContextFails.
RearmClosed(q) ==
    /\ Running
    /\ thread[q] = "rearm"
    /\ closing[q] = "out"
    /\ ~cq_open
    /\ failure' = "closed queue"
    /\ UNCHANGED <<contextVars, call, server, cq_open, thread, main, closing, g_shutdown>>

\* Next returns false when the queue was shut down and nothing is pending.
DriverExits(q) ==
    /\ Running
    /\ thread[q] = "next"
    /\ closing[q] = "out"
    /\ ~cq_open
    /\ \A c \in Contexts : cq_[c] = q => op[c] = "none"
    /\ thread' = [thread EXCEPT ![q] = "exited"]
    /\ UNCHANGED <<contextVars, call, server, cq_open, main, closing, g_shutdown, failure>>

Driver(q) == \/ \E c \in Contexts : ProceedFailed(q, c) \/ ProceedCreate(q, c) \/ ProceedFinish(q, c)
             \/ Rearm(q) \/ RearmClosed(q) \/ DriverExits(q)

-----------------------------------------------------------------------------
(***************************************************************************)
(* The signal handler, main, and AsyncServer::Shutdown, which both call.   *)
(***************************************************************************)

\* The handler runs on thread s; it calls Shutdown if g_server exists already.
Signal(s) ==
    /\ Running
    /\ ~g_shutdown
    /\ main \in {"start", "created", "run", "loop"}
    /\ s \in Cqs => thread[s] \in {"next", "rearm"}
    /\ g_shutdown' = TRUE
    /\ closing' = [closing EXCEPT ![s] = IF main = "start" THEN "out" ELSE "server"]
    /\ UNCHANGED <<contextVars, call, server, cq_open, thread, main, failure>>

Goto(s, from, to) == /\ Running
                     /\ closing[s] = from
                     /\ closing' = [closing EXCEPT ![s] = to]

\* server_ is null.
NullServer(s) ==
    /\ Running
    /\ closing[s] = "server"
    /\ server = "absent"
    /\ failure' = "null server"
    /\ UNCHANGED <<contextVars, call, server, cq_open, thread, main, closing, g_shutdown>>

\* server_->Shutdown(): no call is accepted any more, requests fail, ...
CloseServer(s) ==
    /\ Goto(s, "server", "calls")
    /\ server # "absent"
    /\ server' = "closed"
    /\ op' = [c \in Contexts |-> IF op[c] = "requested" THEN "failed" ELSE op[c]]
    /\ call' = [k \in Calls |-> IF call[k] = "waiting" THEN "refused" ELSE call[k]]
    /\ UNCHANGED <<status_, cq_, serves, cq_open, thread, main, g_shutdown, failure>>

\* ... and the calls in progress are awaited.
AwaitCalls(s) ==
    /\ Goto(s, "calls", "queues")
    /\ \A c \in Contexts : ~InProgress(c)
    /\ UNCHANGED <<contextVars, call, server, cq_open, thread, main, g_shutdown, failure>>

Close(s, isOpen) ==
    /\ Goto(s, "queues", "join")
    /\ cq_open' = isOpen
    /\ UNCHANGED <<contextVars, call, server, thread, main, g_shutdown, failure>>

\* Mutant: the queues are not shut down.
CloseNoQueue(s) == Close(s, TRUE)

CloseQueues(s) == Close(s, FALSE)

\* The threads that were started are joined.
JoinWhen(s, exited) ==
    /\ Goto(s, "join", "out")
    /\ s = Main
    /\ exited
    /\ UNCHANGED <<contextVars, call, server, cq_open, thread, main, g_shutdown, failure>>

\* Mutant: the threads are not awaited.
JoinNobody(s) == JoinWhen(s, TRUE)

Join(s) == JoinWhen(s, \A q \in Cqs : thread[q] \in {"absent", "exited"})

\* A thread cannot join itself: std::system_error leaves the handler.
JoinSelf(s) ==
    /\ Running
    /\ s \in Cqs
    /\ closing[s] = "join"
    /\ \A q \in Cqs : q < s => thread[q] = "exited"
    /\ failure' = "self join"
    /\ UNCHANGED <<contextVars, call, server, cq_open, thread, main, closing, g_shutdown>>

\* A thread that runs while Run is still in the emplace_back that started it may not
\* find itself in cq_threads_: the handler returns.
JoinUnlisted(s) ==
    /\ s \in Cqs
    /\ Goto(s, "join", "out")
    /\ main = "run"
    /\ \A q \in Cqs : q < s => thread[q] = "exited"
    /\ \A q \in Cqs : q > s => thread[q] = "absent"
    /\ UNCHANGED <<contextVars, call, server, cq_open, thread, main, g_shutdown, failure>>

\* The loop in main ends, and main calls Shutdown (again).
MainShutdown ==
    /\ At("loop")
    /\ g_shutdown
    /\ main' = "last"
    /\ closing' = [closing EXCEPT ![Main] = "server"]
    /\ UNCHANGED <<contextVars, call, server, cq_open, thread, g_shutdown, failure>>

\* After main, ~AsyncServer of the static g_server calls Shutdown once more.
MainReturns ==
    /\ At("last")
    /\ main' = "destroy"
    /\ closing' = [closing EXCEPT ![Main] = "server"]
    /\ UNCHANGED <<contextVars, call, server, cq_open, thread, g_shutdown, failure>>

MainExits ==
    /\ At("destroy")
    /\ main' = "exited"
    /\ UNCHANGED <<contextVars, call, server, cq_open, thread, closing, g_shutdown, failure>>

MainEnds == MainShutdown \/ MainReturns \/ MainExits

Shutdown(s) == \/ NullServer(s) \/ CloseServer(s) \/ AwaitCalls(s) \/ CloseQueues(s)
               \/ Join(s) \/ JoinSelf(s) \/ JoinUnlisted(s)

Finished == (main = "exited" \/ ~Running) /\ UNCHANGED vars

Next == \/ Run
        \/ \E k \in Calls : Arrive(k)
        \/ Grpc
        \/ \E q \in Cqs : Driver(q)
        \/ \E s \in SignalThreads : Signal(s)
        \/ \E s \in Threads : Shutdown(s)
        \/ MainEnds
        \/ Finished

Spec == Init /\ [][Next]_vars

\* Threads make progress; gRPC matches calls and completes operations.  Clients
\* need not call, and no signal needs to be sent.
Fairness ==
    /\ WF_vars(Run)
    /\ WF_vars(Grpc)
    /\ \A q \in Cqs : WF_vars(Driver(q))
    /\ \A s \in Threads : WF_vars(Shutdown(s))
    /\ WF_vars(MainEnds)

FairSpec == Spec /\ Fairness

-----------------------------------------------------------------------------
(***************************************************************************)
(* Properties.                                                             *)
(***************************************************************************)

\* Every context has exactly one operation or event outstanding as long as it
\* lives, and none once it deleted itself: no event has a dangling tag and no
\* context is forgotten.
OneOperationPerContext ==
    \A c \in Contexts : Live(c) <=> op[c] # "none"

\* A call is matched with one context, which answers it once: Finish is called
\* only while its call awaits an answer.
AnsweredOnce ==
    \A c \in Contexts : op[c] = "finishing" => call[serves[c]] = "matched"

\* While the server runs, Proceed keeps up the number of contexts that Run creates,
\* except for those whose Finish failed: each of them is gone for good.
ContextsAccounted ==
    server = "running" =>
        Cardinality({c \in Contexts : Live(c)}) + Cardinality({q \in Cqs : thread[q] = "rearm"})
          = Initial - Cardinality(ToCreate)
                    - Cardinality({c \in Contexts : /\ status_[c] = "deleted"
                                                    /\ call[serves[c]] = "dead"})

\* After a clean exit no thread runs and all contexts have deleted themselves.
CleanExitLeavesNothing ==
    main = "exited" =>
        /\ \A q \in Cqs : thread[q] = "exited"
        /\ \A c \in Contexts : ~Live(c)

\* A client that waits for its answer gets it ("a new object is registered at
\* once, lest the CQ starve", api_server.hpp:59), unless the server is told to
\* stop, or as many clients have given up during their Finish as Run created
\* contexts.
WaitingCallAnswered ==
    LET Starved == Cardinality({k \in Calls : call[k] = "dead"}) >= Initial
    IN  \A k \in Calls \ MayDie :
            (call[k] = "waiting") ~> (call[k] = "answered" \/ g_shutdown \/ Starved)

\* main handles the signal inside Run, and a call was matched on a queue whose
\* thread Run has not started: server_->Shutdown() waits for that call.
StuckInRun ==
    /\ main = "run"
    /\ closing[Main] = "calls"
    /\ \E c \in Contexts : InProgress(c) /\ thread[cq_[c]] = "absent"

\* Unless a queue's thread handles it, a signal ends the program at any time: the
\* Shutdown of the handler, of main and of ~AsyncServer return, or a failure ends it
\* before.  The one exception is a Run that never returns.
SignalEndsProgram ==
    (g_shutdown /\ \A q \in Cqs : closing[q] = "out")
        ~> (main = "exited" \/ ~Running \/ StuckInRun)
=============================================================================
