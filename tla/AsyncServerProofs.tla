------------------------- MODULE AsyncServerProofs --------------------------
(***************************************************************************)
(* Proofs about AsyncServer, for any number of completion queues, initial  *)
(* contexts and calls, and for a signal on any thread.                     *)
(***************************************************************************)
EXTENDS AsyncServer, FiniteSetTheorems, TLAPS

-----------------------------------------------------------------------------
(***************************************************************************)
(* Types, and one operation per context.                                   *)
(***************************************************************************)
\* What the constants are assumed to be.
LEMMA ConstantFacts ==
    /\ 0 \in Cqs
    /\ \A c \in Contexts : c % CqCount \in Cqs
    /\ Cqs \subseteq Threads /\ Main \in Threads /\ Main \notin Cqs
    /\ SignalThreads \subseteq Threads
BY ServerAssumption DEF Cqs, Main, Threads, Contexts

\* The new context c registers a request on q, which fails once the server was shut
\* down.
Creates(q, c, o) ==
    /\ status_[c] = "unborn"
    /\ status_' = [status_ EXCEPT ![c] = "CREATE"]
    /\ cq_' = [cq_ EXCEPT ![c] = q]
    /\ op' = [op EXCEPT ![c] = o]
    /\ server # "closed" => o = "requested"

\* A new AsyncCallContext is the only context that changes.
LEMMA NewContextCreates ==
    ASSUME TypeOK, NEW q \in Cqs, NEW c \in Contexts, status_[c] = "unborn", NewContext(c, q)
    PROVE  \E o \in {"requested", "failed"} : Creates(q, c, o)
<1> DEFINE o == IF server = "running" THEN "requested" ELSE "failed"
<1>1. o \in {"requested", "failed"} /\ (server # "closed" => o = "requested")
  BY DEF NewContext, TypeOK
<1>2. /\ status_' = [status_ EXCEPT ![c] = "CREATE"]
      /\ cq_' = [cq_ EXCEPT ![c] = q]
      /\ op' = [op EXCEPT ![c] = o]
  BY DEF NewContext
<1> HIDE DEF o
<1> QED BY <1>1, <1>2 DEF Creates

\* So it is in Proceed, ...
LEMMA RearmCreates ==
    ASSUME TypeOK, NEW q \in Cqs, Rearm(q)
    PROVE  \E c \in Contexts, o \in {"requested", "failed"} : Creates(q, c, o)
<1> DEFINE c == CHOOSE x \in Contexts : status_[x] = "unborn"
<1>1. c \in Contexts /\ status_[c] = "unborn" BY DEF Rearm
<1>2. NewContext(c, q) BY DEF Rearm
<1> HIDE DEF c
<1> QED BY <1>1, <1>2, NewContextCreates

\* ... and in Run.
LEMMA RunCreates ==
    ASSUME TypeOK, NEW c \in Contexts, CreateContext(c)
    PROVE  /\ c \in ToCreate
           /\ c % CqCount \in Cqs
           /\ \E o \in {"requested", "failed"} : Creates(c % CqCount, c, o)
           /\ UNCHANGED <<serves, call, server, cq_open, thread, main, closing, g_shutdown, failure>>
<1>1. c \in ToCreate /\ NewContext(c, c % CqCount) BY DEF CreateContext
<1>2. c % CqCount \in Cqs BY ConstantFacts
<1>3. status_[c] = "unborn" BY <1>1 DEF ToCreate
<1>4. \E o \in {"requested", "failed"} : Creates(c % CqCount, c, o)
  BY <1>1, <1>2, <1>3, NewContextCreates
<1> QED BY <1>1, <1>2, <1>4 DEF CreateContext

\* The other steps of Run change no context.
LEMMA RunElsewhere ==
    ASSUME \/ CreateServer \/ BuildAndStart \/ CreateContextFails \/ RunReturns
           \/ \E q \in Cqs : StartThread(q)
    PROVE  UNCHANGED <<contextVars, call, cq_open, closing, g_shutdown>>
BY DEF CreateServer, BuildAndStart, CreateContextFails, RunReturns, StartThread

\* The inductive invariant of the tags.
Tags == TypeOK /\ OneOperationPerContext

\* The tags are in order when the server starts.
LEMMA TagsInit == Init => Tags
<1> SUFFICES ASSUME Init PROVE TypeOK /\ OneOperationPerContext
  BY DEF Tags
<1>1. TypeOK BY ConstantFacts DEF Init, TypeOK
<1>2. OneOperationPerContext BY DEF Init, OneOperationPerContext, Live
<1> QED BY <1>1, <1>2

\* A step that leaves all contexts but c alone.
LEMMA OneContextChanges ==
    ASSUME Tags, NEW c \in Contexts, NEW st, NEW o,
           status_' = [status_ EXCEPT ![c] = st],
           op' = [op EXCEPT ![c] = o],
           \/ st \in {"CREATE", "FINISH"} /\ o # "none"
           \/ st = "deleted" /\ o = "none"
    PROVE  OneOperationPerContext'
<1> SUFFICES ASSUME NEW d \in Contexts PROVE Live(d)' <=> op'[d] # "none"
  BY DEF OneOperationPerContext
<1>1. DOMAIN status_ = Contexts /\ DOMAIN op = Contexts BY DEF Tags, TypeOK
<1>2. CASE d = c
  <2>1. status_'[d] = st /\ op'[d] = o BY <1>1, <1>2
  <2> QED BY <2>1 DEF Live
<1>3. CASE d # c
  <2>1. status_'[d] = status_[d] /\ op'[d] = op[d] BY <1>1, <1>3
  <2> QED BY <2>1 DEF Tags, OneOperationPerContext, Live
<1> QED BY <1>2, <1>3

\* A context is created on q.
LEMMA TagsCreate ==
    ASSUME Tags, NEW q \in Cqs, NEW c \in Contexts, NEW o \in {"requested", "failed"},
           Creates(q, c, o), thread' \in [Cqs -> {"absent", "next", "rearm", "exited"}],
           UNCHANGED <<serves, call, server, cq_open, main, closing, g_shutdown, failure>>
    PROVE  Tags'
<1>1. /\ status_' \in [Contexts -> {"unborn", "CREATE", "FINISH", "deleted"}]
      /\ cq_' \in [Contexts -> Cqs]
      /\ op' \in [Contexts -> {"none", "requested", "finishing", "ok", "failed"}]
  BY DEF Creates, Tags, TypeOK
<1>2. TypeOK' BY <1>1 DEF Tags, TypeOK
<1>3. OneOperationPerContext' BY OneContextChanges DEF Creates
<1> QED BY <1>2, <1>3 DEF Tags

\* main creates the server and runs it.
LEMMA TagsRun == ASSUME Tags, Run PROVE Tags'
<1>1. TypeOK BY DEF Tags
<1>2. ASSUME NEW c \in Contexts, CreateContext(c) PROVE Tags'
  <2>1. PICK o \in {"requested", "failed"} : Creates(c % CqCount, c, o) BY <1>1, <1>2, RunCreates
  <2>2. /\ c % CqCount \in Cqs
        /\ UNCHANGED <<serves, call, server, cq_open, thread, main, closing, g_shutdown, failure>>
    BY <1>1, <1>2, RunCreates
  <2>3. thread' \in [Cqs -> {"absent", "next", "rearm", "exited"}] BY <1>1, <2>2 DEF TypeOK
  <2> QED BY <2>1, <2>2, <2>3, TagsCreate
<1>3. ASSUME \/ CreateServer \/ BuildAndStart \/ CreateContextFails \/ RunReturns
             \/ \E q \in Cqs : StartThread(q)
      PROVE  Tags'
  <2>1. UNCHANGED <<contextVars, call, cq_open, closing, g_shutdown>> BY <1>3, RunElsewhere
  <2>2. /\ main' \in {"start", "created", "run", "loop", "last", "destroy", "exited"}
        /\ server' \in {"absent", "running", "closed"}
    BY <1>1, <1>3
       DEF TypeOK, CreateServer, BuildAndStart, CreateContextFails, RunReturns, StartThread
  <2>3. failure' \in {"none", "null server", "closed queue", "self join"}
    BY <1>1, <1>3
       DEF TypeOK, CreateServer, BuildAndStart, CreateContextFails, RunReturns, StartThread
  <2>4. thread' \in [Cqs -> {"absent", "next", "rearm", "exited"}]
    <3>1. thread \in [Cqs -> {"absent", "next", "rearm", "exited"}] BY <1>1 DEF TypeOK
    <3>2. ASSUME NEW q \in Cqs, StartThread(q)
          PROVE  thread' \in [Cqs -> {"absent", "next", "rearm", "exited"}]
      BY <3>1, <3>2 DEF StartThread
    <3>3. CreateServer \/ BuildAndStart \/ CreateContextFails \/ RunReturns => thread' = thread
      BY DEF CreateServer, BuildAndStart, CreateContextFails, RunReturns
    <3> QED BY <1>3, <3>1, <3>2, <3>3
  <2>5. TypeOK' BY <1>1, <2>1, <2>2, <2>3, <2>4 DEF TypeOK, contextVars
  <2> QED BY <2>1, <2>5 DEF Tags, contextVars, OneOperationPerContext, Live
<1> QED BY <1>2, <1>3 DEF Run

\* The calls of the clients, and gRPC.
LEMMA TagsGrpc ==
    ASSUME Tags, (\E k \in Calls : Arrive(k)) \/ Grpc
    PROVE  Tags'
<1> USE DEF Tags, grpcLeaves
<1>2. ASSUME NEW k \in Calls, Arrive(k) PROVE Tags'
  BY <1>2 DEF Arrive, TypeOK, OneOperationPerContext, Live
<1>3. ASSUME NEW k \in Calls, NEW c \in Contexts, Match(k, c) PROVE Tags'
  <2>1. TypeOK' BY <1>3 DEF Match, TypeOK
  <2>2. status_[c] \in {"CREATE", "FINISH"}
    BY <1>3 DEF Match, OneOperationPerContext, Live
  <2>3. status_' = [status_ EXCEPT ![c] = status_[c]] /\ op' = [op EXCEPT ![c] = "ok"]
    BY <1>3 DEF Match, TypeOK
  <2> QED BY <2>1, <2>2, <2>3, OneContextChanges
<1>4. ASSUME NEW c \in Contexts, FinishSent(c) PROVE Tags'
  <2>1. TypeOK' BY <1>4 DEF FinishSent, TypeOK
  <2>2. status_[c] \in {"CREATE", "FINISH"}
    BY <1>4 DEF FinishSent, OneOperationPerContext, Live
  <2>3. status_' = [status_ EXCEPT ![c] = status_[c]] /\ op' = [op EXCEPT ![c] = "ok"]
    BY <1>4 DEF FinishSent, TypeOK
  <2> QED BY <2>1, <2>2, <2>3, OneContextChanges
<1>5. ASSUME NEW c \in Contexts, FinishDead(c) PROVE Tags'
  <2>1. TypeOK' BY <1>5 DEF FinishDead, TypeOK
  <2>2. status_[c] \in {"CREATE", "FINISH"}
    BY <1>5 DEF FinishDead, OneOperationPerContext, Live
  <2>3. status_' = [status_ EXCEPT ![c] = status_[c]] /\ op' = [op EXCEPT ![c] = "failed"]
    BY <1>5 DEF FinishDead, TypeOK
  <2> QED BY <2>1, <2>2, <2>3, OneContextChanges
<1> QED BY <1>2, <1>3, <1>4, <1>5 DEF Grpc

\* The threads that drive the queues.
LEMMA TagsDriver == ASSUME Tags, NEW q \in Cqs, Driver(q) PROVE Tags'
<1> USE DEF Tags, driverLeaves, contextVars
<1>1. ASSUME NEW c \in Contexts, ProceedFailed(q, c) PROVE Tags'
  <2>1. TypeOK' BY <1>1 DEF ProceedFailed, Abandon, TypeOK
  <2>2. status_' = [status_ EXCEPT ![c] = "deleted"] /\ op' = [op EXCEPT ![c] = "none"]
    BY <1>1 DEF ProceedFailed, Abandon
  <2> QED BY <2>1, <2>2, OneContextChanges
<1>2. ASSUME NEW c \in Contexts, ProceedCreate(q, c) PROVE Tags'
  <2>1. TypeOK' BY <1>2 DEF ProceedCreate, Answer, TypeOK
  <2>2. status_' = [status_ EXCEPT ![c] = "FINISH"] /\ op' = [op EXCEPT ![c] = "finishing"]
    BY <1>2 DEF ProceedCreate, Answer
  <2> QED BY <2>1, <2>2, OneContextChanges
<1>3. ASSUME NEW c \in Contexts, ProceedFinish(q, c) PROVE Tags'
  <2>1. TypeOK' BY <1>3 DEF ProceedFinish, Retire, TypeOK
  <2>2. status_' = [status_ EXCEPT ![c] = "deleted"] /\ op' = [op EXCEPT ![c] = "none"]
    BY <1>3 DEF ProceedFinish, Retire
  <2> QED BY <2>1, <2>2, OneContextChanges
<1>4. CASE Rearm(q)
  <2>1. PICK c \in Contexts, o \in {"requested", "failed"} : Creates(q, c, o)
    BY <1>4, RearmCreates
  <2>2. thread' \in [Cqs -> {"absent", "next", "rearm", "exited"}]
    BY <1>4 DEF Rearm, TypeOK
  <2>3. UNCHANGED <<serves, call, server, cq_open, main, closing, g_shutdown, failure>>
    BY <1>4 DEF Rearm
  <2> QED BY <2>1, <2>2, <2>3, TagsCreate
<1>5. CASE RearmClosed(q) \/ DriverExits(q)
  <2>1. UNCHANGED contextVars BY <1>5 DEF RearmClosed, DriverExits
  <2>2. TypeOK'
    <3>1. CASE RearmClosed(q) BY <3>1 DEF RearmClosed, TypeOK
    <3>2. CASE DriverExits(q) BY <3>2 DEF DriverExits, TypeOK
    <3> QED BY <1>5, <3>1, <3>2
  <2> QED BY <2>1, <2>2 DEF OneOperationPerContext, Live
<1> QED BY <1>1, <1>2, <1>3, <1>4, <1>5 DEF Driver

\* A thread goes on in Shutdown.
LEMMA GotoTyped ==
    ASSUME TypeOK, NEW s \in Threads, NEW from,
           NEW to \in {"out", "server", "calls", "queues", "join"}, Goto(s, from, to)
    PROVE  closing' \in [Threads -> {"out", "server", "calls", "queues", "join"}]
BY DEF Goto, TypeOK

\* The steps of Shutdown after its first.
GoesOn(s) == \/ NullServer(s) \/ AwaitCalls(s) \/ CloseQueues(s)
             \/ Join(s) \/ JoinSelf(s) \/ JoinUnlisted(s)

\* They change no context.
LEMMA GoesOnElsewhere ==
    ASSUME NEW s \in Threads, GoesOn(s)
    PROVE  UNCHANGED <<contextVars, call, server, thread, main, g_shutdown>>
BY DEF GoesOn, NullServer, AwaitCalls, CloseQueues, Close, Join, JoinWhen, JoinSelf, JoinUnlisted

\* The signal handler, main, and steps that change nothing.
LEMMA TagsShutdown ==
    ASSUME Tags,
           \/ \E s \in SignalThreads : Signal(s)
           \/ \E s \in Threads : Shutdown(s)
           \/ MainEnds \/ Finished \/ UNCHANGED vars
    PROVE  Tags'
<1> USE DEF Tags, contextVars
<1>1. ASSUME NEW s \in SignalThreads, Signal(s) PROVE Tags'
  <2>1. TypeOK' BY <1>1, ConstantFacts DEF Signal, TypeOK
  <2> QED BY <1>1, <2>1 DEF Signal, OneOperationPerContext, Live
<1>2. ASSUME NEW s \in Threads, CloseServer(s) PROVE Tags'
  <2>1. TypeOK' BY <1>2 DEF CloseServer, Goto, TypeOK
  <2>2. ASSUME NEW c \in Contexts PROVE Live(c)' <=> op'[c] # "none"
    <3>1. status_' = status_ /\ (op'[c] = op[c] \/ (op[c] # "none" /\ op'[c] # "none"))
      BY <1>2 DEF CloseServer
    <3> QED BY <3>1 DEF OneOperationPerContext, Live
  <2> QED BY <2>1, <2>2 DEF OneOperationPerContext
<1>3. ASSUME NEW s \in Threads, GoesOn(s)
      PROVE  Tags'
  <2>1. TypeOK'
    <3>1. CASE AwaitCalls(s) BY <3>1, GotoTyped DEF AwaitCalls, TypeOK
    <3>2. CASE CloseQueues(s) BY <3>2, GotoTyped DEF CloseQueues, Close, TypeOK
    <3>3. CASE Join(s) BY <3>3, GotoTyped DEF Join, JoinWhen, TypeOK
    <3>4. CASE JoinSelf(s) BY <3>4 DEF JoinSelf, TypeOK
    <3>5. CASE JoinUnlisted(s) BY <3>5, GotoTyped DEF JoinUnlisted, TypeOK
    <3>6. CASE NullServer(s) BY <3>6 DEF NullServer, TypeOK
    <3> QED BY <1>3, <3>1, <3>2, <3>3, <3>4, <3>5, <3>6 DEF GoesOn
  <2>2. UNCHANGED contextVars
    BY <1>3, GoesOnElsewhere
  <2> QED BY <2>1, <2>2 DEF OneOperationPerContext, Live
<1>4. CASE MainEnds \/ Finished \/ UNCHANGED vars
  <2>1. TypeOK'
    <3>1. CASE MainShutdown BY <3>1, ConstantFacts DEF MainShutdown, TypeOK
    <3>2. CASE MainReturns BY <3>2, ConstantFacts DEF MainReturns, TypeOK
    <3>3. CASE MainExits BY <3>3 DEF MainExits, TypeOK
    <3>4. CASE Finished \/ UNCHANGED vars
      <4>1. UNCHANGED vars BY <3>4 DEF Finished
      <4> QED BY <4>1 DEF vars, TypeOK
    <3> QED BY <1>4, <3>1, <3>2, <3>3, <3>4 DEF MainEnds
  <2>2. UNCHANGED contextVars
    BY <1>4 DEF MainEnds, MainShutdown, MainReturns, MainExits, Finished, vars
  <2> QED BY <2>1, <2>2 DEF OneOperationPerContext, Live
<1> QED BY <1>1, <1>2, <1>3, <1>4 DEF Shutdown, GoesOn

\* Every step of the server, its drivers and gRPC keeps the tags in order.
LEMMA TagsNext == Tags /\ [Next]_vars => Tags'
BY TagsRun, TagsGrpc, TagsDriver, TagsShutdown DEF Next

\* The tags are in order in every reachable state.
LEMMA TagsCorrect == Spec => []Tags
BY TagsInit, TagsNext, PTL DEF Spec

\* Type correctness.
THEOREM TypeCorrect == Spec => []TypeOK
BY TagsCorrect, PTL DEF Tags

\* An AsyncCallContext has exactly one operation or event outstanding as long as
\* it lives, and none once it deleted itself.
THEOREM ContextsHaveOneOperation == Spec => []OneOperationPerContext
BY TagsCorrect, PTL DEF Tags

-----------------------------------------------------------------------------
(***************************************************************************)
(* A call is answered once.                                                *)
(***************************************************************************)

\* A context that is about to call Finish, or waits for it.
Awaits(c) == op[c] = "finishing" \/ (status_[c] = "CREATE" /\ op[c] = "ok")

\* The inductive invariant: the call of a context that has not finished is matched
\* and not answered, Finish is called in FINISH only, no context has a call that was
\* not matched, and no two contexts have the same call.
Serving ==
    /\ \A c \in Contexts : Awaits(c) => serves[c] # NoCall /\ call[serves[c]] = "matched"
    /\ \A c \in Contexts : op[c] = "finishing" => status_[c] = "FINISH"
    /\ \A c \in Contexts : serves[c] # NoCall => call[serves[c]] \in {"matched", "answered", "dead"}
    /\ \A c, d \in Contexts : c # d /\ serves[c] # NoCall => serves[c] # serves[d]

\* The placeholder of a context without a call is not a call.
LEMMA NoCallIsNone == NoCall \notin Calls
BY ServerAssumption DEF NoCall

\* Steps that leave the calls alone, and by which no context comes to await.
LEMMA ServingElsewhere ==
    ASSUME Serving, UNCHANGED <<serves, call>>,
           \A c \in Contexts : Awaits(c)' => Awaits(c),
           \A c \in Contexts : op'[c] = "finishing" => status_'[c] = "FINISH"
    PROVE  Serving'
BY DEF Serving

\* Nothing is served when the server starts.
LEMMA ServingInit == Init => Serving
BY DEF Init, Serving, Awaits

\* gRPC completes the Finish of one context.
LEMMA ServingFinish ==
    ASSUME Tags, Serving, NEW c \in Contexts, FinishSent(c) \/ FinishDead(c)
    PROVE  Serving'
<1>1. PICK o \in {"ok", "failed"}, r \in {"answered", "dead"} :
         /\ op[c] = "finishing"
         /\ call' = [call EXCEPT ![serves[c]] = r]
         /\ op' = [op EXCEPT ![c] = o]
         /\ UNCHANGED <<serves, status_>>
  BY DEF FinishSent, FinishDead, grpcLeaves
<1>2. status_[c] = "FINISH" /\ serves[c] # NoCall /\ serves[c] \in Calls
  <2>1. status_[c] = "FINISH" /\ serves[c] # NoCall BY <1>1 DEF Serving, Awaits
  <2>2. serves[c] \in Calls \cup {NoCall} BY DEF Tags, TypeOK
  <2> QED BY <2>1, <2>2
<1>3. ASSUME NEW d \in Contexts, d # c
      PROVE  op'[d] = op[d] /\ (serves[d] # NoCall => call'[serves[d]] = call[serves[d]])
  <2>1. op'[d] = op[d] BY <1>1, <1>3 DEF Tags, TypeOK
  <2>2. serves[d] # NoCall => serves[d] \in Calls BY DEF Tags, TypeOK
  <2>3. serves[d] # NoCall => serves[d] # serves[c] BY <1>3 DEF Serving
  <2>4. serves[d] # NoCall => call'[serves[d]] = call[serves[d]]
    BY <1>1, <1>2, <2>2, <2>3 DEF Tags, TypeOK
  <2> QED BY <2>1, <2>4
<1>4. op'[c] = o /\ call'[serves[c]] = r
  BY <1>1, <1>2 DEF Tags, TypeOK
<1>5. ~Awaits(c)' BY <1>1, <1>2, <1>4 DEF Awaits
<1>6. \A d \in Contexts : Awaits(d)' => serves[d] # NoCall /\ call'[serves[d]] = "matched"
  BY <1>1, <1>3, <1>5 DEF Awaits, Serving
<1>7. \A d \in Contexts : op'[d] = "finishing" => status_'[d] = "FINISH"
  BY <1>1, <1>3, <1>4 DEF Serving
<1>8. \A d \in Contexts :
         serves[d] # NoCall => call'[serves[d]] \in {"matched", "answered", "dead"}
  BY <1>3, <1>4 DEF Serving
<1> QED BY <1>1, <1>6, <1>7, <1>8 DEF Serving

\* A step that changes one context, which does not come to await.
LEMMA ServingOneContext ==
    ASSUME Tags, Serving, NEW c \in Contexts, NEW st, NEW o,
           UNCHANGED <<serves, call>>,
           status_' = [status_ EXCEPT ![c] = st],
           op' = [op EXCEPT ![c] = o],
           \/ o \in {"none", "requested", "failed"}
           \/ o = "finishing" /\ st = "FINISH" /\ Awaits(c)
    PROVE  Serving'
<1>1. status_'[c] = st /\ op'[c] = o BY DEF Tags, TypeOK
<1>2. \A d \in Contexts : d # c => status_'[d] = status_[d] /\ op'[d] = op[d]
  BY DEF Tags, TypeOK
<1>3. \A d \in Contexts : Awaits(d)' => Awaits(d)
  BY <1>1, <1>2 DEF Awaits
<1>4. \A d \in Contexts : op'[d] = "finishing" => status_'[d] = "FINISH"
  BY <1>1, <1>2 DEF Serving
<1> QED BY <1>3, <1>4, ServingElsewhere

\* main creates the server and runs it.
LEMMA ServingRun == ASSUME Tags, Serving, Run PROVE Serving'
<1>1. TypeOK BY DEF Tags
<1>2. ASSUME NEW c \in Contexts, CreateContext(c) PROVE Serving'
  <2>1. PICK o \in {"requested", "failed"} : Creates(c % CqCount, c, o) BY <1>1, <1>2, RunCreates
  <2>2. UNCHANGED <<serves, call>> BY <1>1, <1>2, RunCreates
  <2> QED BY <2>1, <2>2, ServingOneContext DEF Creates
<1>3. ASSUME \/ CreateServer \/ BuildAndStart \/ CreateContextFails \/ RunReturns
             \/ \E q \in Cqs : StartThread(q)
      PROVE  Serving'
  <2>1. UNCHANGED <<contextVars, call>> BY <1>3, RunElsewhere
  <2> QED BY <2>1 DEF contextVars, Serving, Awaits
<1> QED BY <1>2, <1>3 DEF Run

\* The calls of the clients, and gRPC.
LEMMA ServingGrpc ==
    ASSUME Tags, Serving, (\E k \in Calls : Arrive(k)) \/ Grpc
    PROVE  Serving'
<1>2. ASSUME NEW k \in Calls, Arrive(k) PROVE Serving'
  <2>1. \A c \in Contexts : serves[c] # NoCall => serves[c] # k
    BY <1>2 DEF Arrive, Serving
  <2>2. UNCHANGED <<op, status_, serves>> /\ call' = [call EXCEPT ![k] = "waiting"]
    BY <1>2 DEF Arrive, grpcLeaves
  <2>3. \A c \in Contexts : serves[c] # NoCall => call'[serves[c]] = call[serves[c]]
    BY <2>1, <2>2 DEF Tags, TypeOK
  <2> QED BY <2>2, <2>3 DEF Serving, Awaits
<1>3. ASSUME NEW k \in Calls, NEW c \in Contexts, Match(k, c) PROVE Serving'
  <2>1. \A d \in Contexts : serves[d] # k
    BY <1>3, NoCallIsNone DEF Match, Serving
  <2>2. /\ op' = [op EXCEPT ![c] = "ok"]
        /\ serves' = [serves EXCEPT ![c] = k]
        /\ call' = [call EXCEPT ![k] = "matched"]
        /\ UNCHANGED status_
    BY <1>3 DEF Match, grpcLeaves
  <2>3. op'[c] = "ok" /\ serves'[c] = k /\ call'[k] = "matched" /\ k # NoCall
    BY <2>2, NoCallIsNone DEF Tags, TypeOK
  <2>4. ASSUME NEW d \in Contexts, d # c
        PROVE  /\ op'[d] = op[d] /\ serves'[d] = serves[d]
               /\ serves[d] # NoCall => call'[serves[d]] = call[serves[d]]
    BY <2>1, <2>2, <2>4 DEF Tags, TypeOK
  <2>5. \A d \in Contexts : Awaits(d)' => serves'[d] # NoCall /\ call'[serves'[d]] = "matched"
    BY <2>2, <2>3, <2>4 DEF Awaits, Serving
  <2>6. \A d \in Contexts : op'[d] = "finishing" => status_'[d] = "FINISH"
    BY <2>2, <2>3, <2>4 DEF Serving
  <2>7. \A d \in Contexts :
           serves'[d] # NoCall => call'[serves'[d]] \in {"matched", "answered", "dead"}
    BY <2>3, <2>4 DEF Serving
  <2>8. \A d, e \in Contexts : d # e /\ serves'[d] # NoCall => serves'[d] # serves'[e]
    BY <2>1, <2>3, <2>4 DEF Serving
  <2> QED BY <2>5, <2>6, <2>7, <2>8 DEF Serving
<1> QED BY <1>2, <1>3, ServingFinish DEF Grpc

\* The threads that drive the queues.
LEMMA ServingDriver == ASSUME Tags, Serving, NEW q \in Cqs, Driver(q) PROVE Serving'
<1> USE DEF driverLeaves, contextVars
<1>2. ASSUME NEW c \in Contexts, ProceedFailed(q, c) \/ ProceedFinish(q, c) PROVE Serving'
  BY <1>2, ServingOneContext DEF ProceedFailed, Abandon, ProceedFinish, Retire
<1>3. ASSUME NEW c \in Contexts, ProceedCreate(q, c) PROVE Serving'
  BY <1>3, ServingOneContext DEF ProceedCreate, Answer, Awaits
<1>4. CASE Rearm(q)
  <2>1. UNCHANGED <<serves, call>> BY <1>4 DEF Rearm
  <2>2. TypeOK BY DEF Tags
  <2>3. PICK c \in Contexts, o \in {"requested", "failed"} : Creates(q, c, o)
    BY <1>4, <2>2, RearmCreates
  <2> QED BY <2>1, <2>3, ServingOneContext DEF Creates
<1>5. CASE RearmClosed(q) \/ DriverExits(q)
  <2>1. UNCHANGED <<contextVars, call>> BY <1>5 DEF RearmClosed, DriverExits
  <2> QED BY <2>1 DEF Serving, Awaits
<1> QED BY <1>2, <1>3, <1>4, <1>5 DEF Driver

\* The signal handler, main, and steps that change nothing.
LEMMA ServingShutdown ==
    ASSUME Tags, Serving,
           \/ \E s \in SignalThreads : Signal(s)
           \/ \E s \in Threads : Shutdown(s)
           \/ MainEnds \/ Finished \/ UNCHANGED vars
    PROVE  Serving'
<1> USE DEF contextVars
<1>1. ASSUME NEW s \in Threads, CloseServer(s) PROVE Serving'
  <2>1. /\ UNCHANGED <<status_, serves>>
        /\ \A c \in Contexts : op'[c] = IF op[c] = "requested" THEN "failed" ELSE op[c]
        /\ \A k \in Calls : call'[k] = IF call[k] = "waiting" THEN "refused" ELSE call[k]
    BY <1>1 DEF CloseServer
  <2>2. \A c \in Contexts : serves[c] # NoCall => serves[c] \in Calls
    BY DEF Tags, TypeOK
  <2>3. \A c \in Contexts : serves[c] # NoCall => call'[serves[c]] = call[serves[c]]
    BY <2>1, <2>2 DEF Serving
  <2>4. \A c \in Contexts : Awaits(c)' => Awaits(c)
    BY <2>1 DEF Awaits
  <2> QED BY <2>1, <2>3, <2>4 DEF Serving
<1>2. CASE UNCHANGED <<contextVars, call>>
  BY <1>2 DEF Serving, Awaits
<1>3. ASSUME NEW s \in Threads, GoesOn(s)
      PROVE  UNCHANGED <<contextVars, call>>
  BY <1>3, GoesOnElsewhere
<1>4. ASSUME \/ \E s \in SignalThreads : Signal(s)
             \/ MainEnds \/ Finished \/ UNCHANGED vars
      PROVE  UNCHANGED <<contextVars, call>>
  BY <1>4 DEF Signal, MainEnds, MainShutdown, MainReturns, MainExits, Finished, vars
<1> QED BY <1>1, <1>2, <1>3, <1>4 DEF Shutdown, GoesOn

\* Every step keeps the relation between contexts and the calls they serve.
LEMMA ServingNext == Tags /\ Serving /\ [Next]_vars => Serving'
BY ServingRun, ServingGrpc, ServingDriver, ServingShutdown DEF Next

\* That relation holds in every reachable state.
LEMMA ServingCorrect == Spec => [](Tags /\ Serving)
BY ServingInit, ServingNext, TagsCorrect, PTL DEF Spec

\* Finish is called only while its call awaits an answer: Proceed answers a call
\* once, whatever the order of events, clients that give up, and Shutdown.
THEOREM CallsAnsweredOnce == Spec => []AnsweredOnce
<1>1. Serving => AnsweredOnce BY DEF Serving, Awaits, AnsweredOnce
<1> QED BY <1>1, ServingCorrect, PTL

-----------------------------------------------------------------------------
(***************************************************************************)
(* What a clean exit leaves.                                               *)
(***************************************************************************)

\* The inductive invariant: a thread leaves DriveCompletionQueue only when no
\* context of its queue is alive, Run starts no thread before it has created all
\* contexts and returns when all threads are started, and main goes on after its
\* Shutdown only when all threads have left.
Left ==
    /\ \A q \in Cqs, c \in Contexts : thread[q] = "exited" /\ cq_[c] = q => ~Live(c)
    /\ main \in {"start", "created"} => server = "absent"
    /\ ToCreate # {} => \A q \in Cqs : thread[q] = "absent"
    /\ main \in {"loop", "last", "destroy", "exited"} => \A q \in Cqs : thread[q] # "absent"
    /\ (main = "last" /\ closing[Main] = "out") \/ main \in {"destroy", "exited"}
          => \A q \in Cqs : thread[q] = "exited"

\* Nothing was left behind when the server starts.
LEMMA LeftInit == Init => Left
BY DEF Init, Left, Live

\* A context that was created is never to be created again.
LEMMA CreatedOnce ==
    ASSUME TypeOK, NEW c \in Contexts, NEW st, st # "unborn",
           status_' = [status_ EXCEPT ![c] = st]
    PROVE  ToCreate' = ToCreate \ {c}
<1>1. status_'[c] = st /\ \A d \in Contexts : d # c => status_'[d] = status_[d]
  BY DEF TypeOK
<1>2. 0..(Initial - 1) \subseteq Contexts
  BY ServerAssumption, FS_CardinalityType DEF Contexts
<1> QED BY <1>1, <1>2 DEF ToCreate

\* Steps by which no thread starts or leaves, no context comes to life or changes
\* its queue, and main does not go on.
LEMMA LeftElsewhere ==
    ASSUME Left, UNCHANGED <<cq_, thread, server>>,
           \A c \in Contexts : Live(c)' => Live(c),
           ToCreate' \subseteq ToCreate,
           \/ UNCHANGED <<main, closing>>
           \/ UNCHANGED main /\ main \in {"start", "created", "run", "loop"}
           \/ main = "start" /\ main' = "created"
           \/ main = "loop" /\ main' = "last" /\ closing'[Main] # "out"
    PROVE  Left'
BY DEF Left

\* main creates the server and runs it.
LEMMA LeftRun == ASSUME Tags, Left, Run PROVE Left'
<1>1. TypeOK BY DEF Tags
<1>2. ASSUME NEW c \in Contexts, CreateContext(c) PROVE Left'
  <2>1. PICK o \in {"requested", "failed"} : Creates(c % CqCount, c, o) BY <1>1, <1>2, RunCreates
  <2>2. /\ c \in ToCreate /\ c % CqCount \in Cqs
        /\ UNCHANGED <<server, thread, main, closing>>
    BY <1>1, <1>2, RunCreates
  <2>3. thread'[c % CqCount] # "exited" BY <2>2 DEF Left
  <2>4. /\ cq_'[c] = c % CqCount
        /\ \A d \in Contexts : d # c => cq_'[d] = cq_[d] /\ status_'[d] = status_[d]
    BY <1>1, <2>1 DEF Creates, TypeOK
  <2>5. ToCreate' \subseteq ToCreate BY <1>1, <2>1, CreatedOnce DEF Creates
  <2>6. \A q \in Cqs, d \in Contexts : thread'[q] = "exited" /\ cq_'[d] = q => ~Live(d)'
    BY <2>2, <2>3, <2>4 DEF Left, Live
  <2> QED BY <2>2, <2>5, <2>6 DEF Left
<1>3. ASSUME NEW q \in Cqs, StartThread(q) PROVE Left'
  <2>1. /\ main = "run" /\ ToCreate = {} /\ thread[q] = "absent"
        /\ thread' = [thread EXCEPT ![q] = "next"]
        /\ UNCHANGED <<status_, cq_, server, main, closing>>
    BY <1>3 DEF StartThread, At, contextVars
  <2>2. thread'[q] = "next" /\ \A p \in Cqs : p # q => thread'[p] = thread[p]
    BY <1>1, <2>1 DEF TypeOK
  <2>3. ToCreate' = {} BY <2>1 DEF ToCreate
  <2> QED BY <2>1, <2>2, <2>3 DEF Left, Live
<1>4. CASE CreateServer \/ CreateContextFails
  <2>1. UNCHANGED <<status_, cq_, thread, server, closing>>
    BY <1>4 DEF CreateServer, CreateContextFails, contextVars
  <2>2. UNCHANGED main \/ (main = "start" /\ main' = "created")
    BY <1>4 DEF CreateServer, CreateContextFails, At
  <2>3. ToCreate' = ToCreate BY <2>1 DEF ToCreate
  <2> QED BY <2>1, <2>2, <2>3, LeftElsewhere DEF Live
<1>5. CASE BuildAndStart \/ RunReturns
  <2>1. /\ UNCHANGED <<status_, cq_, thread, closing>>
        /\ \/ main' = "run"
           \/ main' = "loop" /\ \A q \in Cqs : thread[q] # "absent"
    BY <1>5 DEF BuildAndStart, RunReturns, contextVars
  <2>2. ToCreate' = ToCreate BY <2>1 DEF ToCreate
  <2> QED BY <2>1, <2>2 DEF Left, Live
<1> QED BY <1>2, <1>3, <1>4, <1>5 DEF Run

\* The arrival of calls, and what gRPC does: match a call, end a Finish.
LEMMA LeftGrpc ==
    ASSUME Tags, Left, (\E k \in Calls : Arrive(k)) \/ Grpc
    PROVE  Left'
<1>1. UNCHANGED <<status_, cq_, thread, server, main, closing>>
  BY DEF Arrive, Grpc, Match, FinishSent, FinishDead, grpcLeaves
<1>2. ToCreate' = ToCreate BY <1>1 DEF ToCreate
<1> QED BY <1>1, <1>2, LeftElsewhere DEF Live

\* A step of the thread that drives a completion queue.
LEMMA LeftDriver == ASSUME Tags, Left, NEW q \in Cqs, Driver(q) PROVE Left'
<1> USE DEF driverLeaves, contextVars
<1>0. TypeOK BY DEF Tags
<1>1. ASSUME NEW c \in Contexts, ProceedFailed(q, c) \/ ProceedCreate(q, c) PROVE Left'
  <2>1. PICK st \in {"deleted", "FINISH"} :
           /\ status_' = [status_ EXCEPT ![c] = st]
           /\ st = "FINISH" => status_[c] = "CREATE"
           /\ UNCHANGED <<cq_, thread, server, main, closing>>
    BY <1>1 DEF ProceedFailed, Abandon, ProceedCreate, Answer
  <2>2. \A d \in Contexts : Live(d)' => Live(d) BY <1>0, <2>1 DEF Live, TypeOK
  <2>3. ToCreate' \subseteq ToCreate BY <1>0, <2>1, CreatedOnce
  <2> QED BY <2>1, <2>2, <2>3, LeftElsewhere
<1>2. ASSUME NEW c \in Contexts, ProceedFinish(q, c) PROVE Left'
  <2>1. /\ status_' = [status_ EXCEPT ![c] = "deleted"]
        /\ thread[q] = "next"
        /\ thread' = [thread EXCEPT ![q] = "rearm"]
        /\ UNCHANGED <<cq_, server, main, closing>>
    BY <1>2 DEF ProceedFinish, Retire, Drives
  <2>2. \A d \in Contexts : Live(d)' => Live(d) BY <1>0, <2>1 DEF Live, TypeOK
  <2>3. \A p \in Cqs : /\ thread'[p] = "exited" <=> thread[p] = "exited"
                       /\ thread'[p] = "absent" <=> thread[p] = "absent"
    BY <1>0, <2>1 DEF TypeOK
  <2>4. ToCreate' \subseteq ToCreate BY <1>0, <2>1, CreatedOnce
  <2> QED BY <2>1, <2>2, <2>3, <2>4 DEF Left
<1>3. CASE Rearm(q)
  <2>1. PICK c \in Contexts, o \in {"requested", "failed"} : Creates(q, c, o)
    BY <1>0, <1>3, RearmCreates
  <2>2. /\ thread[q] = "rearm"
        /\ thread' = [thread EXCEPT ![q] = "next"]
        /\ UNCHANGED <<server, main, closing>>
    BY <1>3 DEF Rearm
  <2>3. /\ \A p \in Cqs : /\ thread'[p] = "exited" <=> thread[p] = "exited"
                          /\ thread'[p] = "absent" <=> thread[p] = "absent"
        /\ thread'[q] # "exited"
    BY <1>0, <2>2 DEF TypeOK
  <2>4. cq_'[c] = q /\ \A d \in Contexts : d # c => cq_'[d] = cq_[d] /\ status_'[d] = status_[d]
    BY <1>0, <2>1 DEF Creates, TypeOK
  <2>5. ToCreate' \subseteq ToCreate BY <1>0, <2>1, CreatedOnce DEF Creates
  <2>6. \A p \in Cqs, d \in Contexts : thread'[p] = "exited" /\ cq_'[d] = p => ~Live(d)'
    BY <2>3, <2>4 DEF Left, Live
  <2> QED BY <2>2, <2>3, <2>5, <2>6 DEF Left
<1>4. CASE RearmClosed(q)
  <2>1. UNCHANGED <<status_, cq_, thread, server, main, closing>> BY <1>4 DEF RearmClosed
  <2>2. ToCreate' = ToCreate BY <2>1 DEF ToCreate
  <2> QED BY <2>1, <2>2, LeftElsewhere DEF Live
<1>5. CASE DriverExits(q)
  <2>1. /\ \A c \in Contexts : cq_[c] = q => op[c] = "none"
        /\ thread[q] = "next"
        /\ thread' = [thread EXCEPT ![q] = "exited"]
        /\ UNCHANGED <<status_, cq_, server, main, closing>>
    BY <1>5 DEF DriverExits
  <2>2. \A c \in Contexts : cq_[c] = q => ~Live(c)
    BY <2>1 DEF Tags, OneOperationPerContext
  <2>3. thread'[q] = "exited" /\ \A p \in Cqs : p # q => thread'[p] = thread[p]
    BY <1>0, <2>1 DEF TypeOK
  <2>4. ToCreate' = ToCreate /\ ToCreate = {} BY <2>1 DEF ToCreate, Left
  <2> QED BY <2>1, <2>2, <2>3, <2>4 DEF Left, Live
<1> QED BY <1>1, <1>2, <1>3, <1>4, <1>5 DEF Driver

\* The steps of the signal handler and of the shutdown.
LEMMA LeftShutdown ==
    ASSUME Tags, Left,
           \/ \E s \in SignalThreads : Signal(s)
           \/ \E s \in Threads : Shutdown(s)
           \/ MainEnds \/ Finished \/ UNCHANGED vars
    PROVE  Left'
<1> USE DEF contextVars
<1>0. TypeOK BY DEF Tags
<1>1. ASSUME UNCHANGED <<status_, cq_, thread, server>>,
             \/ UNCHANGED <<main, closing>>
             \/ UNCHANGED main /\ main \in {"start", "created", "run", "loop"}
             \/ main = "loop" /\ main' = "last" /\ closing'[Main] # "out"
      PROVE  Left'
  <2>1. ToCreate' = ToCreate BY <1>1 DEF ToCreate
  <2> QED BY <1>1, <2>1, LeftElsewhere DEF Live
<1>2. ASSUME NEW s \in SignalThreads, Signal(s) PROVE Left'
  BY <1>1, <1>2 DEF Signal
<1>3. ASSUME NEW s \in Threads, CloseServer(s) \/ AwaitCalls(s) \/ CloseQueues(s) PROVE Left'
  <2>1. PICK to \in {"calls", "queues", "join"} :
           /\ closing' = [closing EXCEPT ![s] = to]
           /\ closing[s] # "out"
           /\ UNCHANGED <<status_, cq_, thread, main>>
           /\ server' = server \/ server # "absent"
    BY <1>3 DEF CloseServer, AwaitCalls, CloseQueues, Close, Goto
  <2>2. closing'[Main] = "out" <=> closing[Main] = "out"
    BY <1>0, <2>1, ConstantFacts DEF TypeOK
  <2>3. ToCreate' = ToCreate BY <2>1 DEF ToCreate
  <2> QED BY <2>1, <2>2, <2>3 DEF Left, Live
<1>4. ASSUME NEW s \in Threads, Join(s) PROVE Left'
  <2>1. /\ \A q \in Cqs : thread[q] \in {"absent", "exited"}
        /\ UNCHANGED <<status_, cq_, thread, server, main>>
    BY <1>4 DEF Join, JoinWhen
  <2>2. ToCreate' = ToCreate BY <2>1 DEF ToCreate
  <2>3. main \in {"last", "destroy", "exited"} => \A q \in Cqs : thread[q] = "exited"
    BY <2>1 DEF Left
  <2> QED BY <2>1, <2>2, <2>3 DEF Left, Live
<1>5. ASSUME NEW s \in Threads, JoinSelf(s) \/ NullServer(s) \/ JoinUnlisted(s) PROVE Left'
  BY <1>1, <1>5 DEF JoinSelf, NullServer, JoinUnlisted
<1>6. CASE MainShutdown
  <2>1. closing'[Main] # "out" BY <1>0, <1>6, ConstantFacts DEF MainShutdown, TypeOK
  <2> QED BY <1>1, <1>6, <2>1 DEF MainShutdown, At
<1>7. CASE MainReturns \/ MainExits
  <2>1. /\ UNCHANGED <<status_, cq_, thread, server>>
        /\ (main = "last" /\ closing[Main] = "out") \/ main = "destroy"
        /\ main' \in {"destroy", "exited"}
    BY <1>7 DEF MainReturns, MainExits, At
  <2>2. ToCreate' = ToCreate BY <2>1 DEF ToCreate
  <2> QED BY <2>1, <2>2 DEF Left, Live
<1>8. CASE Finished \/ UNCHANGED vars
  BY <1>1, <1>8 DEF Finished, vars
<1> QED BY <1>2, <1>3, <1>4, <1>5, <1>6, <1>7, <1>8 DEF Shutdown, MainEnds

\* Every step keeps what is known of the queues a driver has left.
LEMMA LeftNext == Tags /\ Left /\ [Next]_vars => Left'
BY LeftRun, LeftGrpc, LeftDriver, LeftShutdown DEF Next

\* And it is known in every reachable state.
LEMMA LeftCorrect == Spec => []Left
BY LeftInit, LeftNext, TagsCorrect, PTL DEF Spec

\* When main returns without a failure, the threads of all completion queues have
\* left DriveCompletionQueue, and no AsyncCallContext is leaked.
THEOREM CleanExit == Spec => []CleanExitLeavesNothing
<1>1. Tags /\ Left => CleanExitLeavesNothing
  BY DEF Tags, TypeOK, Left, CleanExitLeavesNothing
<1> QED BY <1>1, LeftCorrect, TagsCorrect, PTL

-----------------------------------------------------------------------------
(***************************************************************************)
(* How many contexts there are.                                            *)
(***************************************************************************)
Alive == {c \in Contexts : Live(c)}
Rearming == {q \in Cqs : thread[q] = "rearm"}
Lost == {c \in Contexts : status_[c] = "deleted" /\ call[serves[c]] = "dead"}

\* What an event says of a call until the server is shut down: it is false only if
\* the client has given up during Finish.
Fate(c) ==
    /\ op[c] = "requested" => status_[c] = "CREATE"
    /\ op[c] = "failed" => /\ status_[c] = "FINISH"
                          /\ serves[c] # NoCall
                          /\ call[serves[c]] = "dead"
    /\ status_[c] = "FINISH" /\ op[c] = "ok" => /\ serves[c] # NoCall
                                               /\ call[serves[c]] = "answered"
    /\ status_[c] = "deleted" => serves[c] # NoCall

Fates == server # "closed" => \A c \in Contexts : Fate(c)

Balance == server # "closed" =>
               Cardinality(Alive) + Cardinality(Rearming)
                 = Initial - Cardinality(ToCreate) - Cardinality(Lost)

\* Balance is ContextsAccounted with its sets named, and holds before the start too.
LEMMA BalanceIsAccount == Balance => ContextsAccounted
BY DEF Balance, ContextsAccounted, Alive, Rearming, Lost

\* The sets that are counted are finite.
LEMMA FinitePlaces ==
    /\ IsFiniteSet(Alive) /\ IsFiniteSet(Rearming) /\ IsFiniteSet(Lost) /\ IsFiniteSet(ToCreate)
    /\ Cardinality(Alive) \in Nat /\ Cardinality(Rearming) \in Nat
    /\ Cardinality(Lost) \in Nat /\ Cardinality(ToCreate) \in Nat
<1>1. Cardinality(Calls) \in Nat BY ServerAssumption, FS_CardinalityType
<1>2. IsFiniteSet(Contexts) /\ IsFiniteSet(Cqs) /\ IsFiniteSet(0..(Initial - 1))
  <2>1. /\ Initial + Cardinality(Calls) - 1 \in Int /\ CqCount - 1 \in Int
        /\ Initial - 1 \in Int /\ 0 \in Int
    BY <1>1, ServerAssumption
  <2> QED BY <2>1, FS_Interval DEF Contexts, Cqs
<1>3. IsFiniteSet(Alive) /\ IsFiniteSet(Rearming) /\ IsFiniteSet(Lost) /\ IsFiniteSet(ToCreate)
  BY <1>2, FS_Subset DEF Alive, Rearming, Lost, ToCreate
<1> QED BY <1>3, FS_CardinalityType

\* The accounts balance when the server starts.
LEMMA FatesInit == ASSUME Init PROVE Fates /\ Balance
<1>1. Fates BY DEF Init, Fates, Fate
<1>2. Alive = {} /\ Rearming = {} /\ Lost = {} BY DEF Init, Alive, Live, Rearming, Lost
<1>3. ToCreate = 0..(Initial - 1)
  BY ServerAssumption, FS_CardinalityType DEF Init, ToCreate, Contexts
<1>4. Cardinality(ToCreate) = Initial BY <1>3, ServerAssumption, FS_Interval
<1>5. Cardinality(Alive) = 0 /\ Cardinality(Rearming) = 0 /\ Cardinality(Lost) = 0
  BY <1>2, FS_EmptySet
<1>6. Balance BY <1>4, <1>5, ServerAssumption DEF Balance
<1> QED BY <1>1, <1>6

\* What is counted is not touched.
LEMMA AccountElsewhere ==
    ASSUME Fates, Balance, UNCHANGED <<contextVars, call, thread>>,
           server' = "closed" \/ server # "closed"
    PROVE  Fates' /\ Balance'
<1>1. Alive' = Alive /\ Rearming' = Rearming /\ Lost' = Lost /\ ToCreate' = ToCreate
  BY DEF contextVars, Alive, Live, Rearming, Lost, ToCreate
<1>2. Fates' BY DEF contextVars, Fates, Fate
<1>3. Balance' BY <1>1 DEF Balance
<1> QED BY <1>2, <1>3

\* A context that is created is alive.
LEMMA AliveCreated ==
    ASSUME Tags, Fates, NEW q \in Cqs, NEW c \in Contexts, NEW o, Creates(q, c, o),
           UNCHANGED <<serves, call, server>>, server # "closed"
    PROVE  /\ Fates' /\ Lost' = Lost
           /\ Cardinality(Alive') = Cardinality(Alive) + 1
<1>1. /\ status_[c] = "unborn" /\ status_'[c] = "CREATE" /\ op'[c] = "requested"
      /\ \A d \in Contexts : d # c => status_'[d] = status_[d] /\ op'[d] = op[d]
  BY DEF Creates, Tags, TypeOK
<1>2. Fate(c)' BY <1>1 DEF Fate
<1>3. ASSUME NEW d \in Contexts, d # c PROVE Fate(d)'
  BY <1>1, <1>3 DEF Fates, Fate
<1>4. Fates' BY <1>2, <1>3 DEF Fates
<1>5. Alive' = Alive \cup {c} /\ c \notin Alive BY <1>1 DEF Alive, Live
<1>6. Lost' = Lost BY <1>1 DEF Lost
<1> QED BY <1>4, <1>5, <1>6, FinitePlaces, FS_AddElement

\* Run creates one context after the other, and then starts the threads.
LEMMA AccountRun == ASSUME Tags, Left, Fates, Balance, Run PROVE Fates' /\ Balance'
<1>0. TypeOK BY DEF Tags
<1>1. ASSUME NEW c \in Contexts, CreateContext(c) PROVE Fates' /\ Balance'
  <2>1. PICK o \in {"requested", "failed"} : Creates(c % CqCount, c, o) BY <1>0, <1>1, RunCreates
  <2>2. c \in ToCreate /\ c % CqCount \in Cqs /\ UNCHANGED <<serves, call, server, thread>>
    BY <1>0, <1>1, RunCreates
  <2> SUFFICES ASSUME server # "closed" PROVE Fates' /\ Balance'
    BY <2>2 DEF Fates, Balance
  <2>3. ToCreate' = ToCreate \ {c} BY <1>0, <2>1, CreatedOnce DEF Creates
  <2>4. Cardinality(ToCreate') = Cardinality(ToCreate) - 1
    BY <2>2, <2>3, FinitePlaces, FS_RemoveElement
  <2>5. Fates' /\ Lost' = Lost /\ Cardinality(Alive') = Cardinality(Alive) + 1
    BY <2>1, <2>2, AliveCreated
  <2>6. Rearming' = Rearming BY <2>2 DEF Rearming
  <2>7. Balance' BY <2>2, <2>4, <2>5, <2>6, FinitePlaces, ServerAssumption DEF Balance
  <2> QED BY <2>5, <2>7
<1>2. ASSUME NEW q \in Cqs, StartThread(q) PROVE Fates' /\ Balance'
  <2>1. UNCHANGED <<contextVars, call, server>> BY <1>2 DEF StartThread
  <2>2. thread[q] = "absent" /\ thread' = [thread EXCEPT ![q] = "next"] BY <1>2 DEF StartThread
  <2>3. Rearming' = Rearming BY <1>0, <2>2 DEF Rearming, TypeOK
  <2>4. Alive' = Alive /\ Lost' = Lost /\ ToCreate' = ToCreate
    BY <2>1 DEF contextVars, Alive, Live, Lost, ToCreate
  <2>5. Fates' BY <2>1 DEF contextVars, Fates, Fate
  <2> QED BY <2>1, <2>3, <2>4, <2>5 DEF Balance
<1>3. CASE CreateServer \/ BuildAndStart \/ CreateContextFails \/ RunReturns
  <2>1. UNCHANGED <<contextVars, call, thread>>
    BY <1>3 DEF CreateServer, BuildAndStart, CreateContextFails, RunReturns
  <2>2. server' = "closed" \/ server # "closed"
    BY <1>0, <1>3 DEF CreateServer, BuildAndStart, CreateContextFails, RunReturns, At, Left, TypeOK
  <2> QED BY <2>1, <2>2, AccountElsewhere
<1> QED BY <1>1, <1>2, <1>3 DEF Run

\* The steps of gRPC, which neither create nor delete a context.
LEMMA AccountGrpc ==
    ASSUME Tags, Serving, Fates, Balance, (\E k \in Calls : Arrive(k)) \/ Grpc
    PROVE  Fates' /\ Balance'
<1>1. UNCHANGED <<status_, thread, server>>
  BY DEF Arrive, Grpc, Match, FinishSent, FinishDead, grpcLeaves
<1>2. Alive' = Alive /\ Rearming' = Rearming /\ ToCreate' = ToCreate
  BY <1>1 DEF Alive, Rearming, Live, ToCreate
<1> SUFFICES ASSUME server # "closed" PROVE Fates' /\ Lost' = Lost
  BY <1>1, <1>2 DEF Fates, Balance
<1>3. ASSUME NEW k \in Calls, Arrive(k) PROVE Fates' /\ Lost' = Lost
  <2>1. \A c \in Contexts : serves[c] # NoCall => call'[serves[c]] = call[serves[c]]
    <3>1. call' = [call EXCEPT ![k] = "waiting"] /\ call[k] = "new" BY <1>3 DEF Arrive
    <3>2. \A c \in Contexts : serves[c] # NoCall => serves[c] # k BY <3>1 DEF Serving
    <3>3. \A c \in Contexts : serves[c] # NoCall => serves[c] \in Calls BY DEF Tags, TypeOK
    <3> QED BY <3>1, <3>2, <3>3 DEF Tags, TypeOK
  <2>2. UNCHANGED <<op, serves>> BY <1>3 DEF Arrive
  <2>3. ASSUME NEW c \in Contexts PROVE Fate(c)' BY <1>1, <2>1, <2>2 DEF Fates, Fate
  <2>4. ASSUME NEW c \in Contexts, status_[c] = "deleted"
        PROVE  call'[serves[c]] = call[serves[c]]
    BY <2>1, <2>4 DEF Fates, Fate
  <2>5. Lost' = Lost BY <1>1, <2>2, <2>4 DEF Lost
  <2> QED BY <2>3, <2>5 DEF Fates
<1>4. ASSUME NEW k \in Calls, NEW c \in Contexts, Match(k, c) PROVE Fates' /\ Lost' = Lost
  <2>1. \A d \in Contexts : serves[d] # NoCall => call'[serves[d]] = call[serves[d]]
    <3>1. call' = [call EXCEPT ![k] = "matched"] /\ call[k] = "waiting" BY <1>4 DEF Match
    <3>2. \A d \in Contexts : serves[d] # NoCall => serves[d] # k BY <3>1 DEF Serving
    <3>3. \A d \in Contexts : serves[d] # NoCall => serves[d] \in Calls BY DEF Tags, TypeOK
    <3> QED BY <3>1, <3>2, <3>3 DEF Tags, TypeOK
  <2>2. status_[c] = "CREATE" BY <1>4 DEF Match, Fates, Fate
  <2>3. /\ op'[c] = "ok"
        /\ \A d \in Contexts : d # c => op'[d] = op[d] /\ serves'[d] = serves[d]
    BY <1>4 DEF Match, Tags, TypeOK
  <2>4. Fate(c)' BY <1>1, <2>2, <2>3 DEF Fate
  <2>5. ASSUME NEW d \in Contexts, d # c PROVE Fate(d)'
    BY SMTT(20), <1>1, <2>1, <2>3, <2>5 DEF Fates, Fate
  <2>6. ASSUME NEW d \in Contexts, status_[d] = "deleted"
        PROVE  serves'[d] = serves[d] /\ call'[serves[d]] = call[serves[d]]
    BY <2>1, <2>2, <2>3, <2>6 DEF Fates, Fate
  <2>7. Lost' = Lost BY <1>1, <2>6 DEF Lost
  <2> QED BY <2>4, <2>5, <2>7 DEF Fates
<1>5. ASSUME NEW c \in Contexts, FinishSent(c) \/ FinishDead(c) PROVE Fates' /\ Lost' = Lost
  <2>1. PICK o, r : /\ \/ o = "ok" /\ r = "answered"
                       \/ o = "failed" /\ r = "dead"
                    /\ op[c] = "finishing"
                    /\ call' = [call EXCEPT ![serves[c]] = r]
                    /\ op' = [op EXCEPT ![c] = o]
                    /\ UNCHANGED serves
    BY <1>5 DEF FinishSent, FinishDead
  <2>2. status_[c] = "FINISH" /\ serves[c] # NoCall /\ serves[c] \in Calls
    <3>1. status_[c] = "FINISH" /\ serves[c] # NoCall BY <2>1 DEF Serving, Awaits
    <3>2. serves[c] \in Calls \cup {NoCall} BY DEF Tags, TypeOK
    <3> QED BY <3>1, <3>2
  <2>3. \A d \in Contexts : d # c =>
           op'[d] = op[d] /\ (serves[d] # NoCall => call'[serves[d]] = call[serves[d]])
    <3> SUFFICES ASSUME NEW d \in Contexts, d # c
                 PROVE  op'[d] = op[d] /\ (serves[d] # NoCall => call'[serves[d]] = call[serves[d]])
      OBVIOUS
    <3>1. op'[d] = op[d] BY <2>1 DEF Tags, TypeOK
    <3>2. serves[d] # NoCall => serves[d] \in Calls BY DEF Tags, TypeOK
    <3>3. serves[d] # NoCall => serves[d] # serves[c] BY DEF Serving
    <3>4. serves[d] # NoCall => call'[serves[d]] = call[serves[d]]
      BY <2>1, <2>2, <3>2, <3>3 DEF Tags, TypeOK
    <3> QED BY <3>1, <3>4
  <2>4. op'[c] = o /\ call'[serves[c]] = r BY <2>1, <2>2 DEF Tags, TypeOK
  <2>5. Fate(c)' BY <1>1, <2>1, <2>2, <2>4 DEF Fate
  <2>6. ASSUME NEW d \in Contexts, d # c PROVE Fate(d)'
    BY SMTT(20), <1>1, <2>1, <2>3, <2>6 DEF Fates, Fate
  <2>7. ASSUME NEW d \in Contexts, status_[d] = "deleted"
        PROVE  call'[serves[d]] = call[serves[d]]
    BY <2>2, <2>3, <2>7 DEF Fates, Fate
  <2>8. Lost' = Lost BY <1>1, <2>1, <2>7 DEF Lost
  <2> QED BY <2>5, <2>6, <2>8 DEF Fates
<1> QED BY <1>3, <1>4, <1>5 DEF Grpc

\* A context comes or goes.
LEMMA AccountDriver ==
    ASSUME Tags, Serving, Left, Fates, Balance, NEW q \in Cqs, Driver(q)
    PROVE  Fates' /\ Balance'
<1> USE DEF driverLeaves, contextVars
<1>0. UNCHANGED <<serves, call, server>>
  BY DEF Driver, ProceedFailed, Abandon, ProceedCreate, Answer, ProceedFinish, Retire, Rearm,
     RearmClosed, DriverExits
<1> SUFFICES ASSUME server # "closed" PROVE Fates' /\ Balance'
  BY <1>0 DEF Fates, Balance
<1>0a. ASSUME NEW c \in Contexts, Drives(q, c) PROVE ToCreate = {}
  BY <1>0a DEF Drives, Left
<1>0b. ASSUME NEW c \in Contexts, NEW st, st # "unborn", Drives(q, c),
              status_' = [status_ EXCEPT ![c] = st]
       PROVE  ToCreate' = ToCreate
  BY <1>0a, <1>0b, CreatedOnce DEF Tags
<1>1. ASSUME NEW c \in Contexts, ProceedFailed(q, c) PROVE Fates' /\ Balance'
  <2>1. /\ status_'[c] = "deleted" /\ op'[c] = "none" /\ op[c] = "failed" /\ thread' = thread
        /\ \A d \in Contexts : d # c => status_'[d] = status_[d] /\ op'[d] = op[d]
    BY <1>1 DEF ProceedFailed, Abandon, Tags, TypeOK
  <2>2. status_[c] = "FINISH" /\ serves[c] # NoCall /\ call[serves[c]] = "dead"
    BY <2>1 DEF Fates, Fate
  <2>3. Fates'
    <3>1. Fate(c)' BY <1>0, <2>1, <2>2 DEF Fate
    <3>2. ASSUME NEW d \in Contexts, d # c PROVE Fate(d)'
      BY <1>0, <2>1, <3>2 DEF Fates, Fate
    <3> QED BY <3>1, <3>2 DEF Fates
  <2>4. Alive' = Alive \ {c} /\ c \in Alive BY <2>1, <2>2 DEF Alive, Live
  <2>5. Lost' = Lost \cup {c} /\ c \notin Lost BY <1>0, <2>1, <2>2 DEF Lost
  <2>6. Rearming' = Rearming /\ ToCreate' = ToCreate
    BY <1>0b, <1>1, <2>1 DEF Rearming, ProceedFailed, Abandon
  <2>7. Cardinality(Alive') = Cardinality(Alive) - 1
    BY <2>4, FinitePlaces, FS_RemoveElement
  <2>8. Cardinality(Lost') = Cardinality(Lost) + 1
    BY <2>5, FinitePlaces, FS_AddElement
  <2>9. Balance' BY <1>0, <2>6, <2>7, <2>8, FinitePlaces, ServerAssumption DEF Balance
  <2> QED BY <2>3, <2>9
<1>2. ASSUME NEW c \in Contexts, ProceedCreate(q, c) PROVE Fates' /\ Balance'
  <2>1. /\ status_'[c] = "FINISH" /\ op'[c] = "finishing" /\ status_[c] = "CREATE"
        /\ thread' = thread
        /\ \A d \in Contexts : d # c => status_'[d] = status_[d] /\ op'[d] = op[d]
    BY <1>2 DEF ProceedCreate, Answer, Tags, TypeOK
  <2>2. Fates'
    <3>1. Fate(c)' BY <1>0, <2>1 DEF Fate
    <3>2. ASSUME NEW d \in Contexts, d # c PROVE Fate(d)'
      BY <1>0, <2>1, <3>2 DEF Fates, Fate
    <3> QED BY <3>1, <3>2 DEF Fates
  <2>3. Alive' = Alive BY <2>1 DEF Alive, Live
  <2>4. Lost' = Lost /\ Rearming' = Rearming BY <1>0, <2>1 DEF Lost, Rearming
  <2>5. ToCreate' = ToCreate BY <1>0b, <1>2 DEF ProceedCreate, Answer
  <2> QED BY <1>0, <2>2, <2>3, <2>4, <2>5 DEF Balance
<1>3. ASSUME NEW c \in Contexts, ProceedFinish(q, c) PROVE Fates' /\ Balance'
  <2>1. /\ status_'[c] = "deleted" /\ op'[c] = "none" /\ status_[c] = "FINISH" /\ op[c] = "ok"
        /\ \A d \in Contexts : d # c => status_'[d] = status_[d] /\ op'[d] = op[d]
        /\ thread[q] = "next" /\ thread'[q] = "rearm"
        /\ \A p \in Cqs : p # q => thread'[p] = thread[p]
    BY <1>3 DEF ProceedFinish, Retire, Drives, Tags, TypeOK
  <2>2. serves[c] # NoCall /\ call[serves[c]] = "answered" BY <2>1 DEF Fates, Fate
  <2>3. Fates'
    <3>1. Fate(c)' BY <1>0, <2>1, <2>2 DEF Fate
    <3>2. ASSUME NEW d \in Contexts, d # c PROVE Fate(d)'
      BY <1>0, <2>1, <3>2 DEF Fates, Fate
    <3> QED BY <3>1, <3>2 DEF Fates
  <2>4. Alive' = Alive \ {c} /\ c \in Alive BY <2>1 DEF Alive, Live
  <2>5. Rearming' = Rearming \cup {q} /\ q \notin Rearming BY <2>1 DEF Rearming
  <2>6. Lost' = Lost /\ ToCreate' = ToCreate
    <3>1. Lost' = Lost BY <1>0, <2>1, <2>2 DEF Lost
    <3>2. ToCreate' = ToCreate BY <1>0b, <1>3 DEF ProceedFinish, Retire
    <3> QED BY <3>1, <3>2
  <2>7. Cardinality(Alive') = Cardinality(Alive) - 1
    BY <2>4, FinitePlaces, FS_RemoveElement
  <2>8. Cardinality(Rearming') = Cardinality(Rearming) + 1
    BY <2>5, FinitePlaces, FS_AddElement
  <2>9. Balance' BY <1>0, <2>6, <2>7, <2>8, FinitePlaces, ServerAssumption DEF Balance
  <2> QED BY <2>3, <2>9
<1>4. CASE Rearm(q)
  <2>1. PICK c \in Contexts, o \in {"requested", "failed"} : Creates(q, c, o)
    BY <1>4, RearmCreates DEF Tags
  <2>2. /\ thread[q] = "rearm" /\ thread'[q] = "next"
        /\ \A p \in Cqs : p # q => thread'[p] = thread[p]
    BY <1>4 DEF Rearm, Tags, TypeOK
  <2>3. Fates' /\ Lost' = Lost /\ Cardinality(Alive') = Cardinality(Alive) + 1
    BY <1>0, <2>1, AliveCreated
  <2>4. ToCreate' = ToCreate
    <3>1. ToCreate = {} BY <2>2 DEF Left
    <3> QED BY <2>1, <3>1, CreatedOnce DEF Creates, Tags
  <2>5. Rearming' = Rearming \ {q} /\ q \in Rearming BY <2>2 DEF Rearming
  <2>6. Cardinality(Rearming') = Cardinality(Rearming) - 1
    BY <2>5, FinitePlaces, FS_RemoveElement
  <2>7. Balance' BY <1>0, <2>3, <2>4, <2>6, FinitePlaces, ServerAssumption DEF Balance
  <2> QED BY <2>3, <2>7
<1>5. CASE RearmClosed(q) \/ DriverExits(q)
  <2>1. UNCHANGED contextVars BY <1>5 DEF RearmClosed, DriverExits
  <2>2. Rearming' = Rearming
    BY <1>5 DEF RearmClosed, DriverExits, Rearming, Tags, TypeOK
  <2>3. Alive' = Alive /\ Lost' = Lost /\ ToCreate' = ToCreate
    BY <1>0, <2>1 DEF Alive, Live, Lost, ToCreate
  <2>4. Fates' BY <1>0, <2>1 DEF Fates, Fate
  <2> QED BY <1>0, <2>2, <2>3, <2>4 DEF Balance
<1> QED BY <1>1, <1>2, <1>3, <1>4, <1>5 DEF Driver

\* The signal handler, main, and steps that change nothing.
LEMMA AccountShutdown ==
    ASSUME Fates, Balance,
           \/ \E s \in SignalThreads : Signal(s)
           \/ \E s \in Threads : Shutdown(s)
           \/ MainEnds \/ Finished \/ UNCHANGED vars
    PROVE  Fates' /\ Balance'
<1>1. ASSUME NEW s \in Threads, CloseServer(s) PROVE Fates' /\ Balance'
  BY <1>1 DEF CloseServer, Fates, Balance
<1>2. ASSUME \/ \E s \in SignalThreads : Signal(s)
             \/ MainEnds \/ Finished \/ UNCHANGED vars
      PROVE  UNCHANGED <<contextVars, call, thread, server>>
  BY <1>2 DEF Signal, MainEnds, MainShutdown, MainReturns, MainExits, Finished, vars
<1>3. UNCHANGED <<contextVars, call, thread, server>> => Fates' /\ Balance'
  <2>1. server = "closed" \/ server # "closed" OBVIOUS
  <2> QED BY <2>1, AccountElsewhere
<1> QED BY <1>1, <1>2, <1>3, GoesOnElsewhere DEF Shutdown, GoesOn

\* Every step keeps the accounts of created, served and deleted contexts.
LEMMA AccountNext ==
    Tags /\ Serving /\ Left /\ Fates /\ Balance /\ [Next]_vars => Fates' /\ Balance'
BY AccountRun, AccountGrpc, AccountDriver, AccountShutdown DEF Next

\* While the server runs, the contexts that wait for a call or serve one, and those
\* that Proceed is about to create, are as many as Run created, less those whose
\* Finish failed.
THEOREM ContextsAreAccounted == Spec => []ContextsAccounted
<1>1. Init => Fates /\ Balance BY FatesInit
<1> QED BY <1>1, AccountNext, ServingCorrect, LeftCorrect, BalanceIsAccount, PTL DEF Spec
=============================================================================
