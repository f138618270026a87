-------------------------- MODULE AgentTasksProofs --------------------------
(* Theorems about AgentTasks, for every value of its constants.            *)
EXTENDS AgentTasks, SelectionProofs, SequenceTheorems, TLAPS

-----------------------------------------------------------------------------
(* Type correctness.                                                       *)

(* What happens to the queue of the semaphore leaves it a queue of runs.    *)
LEMMA WaitersType ==
  ASSUME TypeOK, NEW r \in Runs
  PROVE  /\ Append(waiters, r) \in Seq(Runs)
         /\ waiters # <<>> => Tail(waiters) \in Seq(Runs)
         /\ Select(waiters, {i \in DOMAIN waiters : waiters[i] # r}) \in Seq(Runs)
<1>1. waiters \in Seq(Runs)
  BY DEF TypeOK
<1>2. {i \in DOMAIN waiters : waiters[i] # r} \in SUBSET DOMAIN waiters
  OBVIOUS
<1>3. Select(waiters, {i \in DOMAIN waiters : waiters[i] # r}) \in Seq(Runs)
  BY <1>1, <1>2, SelectProperties
<1> QED BY <1>1, <1>3

(* The callers' steps keep the types.                                      *)
LEMMA CallType ==
  ASSUME NEW c \in Convs, Call(c), TypeOK
  PROVE  TypeOK'
<1> USE AgentsAssumption
<1>1. ASSUME NEW s \in Sessions, NEW d \in Callers, NEW kind \in {"dispatch", "resume"},
             Begin(c, d, s, kind)
      PROVE  TypeOK'
  BY <1>1 DEF Begin, TypeOK, runs, registry, Ready
<1>2. ASSUME NEW d \in Callers, CreateTask(c, d)
      PROVE  TypeOK'
  <2> DEFINE b == call[c][d]
             b2 == IF b.pc = "dispatch" THEN [b EXCEPT !.pc = "reply"] ELSE Ready
             PcCall == {"ready", "dispatch", "resume", "reply", "gone"}
             Rec == [pc : PcCall, run : Runs \cup {NoRun}]
  <2>1. call \in [Convs -> [Callers -> Rec]] /\ b \in Rec
    BY DEF TypeOK
  <2>2. b2 \in Rec
    BY <2>1 DEF Ready
  <2>3. call' = [call EXCEPT ![c] = [call[c] EXCEPT ![d] = b2]]
    BY <1>2, <2>1 DEF CreateTask
  <2>4. call' \in [Convs -> [Callers -> Rec]]
    BY <2>1, <2>2, <2>3
  <2>5. pc' = [pc EXCEPT ![b.run] = "new"] /\ task' = [task EXCEPT ![SessOf[b.run]] = b.run]
    BY <1>2 DEF CreateTask
  <2>6. /\ pc' \in [Runs -> {"none", "announce", "new", "permit", "sdk", "fallback",
                            "deliver", "ended"}]
        /\ task' \in [Sessions -> Runs \cup {NoRun}]
    BY <2>1, <2>5 DEF TypeOK
  <2> QED
    BY <1>2, <2>4, <2>6 DEF CreateTask, TypeOK, registry
<1>3. ASSUME ReportDispatched(c)
      PROVE  TypeOK'
  BY <1>3 DEF ReportDispatched, TypeOK, runs, registry, Ready, Callers
<1> QED
  BY <1>1, <1>2, <1>3 DEF Call, Dispatch, Resume, Callers

(* The steps of a run keep the types.                                      *)
LEMMA RunType ==
  ASSUME NEW r \in Runs, Run(r), TypeOK
  PROVE  TypeOK'
<1> USE AgentsAssumption DEF TypeOK, sessions, callers
<1>0. Name(r) \in Names
  BY DEF Name
<1>1. CASE Start(r)
  <2>1. CASE PermitFree /\ waiters = <<>>
    <3>1. Enter(r) /\ UNCHANGED <<waiters, status, task, shown, doomed, ear, call, conn, over>>
      BY <1>1, <2>1 DEF Start
    <3> QED BY <1>0, <3>1 DEF Enter
  <2>2. CASE ~(PermitFree /\ waiters = <<>>)
    <3>1. pc' = [pc EXCEPT ![r] = "permit"] /\ waiters' = Append(waiters, r)
      BY <1>1, <2>2 DEF Start
    <3>2. UNCHANGED <<callback, beating, status, task, shown, doomed, ear, call, conn, over>>
      BY <1>1, <2>2 DEF Start
    <3> QED BY <3>1, <3>2, WaitersType
  <2> QED
    BY <2>1, <2>2
<1>2. CASE Acquire(r)
  BY <1>0, <1>2, WaitersType DEF Acquire, Enter
<1>3. CASE Execute(r)
  BY <1>0, <1>3 DEF Execute, runs
<1>4. CASE Succeed(r)
  BY <1>0, <1>4 DEF Succeed, CleanUp
<1>5. CASE Crash(r)
  BY <1>0, <1>5 DEF Crash, CleanUp
<1>6. CASE TimeOut(r)
  BY <1>6 DEF TimeOut, registry
<1>7. CASE FallbackDone(r)
  BY <1>0, <1>7 DEF FallbackDone, CleanUp
<1>8. CASE Deliver(r)
  BY <1>8 DEF Deliver, registry
<1>9. CASE Cancelled(r)
  BY <1>0, <1>9, WaitersType DEF Cancelled, CleanUp
<1>10. CASE Heartbeat(r)
  BY <1>10 DEF Heartbeat, runs
<1> QED
  BY <1>1, <1>2, <1>3, <1>4, <1>5, <1>6, <1>7, <1>8, <1>9, <1>10 DEF Run

(* Cancellations and endings keep the types.                               *)
LEMMA EndType ==
  ASSUME NEW c \in Convs, End(c), TypeOK
  PROVE  TypeOK'
<1> USE AgentsAssumption DEF TypeOK, sessions, registry, TasksOf
<1>1. CASE CancelAgents(c)
  BY <1>1 DEF CancelAgents, callers
<1>2. CASE Delete(c)
  BY <1>2 DEF Delete
<1>3. CASE Disconnect(c)
  BY <1>3 DEF Disconnect, CloseProxy, Gone, Callers
<1>4. CASE HandlerTerminate(c)
  BY <1>4 DEF HandlerTerminate
<1> QED
  BY <1>1, <1>2, <1>3, <1>4 DEF End

(* Every variable keeps its type in every behaviour.                       *)
THEOREM AgentTypes == Spec => []TypeOK
<1>1. Init => TypeOK
  BY AgentsAssumption DEF Init, TypeOK, Ready, Callers
<1>2. TypeOK /\ [Next]_vars => TypeOK'
  <2> SUFFICES ASSUME TypeOK, [Next]_vars PROVE TypeOK'
    OBVIOUS
  <2>1. CASE UNCHANGED vars
    BY <2>1 DEF vars, TypeOK
  <2>2. CASE Next
    BY <2>2, CallType, RunType, EndType DEF Next, Callers
  <2> QED BY <2>1, <2>2
<1> QED BY <1>1, <1>2, PTL DEF Spec

-----------------------------------------------------------------------------
(* The inductive invariant.                                                *)

Announcing(c, a) == call[c][a].pc \in {"dispatch", "resume"}

(* A caller that announces has a run of its conversation in its care, and  *)
(* no two have the same.                                                   *)
CallsOwn ==
  \A c \in Convs, a \in Callers :
    Announcing(c, a) => /\ call[c][a].run \in Runs
                        /\ pc[call[c][a].run] = "announce"
                        /\ ConvOf[SessOf[call[c][a].run]] = c

CallsApart ==
  \A c \in Convs : \A a, d \in Callers :
    Announcing(c, a) /\ Announcing(c, d) /\ call[c][a].run = call[c][d].run => a = d

Announced ==
  \A r \in Runs : pc[r] = "announce" =>
    \E a \in Callers : LET c == ConvOf[SessOf[r]]
                       IN  Announcing(c, a) /\ call[c][a].run = r

(* What is a task, or was cancelled, has been begun and announced.         *)
TasksBegun ==
  /\ \A s \in Sessions : task[s] \in Runs => pc[task[s]] \notin {"none", "announce"}
  /\ \A r \in doomed : pc[r] \notin {"none", "announce"}

(* When the handler has left its loop nobody calls for the conversation,   *)
(* and its terminate_session is the last thing it does.                    *)
CallersGone ==
  \A c \in Convs : /\ conn[c] # "open" => \A a \in Callers : call[c][a] = Gone
                   /\ over[c] = "handler" => conn[c] = "closed"

Inv ==
  /\ TypeOK
  /\ CallsOwn /\ CallsApart /\ Announced /\ TasksBegun /\ CallersGone
  /\ OneWorker /\ CancelReachesWorkers /\ NoDanglingCallback /\ HandlerEndsWork

(* A dispatch or a resume, given that the session was not active.          *)
LEMMA BeginKeeps ==
  ASSUME Inv, TypeOK', NEW c \in Convs, NEW a \in Callers, NEW s \in Sessions,
         NEW kind \in {"dispatch", "resume"}, Begin(c, a, s, kind),
         status[s] # "active"
  PROVE  Inv'
<1> USE AgentsAssumption
<1>1. PICK r \in Runs :
        /\ pc[r] = "none" /\ SessOf[r] = s
        /\ pc' = [pc EXCEPT ![r] = "announce"]
        /\ call' = [call EXCEPT ![c][a] = [pc |-> kind, run |-> r]]
  BY DEF Begin
<1>2. /\ ConvOf[s] = c /\ call[c][a] = Ready
      /\ status' = [status EXCEPT ![s] = "active"]
      /\ UNCHANGED <<task, doomed, callback, conn, over>>
  BY DEF Begin, registry
<1>3. /\ \A q \in Runs : pc'[q] = IF q = r THEN "announce" ELSE pc[q]
      /\ \A k \in Sessions : status'[k] = IF k = s THEN "active" ELSE status[k]
      /\ \A e \in Convs, d \in Callers :
           call'[e][d] = IF e = c /\ d = a THEN [pc |-> kind, run |-> r] ELSE call[e][d]
  BY <1>1, <1>2 DEF Inv, TypeOK
<1>4. CallsOwn'
  BY <1>1, <1>2, <1>3 DEF Inv, CallsOwn, Announcing
<1>5. CallsApart'
  BY <1>1, <1>2, <1>3 DEF Inv, CallsOwn, CallsApart, Announcing
<1>6. Announced'
  BY <1>1, <1>2, <1>3 DEF Inv, Announced, Announcing, Ready
<1>7. TasksBegun'
  BY <1>1, <1>2, <1>3 DEF Inv, TypeOK, TasksBegun
<1>8. CallersGone'
  BY <1>1, <1>2, <1>3 DEF Inv, CallersGone, Ready, Gone
<1>9. OneWorker'
  BY <1>1, <1>2, <1>3 DEF Inv, OneWorker, Working
<1>10. CancelReachesWorkers' /\ NoDanglingCallback'
  BY <1>1, <1>2, <1>3 DEF Inv, TypeOK, CancelReachesWorkers, NoDanglingCallback, Holding, Name
<1>11. HandlerEndsWork'
  BY <1>1, <1>2, <1>3 DEF Inv, CallersGone, HandlerEndsWork, Working, Ready, Gone
<1> QED
  BY <1>4, <1>5, <1>6, <1>7, <1>8, <1>9, <1>10, <1>11 DEF Inv

(* The announced run becomes the task of its session.                      *)
LEMMA CreateKeeps ==
  ASSUME Inv, TypeOK', NEW c \in Convs, NEW a \in Callers, CreateTask(c, a)
  PROVE  Inv'
<1> USE AgentsAssumption
<1> DEFINE r == call[c][a].run
<1>1. /\ Announcing(c, a)
      /\ pc' = [pc EXCEPT ![r] = "new"] /\ task' = [task EXCEPT ![SessOf[r]] = r]
      /\ UNCHANGED <<status, doomed, callback, conn, over>>
  BY DEF CreateTask, Announcing, registry
<1>2. r \in Runs /\ pc[r] = "announce" /\ ConvOf[SessOf[r]] = c
  BY <1>1 DEF Inv, CallsOwn
<1>3. /\ \A q \in Runs : pc'[q] = IF q = r THEN "new" ELSE pc[q]
      /\ \A k \in Sessions : task'[k] = IF k = SessOf[r] THEN r ELSE task[k]
  BY <1>1, <1>2 DEF Inv, TypeOK
<1>4. /\ \A e \in Convs, d \in Callers : ~(e = c /\ d = a) => call'[e][d] = call[e][d]
      /\ call'[c][a].pc \in {"reply", "ready"}
  BY DEF CreateTask, Inv, TypeOK, Ready
<1>5. CallsOwn'
  BY <1>1, <1>2, <1>3, <1>4 DEF Inv, CallsOwn, CallsApart, Announcing
<1>6. CallsApart'
  BY <1>4 DEF Inv, CallsApart, Announcing
<1>7. Announced'
  BY <1>1, <1>2, <1>3, <1>4 DEF Inv, Announced, Announcing
<1>8. TasksBegun'
  BY <1>1, <1>2, <1>3 DEF Inv, TypeOK, TasksBegun
<1>9. CallersGone'
  BY <1>1, <1>4 DEF Inv, CallersGone, Announcing, Gone
<1>10. OneWorker'
  BY <1>1, <1>2, <1>3 DEF Inv, OneWorker, Working
<1>11. CancelReachesWorkers'
  BY <1>1, <1>2, <1>3 DEF Inv, OneWorker, CancelReachesWorkers, Working
<1>12. NoDanglingCallback'
  BY <1>1, <1>2, <1>3 DEF Inv, TypeOK, NoDanglingCallback, Holding, Name
<1>13. HandlerEndsWork'
  BY <1>1, <1>2, <1>3 DEF Inv, HandlerEndsWork, Working
<1> QED
  BY <1>5, <1>6, <1>7, <1>8, <1>9, <1>10, <1>11, <1>12, <1>13 DEF Inv

(* What the steps of a run have in common.  It moves on; it works after    *)
(* the step only if it did before; it changes the status only when it      *)
(* stops working; its callback is there only while it holds its permit.    *)
InTask == {"new", "permit", "sdk", "fallback", "deliver", "ended"}

LEMMA RunMoves ==
  ASSUME Inv, TypeOK', NEW r \in Runs, NEW p \in InTask \ {"new"},
         pc[r] \in InTask, pc' = [pc EXCEPT ![r] = p],
         UNCHANGED <<task, call, conn, over>>,
         doomed' = doomed \/ (doomed' = doomed \ {r} /\ p = "ended"),
         p \in {"permit", "sdk", "deliver"} => Working(r) /\ status' = status,
         \/ status' = status
         \/ Working(r) /\ \A s \in Sessions \ {SessOf[r]} : status'[s] = status[s],
         \/ callback' = callback /\ (r \in Holding => p \in {"sdk", "fallback"})
         \/ callback' = [callback EXCEPT ![Name(r)] = r] /\ p = "sdk"
         \/ callback' = [callback EXCEPT ![Name(r)] = NoRun]
  PROVE  Inv'
<1> USE AgentsAssumption
<1>1. \A q \in Runs : pc'[q] = IF q = r THEN p ELSE pc[q]
  BY DEF Inv, TypeOK
<1>2. /\ \A q \in Runs : pc[q] = "announce" <=> pc'[q] = "announce"
      /\ \A q \in Runs : pc[q] = "none" <=> pc'[q] = "none"
      /\ \A q \in Runs : q # r /\ q \in doomed => q \in doomed'
  BY <1>1 DEF InTask
<1>3. CallsOwn' /\ CallsApart' /\ CallersGone'
  BY <1>2 DEF Inv, CallsOwn, CallsApart, CallersGone, Announcing
<1>4. Announced'
  BY <1>2 DEF Inv, Announced, Announcing
<1>5. TasksBegun'
  BY <1>2 DEF Inv, TypeOK, TasksBegun
<1>6. \A q \in Runs : Working(q)' => Working(q) /\ (q = r => status' = status)
  BY <1>1 DEF Working, InTask
<1>7. OneWorker'
  <2>1. ASSUME NEW q \in Runs, Working(q)'
        PROVE  status'[SessOf[q]] = "active"
    <3>1. Working(q) /\ status[SessOf[q]] = "active"
      BY <1>6, <2>1 DEF Inv, OneWorker
    <3>2. CASE q = r
      BY <1>6, <2>1, <3>1, <3>2
    <3>3. CASE q # r /\ status' # status
      <4>1. SessOf[q] # SessOf[r]
        BY <3>1, <3>3 DEF Inv, OneWorker
      <4> QED BY <3>1, <3>3, <4>1
    <3> QED BY <3>1, <3>2, <3>3
  <2> QED BY <1>6, <2>1 DEF Inv, OneWorker
<1>8. CancelReachesWorkers'
  BY <1>1 DEF Inv, CancelReachesWorkers, InTask, Working
<1>9. NoDanglingCallback'
  BY <1>1 DEF Inv, TypeOK, NoDanglingCallback, Holding, Name, InTask
<1>10. HandlerEndsWork'
  BY <1>1, <1>2, <1>6 DEF Inv, HandlerEndsWork, Working
<1> QED
  BY <1>3, <1>4, <1>5, <1>7, <1>8, <1>9, <1>10 DEF Inv

(* Every step of a run is such a move, or leaves the run where it is.      *)
LEMMA RunKeeps ==
  ASSUME Inv, TypeOK', NEW r \in Runs, Run(r)
  PROVE  Inv'
<1> USE DEF sessions, callers, InTask
<1>0. pc[r] \in {"none", "announce"} \cup InTask
  BY DEF Inv, TypeOK
<1>1. CASE Start(r)
  <2>1. CASE Enter(r) /\ UNCHANGED <<status, task, doomed, call, conn, over>>
    BY <1>1, <2>1, RunMoves DEF Start, Enter, Working
  <2>2. CASE /\ pc' = [pc EXCEPT ![r] = "permit"]
             /\ UNCHANGED <<callback, status, task, doomed, call, conn, over>>
    BY <1>1, <2>2, RunMoves DEF Start, Holding, Working
  <2> QED BY <1>1, <2>1, <2>2 DEF Start
<1>2. CASE Acquire(r)
  BY <1>2, RunMoves DEF Acquire, Enter, Working
<1>3. CASE Execute(r)
  BY <1>3 DEF Execute, runs, Inv, CallsOwn, CallsApart, Announced, TasksBegun, CallersGone,
              OneWorker, CancelReachesWorkers, NoDanglingCallback, HandlerEndsWork,
              Announcing, Working, Holding
<1>4. CASE Succeed(r)
  BY <1>4, RunMoves DEF Succeed, CleanUp, Working
<1>5. CASE Crash(r)
  BY <1>5, RunMoves DEF Crash, CleanUp, Working, Inv, TypeOK
<1>6. CASE TimeOut(r)
  BY <1>6, RunMoves DEF TimeOut, registry, Working, Inv, TypeOK
<1>7. CASE FallbackDone(r)
  BY <1>7, RunMoves DEF FallbackDone, CleanUp
<1>8. CASE Deliver(r)
  BY <1>8, RunMoves DEF Deliver, registry, Working, Holding, Inv, TypeOK
<1>9. CASE Cancelled(r)
  BY <1>0, <1>9, RunMoves DEF Cancelled, CleanUp, Working, Holding, Inv, TypeOK, TasksBegun
<1>10. CASE Heartbeat(r)
  BY <1>10 DEF Heartbeat, runs, Inv, CallsOwn, CallsApart, Announced, TasksBegun, CallersGone,
               OneWorker, CancelReachesWorkers, NoDanglingCallback, HandlerEndsWork,
               Announcing, Working, Holding
<1> QED
  BY <1>1, <1>2, <1>3, <1>4, <1>5, <1>6, <1>7, <1>8, <1>9, <1>10 DEF Run

(* Cancelling the tasks of a conversation dooms every run that works for   *)
(* it, but for those that are still being announced.                       *)
LEMMA TasksOfWorkers ==
  ASSUME Inv, NEW r \in Runs, Working(r)
  PROVE  r \in TasksOf(ConvOf[SessOf[r]]) \/ pc[r] = "announce"
<1> SUFFICES ASSUME pc[r] # "announce"
             PROVE  r \in TasksOf(ConvOf[SessOf[r]])
  OBVIOUS
<1>1. task[SessOf[r]] = r /\ pc[r] # "ended" /\ SessOf[r] \in Sessions
  BY AgentsAssumption DEF Inv, CancelReachesWorkers, Working
<1> QED BY <1>1 DEF TasksOf

(* What is cancelled by conversation is a task that was begun.             *)
LEMMA TasksOfBegun ==
  ASSUME Inv, NEW c \in Convs, NEW r \in TasksOf(c)
  PROVE  r \in Runs /\ pc[r] \notin {"none", "announce"}
  BY AgentsAssumption DEF Inv, TasksBegun, TasksOf

(* Cancellations and endings keep the invariant.                           *)
LEMMA EndKeeps ==
  ASSUME Inv, TypeOK', NEW c \in Convs, End(c)
  PROVE  Inv'
<1> USE AgentsAssumption DEF sessions, registry, Announcing
<1>1. ASSUME UNCHANGED <<status, task, callback, call, pc>>,
             doomed' = doomed \/ doomed' = doomed \cup TasksOf(c)
      PROVE  /\ CallsOwn' /\ CallsApart' /\ Announced' /\ TasksBegun'
             /\ OneWorker' /\ CancelReachesWorkers' /\ NoDanglingCallback'
  BY <1>1, TasksOfBegun
  DEF Inv, CallsOwn, CallsApart, Announced, TasksBegun, OneWorker,
      CancelReachesWorkers, NoDanglingCallback, Working, Holding
<1>2. CASE CancelAgents(c)
  <2>1. CallersGone' /\ HandlerEndsWork'
    BY <1>2 DEF CancelAgents, callers, Inv, CallersGone, HandlerEndsWork, Working
  <2> QED BY <1>1, <1>2, <2>1 DEF CancelAgents, callers, Inv
<1>3. CASE Delete(c)
  <2>1. \A e \in Convs : over'[e] = "handler" => over[e] = "handler"
    BY <1>3 DEF Delete, Inv, TypeOK
  <2>2. CallersGone' /\ HandlerEndsWork'
    BY <1>3, <2>1 DEF Delete, Inv, CallersGone, HandlerEndsWork, Working
  <2> QED BY <1>1, <1>3, <2>2 DEF Delete, Inv
<1>4. CASE HandlerTerminate(c)
  <2>1. /\ conn[c] = "closing" /\ conn' = [conn EXCEPT ![c] = "closed"]
        /\ UNCHANGED <<status, task, callback, call, pc>>
        /\ \/ over' = [over EXCEPT ![c] = "handler"] /\ doomed' = doomed \cup TasksOf(c)
           \/ UNCHANGED <<over, doomed>>
    BY <1>4 DEF HandlerTerminate
  <2>2. CallersGone'
    BY <2>1 DEF Inv, TypeOK, CallersGone
  <2>3. \A r \in Runs : pc[r] = "announce" => ConvOf[SessOf[r]] # c
    BY <2>1 DEF Inv, Announced, CallersGone, Gone
  <2>4. HandlerEndsWork'
    <3> SUFFICES ASSUME NEW r \in Runs, over'[ConvOf[SessOf[r]]] = "handler", Working(r)'
                 PROVE  r \in doomed'
      BY DEF HandlerEndsWork
    <3>1. Working(r)
      BY <2>1 DEF Working
    <3>2. CASE over[ConvOf[SessOf[r]]] = "handler"
      BY <2>1, <3>1, <3>2 DEF Inv, HandlerEndsWork
    <3>3. CASE over[ConvOf[SessOf[r]]] # "handler"
      <4>1. ConvOf[SessOf[r]] = c /\ doomed' = doomed \cup TasksOf(c)
        BY <2>1, <3>3 DEF Inv, TypeOK
      <4>2. r \in TasksOf(c)
        BY <2>3, <3>1, <4>1, TasksOfWorkers
      <4> QED BY <4>1, <4>2
    <3> QED BY <3>2, <3>3
  <2> QED BY <1>1, <2>1, <2>2, <2>4 DEF Inv
<1>5. CASE Disconnect(c)
  <2> DEFINE b == call[c]["gemini"]
  <2>1. /\ conn[c] = "open" /\ conn' = [conn EXCEPT ![c] = "closing"]
        /\ call[c]["client"] = Ready
        /\ call' = [call EXCEPT ![c] = [a \in Callers |-> Gone]]
        /\ pc' = IF b.pc \in {"dispatch", "resume"} THEN [pc EXCEPT ![b.run] = "ended"] ELSE pc
        /\ UNCHANGED <<status, task, doomed, callback, over>>
    BY <1>5 DEF Disconnect, CloseProxy
  <2>2. \A q \in Runs : \/ pc'[q] = pc[q]
                        \/ /\ q = b.run /\ Announcing(c, "gemini")
                           /\ pc[q] = "announce" /\ pc'[q] = "ended"
                           /\ ConvOf[SessOf[q]] = c
    BY <2>1 DEF Inv, TypeOK, CallsOwn, Callers
  <2>3. \A e \in Convs, a \in Callers :
          IF e = c THEN call'[e][a] = Gone ELSE call'[e][a] = call[e][a]
    BY <2>1 DEF Inv, TypeOK
  <2>4. CallsOwn'
    BY <2>2, <2>3 DEF Inv, CallsOwn, Gone
  <2>5. CallsApart'
    BY <2>3 DEF Inv, CallsApart, Gone
  <2>6. Announced'
    <3>1. ASSUME NEW r \in Runs, pc'[r] = "announce"
          PROVE  ConvOf[SessOf[r]] # c
      <4>1. pc[r] = "announce"
        BY <2>2, <3>1
      <4>2. SUFFICES ASSUME ConvOf[SessOf[r]] = c PROVE FALSE
        OBVIOUS
      <4>3. Announcing(c, "gemini") /\ b.run = r
        BY <2>1, <4>1, <4>2 DEF Inv, Announced, Callers, Ready
      <4> QED BY <2>1, <3>1, <4>3 DEF Inv, TypeOK
    <3>2. \A r \in Runs : pc'[r] = "announce" => pc[r] = "announce"
      BY <2>2
    <3> QED BY <2>3, <3>1, <3>2 DEF Inv, Announced
  <2>7. TasksBegun'
    BY <2>1, <2>2 DEF Inv, TypeOK, TasksBegun
  <2>8. CallersGone'
    BY <2>1, <2>3 DEF Inv, TypeOK, CallersGone
  <2>9. \A q \in Runs : Working(q)' => Working(q)
    BY <2>2 DEF Working
  <2>10. OneWorker' /\ HandlerEndsWork'
    BY <2>1, <2>9 DEF Inv, OneWorker, HandlerEndsWork
  <2>11. CancelReachesWorkers' /\ NoDanglingCallback'
    BY <2>1, <2>2 DEF Inv, TypeOK, CancelReachesWorkers, NoDanglingCallback, Holding, Name
  <2> QED
    BY <2>4, <2>5, <2>6, <2>7, <2>8, <2>10, <2>11 DEF Inv
<1> QED
  BY <1>2, <1>3, <1>4, <1>5 DEF End

(* The callers' steps keep the invariant; here the busy check is used.     *)
LEMMA CallKeeps ==
  ASSUME Inv, TypeOK', NEW c \in Convs, Call(c)
  PROVE  Inv'
<1>1. CASE \E s \in Sessions : Dispatch(c, s) \/ \E a \in Callers : Resume(c, a, s)
  BY <1>1, BeginKeeps DEF Dispatch, Resume, Resumable, Callers
<1>2. CASE \E a \in Callers : CreateTask(c, a)
  BY <1>2, CreateKeeps
<1>3. CASE ReportDispatched(c)
  <2>1. /\ call' = [call EXCEPT ![c]["gemini"] = Ready] /\ call[c]["gemini"].pc = "reply"
        /\ UNCHANGED <<status, task, pc, doomed, callback, conn, over>>
    BY <1>3 DEF ReportDispatched, runs, registry
  <2>2. \A e \in Convs, a \in Callers :
          \/ call'[e][a] = call[e][a]
          \/ call'[e][a] = Ready /\ e = c /\ a = "gemini"
    BY <2>1 DEF Inv, TypeOK
  <2>3. \A e \in Convs, a \in Callers :
          /\ Announcing(e, a)' <=> Announcing(e, a)
          /\ Announcing(e, a) => call'[e][a] = call[e][a]
    BY <2>1, <2>2 DEF Announcing, Ready
  <2>4. CallsOwn' /\ CallsApart'
    BY <2>1, <2>3 DEF Inv, CallsOwn, CallsApart
  <2>5. Announced'
    BY AgentsAssumption, <2>1, <2>3 DEF Inv, Announced
  <2>6. CallersGone'
    BY <2>1, <2>2 DEF Inv, CallersGone, Gone
  <2> QED
    BY <2>1, <2>4, <2>5, <2>6
    DEF Inv, TasksBegun, OneWorker, CancelReachesWorkers, NoDanglingCallback,
        HandlerEndsWork, Working, Holding
<1> QED
  BY <1>1, <1>2, <1>3 DEF Call

-----------------------------------------------------------------------------
(* The inductive invariant holds in every behaviour.                       *)
THEOREM AgentsInv == Spec => []Inv
<1>1. Init => Inv
  <2> SUFFICES ASSUME Init PROVE Inv
    OBVIOUS
  <2>1. TypeOK
    BY AgentsAssumption DEF Init, TypeOK, Ready, Callers
  <2> QED
    BY AgentsAssumption, <2>1
    DEF Init, Inv, CallsOwn, CallsApart, Announced, TasksBegun, CallersGone, OneWorker,
        CancelReachesWorkers, NoDanglingCallback, HandlerEndsWork, Announcing, Working, Ready
<1>2. Inv /\ [Next]_vars => Inv'
  <2> SUFFICES ASSUME Inv, [Next]_vars PROVE Inv'
    OBVIOUS
  <2>1. CASE UNCHANGED vars
    BY <2>1
    DEF vars, Inv, TypeOK, CallsOwn, CallsApart, Announced, TasksBegun, CallersGone,
        OneWorker, CancelReachesWorkers, NoDanglingCallback, HandlerEndsWork, Announcing,
        Working, Holding
  <2>2. CASE Next
    <3>1. TypeOK
      BY DEF Inv
    <3>2. TypeOK'
      BY <2>2, <3>1, CallType, RunType, EndType DEF Next
    <3> QED
      BY <2>2, <3>2, CallKeeps, RunKeeps, EndKeeps DEF Next
  <2> QED BY <2>1, <2>2
<1> QED BY <1>1, <1>2, PTL DEF Spec

(* The busy check keeps an agent session to one run at a time, and active  *)
(* while it works (gemini_proxy.py:847, handler.py:309).                   *)
THEOREM AgentsOneWorker == Spec => []OneWorker
<1>1. Inv => OneWorker
  BY DEF Inv
<1> QED BY <1>1, AgentsInv, PTL

(* Cancelling by claude_task reaches every working task.                   *)
THEOREM AgentsReachable == Spec => []CancelReachesWorkers
<1>1. Inv => CancelReachesWorkers
  BY DEF Inv
<1> QED BY <1>1, AgentsInv, PTL

(* The registry of callbacks is cleaned up on every way out.               *)
THEOREM AgentsRegistry == Spec => []NoDanglingCallback
<1>1. Inv => NoDanglingCallback
  BY DEF Inv
<1> QED BY <1>1, AgentsInv, PTL

(* The end of a connection leaves no agent working for it uncancelled.     *)
THEOREM AgentsHandlerEnds == Spec => []HandlerEndsWork
<1>1. Inv => HandlerEndsWork
  BY DEF Inv
<1> QED BY <1>1, AgentsInv, PTL

-----------------------------------------------------------------------------
(* Whom an agent's texts reach.                                            *)

(* The executor calls the callback of a run of its own agent.              *)
HeardByOwnAgent == \A r \in Runs : ear[r] \in Runs => Name(ear[r]) = Name(r)

LEMMA EarStep == Inv /\ HeardByOwnAgent /\ [Next]_vars => HeardByOwnAgent'
<1> SUFFICES ASSUME Inv, HeardByOwnAgent, [Next]_vars PROVE HeardByOwnAgent'
  OBVIOUS
<1>1. CASE ear' = ear
  BY <1>1 DEF HeardByOwnAgent, Name
<1>2. ASSUME NEW r \in Runs, Execute(r) PROVE HeardByOwnAgent'
  <2>1. Name(r) \in Names
    BY AgentsAssumption DEF Name
  <2>2. callback[Name(r)] \in Runs => Name(callback[Name(r)]) = Name(r)
    BY <2>1, AgentsAssumption DEF Inv, NoDanglingCallback
  <2>3. ear' = [ear EXCEPT ![r] = callback[Name(r)]]
    BY <1>2 DEF Execute
  <2> QED BY <2>2, <2>3 DEF Inv, TypeOK, HeardByOwnAgent, Name
<1>3. ASSUME NEW r \in Runs, Run(r) PROVE ear' = ear \/ Execute(r)
  BY <1>3 DEF Run, Start, Acquire, Succeed, Crash, TimeOut, FallbackDone, Deliver, Cancelled,
              Heartbeat, registry
<1>4. ASSUME NEW c \in Convs, Call(c) \/ End(c) PROVE ear' = ear
  BY <1>4 DEF Call, Dispatch, Resume, Begin, CreateTask, ReportDispatched, End, CancelAgents,
              Delete, Disconnect, HandlerTerminate, registry
<1>5. UNCHANGED vars => ear' = ear
  BY DEF vars
<1> QED BY <1>1, <1>2, <1>3, <1>4, <1>5 DEF Next

(* Though entries of the registry replace and remove each other, what an   *)
(* agent says is never taken for the words of another (executor.py:47).    *)
THEOREM TextsKeepTheirAgent == Spec => []HeardByOwnAgent
<1>1. Init => HeardByOwnAgent
  BY AgentsAssumption DEF Init, HeardByOwnAgent
<1> QED BY AgentsInv, EarStep, <1>1, PTL DEF Spec

(* "Registry keyed by agent_name is sufficient" as long as no two          *)
(* conversations have a session of the same agent.  Without that it is not *)
(* (the run agents_comm).                                                  *)
THEOREM TextsReachOwnersApart ==
  ASSUME \A s, t \in Sessions : NameOf[s] = NameOf[t] => ConvOf[s] = ConvOf[t]
  PROVE  Spec => []TextsReachOwner
<1>1. HeardByOwnAgent => TextsReachOwner
  BY AgentsAssumption DEF HeardByOwnAgent, TextsReachOwner, Name
<1> QED BY TextsKeepTheirAgent, <1>1, PTL

-----------------------------------------------------------------------------
(* The queue of the semaphore.                                             *)

Drop(r) == Select(waiters, {i \in DOMAIN waiters : waiters[i] # r})

Queued == \A r \in Runs : pc[r] = "permit" <=> \E i \in DOMAIN waiters : waiters[i] = r
QueuedOnce == \A i, j \in DOMAIN waiters : waiters[i] = waiters[j] => i = j
QueueExact == Queued /\ QueuedOnce

(* A run that has been cancelled leaves the queue, and nobody else does.   *)
LEMMA DropFacts ==
  ASSUME waiters \in Seq(Runs), QueuedOnce, NEW r \in Runs
  PROVE  /\ \A q : (\E k \in DOMAIN Drop(r) : Drop(r)[k] = q)
                     <=> q # r /\ \E i \in DOMAIN waiters : waiters[i] = q
         /\ \A k, l \in DOMAIN Drop(r) : Drop(r)[k] = Drop(r)[l] => k = l
<1> DEFINE S == {i \in DOMAIN waiters : waiters[i] # r}
<1>1. /\ S \in SUBSET DOMAIN waiters
      /\ \A i \in S : waiters[i] # r
      /\ \A i \in DOMAIN waiters : waiters[i] # r => i \in S
  OBVIOUS
<1>2. Drop(r) = Select(waiters, S)
  BY DEF Drop
<1> HIDE DEF S
<1>3. /\ DOMAIN Drop(r) = 1 .. Cardinality(S)
      /\ \A k \in DOMAIN Drop(r) : Nth(S, k) \in S /\ Drop(r)[k] = waiters[Nth(S, k)]
      /\ \A k, l \in DOMAIN Drop(r) : k < l => Nth(S, k) < Nth(S, l)
  BY <1>1, <1>2, SelectProperties
<1>4. \A i \in S : \E k \in DOMAIN Drop(r) : Drop(r)[k] = waiters[i]
  BY <1>1, <1>2, SelectCovers
<1>5. ASSUME NEW k \in DOMAIN Drop(r), NEW l \in DOMAIN Drop(r), Drop(r)[k] = Drop(r)[l]
      PROVE  k = l
  <2>1. Nth(S, k) = Nth(S, l)
    BY <1>1, <1>3, <1>5 DEF QueuedOnce
  <2>2. ~(k < l) /\ ~(l < k)
    <3>1. Nth(S, k) \in Int
      BY <1>1, <1>3
    <3> QED BY <1>3, <2>1, <3>1
  <2>3. k \in Int /\ l \in Int
    BY <1>3
  <2> QED BY <2>2, <2>3
<1> QED BY <1>1, <1>3, <1>4, <1>5

LEMMA QueueStep == Inv /\ QueueExact /\ [Next]_vars => QueueExact'
<1> SUFFICES ASSUME Inv, QueueExact, [Next]_vars PROVE QueueExact'
  OBVIOUS
<1>0. /\ waiters \in Seq(Runs) /\ DOMAIN waiters = 1 .. Len(waiters) /\ Len(waiters) \in Nat
      /\ DOMAIN pc = Runs
  BY DEF Inv, TypeOK
<1>1. ASSUME waiters' = waiters, \A r \in Runs : pc'[r] = "permit" <=> pc[r] = "permit"
      PROVE  QueueExact'
  BY <1>1 DEF QueueExact, Queued, QueuedOnce
<1>2. ASSUME NEW r \in Runs, pc[r] = "new", waiters' = Append(waiters, r), pc'[r] = "permit",
             \A q \in Runs \ {r} : pc'[q] = pc[q]
      PROVE  QueueExact'
  <2>1. /\ DOMAIN waiters' = 1 .. Len(waiters) + 1 /\ waiters'[Len(waiters) + 1] = r
        /\ \A i \in DOMAIN waiters : waiters'[i] = waiters[i]
    BY <1>0, <1>2
  <2>2. \A i \in DOMAIN waiters : waiters[i] # r
    BY <1>2 DEF QueueExact, Queued
  <2>3. QueuedOnce'
    BY <1>0, <2>1, <2>2 DEF QueueExact, QueuedOnce
  <2>4. ASSUME NEW q \in Runs
        PROVE  pc'[q] = "permit" <=> \E i \in DOMAIN waiters' : waiters'[i] = q
    BY <1>0, <1>2, <2>1, <2>4 DEF QueueExact, Queued
  <2> QED BY <2>3, <2>4 DEF QueueExact, Queued
<1>3. ASSUME NEW r \in Runs, waiters # <<>>, Head(waiters) = r, waiters' = Tail(waiters),
             pc'[r] # "permit", \A q \in Runs \ {r} : pc'[q] = pc[q]
      PROVE  QueueExact'
  <2>1. /\ waiters[1] = r /\ 1 \in DOMAIN waiters
        /\ DOMAIN waiters' = 1 .. Len(waiters) - 1
        /\ \A i \in DOMAIN waiters' : waiters'[i] = waiters[i + 1]
    BY <1>0, <1>3
  <2>2. \A i \in DOMAIN waiters : i # 1 => waiters[i] # r
    BY <2>1 DEF QueueExact, QueuedOnce
  <2>3. QueuedOnce'
    BY <1>0, <2>1 DEF QueueExact, QueuedOnce
  <2>4. ASSUME NEW q \in Runs
        PROVE  pc'[q] = "permit" <=> \E i \in DOMAIN waiters' : waiters'[i] = q
    <3>1. (\E i \in DOMAIN waiters' : waiters'[i] = q)
            <=> q # r /\ \E i \in DOMAIN waiters : waiters[i] = q
      <4>1. ASSUME NEW i \in DOMAIN waiters, waiters[i] = q, q # r
            PROVE  \E j \in DOMAIN waiters' : waiters'[j] = q
        <5>1. i - 1 \in DOMAIN waiters' /\ waiters'[i - 1] = waiters[(i - 1) + 1]
          BY <1>0, <2>1, <4>1
        <5> QED BY <1>0, <4>1, <5>1
      <4>2. ASSUME NEW j \in DOMAIN waiters', waiters'[j] = q
            PROVE  q # r /\ \E i \in DOMAIN waiters : waiters[i] = q
        <5>1. j + 1 \in DOMAIN waiters /\ j + 1 # 1 /\ waiters[j + 1] = q
          BY <1>0, <2>1, <4>2
        <5> QED BY <2>2, <5>1
      <4> QED BY <4>1, <4>2
    <3> QED BY <1>3, <2>4, <3>1 DEF QueueExact, Queued
  <2> QED BY <2>3, <2>4 DEF QueueExact, Queued
<1>4. ASSUME NEW r \in Runs, waiters' = Drop(r), pc'[r] # "permit",
             \A q \in Runs \ {r} : pc'[q] = pc[q]
      PROVE  QueueExact'
  <2>1. /\ \A q : (\E k \in DOMAIN waiters' : waiters'[k] = q)
                    <=> q # r /\ \E i \in DOMAIN waiters : waiters[i] = q
        /\ \A k, l \in DOMAIN waiters' : waiters'[k] = waiters'[l] => k = l
    BY <1>0, <1>4, DropFacts DEF QueueExact
  <2>2. Queued'
    BY <1>4, <2>1 DEF QueueExact, Queued
  <2> QED BY <2>1, <2>2 DEF QueueExact, QueuedOnce
<1>5. ASSUME NEW r \in Runs, Run(r) PROVE QueueExact'
  <2>1. CASE Start(r) \/ Acquire(r)
    BY <1>0, <1>1, <1>2, <1>3, <2>1 DEF Start, Acquire, Enter
  <2>2. CASE Cancelled(r)
    BY <1>0, <1>4, <2>2 DEF Cancelled, Drop
  <2>3. CASE Succeed(r) \/ Crash(r) \/ TimeOut(r) \/ FallbackDone(r) \/ Deliver(r)
    BY <1>0, <1>1, <2>3 DEF Succeed, Crash, TimeOut, FallbackDone, Deliver
  <2>4. CASE Execute(r) \/ Heartbeat(r)
    BY <1>1, <2>4 DEF Execute, Heartbeat, runs
  <2> QED BY <1>5, <2>1, <2>2, <2>3, <2>4 DEF Run
<1>6. ASSUME NEW c \in Convs, Call(c) \/ End(c) PROVE QueueExact'
  <2>1. ASSUME NEW a \in Callers, CreateTask(c, a) PROVE QueueExact'
    <3>1. call[c][a].run \in Runs /\ pc[call[c][a].run] = "announce"
      BY <2>1 DEF CreateTask, Inv, CallsOwn, Announcing
    <3> QED BY <1>0, <1>1, <2>1, <3>1 DEF CreateTask
  <2>2. CASE Disconnect(c)
    <3>1. Announcing(c, "gemini") =>
            call[c]["gemini"].run \in Runs /\ pc[call[c]["gemini"].run] = "announce"
      BY DEF Inv, CallsOwn, Callers
    <3> QED BY <1>0, <1>1, <2>2, <3>1 DEF Disconnect, CloseProxy, Announcing
  <2>3. CASE ReportDispatched(c) \/ CancelAgents(c) \/ Delete(c) \/ HandlerTerminate(c)
    BY <1>1, <2>3 DEF ReportDispatched, CancelAgents, Delete, HandlerTerminate, runs
  <2>4. ASSUME NEW a \in Callers, NEW s \in Sessions, NEW kind, Begin(c, a, s, kind)
        PROVE  QueueExact'
    BY <1>0, <1>1, <2>4 DEF Begin
  <2> QED BY <1>6, <2>1, <2>2, <2>3, <2>4 DEF Call, End, Dispatch, Resume, Callers
<1>7. CASE UNCHANGED vars
  BY <1>1, <1>7 DEF vars
<1> QED BY <1>5, <1>6, <1>7 DEF Next

(* "async with self._agent_semaphore": who waits for a permit is in the    *)
(* queue, once, and nobody else is: a cancellation at any point neither    *)
(* leaves a place in the queue that nobody takes, at which the semaphore   *)
(* would stop, nor takes the place of another (agent_task_manager.py:190). *)
THEOREM SemaphoreQueueExact == Spec => []QueueExact
<1>1. Init => QueueExact
  BY DEF Init, QueueExact, Queued, QueuedOnce
<1> QED BY AgentsInv, QueueStep, <1>1, PTL DEF Spec

-----------------------------------------------------------------------------
(* The manager implements AgentWork.                                       *)

(* What a step of one run makes of the three sets AgentWork speaks of.     *)
AtWork == {"announce", "new", "permit", "sdk", "deliver"}
AtAgent == {"sdk", "fallback"}

LEMMA SetsMove ==
  ASSUME NEW r \in Runs, \A q \in Runs \ {r} : pc'[q] = pc[q], pc'[r] # "none"
  PROVE  /\ Begun' = Begun \cup {r}
         /\ pc'[r] \in AtWork => Workers' = Workers \cup {r}
         /\ pc'[r] \notin AtWork => Workers' = Workers \ {r}
         /\ pc'[r] \in AtAgent => Holding' = Holding \cup {r}
         /\ pc'[r] \notin AtAgent => Holding' = Holding \ {r}
<1>1. Begun' = Begun \cup {r}
  BY DEF Begun
<1>2. /\ pc'[r] \in AtWork => Workers' = Workers \cup {r}
      /\ pc'[r] \notin AtWork => Workers' = Workers \ {r}
  BY DEF Workers, Working, AtWork
<1>3. /\ pc'[r] \in AtAgent => Holding' = Holding \cup {r}
      /\ pc'[r] \notin AtAgent => Holding' = Holding \ {r}
  BY DEF Holding, AtAgent
<1> QED BY <1>1, <1>2, <1>3

(* Cardinality is that of AgentWork.                                       *)
LEMMA SameCardinality == Work!Cardinality(Holding) = Cardinality(Holding)
  BY DEF Work!Cardinality, Cardinality, Work!IsFiniteSet, IsFiniteSet

(* A step that leaves every run where it is.                               *)
LEMMA SetsStay ==
  ASSUME pc' = pc
  PROVE  Begun' = Begun /\ Workers' = Workers /\ Holding' = Holding
  BY DEF Begun, Workers, Working, Holding

(* A run begins: nobody works for a session that is not active.            *)
LEMMA BeginTakes ==
  ASSUME Inv, NEW c \in Convs, NEW a \in Callers, NEW s \in Sessions,
         NEW kind \in {"dispatch", "resume"}, Begin(c, a, s, kind), status[s] # "active"
  PROVE  Work!Next
<1>1. PICK r \in Runs : pc[r] = "none" /\ SessOf[r] = s /\ pc' = [pc EXCEPT ![r] = "announce"]
  BY DEF Begin
<1>2. status' = [status EXCEPT ![s] = "active"]
  BY DEF Begin
<1>3. Begun' = Begun \cup {r} /\ Workers' = Workers \cup {r} /\ Holding' = Holding \ {r}
  BY <1>1, SetsMove DEF Inv, TypeOK, AtWork, AtAgent
<1>4. r \notin Begun /\ r \notin Holding
  BY <1>1 DEF Begun, Holding
<1>5. ASSUME NEW q \in Workers
      PROVE  SessOf[q] # s
  BY <1>5 DEF Workers, Inv, OneWorker
<1>6. Work!Take(r)
  BY <1>1, <1>2, <1>3, <1>4, <1>5 DEF Work!Take, Work!Busy
<1> QED BY <1>6 DEF Work!Next

(* The other steps of the callers, and the ends of a conversation.         *)
LEMMA CallWorks ==
  ASSUME Inv, NEW c \in Convs, Call(c)
  PROVE  Work!Next \/ UNCHANGED Work!wvars
<1>1. CASE \E s \in Sessions : Dispatch(c, s) \/ \E a \in Callers : Resume(c, a, s)
  BY <1>1, BeginTakes DEF Dispatch, Resume, Resumable, Callers
<1>2. CASE \E a \in Callers : CreateTask(c, a)
  <2>1. PICK a \in Callers : CreateTask(c, a)
    BY <1>2
  <2>2. /\ Announcing(c, a) /\ pc' = [pc EXCEPT ![call[c][a].run] = "new"]
        /\ status' = status
    BY <2>1 DEF CreateTask, Announcing
  <2>3. PICK r \in Runs : pc[r] = "announce" /\ pc' = [pc EXCEPT ![r] = "new"]
    BY <2>2 DEF Inv, CallsOwn
  <2>4. Begun' = Begun \cup {r} /\ Workers' = Workers \cup {r} /\ Holding' = Holding \ {r}
    BY <2>3, SetsMove DEF Inv, TypeOK, AtWork, AtAgent
  <2>5. r \in Begun /\ r \in Workers /\ r \notin Holding
    BY <2>3 DEF Begun, Workers, Working, Holding
  <2> QED BY <2>2, <2>4, <2>5 DEF Work!wvars
<1>3. CASE ReportDispatched(c)
  BY <1>3, SetsStay DEF ReportDispatched, runs, Work!wvars
<1> QED BY <1>1, <1>2, <1>3 DEF Call

LEMMA EndWorks ==
  ASSUME Inv, NEW c \in Convs, End(c)
  PROVE  Work!Next \/ UNCHANGED Work!wvars
<1>1. CASE CancelAgents(c) \/ Delete(c) \/ HandlerTerminate(c)
  BY <1>1, SetsStay DEF CancelAgents, Delete, HandlerTerminate, sessions, Work!wvars
<1>2. CASE Disconnect(c)
  <2> DEFINE b == call[c]["gemini"]
  <2>1. status' = status
        /\ pc' = IF b.pc \in {"dispatch", "resume"} THEN [pc EXCEPT ![b.run] = "ended"] ELSE pc
    BY <1>2 DEF Disconnect, CloseProxy, sessions
  <2>2. CASE b.pc \in {"dispatch", "resume"}
    <3>1. PICK r \in Runs : pc[r] = "announce" /\ pc' = [pc EXCEPT ![r] = "ended"]
      BY <2>1, <2>2 DEF Inv, CallsOwn, Announcing, Callers
    <3>2. Begun' = Begun \cup {r} /\ Workers' = Workers \ {r} /\ Holding' = Holding \ {r}
      BY <3>1, SetsMove DEF Inv, TypeOK, AtWork, AtAgent
    <3>3. r \in Begun /\ r \in Workers
      BY <3>1 DEF Begun, Workers, Working
    <3>4. Work!Abandon(r)
      BY <2>1, <3>2, <3>3 DEF Work!Abandon, Work!Quit
    <3> QED BY <3>4 DEF Work!Next
  <2>3. CASE b.pc \notin {"dispatch", "resume"}
    BY <2>1, <2>3, SetsStay DEF Work!wvars
  <2> QED BY <2>2, <2>3
<1> QED BY <1>1, <1>2 DEF End

(* A run that works, has or has no permit, and what its step may do.       *)
LEMMA RunQuits ==
  ASSUME Inv, NEW r \in Runs, Working(r), NEW p \in {"ended", "fallback"},
         pc' = [pc EXCEPT ![r] = p], p = "fallback" => r \in Holding,
         status' = status \/ \E o \in Work!Outcomes : status' = [status EXCEPT ![SessOf[r]] = o]
  PROVE  Work!Next
<1>1. /\ Begun' = Begun \cup {r} /\ Workers' = Workers \ {r}
      /\ Holding' = IF p = "fallback" THEN Holding \cup {r} ELSE Holding \ {r}
  BY SetsMove DEF Inv, TypeOK, AtWork, AtAgent
<1>2. r \in Begun /\ r \in Workers
  BY DEF Begun, Workers, Working
<1>3. Work!Quit(r)
  BY <1>1, <1>2 DEF Work!Quit
<1> QED BY <1>3 DEF Work!Settle, Work!Abandon, Work!Next

LEMMA RunLeaves ==
  ASSUME Inv, NEW r \in Runs, r \in Holding, status' = status,
         NEW p \in {"deliver", "ended"}, pc' = [pc EXCEPT ![r] = p], p = "deliver" <=> Working(r)
  PROVE  Work!Next
<1>1. /\ Begun' = Begun \cup {r} /\ Holding' = Holding \ {r}
      /\ Workers' = IF p = "deliver" THEN Workers \cup {r} ELSE Workers \ {r}
  BY SetsMove DEF Inv, TypeOK, AtWork, AtAgent
<1>2. r \in Begun /\ (r \in Workers <=> p = "deliver")
  BY DEF Begun, Workers, Holding
<1>3. Work!Leave(r)
  BY <1>1, <1>2 DEF Work!Leave
<1> QED BY <1>3 DEF Work!Next

LEMMA RunEnters ==
  ASSUME Inv, NEW r \in Runs, pc[r] \in {"new", "permit"}, PermitFree, Enter(r), status' = status
  PROVE  Work!Next
<1>1. Begun' = Begun \cup {r} /\ Workers' = Workers \cup {r} /\ Holding' = Holding \cup {r}
  BY SetsMove DEF Inv, TypeOK, Enter, AtWork, AtAgent
<1>2. r \in Begun /\ r \in Workers /\ r \notin Holding
  BY DEF Begun, Workers, Working, Holding
<1>3. Begun' = Begun /\ Workers' = Workers
  BY <1>1, <1>2
<1>4. Work!Enter(r)
  <2>1. r \in Workers \ Holding /\ Cardinality(Holding) < Permits
    BY <1>2 DEF PermitFree
  <2>2. Holding' = Holding \cup {r} /\ status' = status
    BY <1>1
  <2> QED BY <1>3, <2>1, <2>2, SameCardinality DEF Work!Enter
<1> QED BY <1>4 DEF Work!Next

LEMMA RunWorks ==
  ASSUME Inv, NEW r \in Runs, Run(r)
  PROVE  Work!Next \/ UNCHANGED Work!wvars
<1> USE DEF sessions, Work!Outcomes
<1>1. CASE Start(r)
  <2>1. CASE PermitFree /\ waiters = <<>>
    BY <1>1, <2>1, RunEnters DEF Start
  <2>2. CASE ~(PermitFree /\ waiters = <<>>)
    <3>1. pc[r] = "new" /\ pc' = [pc EXCEPT ![r] = "permit"] /\ status' = status
      BY <1>1, <2>2 DEF Start
    <3>2. Begun' = Begun \cup {r} /\ Workers' = Workers \cup {r} /\ Holding' = Holding \ {r}
      BY <3>1, SetsMove DEF Inv, TypeOK, AtWork, AtAgent
    <3>3. r \in Begun /\ r \in Workers /\ r \notin Holding
      BY <3>1 DEF Begun, Workers, Working, Holding
    <3> QED BY <3>1, <3>2, <3>3 DEF Work!wvars
  <2> QED BY <2>1, <2>2
<1>2. CASE Acquire(r)
  BY <1>2, RunEnters DEF Acquire
<1>3. CASE Execute(r) \/ Heartbeat(r)
  BY <1>3, SetsStay DEF Execute, Heartbeat, runs, Work!wvars
<1>4. CASE Succeed(r)
  BY <1>4, RunLeaves DEF Succeed, Holding, Working
<1>5. CASE Crash(r)
  BY <1>5, RunQuits DEF Crash, Working
<1>6. CASE TimeOut(r)
  BY <1>6, RunQuits DEF TimeOut, Holding, Working
<1>7. CASE FallbackDone(r)
  BY <1>7, RunLeaves DEF FallbackDone, Holding, Working
<1>8. CASE Deliver(r)
  BY <1>8, RunQuits DEF Deliver, Working
<1>9. CASE Cancelled(r)
  <2>1. /\ pc' = [pc EXCEPT ![r] = "ended"] /\ pc[r] \notin {"none", "announce"}
        /\ status' = IF pc[r] = "sdk" THEN [status EXCEPT ![SessOf[r]] = "cancelled"] ELSE status
    BY <1>9 DEF Cancelled, Inv, TasksBegun
  <2>2. CASE Working(r)
    BY <2>1, <2>2, RunQuits
  <2>3. CASE pc[r] = "fallback"
    BY <2>1, <2>3, RunLeaves DEF Holding, Working
  <2>4. CASE pc[r] = "ended"
    <3>1. pc' = pc /\ status' = status
      BY <2>1, <2>4 DEF Inv, TypeOK
    <3> QED BY <3>1, SetsStay DEF Work!wvars
  <2> QED BY <2>1, <2>2, <2>3, <2>4 DEF Inv, TypeOK, Working
<1> QED
  BY <1>1, <1>2, <1>3, <1>4, <1>5, <1>6, <1>7, <1>8, <1>9 DEF Run

LEMMA WorkStep == Inv /\ [Next]_vars => [Work!Next]_(Work!wvars)
<1> SUFFICES ASSUME Inv, [Next]_vars PROVE Work!Next \/ UNCHANGED Work!wvars
  OBVIOUS
<1>1. CASE UNCHANGED vars
  BY <1>1, SetsStay DEF vars, Work!wvars
<1>2. CASE Next
  BY <1>2, CallWorks, EndWorks, RunWorks DEF Next
<1> QED BY <1>1, <1>2

(* A session is worked on by one run at a time, which alone settles its    *)
(* status; in particular the late steps of a run that timed out do not.    *)
THEOREM AgentsDoWork == Spec => DoesAgentWork
<1>1. Init => Work!Init
  BY DEF Init, Work!Init, Begun, Workers, Working, Holding
<1> QED BY <1>1, WorkStep, AgentsInv, PTL DEF Spec, DoesAgentWork, Work!Spec

(* No more than Permits runs keep an agent busy, whatever the number of    *)
(* runs: from the steps of AgentWork, of which one only takes a permit.    *)
THEOREM AgentsWithinPermits == Spec => []PermitsKept
<1> DEFINE Within == IsFiniteSet(Holding) /\ PermitsKept
<1> USE AgentsAssumption
<1>1. Init => Within
  <2> SUFFICES ASSUME Init PROVE Within
    OBVIOUS
  <2>1. Holding = {}
    BY DEF Init, Holding
  <2> QED BY <2>1, FS_EmptySet DEF PermitsKept
<1>2. Within /\ [Work!Next]_(Work!wvars) => Within'
  <2> SUFFICES ASSUME Within, [Work!Next]_(Work!wvars) PROVE Within'
    OBVIOUS
  <2>1. CASE \E r \in Runs : Work!Enter(r)
    <3>1. PICK r \in Runs : Work!Enter(r)
      BY <2>1
    <3>2. /\ r \in Workers \ Holding /\ Cardinality(Holding) < Permits
          /\ Holding' = Holding \cup {r}
      BY <3>1, SameCardinality DEF Work!Enter
    <3>3. /\ IsFiniteSet(Holding \cup {r})
          /\ Cardinality(Holding \cup {r}) = Cardinality(Holding) + 1
      BY <3>2, FS_AddElement
    <3>4. Cardinality(Holding) \in Nat
      BY FS_CardinalityType
    <3> QED BY <3>2, <3>3, <3>4 DEF PermitsKept
  <2>2. CASE Holding' \subseteq Holding
    <3>1. /\ IsFiniteSet(Holding')
          /\ Cardinality(Holding') <= Cardinality(Holding)
      BY <2>2, FS_Subset
    <3>2. Cardinality(Holding) \in Nat /\ Cardinality(Holding') \in Nat
      BY <3>1, FS_CardinalityType
    <3> QED BY <3>1, <3>2 DEF PermitsKept
  <2>3. (\E r \in Runs : Work!Enter(r)) \/ Holding' \subseteq Holding
    BY DEF Work!Next, Work!wvars, Work!Take, Work!Leave, Work!Settle, Work!Abandon, Work!Quit
  <2> QED BY <2>1, <2>2, <2>3
<1>3. Within => PermitsKept
  OBVIOUS
<1> QED BY <1>1, <1>2, <1>3, WorkStep, AgentsInv, PTL DEF Spec
=============================================================================
