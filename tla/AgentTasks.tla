----------------------------- MODULE AgentTasks -----------------------------
(***************************************************************************)
(* AgentTaskManager (agent_task_manager.py) with its callers: the Gemini   *)
(* receive loop and the connection handler of each conversation, which     *)
(* dispatch and resume agents, and the ways a conversation ends.           *)
(*                                                                         *)
(* The manager is one object for the whole process: the semaphore and the  *)
(* registry of callbacks are shared by all conversations.  An action is    *)
(* the stretch of one task between two awaits.                             *)
(***************************************************************************)
EXTENDS Naturals, Sequences, FiniteSets, Selection

CONSTANTS
  Convs,       \* conversations
  Sessions,    \* agent sessions (agent_session_id)
  Runs,        \* calls of _run_agent, begun or yet to begin
  Names,       \* agents
  ConvOf,      \* the conversation a session belongs to
  NameOf,      \* the agent it runs
  SessOf,      \* the session a run works for
  Permits,     \* asyncio.Semaphore(8)
  NoRun,       \* None
  Unasked      \* the executor of this run has not started yet

ASSUME AgentsAssumption ==
  /\ ConvOf \in [Sessions -> Convs]
  /\ NameOf \in [Sessions -> Names]
  /\ SessOf \in [Runs -> Sessions]
  /\ Permits \in Nat \ {0}
  /\ NoRun \notin Runs /\ Unasked \notin Runs /\ NoRun # Unasked

VARIABLES
  status,      \* AgentSession.status; "none": no such session yet
  task,        \* AgentSession.claude_task
  shown,       \* the last agent_status sent for the session
  pc,          \* where the run is suspended
  doomed,      \* tasks that were cancelled and do not know it yet
  waiters,     \* runs waiting for the semaphore
  callback,    \* _comm_callbacks: the run whose on_text is registered
  ear,         \* the run whose on_text the executor of this run calls
  beating,     \* heartbeat tasks that have not ended
  call,        \* what the two callers of a conversation are doing
  conn,        \* the connection handler of a conversation
  over         \* who terminated the conversation

sessions == <<status, task, shown>>
runs == <<pc, doomed, waiters>>
registry == <<callback, ear, beating>>
callers == <<call, conn, over>>
vars == <<status, task, shown, pc, doomed, waiters, callback, ear,
          beating, call, conn, over>>

Callers == {"gemini", "client"}
Ready == [pc |-> "ready", run |-> NoRun]
Gone == [pc |-> "gone", run |-> NoRun]

Init ==
  /\ status = [s \in Sessions |-> "none"]
  /\ task = [s \in Sessions |-> NoRun]
  /\ shown = [s \in Sessions |-> "none"]
  /\ pc = [r \in Runs |-> "none"]
  /\ doomed = {}
  /\ waiters = <<>>
  /\ callback = [n \in Names |-> NoRun]
  /\ ear = [r \in Runs |-> Unasked]
  /\ beating = {}
  /\ call = [c \in Convs |-> [a \in Callers |-> Ready]]
  /\ conn = [c \in Convs |-> "open"]
  /\ over = [c \in Convs |-> "no"]

-----------------------------------------------------------------------------
(* dispatch and resume: a synchronous part up to the thinking message, and *)
(* the creation of the task when that message is out.                      *)

Begin(c, a, s, kind) ==
  /\ ConvOf[s] = c /\ call[c][a] = Ready
  /\ \E r \in Runs :
       /\ pc[r] = "none" /\ SessOf[r] = s
       /\ pc' = [pc EXCEPT ![r] = "announce"]
       /\ call' = [call EXCEPT ![c][a] = [pc |-> kind, run |-> r]]
  /\ status' = [status EXCEPT ![s] = "active"]
  /\ shown' = [shown EXCEPT ![s] = "thinking"]
  /\ UNCHANGED <<task, doomed, waiters, registry, conn, over>>

(* dispatch_agent, a tool call: a new session.                             *)
Dispatch(c, s) == status[s] = "none" /\ Begin(c, "gemini", s, "dispatch")

(* Faulty variant: only a session that is being dispatched is refused.     *)
ResumableAnyway(s) == status[s] # "none" /\ task[s] # NoRun

(* Neither caller resumes an active session; the check and the change of   *)
(* status are not separated by an await.                                   *)
Resumable(s) == status[s] \notin {"none", "active"}

(* resume_agent, a tool call, or agent_followup, a message of the client.  *)
Resume(c, a, s) == Resumable(s) /\ Begin(c, a, s, "resume")

(* The thinking message is out.  After a dispatch the Gemini loop goes on  *)
(* to send the tool response.                                              *)
CreateTask(c, a) ==
  LET b == call[c][a]
  IN  /\ b.pc \in {"dispatch", "resume"}
      /\ pc' = [pc EXCEPT ![b.run] = "new"]
      /\ task' = [task EXCEPT ![SessOf[b.run]] = b.run]
      /\ call' = [call EXCEPT ![c][a] =
                    IF b.pc = "dispatch" THEN [b EXCEPT !.pc = "reply"] ELSE Ready]
      /\ UNCHANGED <<status, shown, doomed, waiters, registry, conn, over>>

(* The tool response is out: the dispatched status is sent.  An error in   *)
(* sending the response ends the handling of the call.                     *)
ReportDispatched(c) ==
  LET b == call[c]["gemini"]
  IN  /\ b.pc = "reply"
      /\ \/ shown' = [shown EXCEPT ![SessOf[b.run]] = "dispatched"]
         \/ UNCHANGED shown
      /\ call' = [call EXCEPT ![c]["gemini"] = Ready]
      /\ UNCHANGED <<status, task, runs, registry, conn, over>>

-----------------------------------------------------------------------------
(* _run_agent                                                              *)

Name(r) == NameOf[SessOf[r]]

Holding == {r \in Runs : pc[r] \in {"sdk", "fallback"}}

PermitFree == Cardinality(Holding) < Permits

(* Faulty variant: the session is registered in place of its callback.     *)
EnterSession(r) ==
  /\ pc' = [pc EXCEPT ![r] = "sdk"]
  /\ callback' = [callback EXCEPT ![Name(r)] = SessOf[r]]
  /\ beating' = beating \cup {r}

(* The permit is there: callback and heartbeat are set up and the task is  *)
(* sent to the agent's server.                                             *)
Enter(r) ==
  /\ pc' = [pc EXCEPT ![r] = "sdk"]
  /\ callback' = [callback EXCEPT ![Name(r)] = r]
  /\ beating' = beating \cup {r}

(* The semaphore is first come, first served.                              *)
Start(r) ==
  /\ pc[r] = "new" /\ r \notin doomed
  /\ \/ /\ PermitFree /\ waiters = <<>>
        /\ Enter(r)
        /\ UNCHANGED waiters
     \/ /\ ~(PermitFree /\ waiters = <<>>)
        /\ pc' = [pc EXCEPT ![r] = "permit"]
        /\ waiters' = Append(waiters, r)
        /\ UNCHANGED <<callback, beating>>
  /\ UNCHANGED <<sessions, doomed, ear, callers>>

Acquire(r) ==
  /\ pc[r] = "permit" /\ r \notin doomed
  /\ PermitFree /\ waiters # <<>> /\ Head(waiters) = r
  /\ Enter(r)
  /\ waiters' = Tail(waiters)
  /\ UNCHANGED <<sessions, doomed, ear, callers>>

(* ClaudeA2AExecutor.execute, at the agent's server: it looks the callback *)
(* up by the agent's name, once.                                           *)
Execute(r) ==
  /\ pc[r] = "sdk" /\ ear[r] = Unasked
  /\ ear' = [ear EXCEPT ![r] = callback[Name(r)]]
  /\ UNCHANGED <<sessions, runs, callback, beating, callers>>

(* Faulty variant: nothing is cleaned up.                                  *)
CleanUpForgotten(r) == UNCHANGED <<callback, beating>>

(* The finally clause.                                                     *)
CleanUp(r) ==
  /\ callback' = [callback EXCEPT ![Name(r)] = NoRun]
  /\ beating' = beating \ {r}

Working(r) == pc[r] \in {"announce", "new", "permit", "sdk", "deliver"}

(* The answer is there; there always is a text.  The run goes on to        *)
(* rephrase it or, in listener mode, to send it.                           *)
Succeed(r) ==
  /\ pc[r] = "sdk" /\ r \notin doomed /\ ear[r] # Unasked
  /\ pc' = [pc EXCEPT ![r] = "deliver"]
  /\ CleanUp(r)
  /\ UNCHANGED <<sessions, doomed, waiters, ear, callers>>

Crash(r) ==
  /\ pc[r] = "sdk" /\ r \notin doomed
  /\ status' = [status EXCEPT ![SessOf[r]] = "idle"]
  /\ pc' = [pc EXCEPT ![r] = "ended"]
  /\ CleanUp(r)
  /\ UNCHANGED <<task, shown, doomed, waiters, ear, callers>>

(* Faulty variant: the wait has no limit.                                  *)
TimeOutNever(r) == FALSE

(* _handle_timeout, up to its awaits: the message and the synthesis of the *)
(* fallback phrase.  The permit is held on.                                *)
TimeOut(r) ==
  /\ pc[r] = "sdk" /\ r \notin doomed
  /\ status' = [status EXCEPT ![SessOf[r]] = "timeout"]
  /\ shown' = [shown EXCEPT ![SessOf[r]] = "timeout"]
  /\ pc' = [pc EXCEPT ![r] = "fallback"]
  /\ UNCHANGED <<task, doomed, waiters, registry, callers>>

(* Faulty variant: the session is idle when the fallback has been spoken.  *)
FallbackSettles(r) ==
  /\ pc[r] = "fallback" /\ r \notin doomed
  /\ status' = [status EXCEPT ![SessOf[r]] = "idle"]
  /\ pc' = [pc EXCEPT ![r] = "ended"]
  /\ CleanUp(r)
  /\ UNCHANGED <<task, shown, doomed, waiters, ear, callers>>

(* The fallback audio is handed to the OutputController; the finally       *)
(* clause runs after it.                                                   *)
FallbackDone(r) ==
  /\ pc[r] = "fallback" /\ r \notin doomed
  /\ pc' = [pc EXCEPT ![r] = "ended"]
  /\ CleanUp(r)
  /\ UNCHANGED <<sessions, doomed, waiters, ear, callers>>

(* The response is enqueued, the session is idle and done is sent.         *)
Deliver(r) ==
  /\ pc[r] = "deliver" /\ r \notin doomed
  /\ status' = [status EXCEPT ![SessOf[r]] = "idle"]
  /\ shown' = [shown EXCEPT ![SessOf[r]] = "done"]
  /\ pc' = [pc EXCEPT ![r] = "ended"]
  /\ UNCHANGED <<task, doomed, waiters, registry, callers>>

(* A cancelled task gets to know.  Only while it waits for the agent does  *)
(* it record that in the status; the except clauses of the outer try do    *)
(* not see a cancellation.                                                 *)
Cancelled(r) ==
  /\ r \in doomed
  /\ doomed' = doomed \ {r}
  /\ pc' = [pc EXCEPT ![r] = "ended"]
  /\ waiters' = Select(waiters, {i \in DOMAIN waiters : waiters[i] # r})
  /\ status' = IF pc[r] = "sdk" THEN [status EXCEPT ![SessOf[r]] = "cancelled"]
               ELSE status
  /\ IF pc[r] \in {"sdk", "fallback"} THEN CleanUp(r)
     ELSE UNCHANGED <<callback, beating>>
  /\ UNCHANGED <<task, shown, ear, callers>>

(* _heartbeat_loop looks at the session, not at the run.                   *)
Heartbeat(r) ==
  /\ r \in beating
  /\ \/ /\ status[SessOf[r]] = "active"
        /\ shown' = [shown EXCEPT ![SessOf[r]] = "thinking"]
        /\ UNCHANGED beating
     \/ /\ status[SessOf[r]] # "active"
        /\ beating' = beating \ {r}
        /\ UNCHANGED shown
  /\ UNCHANGED <<status, task, runs, callback, ear, callers>>

-----------------------------------------------------------------------------
(* Cancellation and the end of a conversation                              *)

(* claude_task, unless it is done.                                         *)
TasksOf(c) ==
  {r \in Runs : pc[r] # "ended" /\ \E s \in Sessions : ConvOf[s] = c /\ task[s] = r}

(* handle_interrupt with mode cancel_agents; the other modes leave agents  *)
(* alone.                                                                  *)
CancelAgents(c) ==
  /\ conn[c] = "open" /\ call[c]["client"] = Ready
  /\ doomed' = doomed \cup TasksOf(c)
  /\ UNCHANGED <<sessions, pc, waiters, registry, callers>>

(* DELETE of the session, or its expiry: terminate_session.  The socket is *)
(* closed, which the handler notices later.                                *)
Delete(c) ==
  /\ over[c] = "no"
  /\ over' = [over EXCEPT ![c] = "deleted"]
  /\ doomed' = doomed \cup TasksOf(c)
  /\ UNCHANGED <<sessions, pc, waiters, registry, call, conn>>

(* Faulty variant: the Gemini loop is left running.                        *)
CloseProxyLate(c) ==
  /\ call[c]["client"] = Ready
  /\ call' = [call EXCEPT ![c]["client"] = Gone]
  /\ UNCHANGED pc

(* close_session of the Gemini proxy: the receive loop is cancelled.  A    *)
(* dispatch or resume that was sending its thinking message never creates  *)
(* its task.                                                               *)
CloseProxy(c) ==
  LET b == call[c]["gemini"]
  IN  /\ call[c]["client"] = Ready
      /\ call' = [call EXCEPT ![c] = [a \in Callers |-> Gone]]
      /\ pc' = IF b.pc \in {"dispatch", "resume"} THEN [pc EXCEPT ![b.run] = "ended"]
               ELSE pc

(* The handler leaves its receive loop.                                    *)
Disconnect(c) ==
  /\ conn[c] = "open"
  /\ conn' = [conn EXCEPT ![c] = "closing"]
  /\ CloseProxy(c)
  /\ UNCHANGED <<sessions, doomed, waiters, registry, over>>

(* Its last call, terminate_session, does nothing if the session is gone.  *)
HandlerTerminate(c) ==
  /\ conn[c] = "closing"
  /\ conn' = [conn EXCEPT ![c] = "closed"]
  /\ \/ /\ over[c] = "no"
        /\ over' = [over EXCEPT ![c] = "handler"]
        /\ doomed' = doomed \cup TasksOf(c)
     \/ /\ over[c] # "no"
        /\ UNCHANGED <<over, doomed>>
  /\ UNCHANGED <<sessions, pc, waiters, registry, call>>

-----------------------------------------------------------------------------
Call(c) ==
  \/ \E s \in Sessions : Dispatch(c, s) \/ \E a \in Callers : Resume(c, a, s)
  \/ \E a \in Callers : CreateTask(c, a)
  \/ ReportDispatched(c)

Run(r) ==
  \/ Start(r) \/ Acquire(r) \/ Execute(r)
  \/ Succeed(r) \/ Crash(r) \/ TimeOut(r) \/ FallbackDone(r) \/ Deliver(r)
  \/ Cancelled(r) \/ Heartbeat(r)

End(c) == CancelAgents(c) \/ Delete(c) \/ Disconnect(c) \/ HandlerTerminate(c)

Next == (\E c \in Convs : Call(c) \/ End(c)) \/ (\E r \in Runs : Run(r))

Spec == Init /\ [][Next]_vars

(* The event loop runs what is ready; wait_for ends the wait for the agent *)
(* at its limit; messages, rephrasing and synthesis have deadlines.  The   *)
(* agent itself need never answer.                                         *)
Fairness ==
  /\ \A c \in Convs, a \in Callers : WF_vars(CreateTask(c, a))
  /\ \A r \in Runs :
       /\ WF_vars(Start(r) \/ Acquire(r) \/ FallbackDone(r) \/ Deliver(r))
       /\ WF_vars(TimeOut(r))
       /\ WF_vars(Cancelled(r))

FairSpec == Spec /\ Fairness
-----------------------------------------------------------------------------
(* Properties.                                                             *)

(* What a session, a run, the registry and the callers can hold; only the  *)
(* executor of a run that has not started has nobody to call.              *)
TypeOK ==
  /\ status \in [Sessions -> {"none", "active", "idle", "cancelled", "timeout"}]
  /\ task \in [Sessions -> Runs \cup {NoRun}]
  /\ shown \in [Sessions -> {"none", "thinking", "dispatched", "done", "timeout"}]
  /\ pc \in [Runs -> {"none", "announce", "new", "permit", "sdk", "fallback",
                      "deliver", "ended"}]
  /\ doomed \subseteq Runs
  /\ waiters \in Seq(Runs)
  /\ callback \in [Names -> Runs \cup {NoRun}]
  /\ ear \in [Runs -> Runs \cup {NoRun, Unasked}]
  /\ beating \subseteq Runs
  /\ call \in [Convs -> [Callers -> [pc : {"ready", "dispatch", "resume", "reply", "gone"},
                                     run : Runs \cup {NoRun}]]]
  /\ conn \in [Convs -> {"open", "closing", "closed"}]
  /\ over \in [Convs -> {"no", "deleted", "handler"}]

(* The busy check (gemini_proxy.py:847, handler.py:309) keeps an agent     *)
(* session to one run at a time, though a run that timed out still speaks  *)
(* its fallback: a run that works for a session keeps it active, and no    *)
(* other one works for it.                                                 *)
OneWorker ==
  \A r \in Runs : Working(r) =>
    /\ status[SessOf[r]] = "active"
    /\ \A q \in Runs : Working(q) /\ SessOf[q] = SessOf[r] => q = r

(* A working task is the session's claude_task, so that cancelling by      *)
(* session reaches it; only a run that timed out can have been replaced.   *)
CancelReachesWorkers ==
  \A r \in Runs :
    pc[r] \in {"new", "permit", "sdk", "deliver"} => task[SessOf[r]] = r

(* "Callback registry should be cleaned up" on every way out               *)
(* (test_agent_comm.py:71): a registered callback belongs to a run of that *)
(* agent that still has its finally clause before it.                      *)
NoDanglingCallback ==
  \A n \in Names : callback[n] # NoRun =>
    callback[n] \in Holding /\ Name(callback[n]) = n

(* When the handler itself ends the conversation, no agent keeps working   *)
(* for it: the Gemini loop, which creates tasks, is closed before the      *)
(* tasks are cancelled (handler.py:159-160).                               *)
HandlerEndsWork ==
  \A r \in Runs :
    over[ConvOf[SessOf[r]]] = "handler" /\ Working(r) => r \in doomed

(* "Limited by semaphore (max 8 concurrent)" (data_flow.md:50): on no way  *)
(* in or out do more runs than that keep an agent busy.                    *)
PermitsKept == Cardinality(Holding) <= Permits

Begun == {r \in Runs : pc[r] # "none"}
Workers == {r \in Runs : Working(r)}

(* The manager implements AgentWork: nobody but the run that works for a   *)
(* session settles its status.  In particular a run that timed out, and    *)
(* speaks its fallback or is cancelled meanwhile, leaves alone the session *)
(* that was resumed behind its back.                                       *)
Work == INSTANCE AgentWork WITH
  begun <- Begun, working <- Workers, holding <- Holding, state <- status
DoesAgentWork == Work!Spec

(* Every run that was begun ends, and gives its permit back, whether or    *)
(* not the agent answers.                                                  *)
RunsEnd == \A r \in Runs : pc[r] = "announce" ~> pc[r] = "ended"

(* "Registry keyed by agent_name is sufficient": what an agent says goes   *)
(* to the conversation that asked it, if anywhere.                         *)
TextsReachOwner ==
  \A r \in Runs :
    ear[r] \in Runs => ConvOf[SessOf[ear[r]]] = ConvOf[SessOf[r]]
=============================================================================
