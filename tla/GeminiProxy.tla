---------------------------- MODULE GeminiProxy ----------------------------
(***************************************************************************)
(* GeminiLiveProxy (gemini_proxy.py) for one conversation, composed with   *)
(* the session manager and the websocket endpoint: the connections to      *)
(* Gemini Live, the receive loop that replaces itself when it reconnects,  *)
(* the send loop with its queue, and close_session, which may come at any  *)
(* await of these.                                                         *)
(*                                                                         *)
(* What a response does is not modelled here (OutputController, BargeIn,   *)
(* AgentTasks); a response is an await of the receive loop.                *)
(***************************************************************************)
EXTENDS SessionManager, Sequences

CONSTANTS
  conv,                   \* the one session
  MaxReconnectAttempts,   \* _MAX_RECONNECT_ATTEMPTS
  MaxNoneWaits,           \* _MAX_NONE_WAITS
  MaxQueue                \* bound: chunks are accepted below this length

ASSUME ProxyAssumption ==
  /\ Sessions = {conv}
  /\ MaxReconnectAttempts \in Nat /\ MaxNoneWaits \in Nat /\ MaxQueue \in Nat

VARIABLES
  link,        \* the connections opened so far, as Gemini Live sees them
  live,        \* gemini_session and gemini_ctx: a connection, 0 for None
  stored,      \* _gemini_clients and _gemini_configs have the session
  attempts,    \* _reconnect_count
  task,        \* _tasks: the receive loop listed there; 0: no entry
  loop,        \* the receive loops created so far
  send,        \* the send loop
  doomed,      \* loops that were cancelled and do not know it yet
  queue        \* audio_queue

proxy == <<link, live, stored, attempts, task, loop, send, doomed, queue>>
vars == <<smVars, link, live, stored, attempts, task, loop, send, doomed, queue>>

Sender == 0    \* the send loop among the loops
Chunk == "pcm"
Sentinel == "none"

Init ==
  /\ SmInit
  /\ link = <<>> /\ live = 0 /\ stored = FALSE /\ attempts = 0
  /\ task = 0 /\ loop = <<>> /\ doomed = {} /\ queue = <<>>
  /\ send = [pc |-> "none", waits |-> 0]

(* The send loop ends at a sentinel and is never started again: what is    *)
(* not going to be read is left out of the queue.                          *)
Unread == send.pc = "done" \/ \E i \in DOMAIN queue : queue[i] = Sentinel
Put(x) == queue' = IF Unread THEN queue ELSE Append(queue, x)

(* What each call of terminate_session ends with.                          *)
PutSentinel == Put(Sentinel)
SentinelAtOnce(s) ==
  IF s \in known /\ ~Awaits(s) THEN PutSentinel ELSE UNCHANGED queue

(* No more than the send loop is concerned by the queue.                   *)
quiet == <<link, live, stored, attempts, task, loop, send, doomed>>

-----------------------------------------------------------------------------
(* start_session: client and configuration are stored, then the connection *)
(* is awaited, then both loops are created.                                *)

Connect(c) ==
  /\ Accept(c)
  /\ stored' = TRUE /\ attempts' = 0
  /\ link' = Append(link, "opening")
  /\ UNCHANGED <<live, task, loop, send, doomed, queue>>

Begin(c) ==
  /\ Started(c)
  /\ link' = [link EXCEPT ![Len(link)] = "open"]
  /\ live' = Len(link)
  /\ loop' = Append(loop, [pc |-> "new", on |-> 0])
  /\ task' = Len(loop) + 1
  /\ send' = [pc |-> "get", waits |-> 0]
  /\ UNCHANGED <<stored, attempts, doomed, queue>>

ConnectFails(c) ==
  /\ StartFails(c)
  /\ link' = [link EXCEPT ![Len(link)] = "closed"]
  /\ UNCHANGED <<live, stored, attempts, task, loop, send, doomed, queue>>

-----------------------------------------------------------------------------
(* _response_receive_loop                                                  *)

Loop(k, pc) ==
  loop' = [loop EXCEPT ![k] = [pc |-> pc, on |-> IF pc = "done" THEN 0 ELSE loop[k].on]]
Runs(k, pc) == loop[k].pc = pc /\ k \notin doomed

(* The top of the loop looks at gemini_session; the time-out of the wait   *)
(* for a message only leads back here.                                     *)
Top(k) ==
  loop' = [loop EXCEPT ![k] = IF live = 0 THEN [pc |-> "done", on |-> 0]
                              ELSE [pc |-> "wait", on |-> live]]

LoopTop(k) ==
  /\ Runs(k, "new") \/ Runs(k, "route")
  /\ Top(k)
  /\ UNCHANGED <<smVars, link, live, stored, attempts, task, send, doomed, queue>>

(* A response is routed, with awaits; an error in it is reported, and the  *)
(* loop goes on.                                                           *)
Response(k) ==
  /\ Runs(k, "wait") /\ link[loop[k].on] = "open"
  /\ Loop(k, "route")
  /\ UNCHANGED <<smVars, link, live, stored, attempts, task, send, doomed, queue>>

(* Gemini Live ends a connection, or the network does.                     *)
LinkDies(l) ==
  /\ link[l] = "open"
  /\ link' = [link EXCEPT ![l] = "dead"]
  /\ UNCHANGED <<smVars, live, stored, attempts, task, loop, send, doomed, queue>>

(* Faulty variant: off by one.                                             *)
MayReconnectLate(n) == n <= MaxReconnectAttempts + 1 /\ stored

MayReconnect(n) == n <= MaxReconnectAttempts /\ stored

(* The wait raises: _handle_session_death and _reconnect_session up to the *)
(* first await, the closing of the old connection, which live still is.    *)
Death(k) ==
  /\ Runs(k, "wait") /\ link[loop[k].on] \in {"dead", "closed"}
  /\ attempts' = attempts + 1
  /\ Loop(k, IF MayReconnect(attempts + 1) THEN "shut" ELSE "lost")
  /\ UNCHANGED <<smVars, link, live, stored, task, send, doomed, queue>>

(* Faulty variant: the old connection is left open.                        *)
ReopenBeside(k) ==
  /\ Runs(k, "shut")
  /\ link' = Append(link, "opening")
  /\ live' = 0
  /\ loop' = [loop EXCEPT ![k] = [pc |-> "open", on |-> Len(link) + 1]]
  /\ UNCHANGED <<smVars, stored, attempts, task, send, doomed, queue>>

(* The old connection is closed; gemini_session is None while the new one  *)
(* is awaited.                                                             *)
Reopen(k) ==
  /\ Runs(k, "shut")
  /\ link' = Append([link EXCEPT ![loop[k].on] = "closed"], "opening")
  /\ live' = 0
  /\ loop' = [loop EXCEPT ![k] = [pc |-> "open", on |-> Len(link) + 1]]
  /\ UNCHANGED <<smVars, stored, attempts, task, send, doomed, queue>>

(* Faulty variant: the new loop is not entered in _tasks.                  *)
HandOverUnlisted(k) ==
  /\ loop' = Append([loop EXCEPT ![k].pc = "tell"], [pc |-> "new", on |-> 0])
  /\ UNCHANGED task

(* The loop creates its successor and enters it in _tasks, if the entry is *)
(* there, and goes on to tell the client.                                  *)
HandOver(k) ==
  /\ loop' = Append([loop EXCEPT ![k].pc = "tell"], [pc |-> "new", on |-> 0])
  /\ task' = IF task = 0 THEN 0 ELSE Len(loop) + 1

Reopened(k) ==
  /\ Runs(k, "open")
  /\ link' = [link EXCEPT ![loop[k].on] = "open"]
  /\ live' = loop[k].on
  /\ HandOver(k)
  /\ UNCHANGED <<smVars, stored, attempts, send, doomed, queue>>

(* Faulty variant: the error ends the loop.                                *)
ReopenEnds(k) ==
  /\ Runs(k, "open")
  /\ link' = [link EXCEPT ![loop[k].on] = "closed"]
  /\ Loop(k, "done")
  /\ UNCHANGED <<smVars, live, stored, attempts, task, send, doomed, queue>>

ReopenFails(k) ==
  /\ Runs(k, "open")
  /\ link' = [link EXCEPT ![loop[k].on] = "closed"]
  /\ Loop(k, "lost")
  /\ UNCHANGED <<smVars, live, stored, attempts, task, send, doomed, queue>>

Told(k) ==
  /\ Runs(k, "tell")
  /\ Loop(k, "done")
  /\ UNCHANGED <<smVars, link, live, stored, attempts, task, send, doomed, queue>>

(* The client has been told that the connection is lost: terminate_session.*)
Lost(k) ==
  /\ Runs(k, "lost")
  /\ GiveUp(conv)
  /\ Loop(k, IF Awaits(conv) THEN "term" ELSE "done")
  /\ SentinelAtOnce(conv)
  /\ UNCHANGED <<link, live, stored, attempts, task, send, doomed>>

LostTerminated(k) ==
  /\ Runs(k, "term")
  /\ CloseReturns(conv)
  /\ Loop(k, "done")
  /\ PutSentinel
  /\ UNCHANGED <<link, live, stored, attempts, task, send, doomed>>

(* Faulty variant: whatever closing the old connection raises is swallowed.*)
CancelledUnlessClosing(k) ==
  /\ k \in doomed
  /\ doomed' = doomed \ {k}
  /\ IF loop[k].pc = "shut" THEN UNCHANGED loop ELSE Loop(k, "done")
  /\ UNCHANGED <<smVars, link, live, stored, attempts, task, send, queue>>

(* A cancelled loop gets to know at its await.  Nothing on the way catches *)
(* the cancellation; a connection being opened is given up, and a call of  *)
(* terminate_session leaves out its sentinel.                              *)
LoopCancelled(k) ==
  /\ k \in doomed
  /\ doomed' = doomed \ {k}
  /\ Loop(k, "done")
  /\ link' = IF loop[k].pc = "open" THEN [link EXCEPT ![loop[k].on] = "closed"]
             ELSE link
  /\ \/ loop[k].pc = "term" /\ CloseReturns(conv)
     \/ loop[k].pc # "term" /\ UNCHANGED smVars
  /\ UNCHANGED <<live, stored, attempts, task, send, queue>>

-----------------------------------------------------------------------------
(* _audio_send_loop                                                        *)

SendRuns(pc) == send.pc = pc /\ Sender \notin doomed

SendStops ==
  /\ SendRuns("get") /\ queue # <<>> /\ Head(queue) = Sentinel
  /\ send' = [send EXCEPT !.pc = "done"]
  /\ queue' = Tail(queue)
  /\ UNCHANGED <<smVars, link, live, stored, attempts, task, loop, doomed>>

(* Without a connection the chunk is dropped and the loop sleeps; it ends  *)
(* when that happens too often in a row.                                   *)
SendWaits ==
  /\ SendRuns("get") /\ queue # <<>> /\ Head(queue) = Chunk /\ live = 0
  /\ send' = [pc |-> IF send.waits + 1 > MaxNoneWaits THEN "done" ELSE "sleep",
              waits |-> send.waits + 1]
  /\ queue' = Tail(queue)
  /\ UNCHANGED <<smVars, link, live, stored, attempts, task, loop, doomed>>

SendChunk ==
  /\ SendRuns("get") /\ queue # <<>> /\ Head(queue) = Chunk /\ live # 0
  /\ send' = [pc |-> "send", waits |-> 0]
  /\ queue' = Tail(queue)
  /\ UNCHANGED <<smVars, link, live, stored, attempts, task, loop, doomed>>

(* Faulty variant: a failed send ends the loop.                            *)
SendGoesOnIfSent ==
  IF send.pc = "send" /\ (live = 0 \/ link[live] # "open") THEN "done" ELSE "get"

(* After the sleep, and after a send, failed or not.                       *)
SendGoesOn == "get"

SendNext ==
  /\ SendRuns("sleep") \/ SendRuns("send")
  /\ send' = [send EXCEPT !.pc = SendGoesOn]
  /\ UNCHANGED <<smVars, link, live, stored, attempts, task, loop, doomed, queue>>

SendCancelled ==
  /\ Sender \in doomed
  /\ doomed' = doomed \ {Sender}
  /\ send' = [send EXCEPT !.pc = "done"]
  /\ queue' = <<>>
  /\ UNCHANGED <<smVars, link, live, stored, attempts, task, loop>>

-----------------------------------------------------------------------------
(* close_session                                                           *)

(* Those of _tasks that are not done.                                      *)
Listed ==
  {k \in {task} \ {0} : loop[k].pc # "done"}
    \cup {k \in {Sender} : task # 0 /\ send.pc # "done"}

(* Faulty variant: the connection is closed, the loops are left to notice. *)
CloseWithoutCancel ==
  /\ task' = 0
  /\ UNCHANGED doomed
  /\ PutSentinel

(* Up to the await of the connection's closing.  Without a connection      *)
(* there is no await; that the model has one only adds behaviours.         *)
CloseBegins ==
  /\ task' = 0
  /\ doomed' = doomed \cup Listed
  /\ PutSentinel

CloseEnds ==
  /\ link' = IF live = 0 THEN link ELSE [link EXCEPT ![live] = "closed"]
  /\ live' = 0
  /\ stored' = FALSE /\ attempts' = 0

(* The client asks to stop.                                                *)
StopBegins(c) ==
  /\ StopRequested(c)
  /\ CloseBegins
  /\ UNCHANGED <<link, live, stored, attempts, loop, send>>

StopCloses(c) ==
  /\ StopTerminates(c)
  /\ CloseEnds
  /\ SentinelAtOnce(conv)
  /\ UNCHANGED <<task, loop, send, doomed>>

(* The finally clause of the endpoint.                                     *)
FinallyBegins(c) ==
  /\ OutputStopped(c)
  /\ CloseBegins
  /\ UNCHANGED <<link, live, stored, attempts, loop, send>>

FinallyCloses(c) ==
  /\ Terminate(c)
  /\ CloseEnds
  /\ SentinelAtOnce(conv)
  /\ UNCHANGED <<task, loop, send, doomed>>

-----------------------------------------------------------------------------
(* The other steps of the endpoint and of the session manager.             *)

AudioIn(c) ==
  /\ Audio(c)
  /\ Unread \/ Len(queue) < MaxQueue
  /\ Put(Chunk)
  /\ UNCHANGED quiet

(* A call of terminate_session begins, or comes back from ws.close().      *)
Deleting == Delete(conv) /\ SentinelAtOnce(conv) /\ UNCHANGED quiet
Sweep == SweepNext(conv) /\ SentinelAtOnce(conv) /\ UNCHANGED quiet

TerminateReturns ==
  /\ \/ closer[conv] # "gemini" /\ CloseReturns(conv)
     \/ \E c \in Conns : StopReturns(c) \/ Ended(c)
  /\ PutSentinel
  /\ UNCHANGED quiet

Elsewhere ==
  /\ \/ Create(conv) \/ TokenLapses(conv) \/ GoesIdle(conv) \/ Scan
     \/ \E c \in Conns : Upgrade(c, conv) \/ Failed(c) \/ Leave(c) \/ Disconnect(c)
  /\ UNCHANGED proxy

-----------------------------------------------------------------------------
Receiving(k) ==
  \/ LoopTop(k) \/ Response(k) \/ Death(k) \/ Reopen(k) \/ Reopened(k)
  \/ ReopenFails(k) \/ Told(k) \/ Lost(k) \/ LostTerminated(k) \/ LoopCancelled(k)

Sending == SendStops \/ SendWaits \/ SendChunk \/ SendNext \/ SendCancelled

Endpoint(c) ==
  \/ Connect(c) \/ Begin(c) \/ ConnectFails(c) \/ AudioIn(c)
  \/ StopBegins(c) \/ StopCloses(c) \/ FinallyBegins(c) \/ FinallyCloses(c)

Next ==
  \/ \E k \in DOMAIN loop : Receiving(k)
  \/ \E l \in DOMAIN link : LinkDies(l)
  \/ Sending
  \/ \E c \in Conns : Endpoint(c)
  \/ Deleting \/ Sweep \/ TerminateReturns \/ Elsewhere

Spec == Init /\ [][Next]_vars

(* The event loop runs what is ready.  Opening a connection succeeds or    *)
(* fails, sending to the client and closing a socket return, and time      *)
(* passes for a session nobody speaks to.  Nothing is assumed of clients,  *)
(* of Gemini, of who deletes sessions, nor that stop of the output         *)
(* controller returns, which it need not (StopCompletes): FinallyBegins,   *)
(* the step behind it, may never come.                                     *)
Loops == 1..(MaxReconnectAttempts + 1)
Step(k) ==
  /\ k \in DOMAIN loop
  /\ \/ LoopTop(k) \/ Death(k) \/ Reopen(k) \/ Reopened(k) \/ ReopenFails(k)
     \/ Told(k) \/ Lost(k) \/ LostTerminated(k) \/ LoopCancelled(k)

EndpointGoesOn(c) ==
  \/ Connect(c) \/ Begin(c) \/ ConnectFails(c) \/ StopCloses(c) \/ FinallyCloses(c)
  \/ (Failed(c) \/ (Leave(c) /\ socket[c] = "closed")) /\ UNCHANGED proxy

Fairness ==
  /\ \A k \in Loops : WF_vars(Step(k))
  /\ WF_vars(Sending)
  /\ \A c \in Conns : WF_vars(EndpointGoesOn(c))
  /\ WF_vars(TerminateReturns)
  /\ WF_vars((Scan /\ UNCHANGED proxy) \/ Sweep)
  /\ WF_vars(GoesIdle(conv) /\ (\A c \in Conns : ~At(c, "receiving")) /\ UNCHANGED proxy)

FairSpec == Spec /\ Fairness

-----------------------------------------------------------------------------
(* Properties.                                                             *)

TypeOK ==
  /\ born \subseteq Sessions /\ known \subseteq born
  /\ consumed \subseteq born /\ lapsed \subseteq born /\ idle \subseteq known
  /\ ws \in [Sessions -> Conns \cup {NoConn}]
  /\ socket \in [Conns -> {"new", "open", "closed"}]
  /\ handler \in [Conns -> [pc : {"new", "refused", "accepting", "starting", "failing",
                                 "receiving", "stopping", "stopped", "leaving",
                                 "closing", "ending", "done"},
                           sid : Sessions \cup {NoSession}]]
  /\ closer \in [Sessions -> Callers \cup {NoOne}]
  /\ due \subseteq born
  /\ link \in Seq({"opening", "open", "dead", "closed"})
  /\ live \in 0..Len(link)
  /\ stored \in BOOLEAN
  /\ attempts \in 0..(MaxReconnectAttempts + 1)
  /\ task \in 0..Len(loop)
  /\ loop \in Seq([pc : {"new", "wait", "route", "shut", "open", "tell", "lost",
                         "term", "done"}, on : 0..Len(link)])
  /\ send \in [pc : {"none", "get", "send", "sleep", "done"}, waits : 0..(MaxNoneWaits + 1)]
  /\ doomed \subseteq {Sender} \cup DOMAIN loop
  /\ queue \in Seq({Chunk, Sentinel})

(* Loops that read from Gemini or reconnect.                               *)
Reading == {k \in DOMAIN loop : loop[k].pc \in {"new", "wait", "route", "shut", "open"}}

(* A receive loop hands over to its successor and _tasks changes with it,  *)
(* so that there never are two, and close_session reaches the one there    *)
(* is: it is the listed task or it is cancelled already.                   *)
OneLoopInReach ==
  \A k \in Reading : Reading = {k} /\ (k = task \/ k \in doomed)

(* close_session: "Cancel send/receive tasks and close the Gemini          *)
(* connection."  Once the endpoint has returned, no connection is open and *)
(* none will be: a reconnection under way is one that has been cancelled.  *)
ClosedForGood ==
  \A c \in Conns : At(c, "done") =>
    /\ live = 0
    /\ \A l \in DOMAIN link : link[l] = "closed" \/
         \E k \in doomed \cap Reading : loop[k].pc = "open" /\ loop[k].on = l
    /\ Reading \subseteq doomed

(* The proxy implements ModeratorLine: there never are two connections, no *)
(* more are dialled than the attempts allow (although the counter is read, *)
(* incremented and reset in different tasks), and none once close_session  *)
(* is through, whatever reconnection it met.                               *)
HungUp == link # <<>> /\ ~stored
Line == INSTANCE ModeratorLine WITH
  MaxRedials <- MaxReconnectAttempts, line <- link, hungUp <- HungUp
HoldsTheLine == Line!Spec

(* "The loop waits briefly and retries rather than stopping": while its    *)
(* conversation goes on, the send loop only ends when it has given up      *)
(* waiting for a connection; no failed send and no stray sentinel ends it. *)
SenderStays ==
  send.pc = "done" /\ conv \in known /\ (\E c \in Conns : At(c, "receiving"))
    => send.waits > MaxNoneWaits

(* "On session death, attempts transparent reconnection [...] before       *)
(* giving up": a connection that dies under the receive loop is replaced   *)
(* by an open one, or the session is terminated, which TerminationReaches  *)
(* follows up; it does not stay without a moderator.                       *)
DeathAnswered ==
  (\E k \in DOMAIN loop : Runs(k, "wait") /\ link[loop[k].on] = "dead")
    ~> \/ live # 0 /\ link[live] = "open"
       \/ conv \notin known

(* When the endpoint has returned, both loops of the proxy end.            *)
LoopsEnd ==
  (\E c \in Conns : At(c, "done"))
    ~> /\ \A k \in DOMAIN loop : loop[k].pc = "done"
       /\ send.pc \in {"none", "done"}

(* "audio continues flowing after a successful reconnect"                  *)
(* (gemini_proxy.py:319-321).                                              *)
AudioFlowsAgain ==
  live > 1 /\ link[live] = "open" /\ conv \in known
  /\ (\E c \in Conns : At(c, "receiving"))
    => send.pc # "done"
=============================================================================
