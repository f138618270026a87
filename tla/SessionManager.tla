--------------------------- MODULE SessionManager ---------------------------
(***************************************************************************)
(* SessionManager (session_manager.py), its REST routes and the frame of   *)
(* the websocket endpoint: who may connect with a token, who ends a        *)
(* session, and what is left when the endpoint returns.                    *)
(*                                                                         *)
(* The Gemini session and the output controller of a conversation appear   *)
(* only as awaits of the endpoint; GeminiProxy fills them in.  An action   *)
(* is the stretch of one coroutine between two awaits.                     *)
(***************************************************************************)
EXTENDS Naturals, FiniteSets

CONSTANTS
  Sessions,    \* sessions that may be created
  Conns,       \* upgrade requests of clients
  NoSession, NoConn, NoOne   \* None

(* Who calls terminate_session: a DELETE request, the cleanup loop, the    *)
(* Gemini proxy when it cannot reconnect, and an endpoint.                 *)
Callers == {"request", "sweep", "gemini"} \cup Conns

ASSUME SessionAssumption ==
  /\ NoSession \notin Sessions /\ NoConn \notin Conns
  /\ NoOne \notin Callers
  /\ Conns \cap {"request", "sweep", "gemini"} = {}

VARIABLES
  born,        \* sessions created so far
  known,       \* _sessions; _token_index has exactly their tokens
  consumed,    \* token_consumed
  lapsed,      \* token_expires_at is over
  idle,        \* known, and last_activity is longer ago than the session's TTL
  ws,          \* ws_connection
  socket,      \* the socket of a request, as the server sees it
  handler,     \* where the endpoint of a request is suspended
  closer,      \* the call of terminate_session that awaits ws.close()
  due          \* what is left of expired_ids in the cleanup loop

manager == <<born, known, consumed, lapsed, idle>>
smVars == <<born, known, consumed, lapsed, idle, ws, socket, handler, closer, due>>

SmInit ==
  /\ born = {} /\ known = {} /\ consumed = {} /\ lapsed = {} /\ idle = {}
  /\ ws = [s \in Sessions |-> NoConn]
  /\ socket = [c \in Conns |-> "new"]
  /\ handler = [c \in Conns |-> [pc |-> "new", sid |-> NoSession]]
  /\ closer = [s \in Sessions |-> NoOne]
  /\ due = {}

Sid(c) == handler[c].sid
At(c, pc) == handler[c].pc = pc
Goto(c, pc) == handler' = [handler EXCEPT ![c].pc = pc]

-----------------------------------------------------------------------------
(* create_session, validate_token and consume_token, terminate_session     *)

Create(s) ==
  /\ s \notin born
  /\ born' = born \cup {s} /\ known' = known \cup {s}
  /\ UNCHANGED <<consumed, lapsed, idle, ws, socket, handler, closer, due>>

Valid(s) == s \in known /\ s \notin consumed /\ s \notin lapsed

(* Only the first of several calls finds the session.                      *)
Awaits(s) == s \in known /\ ws[s] # NoConn

(* terminate_session up to its await.  The agent tasks cancelled here are  *)
(* those of AgentTasks.                                                    *)
Pop(x, s) ==
  /\ known' = known \ {s} /\ idle' = idle \ {s}
  /\ closer' = IF Awaits(s) THEN [closer EXCEPT ![s] = x] ELSE closer

(* Faulty variant: the socket is left alone.                               *)
ClosedNot(s) ==
  /\ closer' = [closer EXCEPT ![s] = NoOne]
  /\ UNCHANGED socket

(* Its await is over; an exception of the close is swallowed.              *)
Closed(s) ==
  /\ closer' = [closer EXCEPT ![s] = NoOne]
  /\ socket' = [socket EXCEPT ![ws[s]] = "closed"]

(* DELETE /sessions/{id}, answered by 404 when the session is unknown; the *)
(* shutdown hook does the same for every session.                          *)
Delete(s) ==
  /\ s \in known
  /\ Pop("request", s)
  /\ UNCHANGED <<born, consumed, lapsed, ws, socket, handler, due>>

(* The proxy gives up: _handle_session_death.                              *)
GiveUp(s) ==
  /\ Pop("gemini", s)
  /\ UNCHANGED <<born, consumed, lapsed, ws, socket, handler, due>>

(* The rest of a call of anyone but an endpoint.  The close frame is out   *)
(* before the call waits, so the socket closes even if it is cancelled.    *)
CloseReturns(s) ==
  /\ closer[s] \in {"request", "sweep", "gemini"}
  /\ Closed(s)
  /\ UNCHANGED <<manager, ws, handler, due>>

-----------------------------------------------------------------------------
(* Time, and the cleanup loop: it looks for expired sessions once and then *)
(* awaits the termination of each.                                         *)

(* Nobody looks at the time of a token that is consumed.                   *)
TokenLapses(s) ==
  /\ s \in born \ (lapsed \cup consumed)
  /\ lapsed' = lapsed \cup {s}
  /\ UNCHANGED <<born, known, consumed, idle, ws, socket, handler, closer, due>>

GoesIdle(s) ==
  /\ s \in known \ idle
  /\ idle' = idle \cup {s}
  /\ UNCHANGED <<born, known, consumed, lapsed, ws, socket, handler, closer, due>>

(* The cleanup loop is inside terminate_session.                           *)
Sweeping == \E s \in Sessions : closer[s] = "sweep"

(* Faulty variant: a session that has a connection is thought to be alive. *)
ExpiredUnconnected == {s \in idle : ws[s] = NoConn}

Expired == idle

Scan ==
  /\ due = {} /\ ~Sweeping /\ Expired # {}
  /\ due' = Expired
  /\ UNCHANGED <<manager, ws, socket, handler, closer>>

SweepNext(s) ==
  /\ s \in due /\ ~Sweeping
  /\ due' = due \ {s}
  /\ Pop("sweep", s)
  /\ UNCHANGED <<born, consumed, lapsed, ws, socket, handler>>

-----------------------------------------------------------------------------
(* websocket_endpoint                                                      *)

(* Faulty variant: the token is consumed with the accepted upgrade.        *)
AdmitUnconsumed(c, s) ==
  /\ handler' = [handler EXCEPT ![c] = [pc |-> "accepting", sid |-> s]]
  /\ UNCHANGED <<consumed, socket>>

(* Validated and consumed without an await in between.                     *)
Admit(c, s) ==
  /\ consumed' = consumed \cup {s}
  /\ handler' = [handler EXCEPT ![c] = [pc |-> "accepting", sid |-> s]]
  /\ UNCHANGED socket

Upgrade(c, s) ==
  /\ At(c, "new") /\ s \in born
  /\ \/ /\ Valid(s)
        /\ Admit(c, s)
     \/ /\ ~Valid(s)
        /\ Goto(c, "refused")
        /\ socket' = [socket EXCEPT ![c] = "closed"]
        /\ UNCHANGED consumed
  /\ UNCHANGED <<born, known, lapsed, idle, ws, closer, due>>

(* The upgrade is accepted; the output controller is started.              *)
Accept(c) ==
  /\ At(c, "accepting")
  /\ socket' = [socket EXCEPT ![c] = "open"]
  /\ ws' = [ws EXCEPT ![Sid(c)] = c]
  /\ Goto(c, "starting")
  /\ UNCHANGED <<manager, closer, due>>

(* start_session returns ...                                               *)
Started(c) ==
  /\ At(c, "starting")
  /\ Goto(c, "receiving")
  /\ UNCHANGED <<manager, ws, socket, closer, due>>

(* ... or raises: the error is sent, the socket closed, and the endpoint   *)
(* returns without stopping the controller or ending the session.          *)
StartFails(c) ==
  /\ At(c, "starting")
  /\ Goto(c, "failing")
  /\ UNCHANGED <<manager, ws, socket, closer, due>>

Failed(c) ==
  /\ At(c, "failing")
  /\ socket' = [socket EXCEPT ![c] = "closed"]
  /\ Goto(c, "done")
  /\ UNCHANGED <<manager, ws, closer, due>>

(* An audio frame: touch.                                                  *)
Audio(c) ==
  /\ At(c, "receiving") /\ socket[c] = "open"
  /\ idle' = idle \ {Sid(c)}
  /\ UNCHANGED <<born, known, consumed, lapsed, ws, socket, handler, closer, due>>

(* control with action stop: close_session and terminate_session, inside   *)
(* the receive loop, which goes on.                                        *)
StopRequested(c) ==
  /\ At(c, "receiving") /\ socket[c] = "open"
  /\ Goto(c, "stopping")
  /\ UNCHANGED <<manager, ws, socket, closer, due>>

StopTerminates(c) ==
  /\ At(c, "stopping")
  /\ Goto(c, IF Awaits(Sid(c)) THEN "stopped" ELSE "receiving")
  /\ Pop(c, Sid(c))
  /\ UNCHANGED <<born, consumed, lapsed, ws, socket, due>>

StopReturns(c) ==
  /\ At(c, "stopped")
  /\ Closed(Sid(c))
  /\ Goto(c, "receiving")
  /\ UNCHANGED <<manager, ws, due>>

(* The receive loop ends: disconnected, or by the KeyError of an interrupt *)
(* for a session that is gone (session_manager.py:119).                    *)
Leave(c) ==
  /\ At(c, "receiving")
  /\ socket[c] = "closed" \/ Sid(c) \notin known
  /\ Goto(c, "leaving")
  /\ UNCHANGED <<manager, ws, socket, closer, due>>

(* The finally clause: stop of the output controller, close_session and    *)
(* terminate_session.                                                      *)
OutputStopped(c) ==
  /\ At(c, "leaving")
  /\ Goto(c, "closing")
  /\ UNCHANGED <<manager, ws, socket, closer, due>>

Terminate(c) ==
  /\ At(c, "closing")
  /\ Goto(c, IF Awaits(Sid(c)) THEN "ending" ELSE "done")
  /\ Pop(c, Sid(c))
  /\ socket' = IF Awaits(Sid(c)) THEN socket ELSE [socket EXCEPT ![c] = "closed"]
  /\ UNCHANGED <<born, consumed, lapsed, ws, due>>

Ended(c) ==
  /\ At(c, "ending")
  /\ Closed(Sid(c))
  /\ Goto(c, "done")
  /\ UNCHANGED <<manager, ws, due>>

(* The client, or the network.                                             *)
Disconnect(c) ==
  /\ socket[c] = "open"
  /\ socket' = [socket EXCEPT ![c] = "closed"]
  /\ UNCHANGED <<manager, ws, handler, closer, due>>

-----------------------------------------------------------------------------
Managing(s) ==
  \/ Create(s) \/ Delete(s) \/ GiveUp(s) \/ CloseReturns(s)
  \/ TokenLapses(s) \/ GoesIdle(s) \/ SweepNext(s)

Serving(c) ==
  \/ \E s \in Sessions : Upgrade(c, s)
  \/ Accept(c) \/ Started(c) \/ StartFails(c) \/ Failed(c)
  \/ Audio(c) \/ StopRequested(c) \/ StopTerminates(c) \/ StopReturns(c)
  \/ Leave(c) \/ OutputStopped(c) \/ Terminate(c) \/ Ended(c) \/ Disconnect(c)

SmNext ==
  \/ Scan
  \/ \E s \in Sessions : Managing(s)
  \/ \E c \in Conns : Serving(c)

SmSpec == SmInit /\ [][SmNext]_smVars

-----------------------------------------------------------------------------
(* Properties.                                                             *)

(* "Mark token as consumed", "single-use": a session's token lets in one   *)
(* connection, whatever the requests of several clients interleave with    *)
(* and however often the session is touched, stopped or deleted.           *)
OneConnection ==
  \A c, d \in Conns : Sid(c) # NoSession /\ Sid(c) = Sid(d) => c = d

(* A session whose endpoint has returned, or never can be entered.         *)
Abandoned(s) ==
  /\ s \in known
  /\ s \in consumed \cup lapsed
  /\ \A c \in Conns : Sid(c) = s => At(c, "done")

(* No session stays in memory when nobody can use it any more: the cleanup *)
(* loop finds also the one whose endpoint failed to start Gemini and       *)
(* returned without terminating it (handler.py:123-127).                   *)
AbandonedGo == \A s \in Sessions : Abandoned(s) ~> s \notin known

(* Whoever terminates a connected session, DELETE, the cleanup loop, the   *)
(* Gemini proxy or the endpoint itself: the endpoint of that session, in   *)
(* whatever await it is, learns of it and comes to its finally clause; and *)
(* from stop of the output controller, if that returns, to its end.        *)
Leaving(c) == handler[c].pc \in {"leaving", "closing", "ending", "done"}
TerminationReaches ==
  /\ \A s \in Sessions : closer[s] # NoOne ~> \A c \in Conns : ws[s] = c => Leaving(c)
  /\ \A c \in Conns : At(c, "closing") ~> At(c, "done")
=============================================================================
