-------------------------- MODULE GeminiProxyProofs --------------------------
(***************************************************************************)
(* Proofs about GeminiProxy: what holds of the token and of the            *)
(* connections to Gemini Live for every number of upgrade requests, of     *)
(* reconnection attempts and of queued chunks.                             *)
(*                                                                         *)
(* The invariant comes in three layers: the session manager's (SmInv), of  *)
(* which every step of the proxy is a step or leaves it alone; the proxy's *)
(* connections and receive loops (ProxyInv); and the send loop's (SendInv).*)
(***************************************************************************)
EXTENDS GeminiProxy, TLAPS

Pcs == {"new", "refused", "accepting", "starting", "failing", "receiving", "stopping",
        "stopped", "leaving", "closing", "ending", "done"}
Handler == [pc : Pcs, sid : Sessions \cup {NoSession}]

SmTypes ==
  /\ born \subseteq Sessions /\ known \subseteq born
  /\ consumed \subseteq born /\ lapsed \subseteq born /\ idle \subseteq known
  /\ ws \in [Sessions -> Conns \cup {NoConn}]
  /\ socket \in [Conns -> {"new", "open", "closed"}]
  /\ handler \in [Conns -> Handler]
  /\ closer \in [Sessions -> Callers \cup {NoOne}]
  /\ due \subseteq born

(* A request has a session from its admission on, and the token of a       *)
(* session that has a request is consumed.                                 *)
Admitted ==
  \A c \in Conns :
    /\ Sid(c) = NoSession <=> handler[c].pc \in {"new", "refused"}
    /\ Sid(c) # NoSession => Sid(c) \in consumed

(* Whoever awaits the closing of a socket has removed the session.         *)
Gone ==
  /\ \A s \in Sessions : closer[s] # NoOne => s \in born \ known
  /\ \A c \in Conns : handler[c].pc \in {"stopped", "ending"} => Sid(c) \notin known

SmInv == SmTypes /\ Admitted /\ Gone /\ OneConnection

-----------------------------------------------------------------------------
(* The steps of the session manager.                                       *)

(* An endpoint goes on to another await.                                   *)
LEMMA GotoFacts ==
  ASSUME SmTypes, NEW c \in Conns, NEW pc \in Pcs, Goto(c, pc)
  PROVE  /\ handler' \in [Conns -> Handler]
         /\ handler'[c].pc = pc /\ handler'[c].sid = handler[c].sid
         /\ \A d \in Conns : d # c => handler'[d] = handler[d]
         /\ \A d \in Conns : handler'[d].sid = handler[d].sid
<1>1. handler \in [Conns -> Handler]
  BY DEF SmTypes
<1>2. handler' = [handler EXCEPT ![c] = [handler[c] EXCEPT !.pc = pc]]
  BY <1>1 DEF Goto
<1>3. handler[c] \in Handler
  BY <1>1
<1>4. [handler[c] EXCEPT !.pc = pc] = [pc |-> pc, sid |-> handler[c].sid]
  BY <1>3 DEF Handler
<1> QED BY <1>1, <1>2, <1>3, <1>4 DEF Handler

(* A step that admits nobody and moves endpoints past their admission.     *)
LEMMA MovesKeep ==
  ASSUME SmInv, consumed \subseteq consumed',
         \A d \in Conns : /\ handler'[d].sid = handler[d].sid
                          /\ \/ handler'[d].pc = handler[d].pc
                             \/ /\ handler[d].pc \notin {"new", "refused"}
                                /\ handler'[d].pc \notin {"new", "refused"}
                             \/ handler[d].pc = "new" /\ handler'[d].pc = "refused"
  PROVE  Admitted' /\ OneConnection'
BY DEF SmInv, Admitted, OneConnection, Sid

(* Steps that leave the endpoints where they are.                          *)
LEMMA ManagingStep ==
  ASSUME SmInv,
         Scan \/ \E s \in Sessions : Managing(s)
  PROVE  SmInv'
<1>1. handler' = handler /\ ws' = ws /\ consumed' = consumed
  BY DEF Scan, Managing, Create, Delete, GiveUp, CloseReturns, TokenLapses, GoesIdle,
         SweepNext, Pop, manager, Closed
<1>2. Admitted' /\ OneConnection'
  BY <1>1, MovesKeep
<1>3. SmTypes' /\ Gone'
  <2>1. CASE Scan
    BY <2>1 DEF Scan, manager, SmInv, SmTypes, Gone, Expired, Sid
  <2>2. ASSUME NEW s \in Sessions, Create(s) \/ TokenLapses(s) \/ GoesIdle(s)
        PROVE  SmTypes' /\ Gone'
    BY <2>2 DEF Create, TokenLapses, GoesIdle, SmInv, SmTypes, Gone, Admitted, Sid
  <2>3. ASSUME NEW s \in Sessions, NEW x \in {"request", "sweep", "gemini"}, Pop(x, s), s \in born,
               UNCHANGED <<born, consumed, lapsed, ws, socket, handler>>,
               due' \subseteq due
        PROVE  SmTypes' /\ Gone'
    <3>1. x \in Callers
      BY DEF Callers
    <3>2. closer' \in [Sessions -> Callers \cup {NoOne}]
      BY <2>3, <3>1 DEF Pop, SmInv, SmTypes
    <3>3. \A t \in Sessions : closer'[t] # NoOne => t = s \/ closer[t] # NoOne
      BY <2>3 DEF Pop, SmInv, SmTypes
    <3> QED BY <2>3, <3>2, <3>3 DEF Pop, SmInv, SmTypes, Gone, Sid
  <2>4. ASSUME NEW s \in Sessions, Delete(s) \/ SweepNext(s)
        PROVE  SmTypes' /\ Gone'
    BY <2>3, <2>4 DEF Delete, SweepNext, SmInv, SmTypes
  <2>5. ASSUME NEW s \in Sessions, GiveUp(s), s \in born
        PROVE  SmTypes' /\ Gone'
    BY <2>3, <2>5 DEF GiveUp
  <2>6. ASSUME NEW s \in Sessions, GiveUp(s), s \notin born
        PROVE  SmTypes' /\ Gone'
    BY <2>6 DEF GiveUp, Pop, Awaits, SmInv, SmTypes, Gone, Sid
  <2>7. ASSUME NEW s \in Sessions, CloseReturns(s)
        PROVE  SmTypes' /\ Gone'
    <3>1. closer' \in [Sessions -> Callers \cup {NoOne}]
      BY <2>7 DEF CloseReturns, Closed, SmInv, SmTypes
    <3>2. socket' \in [Conns -> {"new", "open", "closed"}]
      BY <2>7 DEF CloseReturns, Closed, SmInv, SmTypes
    <3>3. \A t \in Sessions : closer'[t] # NoOne => closer[t] # NoOne
      BY <2>7 DEF CloseReturns, Closed, SmInv, SmTypes
    <3> QED BY <2>7, <3>1, <3>2, <3>3 DEF CloseReturns, manager, SmInv, SmTypes, Gone, Sid
  <2> QED BY <2>1, <2>2, <2>4, <2>5, <2>6, <2>7 DEF Managing
<1> QED BY <1>2, <1>3 DEF SmInv

(* Faster to cite: the types of the endpoints and of what they change.     *)
LEMMA Holder ==
  ASSUME SmInv, NEW c \in Conns, handler[c].pc \notin {"new", "refused"}
  PROVE  /\ Sid(c) \in consumed /\ Sid(c) \in born /\ Sid(c) \in Sessions
         /\ \A d \in Conns : handler[d].pc \notin {"new", "refused"} /\ Sid(d) = Sid(c) => d = c
BY DEF SmInv, Admitted, SmTypes, OneConnection

LEMMA ServingStep ==
  ASSUME SmInv, NEW c \in Conns, Serving(c)
  PROVE  SmInv'
<1> DEFINE T == SmTypes' /\ Gone'
<1>0. SmTypes /\ Admitted /\ Gone /\ OneConnection
  BY DEF SmInv
<1>a. ASSUME NEW s \in Sessions, Upgrade(c, s), Valid(s), Admit(c, s) PROVE SmInv'
  <2>1. /\ handler'[c] = [pc |-> "accepting", sid |-> s]
        /\ \A d \in Conns : d # c => handler'[d] = handler[d]
        /\ handler' \in [Conns -> Handler]
    BY <1>0, <1>a DEF SmTypes, Admit, Handler, Pcs
  <2>2. UNCHANGED <<born, known, lapsed, idle, ws, closer, due, socket>> /\ consumed' = consumed \cup {s}
    BY <1>a DEF Upgrade, Admit
  <2>3. s \in known /\ s \notin consumed /\ s # NoSession
    BY <1>a, SessionAssumption DEF Valid
  <2>4. SmTypes'
    BY <1>0, <2>1, <2>2, <2>3 DEF SmTypes
  <2>5. Gone'
    BY <1>0, <2>1, <2>2 DEF Gone, Sid
  <2>6. \A d \in Conns : d # c => /\ handler'[d] = handler[d]
                                  /\ handler[d].sid # s
    BY <1>0, <2>1, <2>3 DEF Admitted, Sid
  <2>7. Admitted'
    BY <1>0, <2>1, <2>2, <2>3, <2>6 DEF Admitted, Sid
  <2>8. OneConnection'
    BY <1>0, <2>1, <2>6 DEF OneConnection, Sid
  <2> QED BY <2>4, <2>5, <2>7, <2>8 DEF SmInv
<1>b. ASSUME NEW pc \in Pcs, Goto(c, pc), consumed' = consumed,
             \/ handler[c].pc \notin {"new", "refused"} /\ pc \notin {"new", "refused"}
             \/ handler[c].pc = "new" /\ pc = "refused"
      PROVE  Admitted' /\ OneConnection'
  BY <1>0, <1>b, GotoFacts, MovesKeep
<1>c. ASSUME NEW pc \in Pcs, Goto(c, pc), UNCHANGED <<manager, closer, due>>,
             pc \notin {"stopped", "ending"},
             ws' \in [Sessions -> Conns \cup {NoConn}],
             socket' \in [Conns -> {"new", "open", "closed"}]
      PROVE  T
  BY <1>0, <1>c, GotoFacts DEF SmTypes, Gone, Sid, manager
<1>1. ASSUME NEW s \in Sessions, Upgrade(c, s) PROVE SmInv'
  <2>1. CASE Valid(s)
    BY <1>1, <1>a, <2>1 DEF Upgrade
  <2>2. CASE ~Valid(s)
    <3>1. Goto(c, "refused") /\ handler[c].pc = "new" /\ UNCHANGED <<manager, closer, due, ws>>
      BY <1>1, <2>2 DEF Upgrade, At, manager
    <3>2. socket' \in [Conns -> {"new", "open", "closed"}]
      BY <1>0, <1>1, <2>2 DEF Upgrade, SmTypes
    <3>3. consumed' = consumed /\ ws' \in [Sessions -> Conns \cup {NoConn}]
      BY <1>0, <3>1 DEF manager, SmTypes
    <3> QED BY <1>b, <1>c, <3>1, <3>2, <3>3 DEF SmInv, Pcs
  <2> QED BY <2>1, <2>2
<1>2. CASE Accept(c)
  <2>1. handler[c].pc = "accepting" /\ Goto(c, "starting") /\ UNCHANGED <<manager, closer, due>>
    BY <1>2 DEF Accept, At
  <2>2. ws' \in [Sessions -> Conns \cup {NoConn}] /\ socket' \in [Conns -> {"new", "open", "closed"}]
    BY <1>0, <1>2 DEF Accept, SmTypes
  <2> QED BY <1>b, <1>c, <2>1, <2>2 DEF SmInv, Pcs, manager
<1>3. CASE Started(c) \/ StartFails(c) \/ StopRequested(c) \/ Leave(c) \/ OutputStopped(c)
  <2>1. PICK pc \in {"receiving", "failing", "stopping", "leaving", "closing"} :
          /\ Goto(c, pc) /\ handler[c].pc \notin {"new", "refused"}
          /\ UNCHANGED <<manager, ws, socket, closer, due>>
    BY <1>3 DEF Started, StartFails, StopRequested, Leave, OutputStopped, At
  <2> QED BY <1>0, <1>b, <1>c, <2>1 DEF SmInv, Pcs, manager, SmTypes
<1>4. CASE Failed(c)
  <2>1. Goto(c, "done") /\ handler[c].pc = "failing" /\ UNCHANGED <<manager, ws, closer, due>>
    BY <1>4 DEF Failed, At
  <2>2. socket' \in [Conns -> {"new", "open", "closed"}]
    BY <1>0, <1>4 DEF Failed, SmTypes
  <2> QED BY <1>0, <1>b, <1>c, <2>1, <2>2 DEF SmInv, Pcs, manager, SmTypes
<1>5. CASE Audio(c) \/ Disconnect(c)
  <2>1. UNCHANGED <<born, known, consumed, lapsed, ws, handler, closer, due>> /\ idle' \subseteq idle
    BY <1>5 DEF Audio, Disconnect, manager
  <2>2. socket' \in [Conns -> {"new", "open", "closed"}]
    BY <1>0, <1>5 DEF Audio, Disconnect, SmTypes
  <2> QED BY <1>0, <2>1, <2>2, MovesKeep DEF SmInv, SmTypes, Gone, Sid
<1>6. CASE StopTerminates(c) \/ Terminate(c)
  <2>1. PICK pc \in {"stopped", "receiving", "ending", "done"} :
          Goto(c, pc) /\ handler[c].pc \notin {"new", "refused"}
    BY <1>6 DEF StopTerminates, Terminate, At
  <2>2. UNCHANGED <<born, consumed, lapsed, ws, due>> /\ Pop(c, Sid(c))
    BY <1>6 DEF StopTerminates, Terminate
  <2>3. socket' \in [Conns -> {"new", "open", "closed"}]
    BY <1>0, <1>6 DEF StopTerminates, Terminate, SmTypes
  <2>4. Sid(c) \in born /\ Sid(c) \in Sessions
    BY <2>1, Holder
  <2>5. known' = known \ {Sid(c)} /\ idle' = idle \ {Sid(c)}
    BY <2>2 DEF Pop
  <2>6. /\ closer' \in [Sessions -> Callers \cup {NoOne}]
        /\ \A t \in Sessions : closer'[t] # NoOne => t = Sid(c) \/ closer[t] # NoOne
    BY <1>0, <2>2, <2>4 DEF Pop, SmTypes, Callers
  <2>7. /\ handler' \in [Conns -> Handler] /\ handler'[c].sid = handler[c].sid
        /\ \A d \in Conns : d # c => handler'[d] = handler[d]
    BY <1>0, <2>1, GotoFacts DEF Pcs
  <2>8. SmTypes'
    BY <1>0, <2>2, <2>3, <2>5, <2>6, <2>7 DEF SmTypes
  <2>9. Gone'
    BY <1>0, <2>2, <2>4, <2>5, <2>6, <2>7 DEF Gone, Sid
  <2> QED BY <1>b, <2>1, <2>2, <2>8, <2>9 DEF SmInv, Pcs
<1>7. CASE StopReturns(c) \/ Ended(c)
  <2>1. PICK pc \in {"receiving", "done"} :
          Goto(c, pc) /\ handler[c].pc \notin {"new", "refused"}
    BY <1>7 DEF StopReturns, Ended, At
  <2>2. UNCHANGED <<manager, ws, due>> /\ Closed(Sid(c))
    BY <1>7 DEF StopReturns, Ended
  <2>3. socket' \in [Conns -> {"new", "open", "closed"}]
    BY <1>0, <2>2 DEF Closed, SmTypes
  <2>4. /\ closer' \in [Sessions -> Callers \cup {NoOne}]
        /\ \A t \in Sessions : closer'[t] # NoOne => closer[t] # NoOne
    BY <1>0, <2>2 DEF Closed, SmTypes
  <2>5. /\ handler' \in [Conns -> Handler] /\ handler'[c].pc = pc
        /\ handler'[c].sid = handler[c].sid
    BY <1>0, <2>1, GotoFacts DEF Pcs
  <2>6. pc \in {"receiving", "done"} \cap Pcs
    BY DEF Pcs
  <2>7. \A d \in Conns : d # c => handler'[d] = handler[d]
    BY <1>0, <2>1, <2>6, GotoFacts
  <2>8. SmTypes' /\ Gone'
    BY <1>0, <2>1, <2>2, <2>3, <2>4, <2>5, <2>7 DEF SmTypes, Gone, Sid, manager
  <2> QED BY <1>b, <2>1, <2>2, <2>6, <2>8 DEF SmInv, manager
<1> QED
  BY <1>1, <1>2, <1>3, <1>4, <1>5, <1>6, <1>7 DEF Serving

-----------------------------------------------------------------------------
(* Every step of the proxy is one of the manager's or leaves it alone.     *)
LEMMA ManagerStep == Next => SmNext \/ UNCHANGED smVars
<1> SUFFICES ASSUME Next PROVE SmNext \/ UNCHANGED smVars
  OBVIOUS
<1>0. conv \in Sessions
  BY ProxyAssumption
<1> USE DEF SmNext, Managing, Serving
<1>1. ASSUME NEW k \in DOMAIN loop, Receiving(k) PROVE SmNext \/ UNCHANGED smVars
  BY <1>0, <1>1
  DEF Receiving, LoopTop, Response, Death, Reopen, Reopened, ReopenFails, Told, Lost,
      LostTerminated, LoopCancelled
<1>2. ASSUME NEW l \in DOMAIN link, LinkDies(l) PROVE SmNext \/ UNCHANGED smVars
  BY <1>2 DEF LinkDies
<1>3. CASE Sending
  BY <1>3 DEF Sending, SendStops, SendWaits, SendChunk, SendNext, SendCancelled
<1>4. ASSUME NEW c \in Conns, Endpoint(c) PROVE SmNext \/ UNCHANGED smVars
  BY <1>4
  DEF Endpoint, Connect, Begin, ConnectFails, AudioIn, StopBegins, StopCloses,
      FinallyBegins, FinallyCloses
<1>5. CASE Deleting \/ Sweep \/ TerminateReturns
  BY <1>0, <1>5 DEF Deleting, Sweep, TerminateReturns
<1>6. CASE Elsewhere
  BY <1>0, <1>6 DEF Elsewhere
<1> QED BY <1>1, <1>2, <1>3, <1>4, <1>5, <1>6 DEF Next

(* The proxy, with its loops and its reconnections, only ever acts on the  *)
(* session manager and on the frame of the endpoint as SessionManager says *)
(* its callers may (session_manager.py, handler.py:91-165): the tokens,    *)
(* terminations and sockets of SessionManager are those of this module.    *)
THEOREM ProxyServesManager == Spec => SmSpec
<1>1. Init => SmInit
  BY DEF Init
<1>2. [Next]_vars => [SmNext]_smVars
  BY ManagerStep DEF vars, smVars
<1> QED BY <1>1, <1>2, PTL DEF Spec, SmSpec

LEMMA SmStep == SmInv /\ [Next]_vars => SmInv'
<1> SUFFICES ASSUME SmInv, [Next]_vars PROVE SmInv'
  OBVIOUS
<1>1. CASE UNCHANGED smVars
  BY <1>1 DEF smVars, SmInv, SmTypes, Admitted, Gone, OneConnection, Sid
<1>2. CASE SmNext
  BY <1>2, ManagingStep, ServingStep DEF SmNext
<1>3. UNCHANGED vars => UNCHANGED smVars
  BY DEF vars, smVars
<1> QED BY <1>1, <1>2, <1>3, ManagerStep

LEMMA SmStart == SmInit => SmInv
BY SessionAssumption
DEF SmInit, SmInv, SmTypes, Admitted, Gone, OneConnection, Sid, Handler, Pcs

(* "Mark token as consumed": whatever the upgrade requests, deletions,     *)
(* clean-ups and reconnections interleave with, no two connections serve a *)
(* session (session_manager.py:102-117, handler.py:91-104).                *)
THEOREM OneConnectionPerSession == Spec => []OneConnection
<1>1. SmInv => OneConnection
  BY DEF SmInv
<1> QED BY SmStart, SmStep, <1>1, PTL DEF Spec, Init

-----------------------------------------------------------------------------
(* The connections and the receive loops.                                  *)

LoopRec(n) ==
  [pc : {"new", "wait", "route", "shut", "open", "tell", "lost", "term", "done"},
   on : 0..n]
LinkStates == {"opening", "open", "dead", "closed"}
ReadingPcs == {"new", "wait", "route", "shut", "open"}

ProxyTypes ==
  /\ link \in Seq(LinkStates)
  /\ live \in 0..Len(link)
  /\ stored \in BOOLEAN
  /\ task \in 0..Len(loop)
  /\ loop \in Seq(LoopRec(Len(link)))
  /\ doomed \subseteq {Sender} \cup DOMAIN loop

(* What is not begun, or is over, by the place of the endpoint.            *)
NoLoop == live = 0 /\ loop = <<>> /\ task = 0
Stages ==
  /\ (\A c \in Conns : handler[c].pc \in {"new", "refused", "accepting"})
       => link = <<>> /\ NoLoop
  /\ \A c \in Conns :
       /\ handler[c].pc = "starting" => link = <<"opening">> /\ NoLoop
       /\ handler[c].pc = "failing" => link = <<"closed">> /\ NoLoop
       /\ handler[c].pc \in {"stopping", "closing", "ending", "done"} => task = 0
       /\ handler[c].pc \in {"ending", "done"} => live = 0

(* A loop waits on the connection that is live, unless there is none, and  *)
(* while it opens another there is none.                                   *)
Attached ==
  \A k \in DOMAIN loop :
    /\ loop[k].pc \in {"wait", "shut"} => live \in {0, loop[k].on}
    /\ loop[k].pc = "open" => live = 0

(* A connection is closed, or live, or being opened.                       *)
Starting == \E c \in Conns : handler[c].pc = "starting"
Opening(l) == \E k \in DOMAIN loop : loop[k].pc = "open" /\ loop[k].on = l
Accounted == \A l \in DOMAIN link : link[l] = "closed" \/ l = live \/ Opening(l) \/ Starting

(* The attempts are used up with the last loop.                            *)
Attempts ==
  /\ attempts \in 0..(MaxReconnectAttempts + 1)
  /\ Reading # {} => attempts <= MaxReconnectAttempts
  /\ loop = <<>> => attempts = 0

ProxyInv == ProxyTypes /\ Stages /\ OneLoopInReach /\ Attached /\ Accounted /\ Attempts

(* How an endpoint may move without the proxy.                             *)
Calm ==
  \A c \in Conns :
    \/ handler'[c].pc = handler[c].pc
    \/ handler[c].pc = "new" /\ handler'[c].pc \in {"accepting", "refused"}
    \/ handler[c].pc = "failing" /\ handler'[c].pc = "done"
    \/ handler[c].pc \in {"receiving", "stopped"} /\ handler'[c].pc \in {"receiving", "leaving"}
    \/ handler[c].pc = "ending" /\ handler'[c].pc = "done"

LEMMA CalmStages == ASSUME Stages, Calm, UNCHANGED <<link, live, task, loop>> PROVE Stages'
<1>1. \A c \in Conns : handler'[c].pc \in {"new", "refused", "accepting"}
                        => handler[c].pc \in {"new", "refused", "accepting"}
  BY DEF Calm
<1>2. NoLoop' <=> NoLoop
  BY DEF NoLoop
<1>3. (\A c \in Conns : handler'[c].pc \in {"new", "refused", "accepting"})
       => link' = <<>> /\ NoLoop'
  BY <1>1, <1>2 DEF Stages
<1>4. ASSUME NEW c \in Conns
      PROVE  /\ handler'[c].pc = "starting" => link' = <<"opening">> /\ NoLoop'
             /\ handler'[c].pc = "failing" => link' = <<"closed">> /\ NoLoop'
  BY <1>2 DEF Stages, Calm
<1>5. ASSUME NEW c \in Conns
      PROVE  /\ handler'[c].pc \in {"stopping", "closing", "ending", "done"} => task' = 0
             /\ handler'[c].pc \in {"ending", "done"} => live' = 0
  BY DEF Stages, Calm, NoLoop
<1> QED BY <1>3, <1>4, <1>5 DEF Stages

LEMMA CalmStarting == ASSUME Calm PROVE Starting' <=> Starting
BY DEF Calm, Starting

(* Only the send loop, or nothing of the proxy, is concerned.              *)
LEMMA CalmStep ==
  ASSUME ProxyInv, Calm, UNCHANGED <<link, live, stored, attempts, task, loop>>,
         doomed' \in {doomed, doomed \ {Sender}}
  PROVE  ProxyInv'
<1>1. ProxyTypes'
  BY DEF ProxyInv, ProxyTypes
<1>2. OneLoopInReach' /\ Attempts'
  <2>1. \A k \in DOMAIN loop : k # Sender
    BY DEF ProxyInv, ProxyTypes, Sender
  <2> QED BY <2>1 DEF ProxyInv, OneLoopInReach, Attempts, Reading
<1>3. Attached' /\ Accounted'
  BY CalmStarting DEF ProxyInv, Attached, Accounted, Opening
<1> QED BY <1>1, <1>2, <1>3, CalmStages DEF ProxyInv

(* A receive loop goes on to another await, or ends.                       *)
LEMMA LoopFacts ==
  ASSUME NEW n \in Nat, loop \in Seq(LoopRec(n)), NEW k \in DOMAIN loop, NEW r \in LoopRec(n),
         loop' = [loop EXCEPT ![k] = r]
  PROVE  /\ loop' \in Seq(LoopRec(n)) /\ Len(loop') = Len(loop)
         /\ DOMAIN loop' = DOMAIN loop
         /\ loop'[k] = r /\ \A j \in DOMAIN loop : j # k => loop'[j] = loop[j]
OBVIOUS

LEMMA LoopMove ==
  ASSUME ProxyTypes, NEW k \in DOMAIN loop,
         NEW pc \in {"new", "wait", "route", "shut", "open", "tell", "lost", "term", "done"},
         Loop(k, pc)
  PROVE  /\ loop' \in Seq(LoopRec(Len(link))) /\ Len(loop') = Len(loop)
         /\ DOMAIN loop' = DOMAIN loop
         /\ loop'[k].pc = pc /\ (pc # "done" => loop'[k].on = loop[k].on)
         /\ \A j \in DOMAIN loop : j # k => loop'[j] = loop[j]
<1> DEFINE r == [pc |-> pc, on |-> IF pc = "done" THEN 0 ELSE loop[k].on]
<1>1. Len(link) \in Nat /\ loop \in Seq(LoopRec(Len(link)))
  BY DEF ProxyTypes
<1>2. loop[k] \in LoopRec(Len(link))
  BY <1>1
<1>3. r \in LoopRec(Len(link))
  BY <1>1, <1>2 DEF LoopRec
<1>4. loop' = [loop EXCEPT ![k] = r]
  BY DEF Loop
<1>5. r.pc = pc /\ (pc # "done" => r.on = loop[k].on)
  OBVIOUS
<1> HIDE DEF r
<1> QED BY <1>1, <1>3, <1>4, <1>5, LoopFacts

(* The one loop that reads.                                                *)
LEMMA OneReads ==
  ASSUME ProxyInv, NEW k \in DOMAIN loop, loop[k].pc \in ReadingPcs
  PROVE  /\ Reading = {k} /\ (k \notin doomed => k = task /\ task # 0)
         /\ k \in 1..Len(loop) /\ loop[k] \in LoopRec(Len(link)) /\ link \in Seq(LinkStates)
         /\ attempts \in 0..MaxReconnectAttempts
<1>1. k \in Reading
  BY DEF Reading, ReadingPcs
<1>2. k \in 1..Len(loop) /\ loop[k] \in LoopRec(Len(link)) /\ link \in Seq(LinkStates)
  BY DEF ProxyInv, ProxyTypes
<1>3. Reading = {k} /\ (k = task \/ k \in doomed)
  BY <1>1 DEF ProxyInv, OneLoopInReach
<1>4. MaxReconnectAttempts \in Nat
  BY ProxyAssumption
<1> QED BY <1>1, <1>2, <1>3, <1>4 DEF ProxyInv, Attempts

(* The stages while the endpoint stays and a loop exists.                  *)
LEMMA LoopStages ==
  ASSUME Stages, NEW k \in DOMAIN loop, handler' = handler, task' = task \/ task # 0,
         live' = 0 \/ live' = live \/ task # 0
  PROVE  Stages'
<1>1. loop # <<>>
  OBVIOUS
<1> QED BY <1>1 DEF Stages, NoLoop

(* Steps of a loop that open and close no connection.                      *)
LEMMA LoopOnly ==
  ASSUME ProxyInv, NEW k \in DOMAIN loop, handler' = handler,
         UNCHANGED <<link, live, stored, task, doomed>>,
         loop' \in Seq(LoopRec(Len(link))), DOMAIN loop' = DOMAIN loop, Len(loop') = Len(loop),
         \A j \in DOMAIN loop : j # k => loop'[j] = loop[j],
         loop'[k].pc \in ReadingPcs => loop[k].pc \in ReadingPcs,
         loop'[k].pc = "open" <=> loop[k].pc = "open", loop'[k].pc = "open" => loop'[k] = loop[k],
         loop'[k].pc \in {"wait", "shut"} => live \in {0, loop'[k].on},
         Attempts'
  PROVE  ProxyInv'
<1>1. ProxyTypes'
  BY DEF ProxyInv, ProxyTypes
<1>2. Reading' \subseteq Reading
  BY DEF Reading, ReadingPcs
<1>3. OneLoopInReach'
  BY <1>2 DEF ProxyInv, OneLoopInReach
<1>4. Attached'
  BY DEF ProxyInv, Attached
<1>5. Accounted'
  <2>1. \A l \in DOMAIN link : Opening(l) => Opening(l)'
    BY DEF Opening
  <2> QED BY <2>1 DEF ProxyInv, Accounted, Starting
<1>6. Stages'
  BY LoopStages DEF ProxyInv
<1> QED BY <1>1, <1>3, <1>4, <1>5, <1>6 DEF ProxyInv

LEMMA ReadingShrinks ==
  ASSUME ProxyInv, NEW k \in DOMAIN loop, DOMAIN loop' = DOMAIN loop,
         \A j \in DOMAIN loop : j # k => loop'[j] = loop[j],
         loop'[k].pc \in ReadingPcs => loop[k].pc \in ReadingPcs
  PROVE  Reading' \subseteq Reading /\ (attempts' = attempts => Attempts')
BY DEF Reading, ReadingPcs, ProxyInv, Attempts

LEMMA EndedStep ==
  ASSUME ProxyInv, NEW k \in DOMAIN loop, NEW pc \in {"lost", "term", "done"}, Loop(k, pc),
         handler' = handler, UNCHANGED <<link, live, stored, attempts, task, doomed>>,
         loop[k].pc # "open"
  PROVE  ProxyInv'
<1>1. ProxyTypes
  BY DEF ProxyInv
<1> QED BY <1>1, LoopMove, ReadingShrinks, LoopOnly DEF ReadingPcs

LEMMA WaitingStep ==
  ASSUME ProxyInv, NEW k \in DOMAIN loop, LoopTop(k) \/ Response(k) \/ Death(k)
  PROVE  ProxyInv'
<1>0. ProxyTypes
  BY DEF ProxyInv
<1>a. handler' = handler /\ UNCHANGED <<link, live, stored, task, doomed>>
  BY DEF LoopTop, Response, Death, smVars
<1>1. CASE LoopTop(k)
  <2> DEFINE r == IF live = 0 THEN [pc |-> "done", on |-> 0] ELSE [pc |-> "wait", on |-> live]
  <2>1. loop' = [loop EXCEPT ![k] = r] /\ attempts' = attempts /\ loop[k].pc \in {"new", "route"}
    BY <1>1 DEF LoopTop, Top, Runs
  <2>2. r \in LoopRec(Len(link)) /\ loop \in Seq(LoopRec(Len(link))) /\ Len(link) \in Nat
    BY <1>0 DEF ProxyTypes, LoopRec
  <2>3. r.pc # "open" /\ r.pc # "shut" /\ (r.pc = "wait" => r.on = live)
    OBVIOUS
  <2> HIDE DEF r
  <2>4. /\ loop' \in Seq(LoopRec(Len(link))) /\ Len(loop') = Len(loop)
        /\ DOMAIN loop' = DOMAIN loop
        /\ loop'[k] = r /\ \A j \in DOMAIN loop : j # k => loop'[j] = loop[j]
    BY <2>1, <2>2, LoopFacts
  <2>5. Attempts'
    BY <2>1, <2>4, ReadingShrinks DEF ReadingPcs
  <2> QED BY <1>a, <2>1, <2>3, <2>4, <2>5, LoopOnly DEF ReadingPcs
<1>2. CASE Response(k)
  <2>1. Loop(k, "route") /\ attempts' = attempts /\ loop[k].pc = "wait"
    BY <1>2 DEF Response, Runs
  <2> QED BY <1>0, <1>a, <2>1, LoopMove, ReadingShrinks, LoopOnly DEF ReadingPcs
<1>3. CASE Death(k)
  <2>1. attempts' = attempts + 1 /\ loop[k].pc = "wait"
    BY <1>3 DEF Death, Runs
  <2>2. Reading = {k} /\ attempts \in 0..MaxReconnectAttempts /\ MaxReconnectAttempts \in Nat
    BY <2>1, OneReads, ProxyAssumption DEF ReadingPcs
  <2>3. CASE Loop(k, "shut") /\ MayReconnect(attempts + 1)
    <3>1. Attempts'
      <4>1. loop' # <<>>
        BY <1>0, <2>3, LoopMove
      <4> QED BY <2>1, <2>2, <2>3, <4>1 DEF Attempts, MayReconnect
    <3>2. live \in {0, loop[k].on}
      BY <2>1 DEF ProxyInv, Attached
    <3> QED BY <1>0, <1>a, <2>1, <2>3, <3>1, <3>2, LoopMove, LoopOnly DEF ReadingPcs
  <2>4. CASE Loop(k, "lost")
    <3>1. /\ DOMAIN loop' = DOMAIN loop /\ loop'[k].pc = "lost"
          /\ \A j \in DOMAIN loop : j # k => loop'[j] = loop[j]
      BY <1>0, <2>4, LoopMove
    <3>2. Reading' = {}
      BY <2>2, <3>1 DEF Reading
    <3>3. Attempts'
      <4>1. loop' # <<>>
        BY <3>1
      <4> QED BY <2>1, <2>2, <3>2, <4>1 DEF Attempts
    <3> QED BY <1>0, <1>a, <2>1, <2>4, <3>3, LoopMove, LoopOnly DEF ReadingPcs
  <2> QED BY <1>3, <2>3, <2>4 DEF Death
<1> QED BY <1>1, <1>2, <1>3

(* Where a loop is, the endpoint is past the start of the proxy.           *)
LEMMA NotStarting == ASSUME Stages, NEW k \in DOMAIN loop PROVE ~Starting
<1>1. loop # <<>>
  OBVIOUS
<1> QED BY <1>1 DEF Stages, Starting, NoLoop

LEMMA CutFacts ==
  ASSUME link \in Seq(LinkStates), NEW m, NEW x \in LinkStates
  PROVE  /\ [link EXCEPT ![m] = x] \in Seq(LinkStates)
         /\ Len([link EXCEPT ![m] = x]) = Len(link)
         /\ \A l \in 1..Len(link) : l # m => [link EXCEPT ![m] = x][l] = link[l]
         /\ m \in 1..Len(link) => [link EXCEPT ![m] = x][m] = x
<1> DEFINE cut == [link EXCEPT ![m] = x]
<1>1. link \in [1..Len(link) -> LinkStates] /\ Len(link) \in Nat
  OBVIOUS
<1>2. cut \in [1..Len(link) -> LinkStates]
  BY <1>1
<1>3. cut \in Seq(LinkStates) /\ Len(cut) = Len(link)
  BY <1>1, <1>2
<1> QED BY <1>1, <1>3

LEMMA ReopenStep ==
  ASSUME ProxyInv, NEW k \in DOMAIN loop, Reopen(k)
  PROVE  ProxyInv'
<1> DEFINE n == Len(link)
           cut == [link EXCEPT ![loop[k].on] = "closed"]
           r == [pc |-> "open", on |-> n + 1]
<1>0. ProxyTypes /\ n \in Nat /\ loop \in Seq(LoopRec(n)) /\ link \in Seq(LinkStates)
  BY DEF ProxyInv, ProxyTypes
<1>1. /\ loop[k].pc = "shut" /\ k \notin doomed /\ handler' = handler
      /\ link' = Append(cut, "opening") /\ live' = 0 /\ loop' = [loop EXCEPT ![k] = r]
      /\ UNCHANGED <<stored, attempts, task, doomed>>
  BY DEF Reopen, Runs, smVars
<1>2. Reading = {k} /\ k = task /\ task # 0 /\ attempts \in 0..MaxReconnectAttempts
  BY <1>1, OneReads DEF ReadingPcs
<1>3. /\ cut \in Seq(LinkStates) /\ Len(cut) = n
      /\ \A l \in 1..n : l # loop[k].on => cut[l] = link[l]
      /\ loop[k].on \in 1..n => cut[loop[k].on] = "closed"
  BY <1>0, CutFacts DEF LinkStates
<1>4. /\ link' \in Seq(LinkStates) /\ Len(link') = n + 1
      /\ \A l \in 1..n : l # loop[k].on => link'[l] = link[l]
      /\ loop[k].on \in 1..n => link'[loop[k].on] = "closed"
  <2>1. /\ link' \in Seq(LinkStates) /\ Len(link') = n + 1
        /\ \A l \in 1..n : link'[l] = cut[l]
    <3> HIDE DEF cut
    <3> QED BY <1>0, <1>1, <1>3 DEF LinkStates
  <2> QED BY <1>3, <2>1
<1>5. r \in LoopRec(n + 1) /\ loop \in Seq(LoopRec(n + 1))
  <2>1. 0..n \subseteq 0..n + 1 /\ n + 1 \in 0..n + 1
    BY <1>0
  <2>2. LoopRec(n) \subseteq LoopRec(n + 1) /\ r \in LoopRec(n + 1)
    BY <2>1 DEF LoopRec
  <2>3. \A i \in 1..Len(loop) : loop[i] \in LoopRec(n + 1)
    BY <1>0, <2>2
  <2> QED BY <1>0, <2>2, <2>3
<1>6. r.pc = "open" /\ r.on = n + 1
  OBVIOUS
<1> HIDE DEF r, cut
<1>7. /\ loop' \in Seq(LoopRec(n + 1)) /\ Len(loop') = Len(loop)
      /\ DOMAIN loop' = DOMAIN loop
      /\ loop'[k] = r /\ \A j \in DOMAIN loop : j # k => loop'[j] = loop[j]
  BY <1>0, <1>1, <1>5, LoopFacts
<1>8. ProxyTypes'
  BY <1>0, <1>1, <1>4, <1>7 DEF ProxyTypes
<1>9. Reading' = {k}
  BY <1>2, <1>6, <1>7 DEF Reading
<1>10. OneLoopInReach' /\ Attempts'
  BY <1>1, <1>2, <1>9, OneReads DEF OneLoopInReach, Attempts, ProxyInv
<1>11. Stages'
  BY <1>1, <1>2, LoopStages DEF ProxyInv, Stages, NoLoop
<1>12. Attached'
  BY <1>1, <1>6, <1>7 DEF ProxyInv, Attached
<1>13. Accounted'
  <2> SUFFICES ASSUME NEW l \in DOMAIN link' PROVE link'[l] = "closed" \/ Opening(l)'
    BY DEF Accounted
  <2>1. CASE l = n + 1
    BY <1>6, <1>7, <2>1 DEF Opening
  <2>2. CASE l # n + 1
    <3>1. l \in 1..n
      BY <1>0, <1>4, <2>2
    <3>2. l \in DOMAIN link
      BY <1>0, <3>1
    <3>3. ~Opening(l)
      BY <1>1, <1>2 DEF Opening, Reading
    <3>4. live \in {0, loop[k].on}
      BY <1>1 DEF ProxyInv, Attached
    <3>5. ~Starting /\ l # 0
      BY <3>1, NotStarting DEF ProxyInv
    <3>6. link[l] = "closed" \/ l = loop[k].on
      BY <3>2, <3>3, <3>4, <3>5 DEF ProxyInv, Accounted
    <3> QED BY <1>4, <3>1, <3>6
  <2> QED BY <2>1, <2>2
<1> QED BY <1>8, <1>10, <1>11, <1>12, <1>13 DEF ProxyInv

(* A loop stops reading; a connection it was opening is given up.          *)
LEMMA LoopEnds ==
  ASSUME ProxyInv, NEW k \in DOMAIN loop, NEW pc \in {"lost", "done"}, Loop(k, pc),
         handler' = handler, UNCHANGED <<live, stored, attempts, task>>,
         doomed' \in {doomed, doomed \ {k}},
         link' = IF loop[k].pc = "open" THEN [link EXCEPT ![loop[k].on] = "closed"] ELSE link
  PROVE  ProxyInv'
<1>0. ProxyTypes /\ link \in Seq(LinkStates) /\ Len(link) \in Nat
  BY DEF ProxyInv, ProxyTypes
<1>1. /\ link' \in Seq(LinkStates) /\ Len(link') = Len(link) /\ DOMAIN link' = DOMAIN link
      /\ \A l \in DOMAIN link : link[l] = "closed" => link'[l] = "closed"
      /\ \A l \in DOMAIN link : loop[k].pc = "open" /\ l = loop[k].on => link'[l] = "closed"
  <2>1. CASE loop[k].pc = "open"
    BY <1>0, <2>1, CutFacts DEF LinkStates
  <2>2. CASE loop[k].pc # "open"
    BY <1>0, <2>2
  <2> QED BY <2>1, <2>2
<1>2. /\ loop' \in Seq(LoopRec(Len(link))) /\ Len(loop') = Len(loop)
      /\ DOMAIN loop' = DOMAIN loop /\ loop'[k].pc \in {"lost", "done"}
      /\ \A j \in DOMAIN loop : j # k => loop'[j] = loop[j]
  BY <1>0, LoopMove
<1>3. ProxyTypes'
  BY <1>0, <1>1, <1>2 DEF ProxyTypes
<1>4. Reading' \subseteq Reading \ {k}
  BY <1>2 DEF Reading
<1>5. OneLoopInReach'
  BY <1>4 DEF ProxyInv, OneLoopInReach
<1>6. Attempts'
  <2>1. loop' # <<>>
    BY <1>2
  <2> QED BY <1>4, <2>1 DEF ProxyInv, Attempts
<1>7. Stages'
  <2>1. loop # <<>> /\ loop' # <<>>
    BY <1>2
  <2> QED BY <2>1 DEF ProxyInv, Stages, NoLoop
<1>8. Attached'
  BY <1>2 DEF ProxyInv, Attached
<1>9. Accounted'
  <2> SUFFICES ASSUME NEW l \in DOMAIN link
               PROVE  link'[l] = "closed" \/ l = live \/ Opening(l)'
    BY <1>1 DEF Accounted
  <2>1. ~Starting
    BY NotStarting DEF ProxyInv
  <2>2. CASE Opening(l)
    <3>1. PICK j \in DOMAIN loop : loop[j].pc = "open" /\ loop[j].on = l
      BY <2>2 DEF Opening
    <3>2. CASE j = k
      BY <1>1, <3>1, <3>2
    <3>3. CASE j # k
      BY <1>2, <3>1, <3>3 DEF Opening
    <3> QED BY <3>2, <3>3
  <2>3. CASE ~Opening(l)
    BY <1>1, <2>1, <2>3 DEF ProxyInv, Accounted
  <2> QED BY <2>2, <2>3
<1> QED BY <1>3, <1>5, <1>6, <1>7, <1>8, <1>9 DEF ProxyInv

(* The loop and its successor.                                             *)
LEMMA HandedOver ==
  ASSUME ProxyInv, NEW k \in DOMAIN loop, HandOver(k)
  PROVE  /\ loop' \in Seq(LoopRec(Len(link))) /\ Len(loop') = Len(loop) + 1
         /\ DOMAIN loop' = 1..Len(loop) + 1
         /\ loop'[k].pc = "tell" /\ loop'[Len(loop) + 1].pc = "new"
         /\ \A j \in 1..Len(loop) : j # k => loop'[j] = loop[j]
<1> DEFINE n == Len(link)
           m == Len(loop)
           r == [pc |-> "tell", on |-> loop[k].on]
           told == [loop EXCEPT ![k] = r]
           fresh == [pc |-> "new", on |-> 0]
<1>0. n \in Nat /\ m \in Nat /\ loop \in Seq(LoopRec(n)) /\ loop[k] \in LoopRec(n) /\ k \in 1..m
  BY DEF ProxyInv, ProxyTypes
<1>1. loop' = Append(told, fresh)
  <2>1. [loop EXCEPT ![k].pc = "tell"] = told
    <3>1. [loop[k] EXCEPT !.pc = "tell"] = r
      BY <1>0 DEF LoopRec
    <3>2. [loop EXCEPT ![k].pc = "tell"] = [loop EXCEPT ![k] = [loop[k] EXCEPT !.pc = "tell"]]
      BY <1>0
    <3> QED BY <3>1, <3>2
  <2> QED BY <2>1 DEF HandOver
<1>2. r \in LoopRec(n) /\ fresh \in LoopRec(n) /\ r.pc = "tell" /\ fresh.pc = "new"
  BY <1>0 DEF LoopRec
<1> HIDE DEF r, fresh
<1>3. /\ told \in Seq(LoopRec(n)) /\ Len(told) = m /\ told[k] = r
      /\ \A j \in 1..m : j # k => told[j] = loop[j]
  BY <1>0, <1>2
<1> HIDE DEF told
<1>4. \A j \in 1..m : loop'[j] = told[j]
  BY <1>0, <1>1, <1>2, <1>3
<1>5. loop' \in Seq(LoopRec(n)) /\ Len(loop') = m + 1 /\ loop'[m + 1] = fresh
  BY <1>0, <1>1, <1>2, <1>3
<1>6. DOMAIN loop' = 1..m + 1
  BY <1>0, <1>5
<1> QED BY <1>0, <1>2, <1>3, <1>4, <1>5, <1>6

(* The connection is open again, and the loop has its successor.           *)
LEMMA ReopenedStep ==
  ASSUME ProxyInv, NEW k \in DOMAIN loop, Reopened(k)
  PROVE  ProxyInv'
<1> DEFINE n == Len(link)
           m == Len(loop)
<1>0. /\ ProxyTypes /\ n \in Nat /\ m \in Nat /\ loop \in Seq(LoopRec(n))
      /\ link \in Seq(LinkStates) /\ loop[k] \in LoopRec(n) /\ k \in 1..m
  BY DEF ProxyInv, ProxyTypes
<1>1. /\ loop[k].pc = "open" /\ k \notin doomed /\ handler' = handler
      /\ link' = [link EXCEPT ![loop[k].on] = "open"] /\ live' = loop[k].on
      /\ UNCHANGED <<stored, attempts, doomed>> /\ HandOver(k)
  BY DEF Reopened, Runs, smVars
<1>2. Reading = {k} /\ task # 0 /\ attempts \in 0..MaxReconnectAttempts
  BY <1>1, OneReads DEF ReadingPcs
<1>3. task' = m + 1
  BY <1>1, <1>2 DEF HandOver
<1>4. /\ link' \in Seq(LinkStates) /\ Len(link') = n /\ DOMAIN link' = DOMAIN link
      /\ \A l \in DOMAIN link : l # loop[k].on => link'[l] = link[l]
  BY <1>0, <1>1, CutFacts DEF LinkStates
<1>5. /\ loop' \in Seq(LoopRec(n)) /\ Len(loop') = m + 1 /\ loop'[k].pc = "tell"
      /\ loop'[m + 1].pc = "new" /\ DOMAIN loop' = 1..m + 1
      /\ \A j \in 1..m : j # k => loop'[j] = loop[j]
  BY <1>1, HandedOver
<1>6. ProxyTypes'
  <2>1. live' \in 0..Len(link')
    BY <1>0, <1>1, <1>4 DEF LoopRec
  <2>2. doomed' \subseteq {Sender} \cup DOMAIN loop'
    BY <1>0, <1>1, <1>5 DEF ProxyTypes
  <2> QED BY <1>0, <1>1, <1>3, <1>4, <1>5, <2>1, <2>2 DEF ProxyTypes
<1>7. Reading' = {m + 1}
  <2>1. \A j \in 1..m : loop'[j].pc \notin ReadingPcs
    BY <1>0, <1>2, <1>5 DEF Reading, ReadingPcs
  <2>2. \A j \in 1..m + 1 : j \in 1..m \/ j = m + 1
    BY <1>0
  <2> QED BY <1>0, <1>5, <2>1, <2>2 DEF Reading, ReadingPcs
<1>8. OneLoopInReach' /\ Attempts'
  <2>1. loop' # <<>>
    BY <1>0, <1>5
  <2>2. OneLoopInReach'
    BY <1>3, <1>7 DEF OneLoopInReach
  <2>3. Attempts'
    BY <1>1, <1>2, <2>1, ProxyAssumption DEF Attempts
  <2> QED BY <2>2, <2>3
<1>9. Stages'
  BY <1>1, <1>2, LoopStages DEF ProxyInv, ReadingPcs
<1>10. Attached'
  <2> SUFFICES ASSUME NEW j \in DOMAIN loop', loop'[j].pc \in {"wait", "shut", "open"} PROVE FALSE
    BY DEF Attached
  <2>1. j \in Reading'
    BY DEF Reading
  <2> QED BY <1>5, <1>7, <2>1
<1>11. Accounted'
  <2> SUFFICES ASSUME NEW l \in DOMAIN link, l # loop[k].on PROVE link[l] = "closed"
    BY <1>1, <1>4 DEF Accounted
  <2>1. ~Opening(l)
    BY <1>1, <1>2 DEF Opening, Reading
  <2>2. live = 0 /\ l # 0
    BY <1>0, <1>1 DEF ProxyInv, Attached
  <2>3. ~Starting
    BY NotStarting DEF ProxyInv
  <2> QED BY <2>1, <2>2, <2>3 DEF ProxyInv, Accounted
<1> QED BY <1>6, <1>8, <1>9, <1>10, <1>11 DEF ProxyInv

LEMMA ReceivingStep ==
  ASSUME ProxyInv, NEW k \in DOMAIN loop, Receiving(k)
  PROVE  ProxyInv'
<1>1. CASE LoopTop(k) \/ Response(k) \/ Death(k)
  BY <1>1, WaitingStep
<1>2. CASE Reopen(k)
  BY <1>2, ReopenStep
<1>3. CASE Reopened(k)
  BY <1>3, ReopenedStep
<1>4. CASE ReopenFails(k)
  <2>1. /\ loop[k].pc = "open" /\ Loop(k, "lost") /\ handler' = handler
        /\ UNCHANGED <<live, stored, attempts, task, doomed>>
        /\ link' = [link EXCEPT ![loop[k].on] = "closed"]
    BY <1>4 DEF ReopenFails, Runs, smVars
  <2> QED BY <2>1, LoopEnds
<1>5. CASE Told(k) \/ Lost(k) \/ LostTerminated(k)
  <2>1. PICK pc \in {"term", "done"} :
          /\ loop[k].pc \in {"tell", "lost", "term"} /\ Loop(k, pc) /\ handler' = handler
          /\ UNCHANGED <<link, live, stored, attempts, task, doomed>>
    BY <1>5 DEF Told, Lost, LostTerminated, Runs, smVars, GiveUp, CloseReturns
  <2> QED BY <2>1, EndedStep
<1>6. CASE LoopCancelled(k)
  <2>1. /\ Loop(k, "done") /\ handler' = handler
        /\ UNCHANGED <<live, stored, attempts, task>> /\ doomed' = doomed \ {k}
        /\ link' = IF loop[k].pc = "open" THEN [link EXCEPT ![loop[k].on] = "closed"] ELSE link
    BY <1>6 DEF LoopCancelled, smVars, CloseReturns
  <2> QED BY <2>1, LoopEnds
<1> QED BY <1>1, <1>2, <1>3, <1>4, <1>5, <1>6 DEF Receiving

(* The endpoint of the session is the only one past its admission.         *)
LEMMA Alone ==
  ASSUME SmInv, NEW c \in Conns, handler[c].pc \notin {"new", "refused"}
  PROVE  \A d \in Conns : d # c => handler[d].pc \in {"new", "refused"}
<1> SUFFICES ASSUME NEW d \in Conns, d # c, handler[d].pc \notin {"new", "refused"}
             PROVE  FALSE
  OBVIOUS
<1>1. Sid(c) \in Sessions /\ Sid(d) \in Sessions
  BY Holder
<1>2. Sid(c) = Sid(d)
  BY <1>1, ProxyAssumption
<1> QED BY <1>2, Holder

LEMMA AloneStages ==
  ASSUME SmInv, NEW c \in Conns, handler[c].pc \notin {"new", "refused"},
         NEW pc \in Pcs \ {"new", "refused", "accepting"}, Goto(c, pc),
         pc = "starting" => link' = <<"opening">> /\ NoLoop',
         pc = "failing" => link' = <<"closed">> /\ NoLoop',
         pc \in {"stopping", "closing", "ending", "done"} => task' = 0,
         pc \in {"ending", "done"} => live' = 0
  PROVE  /\ Stages' /\ (Starting' <=> pc = "starting")
         /\ (Starting => handler[c].pc = "starting")
<1>1. /\ handler'[c].pc = pc
      /\ \A d \in Conns : d # c => handler'[d] = handler[d]
  BY GotoFacts DEF SmInv
<1>2. \A d \in Conns : d # c => handler[d].pc \in {"new", "refused"}
  BY Alone
<1> QED BY <1>1, <1>2 DEF Stages, Starting

LEMMA ConnectStep ==
  ASSUME SmInv, ProxyInv, NEW c \in Conns, Connect(c) \/ ConnectFails(c)
  PROVE  ProxyInv'
<1>0. ProxyTypes /\ MaxReconnectAttempts \in Nat
  BY ProxyAssumption DEF ProxyInv
<1>1. PICK pc \in {"starting", "failing"} :
        /\ Goto(c, pc) /\ handler[c].pc \notin {"new", "refused"}
        /\ handler[c].pc = IF pc = "starting" THEN "accepting" ELSE "starting"
        /\ UNCHANGED <<live, task, loop, doomed>>
        /\ link' = IF pc = "starting" THEN Append(link, "opening")
                   ELSE [link EXCEPT ![Len(link)] = "closed"]
        /\ \/ UNCHANGED <<stored, attempts>>
           \/ stored' = TRUE /\ attempts' = 0
  BY DEF Connect, ConnectFails, Accept, StartFails, At
<1>2. \A d \in Conns : d # c => handler[d].pc \in {"new", "refused"}
  BY <1>1, Alone
<1>3. NoLoop
  BY <1>0, <1>1, <1>2 DEF ProxyInv, Stages
<1>4. link = IF pc = "starting" THEN <<>> ELSE <<"opening">>
  BY <1>0, <1>1, <1>2 DEF ProxyInv, Stages
<1>5. link' = IF pc = "starting" THEN <<"opening">> ELSE <<"closed">>
  BY <1>1, <1>4
<1>6. NoLoop' /\ link' \in Seq(LinkStates) /\ Len(link') = 1
  BY <1>1, <1>3, <1>5 DEF NoLoop, LinkStates
<1>7. Stages' /\ (Starting' <=> pc = "starting")
  BY <1>1, <1>5, <1>6, AloneStages DEF Pcs, NoLoop
<1>8. ProxyTypes'
  <2>1. loop' \in Seq(LoopRec(Len(link'))) /\ Len(loop') = 0
    BY <1>6 DEF NoLoop
  <2>2. stored' \in BOOLEAN
    BY <1>0, <1>1, Zenon DEF ProxyTypes
  <2>3. task' \in 0..Len(loop') /\ live' \in 0..Len(link')
    BY <1>6, <2>1 DEF NoLoop
  <2>4. doomed' \subseteq {Sender} \cup DOMAIN loop'
    BY <1>0, <1>1 DEF ProxyTypes
  <2> QED BY <1>6, <2>1, <2>2, <2>3, <2>4 DEF ProxyTypes
<1>9. Reading' = {}
  BY <1>6 DEF NoLoop, Reading
<1>10. OneLoopInReach' /\ Attempts' /\ Attached'
  BY <1>0, <1>1, <1>6, <1>9 DEF OneLoopInReach, Attempts, Attached, ProxyInv, NoLoop
<1>11. Accounted'
  BY <1>5, <1>7 DEF Accounted
<1> QED BY <1>7, <1>8, <1>10, <1>11 DEF ProxyInv

LEMMA BeginStep ==
  ASSUME SmInv, ProxyInv, NEW c \in Conns, Begin(c)
  PROVE  ProxyInv'
<1> DEFINE fresh == [pc |-> "new", on |-> 0]
<1>0. ProxyTypes /\ MaxReconnectAttempts \in Nat
  BY ProxyAssumption DEF ProxyInv
<1>1. Goto(c, "receiving") /\ handler[c].pc = "starting"
  BY DEF Begin, Started, At
<1>2. link = <<"opening">> /\ NoLoop
  BY <1>1 DEF ProxyInv, Stages
<1>3. /\ link' = <<"open">> /\ live' = 1 /\ loop' = <<fresh>> /\ task' = 1
      /\ UNCHANGED <<stored, attempts, doomed>>
  BY <1>2 DEF Begin, NoLoop
<1>4. Stages'
  BY <1>1, AloneStages DEF Pcs
<1>5. link' \in Seq(LinkStates) /\ Len(link') = 1 /\ DOMAIN link' = {1}
  BY <1>3 DEF LinkStates
<1>6. fresh \in LoopRec(1) /\ fresh.pc = "new"
  BY DEF LoopRec
<1>7. loop' \in Seq(LoopRec(1)) /\ Len(loop') = 1 /\ DOMAIN loop' = {1} /\ loop'[1].pc = "new"
  <2> HIDE DEF fresh
  <2> QED BY <1>3, <1>6
<1>8. ProxyTypes'
  BY <1>0, <1>2, <1>3, <1>5, <1>7 DEF ProxyTypes, NoLoop
<1>9. Reading' = {1}
  BY <1>7 DEF Reading
<1>10. OneLoopInReach' /\ Attached' /\ Accounted'
  BY <1>3, <1>5, <1>7, <1>9 DEF OneLoopInReach, Attached, Accounted
<1>11. Attempts'
  <2>1. Reading = {} /\ attempts = 0
    BY <1>2 DEF NoLoop, Reading, ProxyInv, Attempts
  <2> QED BY <1>0, <1>3, <2>1 DEF Attempts
<1> QED BY <1>4, <1>8, <1>10, <1>11 DEF ProxyInv

(* close_session up to its await.                                          *)
LEMMA CloseBeginsStep ==
  ASSUME SmInv, ProxyInv, NEW c \in Conns, StopBegins(c) \/ FinallyBegins(c)
  PROVE  ProxyInv'
<1>0. ProxyTypes
  BY DEF ProxyInv
<1>1. PICK pc \in {"stopping", "closing"} :
        /\ Goto(c, pc) /\ handler[c].pc \in {"receiving", "leaving"} /\ CloseBegins
        /\ UNCHANGED <<link, live, stored, attempts, loop>>
  BY DEF StopBegins, FinallyBegins, StopRequested, OutputStopped, At
<1>2. task' = 0 /\ doomed' = doomed \cup Listed
  BY <1>1 DEF CloseBegins
<1>3. Stages' /\ ~Starting' /\ ~Starting
  BY <1>1, <1>2, AloneStages DEF Pcs
<1>4. ProxyTypes'
  <2>1. Listed \subseteq {Sender} \cup DOMAIN loop
    BY <1>0 DEF Listed, ProxyTypes
  <2> QED BY <1>0, <1>1, <1>2, <2>1 DEF ProxyTypes
<1>5. OneLoopInReach'
  <2>1. Reading' = Reading
    BY <1>1 DEF Reading
  <2>2. ASSUME NEW k \in Reading PROVE k \in doomed'
    <3>1. k \in DOMAIN loop /\ loop[k].pc # "done" /\ (k = task \/ k \in doomed)
      BY DEF Reading, ProxyInv, OneLoopInReach
    <3>2. k # 0
      BY <1>0, <3>1 DEF ProxyTypes
    <3> QED BY <1>2, <3>1, <3>2 DEF Listed
  <2> QED BY <2>1, <2>2 DEF ProxyInv, OneLoopInReach
<1>6. Attached' /\ Accounted' /\ Attempts'
  BY <1>1, <1>3 DEF ProxyInv, Attached, Accounted, Attempts, Opening, Reading
<1> QED BY <1>3, <1>4, <1>5, <1>6 DEF ProxyInv

(* The rest of close_session.                                              *)
LEMMA CloseEndsStep ==
  ASSUME SmInv, ProxyInv, NEW c \in Conns, StopCloses(c) \/ FinallyCloses(c)
  PROVE  ProxyInv'
<1>0. ProxyTypes /\ link \in Seq(LinkStates) /\ Len(link) \in Nat /\ MaxReconnectAttempts \in Nat
  BY ProxyAssumption DEF ProxyInv, ProxyTypes
<1>1. PICK pc \in {"stopped", "receiving", "ending", "done"} :
        /\ Goto(c, pc) /\ handler[c].pc \in {"stopping", "closing"}
        /\ CloseEnds /\ UNCHANGED <<task, loop, doomed>>
  BY DEF StopCloses, FinallyCloses, StopTerminates, Terminate, At
<1>2. live' = 0 /\ stored' = FALSE /\ attempts' = 0
  BY <1>1 DEF CloseEnds
<1>3. task = 0
  BY <1>1 DEF ProxyInv, Stages
<1>4. Stages' /\ ~Starting' /\ ~Starting
  BY <1>1, <1>2, <1>3, AloneStages DEF Pcs
<1>5. /\ link' \in Seq(LinkStates) /\ Len(link') = Len(link) /\ DOMAIN link' = DOMAIN link
      /\ \A l \in DOMAIN link : link[l] = "closed" => link'[l] = "closed"
      /\ live \in DOMAIN link => link'[live] = "closed"
  <2>1. CASE live = 0
    BY <1>0, <1>1, <2>1 DEF CloseEnds
  <2>2. CASE live # 0
    <3>1. link' = [link EXCEPT ![live] = "closed"]
      BY <1>1, <2>2 DEF CloseEnds
    <3> QED BY <1>0, <3>1, CutFacts DEF LinkStates
  <2> QED BY <2>1, <2>2
<1>6. ProxyTypes'
  <2>1. stored' \in BOOLEAN
    BY <1>2, Zenon
  <2> QED BY <1>0, <1>1, <1>2, <1>5, <2>1 DEF ProxyTypes
<1>7. OneLoopInReach' /\ Attached' /\ Attempts'
  BY <1>0, <1>1, <1>2 DEF ProxyInv, OneLoopInReach, Attached, Attempts, Reading
<1>8. Accounted'
  BY <1>1, <1>4, <1>5 DEF ProxyInv, Accounted, Opening
<1> QED BY <1>4, <1>6, <1>7, <1>8 DEF ProxyInv

LEMMA ProxyStep == SmInv /\ ProxyInv /\ [Next]_vars => ProxyInv'
<1> SUFFICES ASSUME SmInv, ProxyInv, [Next]_vars PROVE ProxyInv'
  OBVIOUS
<1>a. ASSUME handler' = handler, UNCHANGED <<link, live, stored, attempts, task, loop>>,
             doomed' \in {doomed, doomed \ {Sender}}
      PROVE  ProxyInv'
  BY <1>a, CalmStep DEF Calm
<1>b. ASSUME NEW c \in Conns, NEW pc \in Pcs, Goto(c, pc),
             UNCHANGED <<link, live, stored, attempts, task, loop, doomed>>,
             \/ handler[c].pc = "new" /\ pc = "refused"
             \/ handler[c].pc \in {"failing", "ending"} /\ pc = "done"
             \/ handler[c].pc \in {"receiving", "stopped"} /\ pc \in {"receiving", "leaving"}
      PROVE  ProxyInv'
  <2>1. handler'[c].pc = pc /\ \A d \in Conns : d # c => handler'[d] = handler[d]
    BY <1>b, GotoFacts DEF SmInv
  <2>2. Calm
    BY <1>b, <2>1 DEF Calm
  <2> QED BY <1>b, <2>2, CalmStep
<1>1. ASSUME NEW k \in DOMAIN loop, Receiving(k) PROVE ProxyInv'
  BY <1>1, ReceivingStep
<1>2. ASSUME NEW l \in DOMAIN link, LinkDies(l) PROVE ProxyInv'
  <2>1. link \in Seq(LinkStates) /\ link[l] = "open" /\ link' = [link EXCEPT ![l] = "dead"]
        /\ handler' = handler /\ UNCHANGED <<live, stored, attempts, task, loop, doomed>>
    BY <1>2 DEF LinkDies, smVars, ProxyInv, ProxyTypes
  <2>2. /\ link' \in Seq(LinkStates) /\ Len(link') = Len(link) /\ DOMAIN link' = DOMAIN link
        /\ \A m \in DOMAIN link : link[m] = "closed" => link'[m] = "closed"
    BY <2>1, CutFacts DEF LinkStates
  <2>3. link # <<"opening">> /\ link # <<"closed">> /\ link # <<>>
    BY <2>1
  <2>4. Stages'
    BY <2>1, <2>3 DEF ProxyInv, Stages, NoLoop
  <2>5. ProxyTypes'
    BY <2>1, <2>2 DEF ProxyInv, ProxyTypes
  <2>6. OneLoopInReach' /\ Attached' /\ Attempts'
    BY <2>1 DEF ProxyInv, OneLoopInReach, Attached, Attempts, Reading
  <2>7. Accounted'
    BY <2>1, <2>2 DEF ProxyInv, Accounted, Opening, Starting
  <2> QED BY <2>4, <2>5, <2>6, <2>7 DEF ProxyInv
<1>3. CASE Sending
  BY <1>3, <1>a
  DEF Sending, SendStops, SendWaits, SendChunk, SendNext, SendCancelled, smVars
<1>4. ASSUME NEW c \in Conns, Endpoint(c) PROVE ProxyInv'
  <2>1. CASE AudioIn(c)
    BY <1>a, <2>1 DEF AudioIn, Audio, quiet
  <2> QED
    BY <1>4, <2>1, ConnectStep, BeginStep, CloseBeginsStep, CloseEndsStep DEF Endpoint
<1>5. CASE Deleting \/ Sweep
  BY <1>5, <1>a DEF Deleting, Sweep, Delete, SweepNext, quiet
<1>6. CASE TerminateReturns
  <2>1. UNCHANGED <<link, live, stored, attempts, task, loop, doomed>>
    BY <1>6 DEF TerminateReturns, quiet
  <2>2. CASE CloseReturns(conv)
    BY <1>a, <2>1, <2>2 DEF CloseReturns
  <2>3. ASSUME NEW c \in Conns, StopReturns(c) \/ Ended(c) PROVE ProxyInv'
    BY <1>b, <2>1, <2>3 DEF StopReturns, Ended, At, Pcs
  <2> QED BY <1>6, <2>2, <2>3 DEF TerminateReturns
<1>7. CASE Elsewhere
  <2>1. UNCHANGED <<link, live, stored, attempts, task, loop, doomed>>
    BY <1>7 DEF Elsewhere, proxy
  <2>2. CASE Create(conv) \/ TokenLapses(conv) \/ GoesIdle(conv) \/ Scan
    BY <1>a, <2>1, <2>2 DEF Create, TokenLapses, GoesIdle, Scan
  <2>3. ASSUME NEW c \in Conns, Failed(c) \/ Leave(c) PROVE ProxyInv'
    BY <1>b, <2>1, <2>3 DEF Failed, Leave, At, Pcs
  <2>4. ASSUME NEW c \in Conns, Disconnect(c) PROVE ProxyInv'
    BY <1>a, <2>1, <2>4 DEF Disconnect
  <2>5. ASSUME NEW c \in Conns, Upgrade(c, conv) PROVE ProxyInv'
    <3>1. CASE Goto(c, "refused")
      BY <1>b, <2>1, <2>5, <3>1 DEF Upgrade, At, Pcs
    <3>2. CASE Admit(c, conv)
      <4>1. handler \in [Conns -> Handler]
        BY DEF SmInv, SmTypes
      <4>2. /\ handler[c].pc = "new" /\ handler'[c].pc = "accepting"
            /\ \A d \in Conns : d # c => handler'[d] = handler[d]
        BY <2>5, <3>2, <4>1 DEF Upgrade, Admit, At
      <4>3. Calm
        BY <4>2 DEF Calm
      <4> QED BY <2>1, <4>3, CalmStep
    <3> QED BY <2>5, <3>1, <3>2 DEF Upgrade
  <2> QED BY <1>7, <2>2, <2>3, <2>4, <2>5 DEF Elsewhere
<1>8. CASE UNCHANGED vars
  BY <1>8, <1>a DEF vars, smVars
<1> QED BY <1>1, <1>2, <1>3, <1>4, <1>5, <1>6, <1>7, <1>8 DEF Next

LEMMA ProxyStart == Init => ProxyInv
<1> SUFFICES ASSUME Init PROVE ProxyInv
  OBVIOUS
<1>1. ProxyTypes
  <2>1. stored \in BOOLEAN
    BY Zenon DEF Init
  <2>2. link \in Seq(LinkStates) /\ loop \in Seq(LoopRec(Len(link)))
    BY DEF Init
  <2> QED BY <2>1, <2>2 DEF Init, ProxyTypes
<1>2. Reading = {}
  BY DEF Init, Reading
<1> QED
  BY <1>1, <1>2, ProxyAssumption
  DEF Init, SmInit, ProxyInv, Stages, NoLoop, OneLoopInReach, Attached, Accounted, Attempts

(* A receive loop that reconnects never leaves two loops that read, and    *)
(* close_session always reaches the one there is                           *)
(* (gemini_proxy.py:280-310, 686-713).                                     *)
THEOREM OneLoopInReachAlways == Spec => []OneLoopInReach
<1>1. ProxyInv => OneLoopInReach
  BY DEF ProxyInv
<1> QED BY SmStart, SmStep, ProxyStart, ProxyStep, <1>1, PTL DEF Spec, Init

(* Once the endpoint has returned no connection to Gemini Live is open and *)
(* none will be, however its closing interleaves with a reconnection, a    *)
(* failed start or another call of close_session.                          *)
THEOREM ClosedForGoodAlways == Spec => []ClosedForGood
<1>1. SmInv /\ ProxyInv => ClosedForGood
  <2> SUFFICES ASSUME SmInv, ProxyInv, NEW c \in Conns, handler[c].pc = "done"
               PROVE  /\ live = 0
                      /\ \A l \in DOMAIN link : link[l] = "closed" \/
                           \E k \in doomed \cap Reading : loop[k].pc = "open" /\ loop[k].on = l
                      /\ Reading \subseteq doomed
    BY DEF ClosedForGood, At
  <2>1. live = 0 /\ task = 0
    BY DEF ProxyInv, Stages
  <2>2. ~Starting
    BY Alone DEF Starting
  <2>3. Reading \subseteq doomed
    BY <2>1 DEF ProxyInv, ProxyTypes, OneLoopInReach, Reading
  <2>4. ASSUME NEW l \in DOMAIN link, link[l] # "closed"
        PROVE  \E k \in doomed \cap Reading : loop[k].pc = "open" /\ loop[k].on = l
    <3>1. l # 0
      BY DEF ProxyInv, ProxyTypes
    <3>2. Opening(l)
      BY <2>1, <2>2, <2>4, <3>1 DEF ProxyInv, Accounted
    <3> QED BY <2>3, <3>2 DEF Opening, Reading
  <2> QED BY <2>1, <2>3, <2>4
<1> QED BY SmStart, SmStep, ProxyStart, ProxyStep, <1>1, PTL DEF Spec, Init

-----------------------------------------------------------------------------
(* The send loop.                                                          *)

SendTypes ==
  /\ send \in [pc : {"none", "get", "send", "sleep", "done"}, waits : 0..(MaxNoneWaits + 1)]
  /\ send.pc # "done" => send.waits <= MaxNoneWaits
  /\ queue \in Seq({Chunk, Sentinel})

(* The send loop has ended, or is about to, for another reason than that   *)
(* it waited too long for a connection ...                                 *)
Finished ==
  \/ Sender \in doomed
  \/ \E i \in DOMAIN queue : queue[i] = Sentinel
  \/ send.pc = "done" /\ send.waits <= MaxNoneWaits

(* ... only when the session is over, or its endpoint is about to end it.  *)
Ending ==
  \/ conv \in born \ known
  \/ \E c \in Conns : handler[c].pc \in {"stopping", "closing"}

Terminated == \A k \in DOMAIN loop : loop[k].pc = "term" => conv \in born \ known

SendInv == SendTypes /\ (Finished => Ending) /\ Terminated

(* A session that is gone stays so, as no identifier is used twice.        *)
LEMMA GoneStays ==
  ASSUME SmInv, [Next]_vars, NEW s \in Sessions, s \in born \ known
  PROVE  s \in born' \ known'
<1>1. CASE UNCHANGED smVars
  BY <1>1 DEF smVars
<1>2. CASE SmNext
  <2>1. born \subseteq born' /\ known' \subseteq known \cup (born' \ born)
    BY <1>2
    DEF SmNext, Scan, Managing, Serving, Create, Delete, GiveUp, CloseReturns, TokenLapses,
        GoesIdle, SweepNext, Upgrade, Accept, Started, StartFails, Failed, Audio,
        StopRequested, StopTerminates, StopReturns, Leave, OutputStopped, Terminate, Ended,
        Disconnect, Pop, manager, Closed
  <2> QED BY <2>1
<1>3. UNCHANGED vars => UNCHANGED smVars
  BY DEF vars, smVars
<1> QED BY <1>1, <1>2, <1>3, ManagerStep

(* An endpoint that closes goes on to end the session.                     *)
LEMMA EndingStays ==
  ASSUME SmInv, [Next]_vars, Ending
  PROVE  Ending'
<1>0. conv \in Sessions /\ Sessions = {conv}
  BY ProxyAssumption
<1>1. CASE conv \in born \ known
  BY <1>0, <1>1, GoneStays DEF Ending
<1>2. CASE \E c \in Conns : handler[c].pc \in {"stopping", "closing"}
  <2>1. PICK c \in Conns : handler[c].pc \in {"stopping", "closing"}
    BY <1>2
  <2>2. Sid(c) = conv /\ conv \in born
    BY <1>0, <2>1, Holder
  <2>3. CASE handler'[c].pc = handler[c].pc
    BY <2>1, <2>3 DEF Ending
  <2>4. CASE StopTerminates(c) \/ Terminate(c)
    BY <2>2, <2>4 DEF StopTerminates, Terminate, Pop, Ending
  <2>5. ASSUME NEW d \in Conns, NEW pc \in Pcs, Goto(d, pc), d # c
        PROVE  handler'[c] = handler[c]
    BY <2>5, GotoFacts DEF SmInv
  <2>6. ASSUME NEW d \in Conns, Serving(d), d # c PROVE handler'[c] = handler[c]
    <3>1. CASE \E s \in Sessions : Upgrade(d, s)
      <4>1. handler \in [Conns -> Handler]
        BY DEF SmInv, SmTypes
      <4>2. ASSUME NEW s \in Sessions, Admit(d, s) PROVE handler'[c] = handler[c]
        BY <2>6, <4>1, <4>2 DEF Admit
      <4>3. CASE Goto(d, "refused")
        BY <2>5, <2>6, <4>3 DEF Pcs
      <4> QED BY <3>1, <4>2, <4>3 DEF Upgrade
    <3>2. CASE handler' = handler
      BY <3>2
    <3>3. CASE \E pc \in Pcs : Goto(d, pc)
      BY <2>5, <2>6, <3>3
    <3>4. \/ \E s \in Sessions : Upgrade(d, s)
          \/ handler' = handler
          \/ \E pc \in Pcs : Goto(d, pc)
      <4>1. CASE Accept(d) \/ Started(d) \/ StartFails(d) \/ Failed(d) \/ StopRequested(d)
                 \/ StopReturns(d) \/ Leave(d) \/ OutputStopped(d) \/ Ended(d)
        <5>1. PICK pc \in {"starting", "receiving", "failing", "done", "stopping", "leaving",
                          "closing"} : Goto(d, pc)
          BY <4>1 DEF Accept, Started, StartFails, Failed, StopRequested, StopReturns, Leave,
                      OutputStopped, Ended
        <5> QED BY <5>1 DEF Pcs
      <4>2. CASE StopTerminates(d) \/ Terminate(d)
        <5>1. PICK pc \in {"stopped", "receiving", "ending", "done"} : Goto(d, pc)
          BY <4>2 DEF StopTerminates, Terminate
        <5> QED BY <5>1 DEF Pcs
      <4>3. CASE Audio(d) \/ Disconnect(d)
        BY <4>3 DEF Audio, Disconnect
      <4> QED BY <2>6, <4>1, <4>2, <4>3 DEF Serving
    <3> QED BY <3>1, <3>2, <3>3, <3>4
  <2>7. CASE SmNext
    <3>1. CASE Scan \/ \E s \in Sessions : Managing(s)
      <4>1. handler' = handler
        BY <3>1 DEF Scan, Managing, Create, Delete, GiveUp, CloseReturns, TokenLapses, GoesIdle,
                    SweepNext
      <4> QED BY <2>3, <4>1
    <3>2. CASE Serving(c)
      <4>1. \/ handler' = handler
            \/ StopTerminates(c) \/ Terminate(c)
        BY <2>1, <3>2
        DEF Serving, Upgrade, Accept, Started, StartFails, Failed, Audio, StopRequested,
            StopReturns, Leave, OutputStopped, Ended, Disconnect, At
      <4> QED BY <2>3, <2>4, <4>1
    <3> QED BY <2>3, <2>6, <2>7, <3>1, <3>2 DEF SmNext
  <2>8. CASE UNCHANGED smVars
    BY <2>3, <2>8 DEF smVars
  <2>9. UNCHANGED vars => UNCHANGED smVars
    BY DEF vars, smVars
  <2> QED BY <2>7, <2>8, <2>9, ManagerStep
<1> QED BY <1>1, <1>2 DEF Ending

LEMMA PutFacts ==
  ASSUME queue \in Seq({Chunk, Sentinel}), NEW x \in {Chunk, Sentinel}, Put(x)
  PROVE  /\ queue' \in Seq({Chunk, Sentinel})
         /\ (\E i \in DOMAIN queue' : queue'[i] = Sentinel)
              => x = Sentinel \/ \E i \in DOMAIN queue : queue[i] = Sentinel
<1>1. CASE queue' = queue
  BY <1>1
<1>2. CASE queue' = Append(queue, x)
  BY <1>2
<1> QED BY <1>1, <1>2 DEF Put

LEMMA AtOnceFacts ==
  ASSUME queue \in Seq({Chunk, Sentinel}), SentinelAtOnce(conv), conv \in known => conv \in born' \ known'
  PROVE  /\ queue' \in Seq({Chunk, Sentinel})
         /\ (\E i \in DOMAIN queue' : queue'[i] = Sentinel)
              => Ending' \/ \E i \in DOMAIN queue : queue[i] = Sentinel
BY PutFacts DEF SentinelAtOnce, PutSentinel, Ending

(* The receive loops: none comes to await terminate_session but by it.     *)
LEMMA TerminatedStep ==
  ASSUME SmInv, ProxyInv, Terminated, [Next]_vars,
         \/ loop' = loop
         \/ \E k \in DOMAIN loop : Receiving(k)
         \/ \E c \in Conns : Begin(c)
  PROVE  Terminated'
<1>0. ProxyTypes /\ conv \in Sessions /\ loop \in Seq(LoopRec(Len(link)))
  BY ProxyAssumption DEF ProxyInv, ProxyTypes
<1>a. ASSUME \A j \in DOMAIN loop' : loop'[j].pc = "term" => j \in DOMAIN loop /\ loop[j].pc = "term"
      PROVE  Terminated'
  BY <1>0, <1>a, GoneStays DEF Terminated
<1>b. ASSUME NEW k \in DOMAIN loop,
             NEW pc \in {"new", "wait", "route", "shut", "open", "tell", "lost", "done"}, Loop(k, pc)
      PROVE  Terminated'
  <2>1. /\ DOMAIN loop' = DOMAIN loop /\ loop'[k].pc = pc
        /\ \A j \in DOMAIN loop : j # k => loop'[j] = loop[j]
    BY <1>0, <1>b, LoopMove
  <2> QED BY <1>a, <2>1
<1>1. CASE loop' = loop
  BY <1>1, <1>a
<1>2. ASSUME NEW c \in Conns, Begin(c) PROVE Terminated'
  <2>1. loop = <<>>
    BY <1>2 DEF Begin, Started, At, ProxyInv, Stages, NoLoop
  <2>2. loop' = <<[pc |-> "new", on |-> 0]>>
    BY <1>2, <2>1 DEF Begin
  <2> QED BY <2>2 DEF Terminated
<1>3. ASSUME NEW k \in DOMAIN loop, Receiving(k) PROVE Terminated'
  <2>1. CASE LoopTop(k)
    <3>1. CASE live = 0
      <4>1. \A j \in DOMAIN loop' : j \in DOMAIN loop /\ (loop'[j] = loop[j] \/ loop'[j].pc = "done")
        BY <1>0, <2>1, <3>1 DEF LoopTop, Top
      <4> QED BY <1>a, <4>1
    <3>2. CASE live # 0
      <4>1. \A j \in DOMAIN loop' : j \in DOMAIN loop /\ (loop'[j] = loop[j] \/ loop'[j].pc = "wait")
        BY <1>0, <2>1, <3>2 DEF LoopTop, Top
      <4> QED BY <1>a, <4>1
    <3> QED BY <3>1, <3>2
  <2>2. CASE Reopen(k)
    <3>1. \A j \in DOMAIN loop' : j \in DOMAIN loop /\ (loop'[j] = loop[j] \/ loop'[j].pc = "open")
      BY <1>0, <2>2 DEF Reopen
    <3> QED BY <1>a, <3>1
  <2>3. CASE Reopened(k)
    <3>1. \A j \in DOMAIN loop' : \/ j \in DOMAIN loop /\ loop'[j] = loop[j]
                                  \/ loop'[j].pc \in {"tell", "new"}
      <4> DEFINE told == [loop EXCEPT ![k].pc = "tell"]
      <4>1. Len(told) = Len(loop) /\ told \in Seq(LoopRec(Len(link))) /\ told[k].pc = "tell"
            /\ \A j \in DOMAIN loop : j # k => told[j] = loop[j]
        <5>1. \A i \in DOMAIN loop : loop[i] \in LoopRec(Len(link))
          BY <1>0
        <5>2. \A i \in DOMAIN loop : told[i] \in LoopRec(Len(link))
          <6>1. [loop[k] EXCEPT !.pc = "tell"] \in LoopRec(Len(link))
            BY <5>1 DEF LoopRec
          <6> QED BY <5>1, <6>1
        <5>3. loop[k] \in LoopRec(Len(link)) /\ told[k] = [loop[k] EXCEPT !.pc = "tell"]
          BY <5>1
        <5>4. told[k].pc = "tell"
          BY <5>3 DEF LoopRec
        <5> QED BY <1>0, <5>2, <5>4
      <4>2. loop' = Append(told, [pc |-> "new", on |-> 0])
        BY <2>3 DEF Reopened, HandOver
      <4> HIDE DEF told
      <4>3. \A j \in DOMAIN loop' : \/ j \in DOMAIN loop /\ loop'[j] = told[j]
                                    \/ loop'[j] = [pc |-> "new", on |-> 0]
        BY <1>0, <4>1, <4>2
      <4> QED BY <4>1, <4>3
    <3> QED BY <1>a, <3>1
  <2>4. CASE Response(k) \/ Death(k) \/ ReopenFails(k) \/ Told(k) \/ LostTerminated(k) \/ LoopCancelled(k)
    <3>1. PICK pc \in {"route", "shut", "lost", "done"} : Loop(k, pc)
      BY <2>4 DEF Response, Death, ReopenFails, Told, LostTerminated, LoopCancelled
    <3> QED BY <1>b, <3>1
  <2>5. CASE Lost(k)
    <3>1. CASE Awaits(conv)
      <4>1. conv \in born' \ known'
        BY <2>5, <3>1 DEF Lost, GiveUp, Pop, Awaits, SmInv, SmTypes
      <4> QED BY <4>1 DEF Terminated
    <3>2. CASE ~Awaits(conv)
      BY <1>b, <2>5, <3>2 DEF Lost
    <3> QED BY <3>1, <3>2
  <2> QED BY <1>3, <2>1, <2>2, <2>3, <2>4, <2>5 DEF Receiving
<1> QED BY <1>1, <1>2, <1>3

LEMMA SendStep == SmInv /\ ProxyInv /\ SendInv /\ [Next]_vars => SendInv'
<1> SUFFICES ASSUME SmInv, ProxyInv, SendInv, [Next]_vars PROVE SendInv'
  OBVIOUS
<1> DEFINE Given == \E i \in DOMAIN queue : queue[i] = Sentinel
<1>0. /\ SendTypes /\ Terminated /\ MaxNoneWaits \in Nat /\ (Ending => Ending')
      /\ queue \in Seq({Chunk, Sentinel}) /\ known \subseteq born /\ conv \in Sessions
      /\ Sessions = {conv}
  BY EndingStays, ProxyAssumption DEF SendInv, SendTypes, SmInv, SmTypes
<1>a. ASSUME SendTypes', Terminated', Finished' => Finished \/ Ending'
      PROVE  SendInv'
  BY <1>0, <1>a DEF SendInv
<1>b. ASSUME send' = send, Sender \in doomed' => Sender \in doomed \/ Ending', Terminated',
             queue' \in Seq({Chunk, Sentinel}), Given' => Given \/ Ending'
      PROVE  SendInv'
  BY <1>0, <1>a, <1>b DEF SendTypes, Finished
<1>1. ASSUME NEW k \in DOMAIN loop, Receiving(k) PROVE SendInv'
  <2>1. Terminated'
    BY <1>0, <1>1, TerminatedStep
  <2>2. send' = send /\ doomed' \subseteq doomed
    BY <1>1 DEF Receiving, LoopTop, Response, Death, Reopen, Reopened, ReopenFails, Told, Lost,
                LostTerminated, LoopCancelled
  <2>3. CASE queue' = queue
    BY <1>0, <1>b, <2>1, <2>2, <2>3
  <2>4. CASE Lost(k)
    <3>1. SentinelAtOnce(conv) /\ (conv \in known => conv \in born' \ known')
      BY <1>0, <2>4 DEF Lost, GiveUp, Pop
    <3> QED BY <1>0, <1>b, <2>1, <2>2, <3>1, AtOnceFacts
  <2>5. CASE LostTerminated(k)
    <3>1. Put(Sentinel) /\ Ending
      BY <1>0, <2>5 DEF LostTerminated, PutSentinel, Runs, Terminated, Ending
    <3> QED BY <1>0, <1>b, <2>1, <2>2, <3>1, PutFacts
  <2> QED
    BY <1>1, <2>3, <2>4, <2>5
    DEF Receiving, LoopTop, Response, Death, Reopen, Reopened, ReopenFails, Told, LoopCancelled
<1>2. ASSUME loop' = loop PROVE Terminated'
  BY <1>0, <1>2, TerminatedStep
<1>3. ASSUME UNCHANGED <<loop, send, queue>>, doomed' = doomed PROVE SendInv'
  BY <1>0, <1>2, <1>3, <1>b
<1>4. CASE Sending
  <2>1. Terminated'
    BY <1>2, <1>4 DEF Sending, SendStops, SendWaits, SendChunk, SendNext, SendCancelled
  <2>2. CASE SendStops
    <3>1. Head(queue) = queue[1] /\ 1 \in DOMAIN queue /\ Tail(queue) \in Seq({Chunk, Sentinel})
      BY <1>0, <2>2 DEF SendStops
    <3>2. Given
      BY <2>2, <3>1 DEF SendStops
    <3>3. SendTypes'
      BY <1>0, <2>2, <3>1 DEF SendStops, SendTypes
    <3> QED BY <1>a, <2>1, <3>2, <3>3 DEF Finished
  <2>3. CASE SendWaits \/ SendChunk
    <3>1. queue # <<>> /\ queue' = Tail(queue)
      BY <2>3 DEF SendWaits, SendChunk
    <3>2. queue' \in Seq({Chunk, Sentinel})
          /\ \A i \in DOMAIN queue' : i + 1 \in DOMAIN queue /\ queue'[i] = queue[i + 1]
      BY <1>0, <3>1
    <3>3. SendTypes' /\ (send'.pc = "done" => send'.waits > MaxNoneWaits) /\ send'.waits \in Nat
      BY <1>0, <2>3, <3>2 DEF SendWaits, SendChunk, SendTypes, SendRuns
    <3>4. doomed' = doomed
      BY <2>3 DEF SendWaits, SendChunk
    <3>5. Finished' => Finished
      BY <1>0, <3>2, <3>3, <3>4 DEF Finished
    <3> QED BY <1>a, <2>1, <3>3, <3>5
  <2>4. CASE SendNext
    <3>1. SendTypes' /\ send'.pc # "done" /\ queue' = queue /\ doomed' = doomed
      BY <1>0, <2>4 DEF SendNext, SendTypes, SendRuns, SendGoesOn
    <3> QED BY <1>a, <2>1, <3>1 DEF Finished
  <2>5. CASE SendCancelled
    <3>1. SendTypes' /\ Finished
      BY <1>0, <2>5 DEF SendCancelled, SendTypes, Finished
    <3> QED BY <1>a, <2>1, <3>1
  <2> QED BY <1>4, <2>2, <2>3, <2>4, <2>5 DEF Sending
<1>5. ASSUME NEW c \in Conns, Endpoint(c) PROVE SendInv'
  <2>1. CASE Connect(c) \/ ConnectFails(c)
    BY <1>3, <2>1 DEF Connect, ConnectFails
  <2>2. CASE Begin(c)
    <3>1. Terminated'
      BY <1>0, <2>2, TerminatedStep
    <3>2. SendTypes' /\ UNCHANGED <<queue, doomed>> /\ send'.pc # "done"
      BY <1>0, <2>2 DEF Begin, SendTypes
    <3> QED BY <1>a, <3>1, <3>2 DEF Finished
  <2>3. CASE AudioIn(c)
    <3>1. UNCHANGED <<loop, send, doomed>> /\ Put(Chunk)
      BY <2>3 DEF AudioIn, quiet
    <3> QED BY <1>0, <1>2, <1>b, <3>1, PutFacts DEF Chunk, Sentinel
  <2>4. CASE StopBegins(c) \/ FinallyBegins(c)
    <3>1. PICK pc \in {"stopping", "closing"} : Goto(c, pc)
      BY <2>4 DEF StopBegins, FinallyBegins, StopRequested, OutputStopped
    <3>2. Ending'
      BY <3>1, GotoFacts DEF SmInv, Pcs, Ending
    <3>3. UNCHANGED <<loop, send>> /\ Put(Sentinel)
      BY <2>4 DEF StopBegins, FinallyBegins, CloseBegins, PutSentinel
    <3> QED BY <1>0, <1>2, <1>b, <3>2, <3>3, PutFacts
  <2>5. CASE StopCloses(c) \/ FinallyCloses(c)
    <3>1. handler[c].pc \in {"stopping", "closing"} /\ Pop(c, Sid(c))
      BY <2>5 DEF StopCloses, FinallyCloses, StopTerminates, Terminate, At
    <3>2. Sid(c) = conv
      BY <1>0, <3>1, Holder
    <3>3. UNCHANGED <<loop, send, doomed, born>> /\ SentinelAtOnce(conv)
      BY <2>5 DEF StopCloses, FinallyCloses, StopTerminates, Terminate
    <3>4. conv \in known => conv \in born' \ known'
      BY <1>0, <3>1, <3>2, <3>3 DEF Pop
    <3> QED BY <1>0, <1>2, <1>b, <3>3, <3>4, AtOnceFacts
  <2> QED BY <1>5, <2>1, <2>2, <2>3, <2>4, <2>5 DEF Endpoint
<1>6. CASE Deleting \/ Sweep
  <2>1. UNCHANGED <<loop, send, doomed, born>> /\ SentinelAtOnce(conv) /\ conv \notin known'
    BY <1>6 DEF Deleting, Sweep, Delete, SweepNext, Pop, quiet
  <2> QED BY <1>0, <1>2, <1>b, <2>1, AtOnceFacts
<1>7. CASE TerminateReturns
  <2>1. UNCHANGED <<loop, send, doomed>> /\ Put(Sentinel)
    BY <1>7 DEF TerminateReturns, quiet, PutSentinel
  <2>2. conv \in born \ known
    <3>1. CASE CloseReturns(conv)
      <4>1. closer[conv] # NoOne
        BY <3>1, SessionAssumption DEF CloseReturns, Callers
      <4> QED BY <1>0, <4>1 DEF SmInv, Gone
    <3>2. ASSUME NEW c \in Conns, StopReturns(c) \/ Ended(c) PROVE conv \in born \ known
      <4>1. handler[c].pc \in {"stopped", "ending"}
        BY <3>2 DEF StopReturns, Ended, At
      <4>2. Sid(c) = conv /\ conv \in born
        BY <1>0, <4>1, Holder
      <4> QED BY <4>1, <4>2 DEF SmInv, Gone
    <3> QED BY <1>7, <3>1, <3>2 DEF TerminateReturns
  <2>3. Ending'
    BY <1>0, <2>2 DEF Ending
  <2> QED BY <1>0, <1>2, <1>b, <2>1, <2>3, PutFacts
<1>8. CASE Elsewhere \/ (\E l \in DOMAIN link : LinkDies(l)) \/ UNCHANGED vars
  BY <1>3, <1>8 DEF Elsewhere, proxy, LinkDies, vars
<1> QED BY <1>1, <1>4, <1>5, <1>6, <1>7, <1>8 DEF Next

LEMMA SendStart == Init => SendInv
<1> SUFFICES ASSUME Init PROVE SendInv
  OBVIOUS
<1>1. send = [pc |-> "none", waits |-> 0] /\ queue = <<>> /\ doomed = {} /\ loop = <<>>
  BY DEF Init
<1> QED BY <1>1, ProxyAssumption DEF SendInv, SendTypes, Finished, Terminated

(* The types, and the limits of attempts and of waits for a connection.    *)
THEOREM ProxyTypeCorrect == Spec => []TypeOK
<1>1. SmInv /\ ProxyInv /\ SendInv => TypeOK
  BY DEF SmInv, SmTypes, Handler, Pcs, ProxyInv, ProxyTypes, LoopRec, LinkStates, Attempts,
         SendInv, SendTypes, TypeOK
<1> QED
  BY SmStart, SmStep, ProxyStart, ProxyStep, SendStart, SendStep, <1>1, PTL DEF Spec, Init

(* While its conversation goes on the send loop ends for no other reason   *)
(* than that it waited too long for a connection: no failed send ends it,  *)
(* and no sentinel of a session that is ended elsewhere comes too early    *)
(* (gemini_proxy.py:316-396, session_manager.py:79-107).                   *)
THEOREM SenderStaysAlways == Spec => []SenderStays
<1>1. SmInv /\ SendInv => SenderStays
  <2> SUFFICES ASSUME SmInv, SendInv, send.pc = "done", conv \in known,
                      NEW c \in Conns, handler[c].pc = "receiving"
               PROVE  send.waits > MaxNoneWaits
    BY DEF SenderStays, At
  <2>1. ~Ending
    BY Alone DEF Ending
  <2>2. send.waits \in Nat /\ MaxNoneWaits \in Nat
    BY ProxyAssumption DEF SendInv, SendTypes
  <2> QED BY <2>1, <2>2 DEF SendInv, Finished
<1> QED BY SmStart, SmStep, ProxyStart, ProxyStep, SendStart, SendStep, <1>1, PTL DEF Spec, Init

-----------------------------------------------------------------------------
(* The proxy implements ModeratorLine.                                     *)

(* A connection that a loop awaits is being opened, the live one is not, ..*)
Dialled ==
  /\ loop # <<>> => link # <<>>
  /\ live # 0 => link[live] # "opening"
  /\ \A k \in DOMAIN loop : loop[k].pc = "open" =>
       loop[k].on \in DOMAIN link /\ link[loop[k].on] = "opening"

(* ... there is a configuration to start with, ...                         *)
Configured == Starting => stored

(* ... a loop that has outlived close_session is cancelled, ...            *)
Outlived == HungUp => Reading \subseteq doomed

(* ... and, as no other task writes the counter while a loop reads, it     *)
(* counts the connections dialled after the first.                         *)
Counted ==
  \A k \in Reading \ doomed :
    Len(link) = IF loop[k].pc = "shut" THEN attempts ELSE attempts + 1

LineInv == Dialled /\ Configured /\ Outlived /\ Counted

LineMoves == Line!Next \/ UNCHANGED Line!lvars

(* Steps that change no connection.                                        *)
LEMMA QuietLine ==
  ASSUME ProxyInv, LineInv, UNCHANGED <<link, live, stored, attempts, loop>>,
         doomed \ {Sender} \subseteq doomed', Starting' => Starting
  PROVE  LineInv' /\ LineMoves
<1>1. LineMoves
  BY DEF LineMoves, Line!lvars, HungUp
<1>2. Reading' = Reading
  BY DEF Reading
<1>3. Sender \notin Reading
  BY DEF ProxyInv, ProxyTypes, Reading, Sender
<1>4. Dialled'
  BY DEF LineInv, Dialled
<1>5. Configured'
  BY DEF LineInv, Configured
<1>6. Outlived'
  BY <1>2, <1>3 DEF LineInv, Outlived, HungUp
<1>7. Counted'
  BY <1>2, <1>3 DEF LineInv, Counted
<1> QED BY <1>1, <1>4, <1>5, <1>6, <1>7 DEF LineInv

(* A receive loop goes on, and opens and closes no connection.             *)
LEMMA LoopLine ==
  ASSUME ProxyInv, LineInv, NEW k \in DOMAIN loop, handler' = handler,
         UNCHANGED <<link, live, stored>>, doomed \ {k} \subseteq doomed',
         DOMAIN loop' = DOMAIN loop, \A j \in DOMAIN loop : j # k => loop'[j] = loop[j],
         loop'[k].pc # "open",
         attempts' = attempts \/ loop[k].pc \in ReadingPcs,
         loop'[k].pc \in ReadingPcs =>
           /\ loop[k].pc \in ReadingPcs \ {"shut"} /\ (k \in doomed => k \in doomed')
           /\ attempts' = IF loop'[k].pc = "shut" THEN attempts + 1 ELSE attempts
  PROVE  LineInv' /\ LineMoves
<1>1. LineMoves
  BY DEF LineMoves, Line!lvars, HungUp
<1>2. Reading' \subseteq Reading
  BY DEF Reading, ReadingPcs
<1>3. Reading' \ doomed' \subseteq Reading \ doomed
  BY <1>2 DEF Reading, ReadingPcs
<1>4. Dialled'
  BY DEF LineInv, Dialled
<1>5. Configured'
  BY DEF LineInv, Configured, Starting
<1>6. Outlived'
  BY <1>2, <1>3 DEF LineInv, Outlived, HungUp
<1>7. Counted'
  <2> SUFFICES ASSUME NEW j \in Reading' \ doomed'
               PROVE  Len(link) = IF loop'[j].pc = "shut" THEN attempts' ELSE attempts' + 1
    BY DEF Counted
  <2>1. j \in Reading /\ Len(link) = IF loop[j].pc = "shut" THEN attempts ELSE attempts + 1
    BY <1>3 DEF LineInv, Counted
  <2>2. CASE j = k
    BY <2>1, <2>2 DEF Reading, ReadingPcs
  <2>3. CASE j # k
    <3>1. loop'[j] = loop[j] /\ k \notin Reading
      BY <2>1, <2>3 DEF ProxyInv, OneLoopInReach, Reading
    <3>2. attempts' = attempts
      BY <3>1 DEF Reading, ReadingPcs
    <3> QED BY <2>1, <3>1, <3>2
  <2> QED BY <2>2, <2>3
<1> QED BY <1>1, <1>4, <1>5, <1>6, <1>7 DEF LineInv

(* A loop stops reading; a connection it was opening is given up.          *)
LEMMA GivenUpLine ==
  ASSUME ProxyInv, LineInv, NEW k \in DOMAIN loop, NEW pc \in {"lost", "done"}, Loop(k, pc),
         handler' = handler, UNCHANGED <<live, stored, attempts>>, doomed \ {k} \subseteq doomed',
         loop[k].pc = "open", link' = [link EXCEPT ![loop[k].on] = "closed"]
  PROVE  LineInv' /\ LineMoves
<1>0. ProxyTypes /\ link \in Seq(LinkStates)
  BY DEF ProxyInv, ProxyTypes
<1>1. /\ DOMAIN loop' = DOMAIN loop /\ loop'[k].pc = pc
      /\ \A j \in DOMAIN loop : j # k => loop'[j] = loop[j]
  BY <1>0, LoopMove
<1>2. Reading = {k}
  BY OneReads DEF ReadingPcs
<1>3. Reading' = {}
  BY <1>1, <1>2 DEF Reading
<1>4. loop[k].on \in DOMAIN link
  BY DEF LineInv, Dialled
<1>5. link' # <<>> /\ HungUp' = HungUp
  <2>1. link' # <<>> /\ link # <<>>
    BY <1>0, <1>4
  <2> QED BY <2>1 DEF HungUp
<1>6. LineMoves
  <2>1. Line!Close(loop[k].on)
    BY <1>5 DEF Line!Close
  <2> QED BY <1>4, <2>1 DEF LineMoves, Line!Next
<1>7. \A j \in DOMAIN loop' : loop'[j].pc # "open"
  BY <1>1, <1>2 DEF Reading
<1>8. Dialled' /\ Outlived' /\ Counted'
  <2>1. live = 0
    BY DEF ProxyInv, Attached
  <2> QED BY <1>3, <1>5, <1>7, <2>1 DEF Dialled, Outlived, Counted
<1>9. Configured'
  BY DEF LineInv, Configured, Starting
<1> QED BY <1>6, <1>8, <1>9 DEF LineInv

(* The one before is closed when the next connection is dialled, and the   *)
(* attempts, which count them, allow it.                                   *)
LEMMA RedialLine ==
  ASSUME ProxyInv, LineInv, NEW k \in DOMAIN loop, Reopen(k)
  PROVE  LineInv' /\ LineMoves
<1> DEFINE n == Len(link)
           cut == [link EXCEPT ![loop[k].on] = "closed"]
           r == [pc |-> "open", on |-> n + 1]
<1>0. /\ ProxyTypes /\ n \in Nat /\ loop \in Seq(LoopRec(n)) /\ link \in Seq(LinkStates)
      /\ MaxReconnectAttempts \in Nat
  BY ProxyAssumption DEF ProxyInv, ProxyTypes
<1>1. /\ loop[k].pc = "shut" /\ k \notin doomed /\ handler' = handler
      /\ link' = Append(cut, "opening") /\ live' = 0 /\ loop' = [loop EXCEPT ![k] = r]
      /\ UNCHANGED <<stored, attempts, doomed>>
  BY DEF Reopen, Runs, smVars
<1>2. Reading = {k} /\ attempts \in 0..MaxReconnectAttempts
  BY <1>1, OneReads DEF ReadingPcs
<1>3. n = attempts /\ ~HungUp
  BY <1>1, <1>2 DEF LineInv, Counted, Outlived
<1>4. cut = [l \in DOMAIN link |-> "closed"]
  <2>1. ~Starting /\ live \in {0, loop[k].on}
    BY <1>1, NotStarting DEF ProxyInv, Attached
  <2>2. ASSUME NEW l \in DOMAIN link, l # loop[k].on PROVE link[l] = "closed"
    <3>1. l # 0
      BY <1>0
    <3>2. ~Opening(l)
      BY <1>1, <1>2 DEF Opening, Reading
    <3> QED BY <2>1, <2>2, <3>1, <3>2 DEF ProxyInv, Accounted
  <2>3. \A l \in DOMAIN link : cut[l] = "closed"
    BY <1>0, <2>2
  <2> QED BY <1>0, <2>3
<1>5. cut \in Seq(LinkStates) /\ Len(cut) = n
  BY <1>0, CutFacts DEF LinkStates
<1>6. r \in LoopRec(n + 1) /\ r.pc = "open" /\ r.on = n + 1
  BY <1>0 DEF LoopRec
<1>7. link' # <<>> /\ Len(link') = n + 1 /\ n + 1 \in DOMAIN link' /\ link'[n + 1] = "opening"
  <2> HIDE DEF cut
  <2> QED BY <1>0, <1>1, <1>5 DEF LinkStates
<1>8. HungUp' = HungUp
  <2>1. link # <<>>
    BY DEF LineInv, Dialled
  <2> QED BY <1>1, <1>7, <2>1 DEF HungUp
<1>9. LineMoves
  <2>1. Line!Dial
    BY <1>1, <1>2, <1>3, <1>4, <1>8 DEF Line!Dial
  <2> QED BY <2>1 DEF LineMoves, Line!Next
<1> HIDE DEF r, cut
<1>10. /\ DOMAIN loop' = DOMAIN loop /\ loop'[k] = r
       /\ \A j \in DOMAIN loop : j # k => loop'[j] = loop[j]
  BY <1>0, <1>1
<1>11. Reading' = {k}
  BY <1>2, <1>6, <1>10 DEF Reading
<1>12. Dialled'
  BY <1>1, <1>6, <1>7, <1>10, <1>11 DEF Dialled, Reading
<1>13. Configured' /\ Outlived'
  BY <1>1, <1>3, <1>8 DEF LineInv, Configured, Outlived, Starting
<1>14. Counted'
  BY <1>1, <1>3, <1>6, <1>7, <1>10, <1>11 DEF Counted
<1> QED BY <1>9, <1>12, <1>13, <1>14 DEF LineInv

(* It is answered, and the loop has its successor.                         *)
LEMMA AnsweredLine ==
  ASSUME ProxyInv, LineInv, NEW k \in DOMAIN loop, Reopened(k)
  PROVE  LineInv' /\ LineMoves
<1> DEFINE m == Len(loop)
<1>0. /\ ProxyTypes /\ m \in Nat /\ loop \in Seq(LoopRec(Len(link)))
      /\ link \in Seq(LinkStates) /\ k \in 1..m
  BY DEF ProxyInv, ProxyTypes
<1>1. /\ loop[k].pc = "open" /\ k \notin doomed /\ handler' = handler
      /\ link' = [link EXCEPT ![loop[k].on] = "open"] /\ live' = loop[k].on
      /\ UNCHANGED <<stored, attempts, doomed>> /\ HandOver(k)
  BY DEF Reopened, Runs, smVars
<1>2. Reading = {k}
  BY <1>1, OneReads DEF ReadingPcs
<1>3. loop[k].on \in DOMAIN link /\ link[loop[k].on] = "opening"
  BY <1>1 DEF LineInv, Dialled
<1>4. ~HungUp /\ Len(link) = attempts + 1
  BY <1>1, <1>2 DEF LineInv, Outlived, Counted
<1>5. Len(link') = Len(link) /\ link' # <<>> /\ link # <<>>
  <2>1. Len(link') = Len(link)
    BY <1>0, <1>1, CutFacts DEF LinkStates
  <2> QED BY <1>0, <1>1, <1>3, <2>1
<1>6. HungUp' = HungUp
  BY <1>1, <1>5 DEF HungUp
<1>7. LineMoves
  <2>1. Line!Answer(loop[k].on)
    BY <1>1, <1>3, <1>4, <1>6 DEF Line!Answer
  <2> QED BY <1>3, <2>1 DEF LineMoves, Line!Next
<1>8. /\ DOMAIN loop' = 1..m + 1 /\ loop'[k].pc = "tell" /\ loop'[m + 1].pc = "new"
      /\ \A j \in 1..m : j # k => loop'[j] = loop[j]
  BY <1>1, HandedOver
<1>9. \A j \in DOMAIN loop' : j = m + 1 \/ loop'[j].pc \notin ReadingPcs
  <2> SUFFICES ASSUME NEW j \in 1..m PROVE loop'[j].pc \notin ReadingPcs
    BY <1>0, <1>8
  <2>1. CASE j = k
    BY <1>8, <2>1 DEF ReadingPcs
  <2>2. CASE j # k
    <3>1. j \notin Reading /\ j \in DOMAIN loop
      BY <1>0, <1>2, <2>2
    <3> QED BY <1>8, <2>2, <3>1 DEF Reading, ReadingPcs
  <2> QED BY <2>1, <2>2
<1>10. Dialled'
  <2>1. link'[live'] = "open"
    BY <1>0, <1>1, <1>3
  <2> QED BY <1>5, <1>8, <1>9, <2>1 DEF Dialled, ReadingPcs
<1>11. Configured' /\ Outlived'
  BY <1>1, <1>4, <1>6 DEF LineInv, Configured, Outlived, Starting
<1>12. Counted'
  <2> SUFFICES ASSUME NEW j \in Reading' PROVE j = m + 1
    BY <1>1, <1>4, <1>5, <1>8 DEF Counted
  <2> QED BY <1>9 DEF Reading, ReadingPcs
<1> QED BY <1>7, <1>10, <1>11, <1>12 DEF LineInv

LEMMA ReceivingLine ==
  ASSUME ProxyInv, LineInv, NEW k \in DOMAIN loop, Receiving(k)
  PROVE  LineInv' /\ LineMoves
<1>0. ProxyTypes
  BY DEF ProxyInv
<1>1. CASE LoopTop(k)
  <2>1. /\ UNCHANGED <<link, live, stored, attempts, doomed>> /\ handler' = handler
        /\ loop[k].pc \in {"new", "route"} /\ Top(k)
    BY <1>1 DEF LoopTop, Runs, smVars
  <2>2. loop'[k].pc \in {"done", "wait"}
    BY <1>0, <2>1 DEF Top, ProxyTypes
  <2>3. DOMAIN loop' = DOMAIN loop /\ \A j \in DOMAIN loop : j # k => loop'[j] = loop[j]
    BY <1>0, <2>1 DEF Top, ProxyTypes
  <2> QED BY <2>1, <2>2, <2>3, LoopLine DEF ReadingPcs
<1>2. CASE Response(k) \/ Death(k)
  <2>1. PICK pc \in {"route", "shut", "lost"} :
          /\ Loop(k, pc) /\ loop[k].pc = "wait" /\ handler' = handler
          /\ UNCHANGED <<link, live, stored, doomed>>
          /\ attempts' = IF pc = "route" THEN attempts ELSE attempts + 1
    BY <1>2 DEF Response, Death, Runs, smVars
  <2>2. /\ DOMAIN loop' = DOMAIN loop /\ loop'[k].pc = pc
        /\ \A j \in DOMAIN loop : j # k => loop'[j] = loop[j]
    BY <1>0, <2>1, LoopMove
  <2> QED BY <2>1, <2>2, LoopLine DEF ReadingPcs
<1>3. CASE Reopen(k)
  BY <1>3, RedialLine
<1>4. CASE Reopened(k)
  BY <1>4, AnsweredLine
<1>5. CASE ReopenFails(k)
  <2>1. /\ loop[k].pc = "open" /\ Loop(k, "lost") /\ handler' = handler
        /\ UNCHANGED <<live, stored, attempts, doomed>>
        /\ link' = [link EXCEPT ![loop[k].on] = "closed"]
    BY <1>5 DEF ReopenFails, Runs, smVars
  <2> QED BY <2>1, GivenUpLine
<1>6. CASE Told(k) \/ Lost(k) \/ LostTerminated(k)
  <2>1. PICK pc \in {"term", "done"} :
          /\ Loop(k, pc) /\ handler' = handler /\ UNCHANGED <<link, live, stored, attempts, doomed>>
    BY <1>6 DEF Told, Lost, LostTerminated, smVars, GiveUp, CloseReturns
  <2>2. /\ DOMAIN loop' = DOMAIN loop /\ loop'[k].pc = pc
        /\ \A j \in DOMAIN loop : j # k => loop'[j] = loop[j]
    BY <1>0, <2>1, LoopMove
  <2> QED BY <2>1, <2>2, LoopLine DEF ReadingPcs
<1>7. CASE LoopCancelled(k)
  <2>1. /\ Loop(k, "done") /\ handler' = handler
        /\ UNCHANGED <<live, stored, attempts>> /\ doomed' = doomed \ {k}
        /\ link' = IF loop[k].pc = "open" THEN [link EXCEPT ![loop[k].on] = "closed"] ELSE link
    BY <1>7 DEF LoopCancelled, smVars, CloseReturns
  <2>2. CASE loop[k].pc = "open"
    BY <2>1, <2>2, GivenUpLine
  <2>3. CASE loop[k].pc # "open"
    <3>1. /\ DOMAIN loop' = DOMAIN loop /\ loop'[k].pc = "done"
          /\ \A j \in DOMAIN loop : j # k => loop'[j] = loop[j]
      BY <1>0, <2>1, LoopMove
    <3> QED BY <2>1, <2>3, <3>1, LoopLine DEF ReadingPcs
  <2> QED BY <2>2, <2>3
<1> QED BY <1>1, <1>2, <1>3, <1>4, <1>5, <1>6, <1>7 DEF Receiving

(* Gemini Live ends a connection.                                          *)
LEMMA DeadLine ==
  ASSUME ProxyInv, LineInv, NEW l \in DOMAIN link, LinkDies(l)
  PROVE  LineInv' /\ LineMoves
<1>1. /\ link \in Seq(LinkStates) /\ link[l] = "open" /\ link' = [link EXCEPT ![l] = "dead"]
      /\ UNCHANGED <<live, stored, attempts, loop, doomed, handler>>
  BY DEF LinkDies, smVars, ProxyInv, ProxyTypes
<1>2. /\ Len(link') = Len(link) /\ DOMAIN link' = DOMAIN link /\ link' # <<>> /\ link # <<>>
      /\ link'[l] = "dead" /\ \A m \in DOMAIN link : m # l => link'[m] = link[m]
  BY <1>1, CutFacts DEF LinkStates
<1>3. HungUp' = HungUp
  BY <1>1, <1>2 DEF HungUp
<1>4. LineMoves
  <2>1. Line!Die(l)
    BY <1>1, <1>3 DEF Line!Die
  <2> QED BY <2>1 DEF LineMoves, Line!Next
<1>5. Dialled'
  <2> SUFFICES ASSUME NEW k \in DOMAIN loop, loop[k].pc = "open"
               PROVE  loop[k].on \in DOMAIN link /\ link'[loop[k].on] = "opening"
    <3>1. live' # 0 => link'[live'] # "opening"
      <4>1. live \in DOMAIN link \cup {0}
        BY <1>1 DEF ProxyInv, ProxyTypes
      <4> QED BY <1>1, <1>2, <4>1 DEF LineInv, Dialled
    <3> QED BY <1>1, <1>2, <3>1 DEF Dialled
  <2>1. loop[k].on \in DOMAIN link /\ link[loop[k].on] = "opening"
    BY DEF LineInv, Dialled
  <2> QED BY <1>1, <1>2, <2>1
<1>6. Configured' /\ Outlived' /\ Counted'
  BY <1>1, <1>2, <1>3 DEF LineInv, Configured, Outlived, Counted, Starting, Reading
<1> QED BY <1>4, <1>5, <1>6 DEF LineInv

(* start_session.                                                          *)
LEMMA ConnectLine ==
  ASSUME SmInv, ProxyInv, LineInv, NEW c \in Conns, Connect(c) \/ Begin(c) \/ ConnectFails(c)
  PROVE  LineInv' /\ LineMoves
<1>0. ProxyTypes /\ MaxReconnectAttempts \in Nat
  BY ProxyAssumption DEF ProxyInv
<1>1. CASE Connect(c)
  <2>1. Goto(c, "starting") /\ handler[c].pc = "accepting"
    BY <1>1 DEF Connect, Accept, At
  <2>2. link = <<>> /\ NoLoop
    BY <2>1, Alone DEF ProxyInv, Stages
  <2>3. link' = <<"opening">> /\ stored' = TRUE /\ loop' = <<>> /\ live' = 0
    BY <1>1, <2>2 DEF Connect, NoLoop
  <2>4. ~HungUp /\ ~HungUp' /\ HungUp' = HungUp
    BY <2>2, <2>3 DEF HungUp
  <2>5. LineMoves
    <3>1. Len(link) <= MaxReconnectAttempts
      BY <1>0, <2>2
    <3>2. [l \in DOMAIN link |-> "closed"] = link
      BY <2>2
    <3>3. link' = Append([l \in DOMAIN link |-> "closed"], "opening")
      BY <1>1, <3>2 DEF Connect
    <3>4. Line!Dial
      BY <2>4, <3>1, <3>3 DEF Line!Dial
    <3> QED BY <3>4 DEF LineMoves, Line!Next
  <2> QED
    BY <2>3, <2>4, <2>5 DEF LineInv, Dialled, Configured, Outlived, Counted, Reading
<1>2. CASE Begin(c)
  <2>1. handler[c].pc = "starting" /\ Goto(c, "receiving")
    BY <1>2 DEF Begin, Started, At
  <2>2. link = <<"opening">> /\ NoLoop /\ attempts = 0
    BY <2>1 DEF ProxyInv, Stages, NoLoop, Attempts
  <2>3. stored
    BY <2>1 DEF LineInv, Configured, Starting
  <2>4. /\ link' = [link EXCEPT ![1] = "open"] /\ link' = <<"open">> /\ live' = 1
        /\ UNCHANGED <<stored, attempts>> /\ loop' = <<[pc |-> "new", on |-> 0]>>
    BY <1>2, <2>2 DEF Begin, NoLoop
  <2>5. ~HungUp /\ ~HungUp' /\ HungUp' = HungUp
    BY <2>2, <2>3, <2>4 DEF HungUp
  <2>6. LineMoves
    <3>1. 1 \in DOMAIN link /\ link[1] = "opening"
      BY <2>2
    <3>2. Line!Answer(1)
      BY <2>4, <2>5, <3>1 DEF Line!Answer
    <3> QED BY <3>1, <3>2 DEF LineMoves, Line!Next
  <2>7. \A k \in DOMAIN loop' : loop'[k].pc = "new"
    BY <2>4
  <2>8. Dialled'
    <3>1. link' # <<>> /\ link'[live'] = "open"
      BY <2>4
    <3> QED BY <2>7, <3>1 DEF Dialled
  <2>9. Configured' /\ Outlived'
    BY <2>3, <2>4, <2>5 DEF Configured, Outlived
  <2>10. Counted'
    <3>1. Len(link') = attempts' + 1
      BY <2>2, <2>4
    <3> QED BY <2>7, <3>1 DEF Counted, Reading
  <2> QED BY <2>6, <2>8, <2>9, <2>10 DEF LineInv
<1>3. CASE ConnectFails(c)
  <2>1. handler[c].pc = "starting" /\ Goto(c, "failing")
    BY <1>3 DEF ConnectFails, StartFails, At
  <2>2. link = <<"opening">> /\ NoLoop
    BY <2>1 DEF ProxyInv, Stages
  <2>3. stored
    BY <2>1 DEF LineInv, Configured, Starting
  <2>4. /\ link' = [link EXCEPT ![1] = "closed"] /\ link' # <<>>
        /\ stored' = stored /\ loop' = <<>> /\ live' = 0
    BY <1>3, <2>2 DEF ConnectFails, NoLoop
  <2>5. ~HungUp /\ ~HungUp' /\ HungUp' = HungUp
    BY <2>2, <2>3, <2>4 DEF HungUp
  <2>6. LineMoves
    <3>1. 1 \in DOMAIN link
      BY <2>2
    <3>2. Line!Close(1)
      BY <2>4, <2>5 DEF Line!Close
    <3> QED BY <3>1, <3>2 DEF LineMoves, Line!Next
  <2> QED
    BY <2>3, <2>4, <2>5, <2>6 DEF LineInv, Dialled, Configured, Outlived, Counted, Reading
<1> QED BY <1>1, <1>2, <1>3

(* close_session is through: what is open is closed, and what is being     *)
(* opened belongs to a loop that is cancelled.                             *)
LEMMA HangUpLine ==
  ASSUME SmInv, ProxyInv, LineInv, NEW c \in Conns, StopCloses(c) \/ FinallyCloses(c)
  PROVE  LineInv' /\ LineMoves
<1>0. link \in Seq(LinkStates) /\ live \in 0..Len(link) /\ Len(link) \in Nat
  BY DEF ProxyInv, ProxyTypes
<1>1. PICK pc \in {"stopped", "receiving", "ending", "done"} :
        /\ Goto(c, pc) /\ handler[c].pc \in {"stopping", "closing"}
        /\ CloseEnds /\ UNCHANGED <<task, loop, doomed>>
  BY DEF StopCloses, FinallyCloses, StopTerminates, Terminate, At
<1>2. live' = 0 /\ stored' = FALSE
  BY <1>1 DEF CloseEnds
<1>3. Reading \subseteq doomed
  BY <1>1 DEF ProxyInv, ProxyTypes, Stages, OneLoopInReach, Reading
<1>4. ~Starting' /\ ~Starting
  <2>1. task = 0
    BY <1>1 DEF ProxyInv, Stages
  <2> QED BY <1>1, <1>2, <2>1, AloneStages DEF Pcs
<1>5. /\ Len(link') = Len(link) /\ DOMAIN link' = DOMAIN link /\ (link' = <<>> <=> link = <<>>)
      /\ link' \in Seq(LinkStates)
      /\ \A l \in DOMAIN link : link'[l] = IF l = live THEN "closed" ELSE link[l]
  <2>1. CASE live = 0
    BY <1>0, <1>1, <2>1 DEF CloseEnds
  <2>2. CASE live # 0
    <3>1. link' = [link EXCEPT ![live] = "closed"]
      BY <1>1, <2>2 DEF CloseEnds
    <3> QED BY <1>0, <3>1, CutFacts DEF LinkStates
  <2> QED BY <2>1, <2>2
<1>6. HungUp' <=> link # <<>>
  BY <1>2, <1>5 DEF HungUp
<1>7. LineMoves
  <2>1. CASE live = 0 /\ (link = <<>> \/ HungUp)
    <3>1. link' = link
      BY <1>1, <2>1 DEF CloseEnds
    <3>2. HungUp' = HungUp
      BY <1>6, <2>1 DEF HungUp
    <3> QED BY <3>1, <3>2 DEF LineMoves, Line!lvars
  <2>2. CASE live # 0 /\ (link = <<>> \/ HungUp)
    <3>1. link' = [link EXCEPT ![live] = "closed"] /\ live \in DOMAIN link
      BY <1>0, <1>1, <2>2 DEF CloseEnds
    <3>2. HungUp' = HungUp
      BY <1>6, <2>2 DEF HungUp
    <3>3. Line!Close(live)
      BY <3>1, <3>2 DEF Line!Close
    <3> QED BY <3>1, <3>3 DEF LineMoves, Line!Next
  <2>3. CASE link # <<>> /\ ~HungUp
    <3>1. ASSUME NEW l \in DOMAIN link
          PROVE  link'[l] = IF link[l] = "opening" THEN "opening" ELSE "closed"
      <4>1. CASE l = live
        <5>1. link[l] # "opening"
          BY <1>0, <4>1 DEF LineInv, Dialled
        <5> QED BY <1>5, <4>1, <5>1
      <4>2. CASE l # live /\ Opening(l)
        BY <1>5, <4>2 DEF LineInv, Dialled, Opening
      <4>3. CASE l # live /\ ~Opening(l)
        BY <1>4, <1>5, <4>3 DEF ProxyInv, Accounted
      <4> QED BY <4>1, <4>2, <4>3
    <3>2. link' = [l \in DOMAIN link |-> IF link[l] = "opening" THEN "opening" ELSE "closed"]
      BY <1>0, <1>5, <3>1
    <3>3. HungUp' = TRUE
      BY <1>6, <2>3 DEF HungUp
    <3>4. Line!HangUp
      BY <2>3, <3>2, <3>3 DEF Line!HangUp
    <3> QED BY <3>4 DEF LineMoves, Line!Next
  <2> QED BY <2>1, <2>2, <2>3
<1>8. Dialled'
  <2> SUFFICES ASSUME NEW k \in DOMAIN loop, loop[k].pc = "open"
               PROVE  loop[k].on \in DOMAIN link /\ link'[loop[k].on] = "opening"
    BY <1>1, <1>2, <1>5 DEF LineInv, Dialled
  <2>1. loop[k].on \in DOMAIN link /\ link[loop[k].on] = "opening" /\ live = 0
    BY DEF LineInv, Dialled, ProxyInv, Attached
  <2> QED BY <1>0, <1>5, <2>1
<1>9. Configured' /\ Outlived' /\ Counted'
  BY <1>1, <1>3, <1>4 DEF Configured, Outlived, Counted, Reading
<1> QED BY <1>7, <1>8, <1>9 DEF LineInv

LEMMA LineStep ==
  SmInv /\ ProxyInv /\ LineInv /\ [Next]_vars => LineInv' /\ LineMoves
<1> SUFFICES ASSUME SmInv, ProxyInv, LineInv, [Next]_vars PROVE LineInv' /\ LineMoves
  OBVIOUS
<1>a. ASSUME UNCHANGED <<link, live, stored, attempts, loop>>, doomed \ {Sender} \subseteq doomed',
             \A d \in Conns : handler'[d].pc = "starting" => handler[d].pc = "starting"
      PROVE  LineInv' /\ LineMoves
  BY <1>a, QuietLine DEF Starting
<1>b. ASSUME NEW c \in Conns, NEW pc \in Pcs, Goto(c, pc), pc # "starting"
      PROVE  \A d \in Conns : handler'[d].pc = "starting" => handler[d].pc = "starting"
  <2>1. /\ handler'[c].pc = pc
        /\ \A d \in Conns : d # c => handler'[d] = handler[d]
    BY <1>b, GotoFacts DEF SmInv
  <2> QED BY <1>b, <2>1
<1>1. ASSUME NEW k \in DOMAIN loop, Receiving(k) PROVE LineInv' /\ LineMoves
  BY <1>1, ReceivingLine
<1>2. ASSUME NEW l \in DOMAIN link, LinkDies(l) PROVE LineInv' /\ LineMoves
  BY <1>2, DeadLine
<1>3. CASE Sending
  BY <1>3, <1>a DEF Sending, SendStops, SendWaits, SendChunk, SendNext, SendCancelled, smVars
<1>4. ASSUME NEW c \in Conns, Endpoint(c) PROVE LineInv' /\ LineMoves
  <2>1. CASE AudioIn(c)
    BY <1>a, <2>1 DEF AudioIn, Audio, quiet
  <2>2. CASE StopBegins(c) \/ FinallyBegins(c)
    <3>1. PICK pc \in {"stopping", "closing"} : Goto(c, pc)
      BY <2>2 DEF StopBegins, FinallyBegins, StopRequested, OutputStopped
    <3>2. /\ UNCHANGED <<link, live, stored, attempts, loop>> /\ doomed \subseteq doomed'
      BY <2>2 DEF StopBegins, FinallyBegins, CloseBegins
    <3> QED BY <1>a, <1>b, <3>1, <3>2 DEF Pcs
  <2> QED BY <1>4, <2>1, <2>2, ConnectLine, HangUpLine DEF Endpoint
<1>5. CASE Deleting \/ Sweep
  BY <1>5, <1>a DEF Deleting, Sweep, Delete, SweepNext, quiet
<1>6. CASE TerminateReturns
  <2>1. UNCHANGED <<link, live, stored, attempts, loop, doomed>>
    BY <1>6 DEF TerminateReturns, quiet
  <2>2. CASE CloseReturns(conv)
    BY <1>a, <2>1, <2>2 DEF CloseReturns
  <2>3. ASSUME NEW c \in Conns, StopReturns(c) \/ Ended(c) PROVE LineInv' /\ LineMoves
    <3>1. PICK pc \in {"receiving", "done"} : Goto(c, pc)
      BY <2>3 DEF StopReturns, Ended
    <3> QED BY <1>a, <1>b, <2>1, <3>1 DEF Pcs
  <2> QED BY <1>6, <2>2, <2>3 DEF TerminateReturns
<1>7. CASE Elsewhere
  <2>1. UNCHANGED <<link, live, stored, attempts, loop, doomed>>
    BY <1>7 DEF Elsewhere, proxy
  <2>2. CASE handler' = handler
    BY <1>a, <2>1, <2>2
  <2>3. ASSUME NEW c \in Conns, Failed(c) \/ Leave(c) PROVE LineInv' /\ LineMoves
    <3>1. PICK pc \in {"done", "leaving"} : Goto(c, pc)
      BY <2>3 DEF Failed, Leave
    <3> QED BY <1>a, <1>b, <2>1, <3>1 DEF Pcs
  <2>4. ASSUME NEW c \in Conns, Upgrade(c, conv) PROVE LineInv' /\ LineMoves
    <3>1. CASE Goto(c, "refused")
      BY <1>a, <1>b, <2>1, <3>1 DEF Pcs
    <3>2. CASE Admit(c, conv)
      <4>1. handler \in [Conns -> Handler]
        BY DEF SmInv, SmTypes
      <4>2. \A d \in Conns : handler'[d].pc = "starting" => handler[d].pc = "starting"
        BY <3>2, <4>1 DEF Admit
      <4> QED BY <1>a, <2>1, <4>2
    <3> QED BY <2>4, <3>1, <3>2 DEF Upgrade
  <2> QED
    BY <1>7, <2>2, <2>3, <2>4
    DEF Elsewhere, Create, TokenLapses, GoesIdle, Scan, Disconnect
<1>8. CASE UNCHANGED vars
  BY <1>8, <1>a DEF vars, smVars
<1> QED BY <1>1, <1>2, <1>3, <1>4, <1>5, <1>6, <1>7, <1>8 DEF Next

LEMMA LineStart == Init => LineInv /\ Line!Init
<1> SUFFICES ASSUME Init PROVE LineInv /\ Line!Init
  OBVIOUS
<1>1. link = <<>> /\ loop = <<>> /\ live = 0 /\ ~Starting
  BY DEF Init, SmInit, Starting
<1>2. HungUp = FALSE
  BY <1>1 DEF HungUp
<1> QED
  BY <1>1, <1>2
  DEF LineInv, Dialled, Configured, Outlived, Counted, Reading, Line!Init

(* The proxy implements ModeratorLine: there never are two connections,    *)
(* there are no more than the attempts allow, although three tasks write   *)
(* the counter, and there is none once close_session is through, whatever  *)
(* reconnection it met (gemini_proxy.py:280-310, 686-760).                 *)
THEOREM ProxyHoldsTheLine == Spec => HoldsTheLine
<1>1. LineMoves => [Line!Next]_(Line!lvars)
  BY DEF LineMoves
<1> QED
  BY SmStart, SmStep, ProxyStart, ProxyStep, LineStart, LineStep, <1>1, PTL
  DEF Spec, Init, HoldsTheLine, Line!Spec

(* What follows for the connections of a conversation from ModeratorLine   *)
(* alone: all but one are closed, there is one for each attempt and one    *)
(* more, and none is open once close_session is through.                   *)
OneLine ==
  /\ \A l, m \in DOMAIN link : link[l] # "closed" /\ link[m] # "closed" => l = m
  /\ Len(link) <= MaxReconnectAttempts + 1
  /\ HungUp => \A l \in DOMAIN link : link[l] \in {"opening", "closed"}

LEMMA OneLineStep == link \in Seq(LinkStates) /\ OneLine /\ LineMoves => OneLine'
<1> SUFFICES ASSUME link \in Seq(LinkStates), OneLine, LineMoves PROVE OneLine'
  OBVIOUS
<1>0. Len(link) \in Nat /\ MaxReconnectAttempts \in Nat /\ DOMAIN link = 1..Len(link)
  BY ProxyAssumption
<1>1. CASE Line!Dial
  <2> DEFINE cut == [l \in DOMAIN link |-> "closed"]
  <2>1. cut \in Seq(LinkStates) /\ Len(cut) = Len(link)
    BY <1>0 DEF LinkStates
  <2>2. \A l \in DOMAIN link : cut[l] = "closed"
    OBVIOUS
  <2>3. link' = Append(cut, "opening") /\ ~HungUp' /\ Len(link) <= MaxReconnectAttempts
    BY <1>1 DEF Line!Dial, HungUp
  <2> HIDE DEF cut
  <2>4. /\ Len(link') = Len(link) + 1 /\ DOMAIN link' = 1..Len(link) + 1
        /\ \A l \in 1..Len(link) : link'[l] = "closed"
    BY <1>0, <2>1, <2>2, <2>3
  <2> QED BY <1>0, <2>3, <2>4 DEF OneLine
<1>2. ASSUME NEW l \in DOMAIN link, NEW x \in LinkStates, link' = [link EXCEPT ![l] = x],
             link[l] = "closed" => x = "closed", HungUp' = HungUp,
             x \in {"closed", "opening"} \/ ~HungUp
      PROVE  OneLine'
  <2>1. /\ Len(link') = Len(link) /\ DOMAIN link' = DOMAIN link
        /\ link'[l] = x /\ \A m \in DOMAIN link : m # l => link'[m] = link[m]
    BY <1>2, CutFacts
  <2> QED BY <1>2, <2>1 DEF OneLine
<1>3. CASE \E l \in DOMAIN link : Line!Answer(l) \/ Line!Die(l) \/ Line!Close(l)
  <2>1. PICK l \in DOMAIN link : Line!Answer(l) \/ Line!Die(l) \/ Line!Close(l)
    BY <1>3
  <2>2. Line!Die(l) => ~HungUp
    BY DEF Line!Die, OneLine
  <2> QED BY <1>2, <2>1, <2>2 DEF Line!Answer, Line!Die, Line!Close, LinkStates
<1>4. CASE Line!HangUp
  <2>1. /\ DOMAIN link' = DOMAIN link /\ Len(link') = Len(link)
        /\ \A l \in DOMAIN link : link'[l] = IF link[l] = "opening" THEN "opening" ELSE "closed"
    BY <1>0, <1>4 DEF Line!HangUp
  <2> QED BY <2>1 DEF OneLine
<1>5. CASE UNCHANGED Line!lvars
  BY <1>5 DEF Line!lvars, OneLine
<1> QED BY <1>1, <1>3, <1>4, <1>5 DEF LineMoves, Line!Next

(* There never are two connections to Gemini Live in a conversation, nor   *)
(* more than one after each of _MAX_RECONNECT_ATTEMPTS deaths              *)
(* (gemini_proxy.py:715-760).                                              *)
THEOREM NeverTwoConnections == Spec => []OneLine
<1>1. Init => OneLine
  <2> SUFFICES ASSUME Init PROVE OneLine
    OBVIOUS
  <2>1. link = <<>>
    BY DEF Init
  <2> QED BY <2>1, ProxyAssumption DEF OneLine
<1>2. ProxyInv => link \in Seq(LinkStates)
  BY DEF ProxyInv, ProxyTypes
<1> QED
  BY SmStart, SmStep, ProxyStart, ProxyStep, LineStart, LineStep, OneLineStep, <1>1, <1>2, PTL
  DEF Spec, Init
=============================================================================
