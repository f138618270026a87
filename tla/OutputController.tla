-------------------------- MODULE OutputController --------------------------
(***************************************************************************)
(* The server's single writer of audio (backend/app/output_controller.py). *)
(*                                                                         *)
(* Everything runs on one asyncio event loop, so the code between two      *)
(* awaits is atomic: an action below is one such stretch of one task, and  *)
(* the program counters name the await at which a task is suspended.  The  *)
(* tasks are the drain loop (the only writer of audio), the response drain *)
(* loop, one eager-TTS task per response, and the connection handler that  *)
(* flushes on a barge-in and finally runs stop().  The Gemini receive loop *)
(* and the agent tasks only call the synchronous enqueue operations.       *)
(*                                                                         *)
(* Data: a response is a number, in the order of enqueue_response calls;   *)
(* audio that did not come from a response has number 0.  Every item is    *)
(* Frames chunks long.                                                     *)
(***************************************************************************)
EXTENDS Integers, Sequences, GenId, Selection

CONSTANTS
  ResponseQueueMax,  \* _RESPONSE_QUEUE_MAX
  Frames,            \* chunks per audio item
  MaxResponses,      \* bound: enqueue_response calls
  MaxChunks,         \* bound: items enqueued as ready audio
  MaxBargeIns        \* bound: confirmed barge-ins

ASSUME OutputAssumption ==
  /\ ResponseQueueMax \in Nat \ {0}
  /\ Frames \in Nat \ {0}
  /\ MaxResponses \in Nat
  /\ MaxChunks \in Nat
  /\ MaxBargeIns \in Nat

VARIABLES
  state,      \* OutputController.state
  modQ,       \* _moderator_queue
  agentQ,     \* _agent_queue
  drainSet,   \* _drain_event
  flushed,    \* _flushed
  drain,      \* the drain loop: the await it is at, its item, frames written
  respQ,      \* _response_queue
  respSet,    \* _response_drain_event
  resp,       \* the response drain loop: the await it is at, its response
  tts,        \* the eager TTS task of each response
  issued,     \* number of responses accepted so far
  chunks,     \* number of ready audio items enqueued so far
  spoken,     \* the last response whose audio reached the writer (history)
  gen,        \* session.gen_id, read through gen_id_fn
  bargeIns,   \* number of confirmed barge-ins so far
  connected,  \* writes to the WebSocket succeed
  stop        \* progress of stop(), run by the handler's finally clause

audio == <<modQ, agentQ, drainSet>>
responses == <<respQ, respSet, resp, tts, issued>>
session == <<gen, bargeIns, connected, stop>>
vars == <<state, audio, flushed, drain, responses, chunks, spoken, session>>

-----------------------------------------------------------------------------
Item == [speaker : {"moderator", "agent"}, id : 0 .. MaxResponses, gen : Gen]
Response == [id : 1 .. MaxResponses, gen : Gen]

NoItem == [speaker |-> "moderator", id |-> 0, gen |-> 0]
NoResponse == [id |-> 0, gen |-> 0]

AgentItem(r) == [speaker |-> "agent", id |-> r.id, gen |-> r.gen]

(* The identifiers in a queue of items or responses.                       *)
Ids(q) == {q[i].id : i \in DOMAIN q}

(* Faulty variant: the TTS tasks are forgotten instead of cancelled.       *)
CancelTtsForgotten(ids) == tts

(* task.cancel() on those TTS tasks among ids that are not done yet: the   *)
(* coroutine swallows the CancelledError and returns None.                 *)
CancelTts(ids) ==
  [r \in 1 .. MaxResponses |->
     IF r \in ids /\ tts[r] = "running" THEN "none" ELSE tts[r]]

Init ==
  /\ state = "listening"
  /\ modQ = <<>> /\ agentQ = <<>> /\ drainSet = FALSE
  /\ flushed = FALSE
  /\ drain = [pc |-> "wait", item |-> NoItem, sent |-> 0]
  /\ respQ = <<>> /\ respSet = FALSE
  /\ resp = [pc |-> "wait", hand |-> NoResponse]
  /\ tts = [r \in 1 .. MaxResponses |-> "absent"]
  /\ issued = 0 /\ chunks = 0 /\ spoken = 0
  /\ gen = 0 /\ bargeIns = 0
  /\ connected = TRUE
  /\ stop = "running"

-----------------------------------------------------------------------------
(* The synchronous enqueue operations.  Every caller passes the session's  *)
(* gen_id as it is at the moment of the call.                              *)

(* enqueue_moderator_audio: one Gemini audio chunk.                        *)
EnqueueModerator ==
  /\ chunks < MaxChunks
  /\ chunks' = chunks + 1
  /\ modQ' = Append(modQ, [speaker |-> "moderator", id |-> 0, gen |-> gen])
  /\ drainSet' = TRUE
  /\ UNCHANGED <<state, agentQ, flushed, drain, responses, spoken, session>>

(* enqueue_agent_audio called directly: an agent's spoken timeout phrase.  *)
EnqueueAgentAudio ==
  /\ chunks < MaxChunks
  /\ chunks' = chunks + 1
  /\ agentQ' = Append(agentQ, [speaker |-> "agent", id |-> 0, gen |-> gen])
  /\ drainSet' = TRUE
  /\ UNCHANGED <<state, modQ, flushed, drain, responses, spoken, session>>

(* Faulty variant: the oldest response is dropped one too late.            *)
QueueFullLate == Len(respQ) > ResponseQueueMax

QueueFull == Len(respQ) >= ResponseQueueMax

(* enqueue_response: a full queue first loses its oldest response; the new *)
(* one starts its TTS task at once.                                        *)
EnqueueResponse(g) ==
  LET full == QueueFull
      kept == IF full THEN Tail(respQ) ELSE respQ
      dropped == IF full THEN {Head(respQ).id} ELSE {}
  IN  /\ issued < MaxResponses
      /\ ~IsStale(g, gen)
      /\ issued' = issued + 1
      /\ tts' = [CancelTts(dropped) EXCEPT ![issued + 1] = "running"]
      /\ respQ' = Append(kept, [id |-> issued + 1, gen |-> g])
      /\ respSet' = TRUE
      /\ UNCHANGED <<state, audio, flushed, drain, resp, chunks, spoken, session>>

-----------------------------------------------------------------------------
(* _eager_tts                                                              *)

TtsDone(r) ==
  /\ tts[r] = "running"
  /\ tts' = [tts EXCEPT ![r] = "pcm"]
  /\ respSet' = TRUE
  /\ UNCHANGED <<state, audio, flushed, drain, respQ, resp, issued, chunks,
                 spoken, session>>

(* The service returned no audio, which signals the loop like a success,   *)
(* or raised, which does not.                                              *)
TtsFail(r) ==
  /\ tts[r] = "running"
  /\ tts' = [tts EXCEPT ![r] = "none"]
  /\ respSet' \in {respSet, TRUE}
  /\ UNCHANGED <<state, audio, flushed, drain, respQ, resp, issued, chunks,
                 spoken, session>>

-----------------------------------------------------------------------------
(* _drain_loop.  A write to the socket happens when the task reaches its   *)
(* await; the task is then suspended until the write has been accepted.    *)

Suspend(pc, item, sent) == drain' = [pc |-> pc, item |-> item, sent |-> sent]

(* The first frame of an item: _flushed is reset just before.              *)
StartSending(item) ==
  /\ flushed' = FALSE
  /\ Suspend("send", item, 1)

(* One round of the inner loop, from _get_next to its first await.         *)
TakeNext ==
  \/ /\ modQ # <<>>
     /\ modQ' = Tail(modQ)
     /\ state' = "moderator_speaking"
     /\ StartSending(Head(modQ))
     /\ UNCHANGED <<agentQ, spoken>>
  \/ /\ modQ = <<>> /\ agentQ # <<>>
     /\ agentQ' = Tail(agentQ)
     /\ state' = "agent_speaking"
     /\ Suspend("announce", Head(agentQ), 0)
     /\ spoken' = IF Head(agentQ).id > 0 THEN Head(agentQ).id ELSE spoken
     /\ UNCHANGED <<modQ, flushed>>
  \/ /\ modQ = <<>> /\ agentQ = <<>> /\ state # "listening"
     /\ state' = "listening"
     /\ Suspend("idle", NoItem, 0)
     /\ UNCHANGED <<modQ, agentQ, flushed, spoken>>
  \/ /\ modQ = <<>> /\ agentQ = <<>> /\ state = "listening"
     /\ Suspend("wait", NoItem, 0)
     /\ UNCHANGED <<state, modQ, agentQ, flushed, spoken>>

DrainWake ==
  /\ drain.pc = "wait" /\ drainSet
  /\ drainSet' = FALSE
  /\ TakeNext
  /\ UNCHANGED <<responses, chunks, session>>

(* The agent_speaking message is out; the audio follows.                   *)
DrainAnnounced ==
  /\ drain.pc = "announce"
  /\ StartSending(drain.item)
  /\ UNCHANGED <<state, audio, responses, chunks, spoken, session>>

(* Faulty variant: one chunk too many.                                     *)
MoreToSendOffByOne == drain.sent <= Frames

MoreToSend == drain.sent < Frames

SendFrame ==
  /\ drain.pc = "send"
  /\ ~flushed /\ MoreToSend /\ connected
  /\ Suspend("send", drain.item, drain.sent + 1)
  /\ UNCHANGED <<state, audio, flushed, responses, chunks, spoken, session>>

(* The item is over: all of it was sent, it was aborted, or a write failed.*)
ItemOver == drain.pc = "send" /\ (flushed \/ ~MoreToSend \/ ~connected)

FinishModerator ==
  /\ ItemOver
  /\ drain.item.speaker = "moderator" \/ flushed
  /\ TakeNext
  /\ UNCHANGED <<drainSet, responses, chunks, session>>

(* An agent that was not cut off is reported done.                         *)
FinishAgent ==
  /\ ItemOver
  /\ drain.item.speaker = "agent" /\ ~flushed
  /\ Suspend("agent_done", drain.item, 0)
  /\ UNCHANGED <<state, audio, flushed, responses, chunks, spoken, session>>

DrainAgentDone ==
  /\ drain.pc = "agent_done"
  /\ TakeNext
  /\ UNCHANGED <<drainSet, responses, chunks, session>>

(* Faulty variant: the response loop is not told of the idle state.        *)
DrainIdleSilent ==
  /\ drain.pc = "idle"
  /\ Suspend("wait", NoItem, 0)
  /\ UNCHANGED <<state, audio, flushed, responses, chunks, spoken, session>>

(* Faulty variant: the drain event is cleared after the queues were found  *)
(* empty instead of before.                                                *)
DrainIdleClears ==
  /\ drain.pc = "idle"
  /\ respSet' = TRUE
  /\ drainSet' = FALSE
  /\ Suspend("wait", NoItem, 0)
  /\ UNCHANGED <<state, modQ, agentQ, flushed, respQ, resp, tts, issued, chunks,
                 spoken, session>>

(* The listening message is out: wake the response loop and wait.          *)
DrainIdle ==
  /\ drain.pc = "idle"
  /\ respSet' = TRUE
  /\ Suspend("wait", NoItem, 0)
  /\ UNCHANGED <<state, audio, flushed, respQ, resp, tts, issued, chunks,
                 spoken, session>>

-----------------------------------------------------------------------------
(* _response_drain_loop                                                    *)

Idle == state = "listening"

PlayResponse(r) ==
  /\ agentQ' = Append(agentQ, AgentItem(r))
  /\ drainSet' = TRUE

Waiting == [pc |-> "wait", hand |-> NoResponse]

(* A response the loop throws away without suspending.                     *)
Discarded(r) == IsStale(r.gen, gen) \/ tts[r.id] = "none"

(* The inner loop from an idle state until its next await: a prefix of     *)
(* discarded responses, then one that is played or whose TTS is awaited.   *)
Serve ==
  \/ /\ \A i \in DOMAIN respQ : Discarded(respQ[i])
     /\ respQ' = <<>>
     /\ tts' = CancelTts(Ids(respQ))
     /\ resp' = Waiting
     /\ UNCHANGED <<agentQ, drainSet>>
  \/ \E n \in DOMAIN respQ :
       /\ \A i \in 1 .. n - 1 : Discarded(respQ[i])
       /\ ~Discarded(respQ[n])
       /\ respQ' = SubSeq(respQ, n + 1, Len(respQ))
       /\ tts' = CancelTts({respQ[i].id : i \in 1 .. n - 1})
       /\ \/ /\ tts[respQ[n].id] = "pcm"
             /\ PlayResponse(respQ[n])
             /\ resp' = Waiting
          \/ /\ tts[respQ[n].id] = "running"
             /\ resp' = [pc |-> "tts", hand |-> respQ[n]]
             /\ UNCHANGED <<agentQ, drainSet>>

ResponseWake ==
  /\ resp.pc = "wait" /\ respSet
  /\ respSet' = FALSE
  /\ \/ Idle /\ Serve
     \/ ~Idle /\ UNCHANGED <<respQ, tts, resp, agentQ, drainSet>>
  /\ UNCHANGED <<state, modQ, flushed, drain, issued, chunks, spoken, session>>

(* Faulty variant: it goes back to the end.                                *)
PutBackLast(r) == Append(respQ, r)

(* The response in hand goes back to the front.                            *)
PutBack(r) == <<r>> \o respQ

(* Faulty variant: no second look at the state after the TTS.              *)
StillIdleUnchecked == TRUE

StillIdle == state = "listening"

(* The awaited TTS task is done.  The loop looks at the state once more,   *)
(* not at the generation.                                                  *)
ResponseResume ==
  /\ resp.pc = "tts" /\ tts[resp.hand.id] # "running"
  /\ \/ /\ ~StillIdle
        /\ respQ' = PutBack(resp.hand)
        /\ resp' = Waiting
        /\ UNCHANGED <<tts, agentQ, drainSet>>
     \/ /\ StillIdle /\ tts[resp.hand.id] = "pcm"
        /\ PlayResponse(resp.hand)
        /\ resp' = Waiting
        /\ UNCHANGED <<respQ, tts>>
     \/ /\ StillIdle /\ tts[resp.hand.id] = "none"
        /\ Serve
  /\ UNCHANGED <<state, modQ, flushed, drain, respSet, issued, chunks, spoken,
                 session>>

(* The cancellation swallowed by the loop itself: on with the next one.    *)
ResponseCancelled ==
  /\ resp.pc = "cancelled"
  /\ \/ Idle /\ Serve
     \/ ~Idle /\ resp' = Waiting /\ UNCHANGED <<respQ, tts, agentQ, drainSet>>
  /\ UNCHANGED <<state, modQ, flushed, drain, respSet, issued, chunks, spoken,
                 session>>

-----------------------------------------------------------------------------
(* A confirmed barge-in in the handler: increment_gen_id and flush, with   *)
(* no await in between.  flush compares generations as plain integers.     *)

(* Faulty variant: the generation just ended is kept.                      *)
KeptByFlushLoose(q, g) == Select(q, {i \in DOMAIN q : q[i].gen >= g - 1})

KeptByFlush(q, g) == Select(q, {i \in DOMAIN q : q[i].gen >= g})

BargeIn ==
  /\ stop = "running"
  /\ bargeIns < MaxBargeIns
  /\ bargeIns' = bargeIns + 1
  /\ gen' = NextGen(gen)
  /\ modQ' = KeptByFlush(modQ, gen')
  /\ agentQ' = KeptByFlush(agentQ, gen')
  /\ tts' = CancelTts(Ids(respQ))
  /\ respQ' = <<>>
  /\ flushed' = TRUE
  /\ state' = "listening"
  /\ UNCHANGED <<drainSet, drain, respSet, resp, issued, chunks, spoken,
                 connected, stop>>

-----------------------------------------------------------------------------
(* The connection breaks; the handler leaves its receive loop and calls    *)
(* stop(), which cancels the drain loop and waits for it, then the         *)
(* response loop, then the TTS tasks.                                      *)

Disconnect ==
  /\ connected
  /\ connected' = FALSE
  /\ UNCHANGED <<state, audio, flushed, drain, responses, chunks, spoken, gen,
                 bargeIns, stop>>

StopDrain ==
  /\ stop = "running" /\ ~connected
  /\ stop' = "drain"
  /\ Suspend("stopped", NoItem, 0)
  /\ UNCHANGED <<state, audio, flushed, responses, chunks, spoken, gen,
                 bargeIns, connected>>

(* A loop suspended in event.wait() ends.  One that awaits a TTS task does *)
(* not: cancel() is passed on to that task, which swallows it and returns  *)
(* None; if the task is already done, the loop's own except clause         *)
(* swallows it and drops the response (ResponseCancelled).                 *)
StopResponse ==
  /\ stop = "drain"
  /\ stop' = "response"
  /\ \/ /\ resp.pc = "wait"
        /\ resp' = [Waiting EXCEPT !.pc = "stopped"]
     \/ /\ resp.pc = "tts" /\ tts[resp.hand.id] = "running"
        /\ UNCHANGED resp
     \/ /\ resp.pc = "tts" /\ tts[resp.hand.id] # "running"
        /\ resp' = [Waiting EXCEPT !.pc = "cancelled"]
  /\ tts' = CancelTts({resp.hand.id})
  /\ UNCHANGED <<state, audio, flushed, drain, respQ, respSet, issued, chunks,
                 spoken, gen, bargeIns, connected>>

StopEnd ==
  /\ stop = "response" /\ resp.pc = "stopped"
  /\ stop' = "stopped"
  /\ tts' = CancelTts(Ids(respQ))
  /\ respQ' = <<>>
  /\ UNCHANGED <<state, audio, flushed, drain, respSet, resp, issued, chunks,
                 spoken, gen, bargeIns, connected>>

-----------------------------------------------------------------------------
Drain == \/ DrainWake \/ DrainAnnounced \/ SendFrame \/ FinishModerator
         \/ FinishAgent \/ DrainAgentDone \/ DrainIdle

RespondLoop == ResponseWake \/ ResponseResume \/ ResponseCancelled

Stop == StopDrain \/ StopResponse \/ StopEnd

Next ==
  \/ EnqueueModerator \/ EnqueueAgentAudio \/ EnqueueResponse(gen)
  \/ \E r \in 1 .. MaxResponses : TtsDone(r) \/ TtsFail(r)
  \/ Drain \/ RespondLoop
  \/ BargeIn \/ Disconnect \/ Stop

Spec == Init /\ [][Next]_vars

(* The event loop runs every task that is ready, a socket write completes  *)
(* or raises, and the TTS service answers (its client has a deadline).     *)
(* Callers, barge-ins and disconnections need never happen.                *)
Fairness ==
  /\ WF_vars(Drain)
  /\ WF_vars(RespondLoop)
  /\ \A r \in 1 .. MaxResponses : WF_vars(TtsDone(r) \/ TtsFail(r))
  /\ WF_vars(Stop)

FairSpec == Spec /\ Fairness
-----------------------------------------------------------------------------
(* Properties.                                                             *)

(* The response loop holds a response exactly while it awaits its TTS task *)
(* (task at line 402); no item is sent beyond its last chunk.              *)
TypeOK ==
  /\ state \in {"listening", "moderator_speaking", "agent_speaking"}
  /\ modQ \in Seq(Item) /\ agentQ \in Seq(Item) /\ drainSet \in BOOLEAN
  /\ flushed \in BOOLEAN
  /\ drain \in [pc : {"wait", "announce", "send", "agent_done", "idle", "stopped"},
                item : Item, sent : 0 .. Frames]
  /\ respQ \in Seq(Response) /\ respSet \in BOOLEAN
  /\ resp \in [pc : {"tts"}, hand : Response]
                 \cup [pc : {"wait", "cancelled", "stopped"}, hand : {NoResponse}]
  /\ tts \in [1 .. MaxResponses -> {"absent", "running", "pcm", "none"}]
  /\ issued \in 0 .. MaxResponses /\ chunks \in 0 .. MaxChunks
  /\ spoken \in 0 .. MaxResponses
  /\ gen \in Gen /\ bargeIns \in 0 .. MaxBargeIns
  /\ connected \in BOOLEAN
  /\ stop \in {"running", "drain", "response", "stopped"}

(* From before the last barge-in.                                          *)
Old(x) == x.gen # gen

(* The response the loop holds while it awaits its TTS.                    *)
InHand == resp.pc = "tts"

(* Responses reach the writer in the order they were enqueued and none     *)
(* twice, whatever is put back, dropped on overflow, flushed or discarded: *)
(* behind the last one spoken come those queued as audio, then the one in  *)
(* hand, then those queued as text, with increasing numbers.               *)
AudioOrdered ==
  \A i, j \in DOMAIN agentQ :
    i < j /\ agentQ[i].id > 0 /\ agentQ[j].id > 0 => agentQ[i].id < agentQ[j].id

TextOrdered == \A i, j \in DOMAIN respQ : i < j => respQ[i].id < respQ[j].id

HandBetween ==
  InHand => /\ \A i \in DOMAIN agentQ : agentQ[i].id < resp.hand.id
            /\ \A i \in DOMAIN respQ : resp.hand.id < respQ[i].id

AudioBeforeText ==
  \A i \in DOMAIN agentQ, j \in DOMAIN respQ : agentQ[i].id < respQ[j].id

BehindSpoken ==
  /\ spoken <= issued
  /\ \A i \in DOMAIN agentQ :
       agentQ[i].id > 0 => spoken < agentQ[i].id /\ agentQ[i].id <= issued
  /\ InHand => spoken < resp.hand.id /\ resp.hand.id <= issued
  /\ \A i \in DOMAIN respQ : spoken < respQ[i].id /\ respQ[i].id <= issued

PipelineOrdered ==
  AudioOrdered /\ TextOrdered /\ HandBetween /\ AudioBeforeText /\ BehindSpoken

(* At most one thing from before the last barge-in is left behind it: the  *)
(* response whose TTS was being awaited, wherever it went from there.      *)
(* Moderator audio never is.  (Until the generation wraps: see flush.)     *)
OneStraggler ==
  LET oldAudio == {i \in DOMAIN agentQ : Old(agentQ[i])}
      oldText == {i \in DOMAIN respQ : Old(respQ[i])}
      oldHand == InHand /\ Old(resp.hand)
  IN  /\ \A i \in DOMAIN modQ : ~Old(modQ[i])
      /\ \A i, j \in oldAudio : i = j
      /\ \A i, j \in oldText : i = j
      /\ oldAudio # {} => oldText = {} /\ ~oldHand
      /\ oldHand => oldText = {}

(* The responses not yet handed over as audio.                             *)
Unserved == Ids(respQ) \cup (IF InHand THEN {resp.hand.id} ELSE {})

(* The responses that may still be spoken.                                 *)
Queued == Unserved \cup {id \in Ids(agentQ) : id > 0}

(* The queued responses the controller owes to nobody: no audio came of    *)
(* their synthesis, a barge-in has outdated them, or it is being stopped.  *)
Excused ==
  {id \in Queued :
     \/ stop # "running" \/ tts[id] = "none"
     \/ \E i \in DOMAIN respQ : respQ[i].id = id /\ Old(respQ[i])
     \/ InHand /\ resp.hand.id = id /\ Old(resp.hand)}

(* The controller delivers responses as the abstract specification says:   *)
(* in order, and none is lost on the way between its queues for no reason. *)
Delivery == INSTANCE ResponseDelivery
              WITH Capacity <- ResponseQueueMax, submitted <- issued, waiting <- Queued,
                   excused <- Excused, interrupts <- bargeIns

DeliversResponses == Delivery!Spec

(* The text backlog is bounded: a response put back after its TTS can push *)
(* the queue over _RESPONSE_QUEUE_MAX, by one and no more.                 *)
BacklogBounded ==
  Len(respQ) + (IF InHand THEN 1 ELSE 0) <= ResponseQueueMax + 1

(* Every TTS task still running belongs to a response that can still be    *)
(* played: overflow, flush, discard and stop() cancel those they drop.     *)
NoOrphanTts ==
  \A r \in 1 .. MaxResponses : tts[r] = "running" => r \in Unserved

(* A write of a frame.                                                     *)
FrameWritten == drain' # drain /\ drain'.pc = "send"

(* Once a barge-in is confirmed no frame of older moderator audio is       *)
(* written, though the flush only empties queues and raises a flag.        *)
ModeratorSilenced ==
  [][FrameWritten /\ drain'.item.speaker = "moderator"
       => drain'.item.gen = gen]_vars

(* Response audio is never queued while moderator audio is on its way out: *)
(* the wait for the TTS may outlast the idle state it began in.            *)
NoTalkOver ==
  [][Len(agentQ') > Len(agentQ) /\ chunks' = chunks
       => ~(drain.pc = "send" /\ drain.item.speaker = "moderator" /\ ~flushed)]_vars

Live == stop = "running" /\ connected

(* No wakeup is lost: every response accepted leaves the text queue and    *)
(* the hand of the response loop, as long as the connection lives.         *)
ResponsesSettle ==
  \A r \in 1 .. MaxResponses :
    (r \in Unserved) ~> (r \notin Unserved \/ ~Live)

(* Queued audio is written out or flushed, and the controller comes to     *)
(* rest in the listening state.                                            *)
ComesToRest ==
  (state # "listening" \/ modQ # <<>> \/ agentQ # <<>>)
    ~> (~Live \/ (state = "listening" /\ modQ = <<>> /\ agentQ = <<>>))

(* "Signal active _send_audio to abort": no frame of an older generation   *)
(* is written once flush has run.                                          *)
FlushAbortsSending == [][FrameWritten => drain'.item.gen = gen]_vars

(* "Stop all drain loops and cancel in-flight TTS tasks": stop() ends.     *)
StopCompletes == (stop = "drain") ~> (stop = "stopped")
=============================================================================
