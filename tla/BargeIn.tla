------------------------------ MODULE BargeIn ------------------------------
(***************************************************************************)
(* A barge-in from end to end: the detector of the client, the gate of the *)
(* server (trigger word and debounce) with its second source of signals,   *)
(* the generation counter, both directions of the WebSocket, and the       *)
(* playback of the client.                                                 *)
(*                                                                         *)
(* What the server sends is taken from OutputController: frames of the     *)
(* current generation or up to MaxAge generations older.                   *)
(* Time is a set of countdowns that Tick lowers together.                  *)
(***************************************************************************)
EXTENDS GenId, Sequences

CONSTANTS
  Window,         \* INTERRUPT_DEBOUNCE_WINDOW, in ticks
  Cooldown,       \* bargeInCooldown
  Grace,          \* bargeInPlaybackGrace
  Jitter,         \* longest way of a signal from the client to its handler
  Speakers,       \* speaker_id of Gemini and of the agents
  MaxAge,         \* oldest frame the OutputController still sends
  NoGen,          \* no barge-in is being executed on the client's main queue
  MaxBargeIns, MaxSessions, MaxDown, MaxUp, MaxStops, MaxScheduled  \* bounds

ASSUME BargeInAssumption ==
  /\ {Window, Cooldown} \subseteq Nat \ {0}
  /\ {Grace, Jitter, MaxAge} \subseteq Nat
  /\ Window + Jitter <= Cooldown
  /\ 2 * MaxAge < GenMod
  /\ NoGen \notin Gen
  /\ {MaxBargeIns, MaxSessions, MaxDown, MaxUp, MaxStops, MaxScheduled} \subseteq Nat

VARIABLES
  gen,        \* session.gen_id
  issued,     \* confirmed barge-ins of this session
  window,     \* ticks during which a second signal confirms; 0: none pending
  by,         \* who gave the pending signal
  trigger,    \* the user's transcript buffer holds a trigger word
  vad,        \* the Gemini loop is sending the transcript of an interruption
  up,         \* signals on their way to the handler
  down,       \* frames and announcements on their way to the client
  current,    \* ConversationSession.currentGen
  engine,     \* AudioPlaybackEngine.currentGen
  held,       \* currentGen as the main queue has read it, in a local barge-in
  hand,       \* the frame that is let through and not scheduled yet, if any
  nodes,      \* buffers scheduled at the player node of each speaker, if made
  stops,      \* node stops queued on the watchdog queue
  playing,    \* 0: no playback expected; else 1 + ticks since it began
  cooldown,   \* ticks until the detector may fire again
  sessions    \* sessions the client has had

gate == <<window, by, trigger, vad>>
server == <<gen, issued, gate>>
wires == <<up, down>>
player == <<engine, hand, nodes, stops>>
detector == <<playing, cooldown>>
client == <<current, held, player, detector, sessions>>
vars == <<gen, issued, window, by, trigger, vad, up, down, current, engine, held,
          hand, nodes, stops, playing, cooldown, sessions>>

Sources == {"detector", "skip", "vad"}

Frame(s, g) == [type |-> "frame", speaker |-> s, gen |-> g]
Interruption(g) == [type |-> "interruption", gen |-> g]
Interrupt(source) == [source |-> source, age |-> 0]

Init ==
  /\ gen = 0 /\ issued = 0
  /\ window = 0 /\ by = "none" /\ trigger = FALSE /\ vad = FALSE
  /\ up = <<>> /\ down = <<>>
  /\ current = 0 /\ engine = 0 /\ held = NoGen
  /\ hand = {} /\ nodes = [s \in {} |-> <<>>] /\ stops = <<>>
  /\ playing = 0 /\ cooldown = 0
  /\ sessions = 1

(* Bound: the messages on their way to the client, the one in hand too.    *)
Room == Len(down) + (IF hand = {} THEN 0 ELSE 1) < MaxDown

-----------------------------------------------------------------------------
(* The server                                                              *)

(* Input transcription: the fragment completes a trigger word.  Any other  *)
(* fragment changes nothing that matters here.                             *)
AccumulateUser ==
  /\ ~vad
  /\ trigger' = TRUE
  /\ UNCHANGED <<gen, issued, window, by, vad, wires, client>>

(* turn_complete: the buffers are flushed.                                 *)
TurnComplete ==
  /\ ~vad
  /\ trigger' = FALSE
  /\ UNCHANGED <<gen, issued, window, by, vad, wires, client>>

(* Faulty variant: a signal exactly one window later still confirms.       *)
RecordLonger(source) == window' = Window + 1 /\ by' = source

(* check_interrupt_debounce: the first signal is recorded, ...             *)
Record(source) == window' = Window /\ by' = source

(* ... a second one in time confirms, and is used up.                      *)
Pending == window > 0
UsedUp == window' = 0 /\ by' = "none"

(* Faulty variant: the announcement carries the generation before.         *)
AnnounceOld(g) == down' = Append(down, Interruption(gen))

Announce(g) == down' = Append(down, Interruption(g))

(* _handle_interrupt: the generation is incremented, the queues are        *)
(* flushed and the client is told, without a suspension in between.        *)
HandleInterrupt ==
  /\ up # <<>>
  /\ up' = Tail(up)
  /\ \/ /\ ~trigger
        /\ UNCHANGED <<gen, issued, window, by, down>>
     \/ /\ trigger /\ ~Pending
        /\ Record(Head(up).source)
        /\ UNCHANGED <<gen, issued, down>>
     \/ /\ trigger /\ Pending
        /\ issued * sessions < MaxBargeIns /\ Room  \* bounds
        /\ UsedUp
        /\ issued' = issued + 1
        /\ gen' = NextGen(gen)
        /\ Announce(NextGen(gen))
  /\ UNCHANGED <<trigger, vad, client>>

(* An interruption reported by Gemini after a trigger word: the transcript *)
(* is flushed, ...                                                         *)
VadSignal ==
  /\ ~vad /\ trigger
  /\ trigger' = FALSE /\ vad' = TRUE
  /\ UNCHANGED <<gen, issued, window, by, wires, client>>

(* ... and only then the debounce gate is asked.  A confirmation is        *)
(* announced with the generation as it is.                                 *)
VadCheck ==
  /\ vad
  /\ vad' = FALSE
  /\ \/ /\ ~Pending
        /\ Record("vad")
        /\ UNCHANGED down
     \/ /\ Pending /\ Room
        /\ UsedUp
        /\ Announce(gen)
  /\ UNCHANGED <<gen, issued, trigger, up, client>>

(* The generation that k barge-ins have left behind.                       *)
Older(k) == IF k <= gen THEN gen - k ELSE gen - k + GenMod

(* The OutputController writes a frame of an item it has kept for a while. *)
SendFrame(s, k) ==
  /\ k <= issued /\ k <= MaxAge
  /\ Room
  /\ down' = Append(down, Frame(s, Older(k)))
  /\ UNCHANGED <<server, up, client>>

-----------------------------------------------------------------------------
(* The client                                                              *)

(* AudioPlaybackEngine.receive: isStale.                                   *)
Discards(g) == IsStale(g, engine)

Made == DOMAIN nodes

Schedule(s, g) ==
  nodes' = [t \in Made \cup {s} |->
              IF t # s THEN nodes[t]
              ELSE IF s \in Made THEN Append(nodes[s], g) ELSE <<g>>]

(* The receiving thread is between two messages.                           *)
Receiving == hand = {}

(* A binary frame, up to the guard against old ones.  The detector is told *)
(* of the playback even when the frame is discarded.                       *)
ReceiveFrame ==
  /\ Receiving /\ down # <<>> /\ Head(down).type = "frame"
  /\ down' = Tail(down)
  /\ playing' = IF playing = 0 THEN 1 ELSE playing
  /\ hand' = IF Discards(Head(down).gen) THEN {} ELSE {Head(down)}
  /\ UNCHANGED <<server, up, current, held, engine, nodes, stops, cooldown, sessions>>

(* enqueueForPlayback, behind the guard.  No lock is held: the main queue  *)
(* may have flushed the playback, and the watchdog queue stopped the       *)
(* nodes, in between.                                                      *)
ScheduleFrame(f) ==
  /\ f.speaker \in Made => Len(nodes[f.speaker]) < MaxScheduled
  /\ Schedule(f.speaker, f.gen)
  /\ hand' = {}
  /\ UNCHANGED <<server, wires, current, held, engine, stops, detector, sessions>>

(* Faulty variant: the nodes are left alone.                               *)
FlushQueuesOnly(g) == engine' = g /\ UNCHANGED <<hand, nodes, stops>>

(* flushAllAndStop: the nodes that exist are stopped later, on the         *)
(* watchdog queue, so as not to wait for the render thread.                *)
FlushAllAndStop(g) ==
  /\ Len(stops) < MaxStops
  /\ engine' = g
  /\ stops' = Append(stops, Made)
  /\ UNCHANGED <<hand, nodes>>

(* handleServerInterruption                                                *)
ReceiveInterruption ==
  /\ Receiving /\ down # <<>> /\ Head(down).type = "interruption"
  /\ down' = Tail(down)
  /\ current' = Head(down).gen
  /\ FlushAllAndStop(Head(down).gen)
  /\ playing' = 0
  /\ UNCHANGED <<server, up, held, cooldown, sessions>>

(* stop() drops what is scheduled, and play() rearms the node.             *)
StopNodes ==
  /\ stops # <<>>
  /\ nodes' = [s \in Made |-> IF s \in Head(stops) THEN <<>> ELSE nodes[s]]
  /\ stops' = Tail(stops)
  /\ UNCHANGED <<server, wires, current, held, engine, hand, detector, sessions>>

Play(s) ==
  /\ s \in Made /\ nodes[s] # <<>>
  /\ nodes' = [nodes EXCEPT ![s] = Tail(@)]
  /\ UNCHANGED <<server, wires, current, held, engine, hand, stops, detector, sessions>>

(* Faulty variant: no pause between two detections.                        *)
MayFireAnyTime == playing = Grace + 1

(* Playback has been expected for the grace period, and the last detection *)
(* is a cooldown ago.                                                      *)
MayFire == playing = Grace + 1 /\ cooldown = 0

(* processChunk hears the user.  On the main queue handleBargein reads the *)
(* generation, unless the user is muted.                                   *)
Detect ==
  /\ MayFire /\ held = NoGen
  /\ cooldown' = Cooldown
  /\ held' \in {NoGen, current}
  /\ UNCHANGED <<server, wires, current, player, playing, sessions>>

(* handleBargein: the playback is flushed to the generation that was read, *)
(* though the receiving thread may have changed it, and the server is told.*)
LocalBargeIn ==
  /\ held # NoGen /\ Len(up) < MaxUp
  /\ FlushAllAndStop(held)
  /\ held' = NoGen
  /\ playing' = 0
  /\ up' = Append(up, Interrupt("detector"))
  /\ UNCHANGED <<server, down, current, cooldown, sessions>>

(* sendSkipSpeaker.  Nobody is the speaker of a meeting: the server never  *)
(* sends meeting_status.                                                   *)
Skip ==
  /\ Len(up) < MaxUp
  /\ up' = Append(up, Interrupt("skip"))
  /\ UNCHANGED <<server, down, client>>

PlaybackEnds ==
  /\ playing > 0
  /\ playing' = 0
  /\ UNCHANGED <<server, wires, current, held, player, cooldown, sessions>>

(* A new session at the server, with both directions of the old socket     *)
(* lost.                                                                   *)
NewSession ==
  /\ sessions < MaxSessions
  /\ sessions' = sessions + 1
  /\ gen' = 0 /\ issued' = 0
  /\ window' = 0 /\ by' = "none" /\ trigger' = FALSE /\ vad' = FALSE
  /\ up' = <<>> /\ down' = <<>>

(* transportRequiresReauthentication, after a disconnection.               *)
Reauthenticate ==
  /\ NewSession
  /\ UNCHANGED <<current, held, player, detector>>

(* stop and start: only ConversationSession goes back to generation 0.     *)
Restart ==
  /\ NewSession
  /\ FlushAllAndStop(current)
  /\ current' = 0
  /\ UNCHANGED <<held, detector>>

-----------------------------------------------------------------------------
Down(n) == IF n = 0 THEN 0 ELSE n - 1

(* A signal reaches its handler within Jitter, the main queue included.    *)
Tick ==
  /\ held = NoGen
  /\ \A i \in DOMAIN up : up[i].age < Jitter
  /\ up' = [i \in DOMAIN up |-> [up[i] EXCEPT !.age = @ + 1]]
  /\ window' = Down(window)
  /\ by' = IF window <= 1 THEN "none" ELSE by
  /\ cooldown' = Down(cooldown)
  /\ playing' = IF playing \in 1 .. Grace THEN playing + 1 ELSE playing
  /\ UNCHANGED <<gen, issued, trigger, vad, down, current, held, player, sessions>>

Server ==
  \/ AccumulateUser \/ TurnComplete \/ HandleInterrupt
  \/ VadSignal \/ VadCheck
  \/ \E s \in Speakers, k \in 0 .. MaxAge : SendFrame(s, k)

Client ==
  \/ ReceiveFrame \/ (\E f \in hand : ScheduleFrame(f)) \/ ReceiveInterruption \/ StopNodes
  \/ \E s \in Speakers : Play(s)
  \/ Detect \/ LocalBargeIn \/ Skip \/ PlaybackEnds
  \/ Reauthenticate \/ Restart

Next == Server \/ Client \/ Tick

Spec == Init /\ [][Next]_vars
-----------------------------------------------------------------------------
(* Properties.                                                             *)

Message ==
  [type : {"frame"}, speaker : Speakers, gen : Gen] \cup [type : {"interruption"}, gen : Gen]

(* The countdowns stay within their constants, and a signal is pending     *)
(* exactly while its window is open.                                       *)
TypeOK ==
  /\ gen \in Gen /\ issued \in Nat
  /\ window \in 0 .. Window
  /\ by \in Sources \cup {"none"} /\ (by = "none" <=> window = 0)
  /\ trigger \in BOOLEAN /\ vad \in BOOLEAN
  /\ up \in Seq([source : Sources \ {"vad"}, age : 0 .. Jitter])
  /\ down \in Seq(Message)
  /\ current \in Gen /\ engine \in Gen /\ held \in Gen \cup {NoGen}
  /\ hand \subseteq [type : {"frame"}, speaker : Speakers, gen : Gen]
  /\ \A f, h \in hand : f = h
  /\ Made \subseteq Speakers /\ nodes \in [Made -> Seq(Gen)]
  /\ stops \in Seq(SUBSET Speakers)
  /\ playing \in 0 .. Grace + 1 /\ cooldown \in 0 .. Cooldown
  /\ sessions \in Nat \ {0}

(* g is the generation the client has when it has read the first n         *)
(* messages on their way: the last one announced in them, or else the one  *)
(* it has now.                                                             *)
Announced(i) == down[i].type = "interruption"
HasAfter(n, g) ==
  \/ g = current /\ \A i \in 1 .. n : ~Announced(i)
  \/ \E i \in 1 .. n :
       /\ Announced(i) /\ g = down[i].gen
       /\ \A j \in i + 1 .. n : ~Announced(j)

(* "The server is the authoritative source of gen_id; the client adopts    *)
(* gen_id = N" (high_level_design.md:98), and so they agree as soon as all *)
(* messages have arrived, whichever of the two sources announced last.     *)
(* After a new session this takes a barge-in.                              *)
GenerationsAgree == issued > 0 \/ sessions = 1 => HasAfter(Len(down), gen)

(* A buffer that the engine would now discard, and no stop of its node is  *)
(* queued.                                                                 *)
Late(s, i) ==
  /\ s \in Made /\ i \in DOMAIN nodes[s] /\ Discards(nodes[s][i])
  /\ \A j \in DOMAIN stops : s \notin stops[j]

(* The old generation dies, but for one buffer: whatever the main queue    *)
(* flushes while the receiving thread lets a frame through, and though a   *)
(* local barge-in may set the engine back to a generation the client has   *)
(* left, at most one old frame, in hand or at its node, escapes the stops. *)
OneLateBuffer ==
  \A s, r \in Made : \A i \in DOMAIN nodes[s], k \in DOMAIN nodes[r] :
    Late(s, i) =>
      /\ Late(r, k) => s = r /\ i = k
      /\ \A f \in hand : ~Discards(f.gen)

(* No frame overtakes the announcement of its generation: what arrives is  *)
(* of the generation the client then has or at most MaxAge older, so that  *)
(* the half circle of isStale tells old from new.                          *)
NothingFromTheFuture ==
  sessions = 1 =>
    \A i \in DOMAIN down : ~Announced(i) =>
      \E g \in Gen : HasAfter(i, g) /\ Age(down[i].gen, g) <= MaxAge

(* The detector alone, however often residual echo makes it fire, never    *)
(* cancels anything: its cooldown (1.0 s, AudioCaptureEngine.swift:80) is  *)
(* longer than the window of the server (0.8 s, models.py:57) and the way. *)
EchoAloneNeverCancels ==
  [][issued' > issued => by # "detector" \/ Head(up).source # "detector"]_vars

(* "It is incremented on every barge-in" (high_level_design.md:98): every  *)
(* announcement carries a generation that is new.                          *)
AnnouncementsAreNew ==
  [][Len(down') > Len(down) /\ down'[Len(down')].type = "interruption"
       => gen' # gen]_vars
=============================================================================
