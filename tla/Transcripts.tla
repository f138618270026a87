----------------------------- MODULE Transcripts -----------------------------
(***************************************************************************)
(* The words of a conversation: the buffers in which TranscriptBuffer      *)
(* gathers what Gemini Live hears and says, the history an agent is given  *)
(* with its task, and the lines and agent texts the user sees, which       *)
(* ConversationViewModel keeps from the messages it is sent.               *)
(*                                                                         *)
(* A fragment is a number, in the order in which they come; a text is the  *)
(* sequence of its fragments.  An action of the server is the stretch of   *)
(* one coroutine between two awaits; one of the client is a text frame on  *)
(* the receiving thread, or one task of the main actor.                    *)
(***************************************************************************)
EXTENDS Naturals, Sequences, SequencesExt

CONSTANTS
  MaxTexts,      \* bound: fragments and texts
  MaxBargeIns,   \* bound: generations of a session, before the byte wraps
  MaxSessions,   \* bound: sessions of the client
  MaxUnread      \* bound: messages on the wire, and tasks of the main actor

ASSUME TranscriptAssumption ==
  /\ MaxTexts \in Nat /\ MaxSessions \in Nat \ {0} /\ MaxUnread \in Nat
  /\ MaxBargeIns \in 0..255

(* The environment, chosen once.  Every message becomes a task of the main *)
(* actor of its own; that these run in the order in which they were        *)
(* created is a promise of the executor and not of the language.           *)
VARIABLES
  listener,     \* listener_mode
  inOrder,      \* the main actor keeps the order

  session,      \* the session the client is connected to, with the server's ...
  texts,        \*   fragments and texts so far
  buf,          \*   _user_buf and _moderator_buf
  turn,         \*   where the receive loop is in flush, and what it has taken
  history,      \*   transcript_history
  waiting,      \*   answers the output controller has yet to speak
  gen,          \*   gen_id

  down,         \* messages on the wire
  tasks,        \* tasks of the main actor, and the view model's ...
  lines,        \*   transcript
  slot,         \*   inProgressTranscriptIndex; 0: nil
  comm,         \*   agentCommTexts of one agent: its entry, if there is one
  current,      \* currentGen of the client
  announced     \* history: the generation last announced in this session

env == <<listener, inOrder>>
server == <<session, texts, buf, turn, history, waiting, gen>>
model == <<lines, slot, comm>>
vars == <<listener, inOrder, session, texts, buf, turn, history, waiting, gen, down, tasks,
          lines, slot, comm, current, announced>>
client == <<tasks, lines, slot, comm, current, announced>>

Speakers == {"user", "moderator"}
Silent == [s \in Speakers |-> <<>>]
NoTurn == [pc |-> "idle", took |-> Silent, vad |-> FALSE]

SessionStarts ==
  /\ buf' = Silent /\ turn' = NoTurn /\ history' = <<>> /\ waiting' = <<>> /\ gen' = 0
  /\ down' = <<>> /\ announced' = 0

Init ==
  /\ listener \in BOOLEAN /\ inOrder \in BOOLEAN
  /\ session = 1 /\ texts = 0 /\ buf = Silent /\ turn = NoTurn /\ history = <<>>
  /\ waiting = <<>> /\ gen = 0 /\ down = <<>>
  /\ tasks = <<>> /\ lines = <<>> /\ slot = 0 /\ comm = {}
  /\ current = 0 /\ announced = 0

-----------------------------------------------------------------------------
(* The messages; "of" is the session they come from, which only the        *)
(* properties look at.                                                     *)
Text(who, text, final) ==
  [kind |-> "transcript", who |-> who, text |-> text, final |-> final, of |-> session]
Comm(text) == [kind |-> "comm", text |-> text, gen |-> gen, of |-> session]
Interruption(g) == [kind |-> "interruption", gen |-> g]

Send(m) == Len(down) < MaxUnread /\ down' = Append(down, m)

(* The next fragment or text.                                              *)
NextText == texts + 1
Says == texts < MaxTexts /\ texts' = NextText

Entry(who, text) == [who |-> who, text |-> text, flushed |-> FALSE]
Flushed(answers) == [i \in DOMAIN answers |-> [answers[i] EXCEPT !.flushed = TRUE]]

-----------------------------------------------------------------------------
(* The receive loop of the Gemini proxy.                                   *)

Listening == turn.pc = "idle"

(* accumulate_user and accumulate_moderator.  In listener mode Gemini Live *)
(* answers in texts, which have no transcription.                          *)
Accumulate(s) ==
  /\ Listening /\ Says
  /\ listener => s = "user"
  /\ buf' = [buf EXCEPT ![s] = Append(@, NextText)]
  /\ Send(Text(s, buf'[s], FALSE))
  /\ UNCHANGED <<env, session, turn, history, waiting, gen, client>>

(* A text without a transcription is a line of its own; it is not kept.    *)
TextOnly ==
  /\ Listening /\ Says
  /\ Send(Text("note", <<NextText>>, TRUE))
  /\ UNCHANGED <<env, session, buf, turn, history, waiting, gen, client>>

(* flush: both buffers are taken at once, what was in them is sent with an *)
(* await each, the user's first, and then kept.                            *)
FirstOf(took) == IF took["user"] # <<>> THEN "user" ELSE "moderator"

(* At the end of a turn, or when Gemini Live hears an interruption and the *)
(* user's buffer holds a trigger word.  Without a text nothing happens.    *)
Flush(vad) ==
  /\ Listening /\ buf # Silent
  /\ vad => buf["user"] # <<>>
  /\ buf' = Silent
  /\ turn' = [pc |-> FirstOf(buf), took |-> buf, vad |-> vad]
  /\ Send(Text(FirstOf(buf), buf[FirstOf(buf)], TRUE))
  /\ UNCHANGED <<env, session, texts, history, waiting, gen, client>>

MoreToSend == turn.pc = "user" /\ turn.took["moderator"] # <<>>

FlushGoesOn ==
  /\ MoreToSend
  /\ turn' = [turn EXCEPT !.pc = "moderator"]
  /\ Send(Text("moderator", turn.took["moderator"], TRUE))
  /\ UNCHANGED <<env, session, texts, buf, history, waiting, gen, client>>

Said(s, took) == IF took[s] = <<>> THEN <<>> ELSE <<Entry(s, took[s])>>

(* Faulty variant: the moderator comes first.                              *)
KeptModeratorFirst(took) == Said("moderator", took) \o Said("user", took)

Kept(took) == Said("user", took) \o Said("moderator", took)

(* The texts are kept; after an interruption the debounce gate is asked,   *)
(* and a second signal announced, with the generation there is.            *)
FlushEnds ==
  /\ turn.pc # "idle" /\ ~MoreToSend
  /\ history' = history \o Kept(turn.took)
  /\ turn' = NoTurn
  /\ \/ turn.vad /\ Send(Interruption(gen))
     \/ UNCHANGED down
  /\ UNCHANGED <<env, session, texts, buf, waiting, gen, client>>

-----------------------------------------------------------------------------
(* Other tasks, at any await of the receive loop.                          *)

(* An agent's answer: in listener mode it is kept and sent, ...            *)
Answer ==
  /\ listener /\ Says
  /\ history' = Append(history, Entry("agent", <<NextText>>))
  /\ Send(Text("agent", <<NextText>>, TRUE))
  /\ UNCHANGED <<env, session, buf, turn, waiting, gen, client>>

(* ... and in talk mode kept, and queued to be spoken.                     *)
SpokenAnswer ==
  /\ ~listener /\ Says
  /\ history' = Append(history, Entry("agent", <<NextText>>))
  /\ waiting' = Append(waiting, Entry("agent", <<NextText>>))
  /\ UNCHANGED <<env, session, buf, turn, gen, down, client>>

(* One is spoken, is too old, fails, or makes room in the full queue.      *)
Leaves(i) ==
  /\ waiting' = RemoveAt(waiting, i)
  /\ UNCHANGED <<env, session, texts, buf, turn, history, gen, down, client>>

(* An apology after a timeout is not kept; in talk mode it is only audio.   *)
Apology ==
  /\ listener /\ Says
  /\ Send(Text("note", <<NextText>>, TRUE))
  /\ UNCHANGED <<env, session, buf, turn, history, waiting, gen, client>>

(* What an agent says while it works.                                      *)
OnText ==
  /\ Says
  /\ Send(Comm(<<NextText>>))
  /\ UNCHANGED <<env, session, buf, turn, history, waiting, gen, client>>

(* The second signal of the client while the user's buffer holds a trigger *)
(* word.  Whatever waits to be spoken is flushed, and kept once more, but  *)
(* for an answer the response loop has in hand.                            *)
Interrupt ==
  /\ buf["user"] # <<>> /\ gen < MaxBargeIns
  /\ gen' = gen + 1
  /\ \E spared \in 0 .. 1 :
       /\ spared <= Len(waiting)
       /\ waiting' = SubSeq(waiting, 1, spared)
       /\ history' = history \o Flushed(SubSeq(waiting, spared + 1, Len(waiting)))
  /\ Send(Interruption(gen + 1))
  /\ UNCHANGED <<env, session, texts, buf, turn, client>>

-----------------------------------------------------------------------------
(* ConversationSession                                                     *)

Clear(g) == [kind |-> "clear", gen |-> g]
Task(t) == Len(tasks) < MaxUnread /\ tasks' = Append(tasks, t)

(* transportDidReceiveTextFrame                                            *)
ReceiveText ==
  /\ down # <<>> /\ Head(down).kind # "interruption"
  /\ Task(Head(down))
  /\ down' = Tail(down)
  /\ UNCHANGED <<env, server, model, current, announced>>

ReceiveInterruption ==
  /\ down # <<>> /\ Head(down).kind = "interruption"
  /\ current' = Head(down).gen /\ announced' = Head(down).gen
  /\ Task(Clear(Head(down).gen))
  /\ down' = Tail(down)
  /\ UNCHANGED <<env, server, model>>

(* handleBargein                                                           *)
LocalBargeIn ==
  /\ Task(Clear(current))
  /\ UNCHANGED <<env, server, down, model, current, announced>>

(* The connection is lost, and what is on the wire; the client goes on     *)
(* with a new session and all of its own state.                            *)
Reauthenticate ==
  /\ session < MaxSessions
  /\ session' = session + 1
  /\ SessionStarts
  /\ UNCHANGED <<listener, inOrder, texts, tasks, lines, slot, comm, current>>

(* reset, and a session for a new conversation.                            *)
NewConversation ==
  /\ session < MaxSessions
  /\ session' = session + 1
  /\ SessionStarts
  /\ lines' = <<>> /\ slot' = 0 /\ comm' = {} /\ current' = 0
  /\ UNCHANGED <<listener, inOrder, texts, tasks>>

-----------------------------------------------------------------------------
(* ConversationViewModel, on the main actor                                *)

Line(m) == [who |-> m.who, text |-> m.text, final |-> m.final, of |-> m.of]

Open == slot \in DOMAIN lines

(* Faulty variant: every partial is a new line.                            *)
ShownAsNew(m) ==
  IF Open /\ m.final THEN [lines EXCEPT ![slot] = Line(m)] ELSE Append(lines, Line(m))

(* The slot is replaced, whoever is in it.                                 *)
Shown(m) == IF Open THEN [lines EXCEPT ![slot] = Line(m)] ELSE Append(lines, Line(m))

(* Faulty variants: the slot stays after a final; its index is one off.    *)
SlotStays(m) == IF Open THEN slot ELSE Len(lines) + 1
SlotOff(m) == IF m.final THEN 0 ELSE IF Open THEN slot ELSE Len(lines) + 2

SlotAfter(m) == IF m.final THEN 0 ELSE IF Open THEN slot ELSE Len(lines) + 1

HandleTranscript(m) ==
  /\ m.kind = "transcript"
  /\ lines' = Shown(m) /\ slot' = SlotAfter(m)
  /\ UNCHANGED comm

HandleComm(m) ==
  /\ m.kind = "comm"
  /\ lines' = Append(lines, [who |-> "note", text |-> m.text, final |-> TRUE, of |-> m.of])
  /\ comm' = {[gen |-> m.gen, of |-> m.of]}
  /\ UNCHANGED slot

(* Faulty variant: off by one.                                             *)
StillCurrentLate(g) == {c \in comm : c.gen + 1 >= g}

StillCurrent(g) == {c \in comm : c.gen >= g}

ClearStale(m) ==
  /\ m.kind = "clear"
  /\ comm' = StillCurrent(m.gen)
  /\ UNCHANGED <<lines, slot>>

RunTask(i) ==
  /\ inOrder => i = 1
  /\ tasks' = RemoveAt(tasks, i)
  /\ HandleTranscript(tasks[i]) \/ HandleComm(tasks[i]) \/ ClearStale(tasks[i])
  /\ UNCHANGED <<env, server, down, current, announced>>

(* The text of an agent fades after a while; the time of a replaced one is *)
(* cancelled.                                                              *)
Fade ==
  /\ comm # {}
  /\ comm' = {}
  /\ UNCHANGED <<env, server, down, tasks, lines, slot, current, announced>>

-----------------------------------------------------------------------------
Next ==
  \/ \E s \in Speakers : Accumulate(s)
  \/ \E vad \in BOOLEAN : Flush(vad)
  \/ TextOnly \/ FlushGoesOn \/ FlushEnds
  \/ Answer \/ SpokenAnswer \/ (\E i \in DOMAIN waiting : Leaves(i)) \/ Apology \/ OnText \/ Interrupt
  \/ ReceiveText \/ ReceiveInterruption \/ LocalBargeIn \/ Reauthenticate
  \/ NewConversation
  \/ \E i \in DOMAIN tasks : RunTask(i)
  \/ Fade

Spec == Init /\ [][Next]_vars

-----------------------------------------------------------------------------
(* Properties.                                                             *)

Sayings == Seq(1..MaxTexts)
Whose == Speakers \cup {"agent", "note"}
Lines == [who : Whose, text : Sayings, final : BOOLEAN, of : 1..MaxSessions]
Gens == 0..MaxBargeIns
Texts == [kind : {"transcript"}, who : Whose, text : Sayings, final : BOOLEAN,
          of : 1..MaxSessions]
Comms == [kind : {"comm"}, text : Sayings, gen : Gens, of : 1..MaxSessions]

TypeOK ==
  /\ listener \in BOOLEAN /\ inOrder \in BOOLEAN
  /\ session \in 1..MaxSessions /\ texts \in 0..MaxTexts
  /\ buf \in [Speakers -> Sayings]
  /\ turn \in [pc : {"idle"} \cup Speakers, took : [Speakers -> Sayings], vad : BOOLEAN]
  /\ history \in Seq([who : Speakers \cup {"agent"}, text : Sayings, flushed : BOOLEAN])
  /\ waiting \in Seq([who : {"agent"}, text : Sayings, flushed : {FALSE}])
  /\ gen \in Gens /\ current \in Gens /\ announced \in Gens
  /\ down \in Seq(Texts \cup Comms \cup [kind : {"interruption"}, gen : Gens])
  /\ tasks \in Seq(Texts \cup Comms \cup [kind : {"clear"}, gen : Gens])
  /\ lines \in Seq(Lines)
  /\ slot \in 0..Len(lines)
  /\ comm \in SUBSET [gen : Gens, of : 1..MaxSessions]

LinesStay ==
  \A i \in DOMAIN lines : lines[i].final => i \in DOMAIN lines' /\ lines'[i] = lines[i]

(* What was said to the end stays as it was shown until a new conversation *)
(* begins: no later text of anyone replaces it, though user, moderator and *)
(* agents share one slot, and whatever the order in which the main actor   *)
(* runs its tasks.                                                         *)
FinalsStay == [][lines' = <<>> \/ LinesStay]_vars

(* Everything of this session has been read and kept.                      *)
Settled == down = <<>> /\ tasks = <<>> /\ Listening

(* "Without this, each partial event would append a new line": one line at *)
(* most is unfinished, and it is what is in a buffer, with nothing that    *)
(* was finished before and nothing missing.                                *)
OpenLineIsCurrent ==
  /\ \A i \in DOMAIN lines : ~lines[i].final => i = slot
  /\ inOrder /\ Settled /\ slot # 0 /\ lines[slot].of = session
       => lines[slot].who \in Speakers /\ lines[slot].text = buf[lines[slot].who]

(* What the user has been shown as finished, but for what is never kept:   *)
(* texts without a transcription, apologies, and what agents say while     *)
(* they work.  And what of the history is shown: an agent's answer only in *)
(* listener mode, for in talk mode it is spoken.                           *)
Finished ==
  {k \in DOMAIN lines : lines[k].final /\ lines[k].of = session /\ lines[k].who # "note"}
Seen(k) == Entry(lines[k].who, lines[k].text)
Spoken == {h \in DOMAIN history : history[h].who \in Speakers}
Told == {h \in DOMAIN history : listener \/ history[h].who \in Speakers}

(* A finished turn is shown once and kept once, and the turns of user and  *)
(* moderator are in the same order in both, although a turn is sent before *)
(* it is kept, with awaits between.                                        *)
TurnsAreKept ==
  Settled =>
    /\ {Seen(k) : k \in Finished} = {history[h] : h \in Told}
    /\ \A k, l \in Finished : Seen(k) = Seen(l) => k = l
    /\ inOrder =>
         \A g, h \in Spoken : g < h =>
           \E k, l \in Finished : k < l /\ Seen(k) = history[g] /\ Seen(l) = history[h]

(* An answer that still waits has been kept, so that "agents have full     *)
(* context" "even if later flushed" (agent_task_manager.py:309); and a     *)
(* flushed entry repeats an answer kept before it.                         *)
AnswersAreKept ==
  /\ \A i \in DOMAIN waiting : \E h \in DOMAIN history : history[h] = waiting[i]
  /\ \A h \in DOMAIN history : history[h].flushed =>
       \E g \in 1 .. h - 1 : history[h] = [history[g] EXCEPT !.flushed = TRUE]

(* "Persist completed turn to session history for agent context": what is  *)
(* said to the end is in the history that the next agent is told, and none *)
(* of its entries twice; only an answer flushed by a barge-in is told      *)
(* again, once, as flushed.                                                *)
HistoryIsKept ==
  /\ TurnsAreKept /\ AnswersAreKept
  /\ \A g, h \in DOMAIN history : history[g] = history[h] => g = h

(* "Gen-ID filtering prevents stale A2A messages after barge-in": once a   *)
(* barge-in has been shown, no text of an agent from before it remains.    *)
CommsCurrent ==
  inOrder /\ tasks = <<>> =>
    \A c \in comm : c.of = session => c.gen >= announced
=============================================================================
