# StarCall in TLA+

This directory holds a formal model of StarCall, a voice assistant with a
Python backend (`src/backend/app`, FastAPI on one asyncio event loop) and a Swift
client (`src/ios/StarCall`). It contains TLA+ modules translated from the
source, TLC configurations that check them on small instances, and proofs that
TLAPS checks for every value of the constants. `PROJECT.json` links every
definition to the lines it stands for, every run to its question, and lists the
hazards of the code with the properties that cover them.

Checked with `tlc -config X.cfg M` and `tlapm M.tla`.

## 1. The system

A user speaks to a *moderator* (Gemini Live), which answers by voice and
dispatches *agents* (Claude) that work in the background; their answers are
turned into speech and played when nobody else speaks. The user can interrupt:
a confirmed *barge-in* starts a new *generation*, and audio of older generations
must not be heard any more.

| component | source | state | operations | talks to |
|---|---|---|---|---|
| OutputController | `output_controller.py` | speaking state, two audio queues, response queue, one TTS task per response, two events, `_flushed` | enqueue x3, flush, stop, drain loop, response loop, eager TTS | writes the WebSocket; called by handler, Gemini proxy, agent tasks |
| generation counter | `session_manager.py:115`, `codec.py:72`, `AudioFrameHeader.swift:75` | `session.gen_id`, client `currentGen` | increment, staleness | carried by every audio frame |
| WebSocket handler | `ws/handler.py` | the connection of a session | connect, route frames, interrupt, follow-up, disconnect | all backend parts |
| barge-in gate | `models.py:82`, `handler.py:239`, `gemini_proxy.py:579` | pending signal and its time | signal from client or Gemini VAD | transcript buffer, OutputController |
| TranscriptBuffer | `transcript_buffer.py` | user and moderator text of the turn | accumulate, flush, trigger words | client, transcript history |
| GeminiLiveProxy | `gemini_proxy.py` | Gemini session, its two tasks, reconnect count, audio queue | send loop, receive loop, reconnect, close, tool calls | Gemini, AgentTaskManager |
| AgentTaskManager | `agent_task_manager.py` | agent sessions and their status, semaphore, callbacks by agent name | dispatch, resume, interrupt, timeout, heartbeat | A2A client, OutputController |
| SessionManager | `session_manager.py` | sessions, token index | create, validate, consume, terminate, expiry | handler, proxy |
| delegation | `a2a/*`, `sdk_agent_runner.py` | chain of each running agent | ask another agent, cycle and depth guards | A2A HTTP servers |
| iOS session and playback | `ConversationSession.swift`, `AudioPlaybackEngine.swift` | `currentGen`, queues per speaker, meeting order | frames, interruption, barge-in, reauthentication | WebSocket |
| iOS view model | `ConversationViewModel.swift` | transcript lines, the slot in progress, agent texts, agent status | transcript, status, comm events, barge-in, reset | views |

### What is hard

Everything in the backend runs on one event loop: code between two `await`s is
atomic, and at every `await` anything else may run. The bugs this invites are
state read before an `await` and used after it, cancellation delivered at an
`await` and swallowed by an `except`, events cleared at the wrong moment, and
lists keyed by something two tasks share. Between backend and client there are
the generation protocol (a byte that wraps), reconnection, and messages in
flight at a barge-in. The hazards are listed, each at its line, in
`PROJECT.json`.

### What makes each part correct

- *OutputController*: one writer; responses are spoken in order, each at most
  once; a barge-in silences what came before; nothing accepted is forgotten;
  queues and tasks stay bounded; `stop()` ends.
- *generation counter*: both ends agree on what is stale, across the wrap.
- *barge-in gate*: a barge-in happens exactly on two signals in time, and has
  all its effects: new generation, flush, announcement.
- *GeminiLiveProxy*: audio flows again after a reconnect; a closed session stays
  closed; tool calls are answered once.
- *AgentTaskManager*: a session is `active` exactly while a task runs for it; the
  client sees a terminal status; texts go to the session that asked.
- *SessionManager*: a token opens one connection; what is terminated comes to its
  end; what nobody can use any more is removed.
- *TranscriptBuffer and view model*: what the user sees of the conversation is what
  the agents are told; a finished line stays; nothing stale is shown.
- *delegation*: no cycles, bounded depth, and no guard that sees the chain of an
  earlier run.
- *client*: old audio is not played after an interruption, new audio is; every
  speaker's frames are played, in order.

## 2. Modules

| module | models |
|---|---|
| `GenId` | the generation counter: increment modulo `GenMod`, RFC 1982 staleness |
| `Selection` | the subsequence a list comprehension keeps, without recursion |
| `OutputController` | the controller in full, see below |
| `ResponseDelivery` | abstract specification: what the controller promises about responses |
| `MCOutput` | instances of `OutputController` for TLC |
| `AgentTasks` | the agent task manager with its callers and the ends of a conversation |
| `AgentWork` | abstract specification: what the manager promises about agent sessions |
| `MCAgents` | instances of `AgentTasks` for TLC |
| `BargeIn` | detector, gate, generation counter, wire and playback of one client |
| `SessionManager` | sessions, tokens, termination, the cleanup loop, the frame of the endpoint |
| `GeminiProxy` | extends `SessionManager`: connections to Gemini, receive loop, send loop, reconnection and close of one conversation |
| `ModeratorLine` | abstract specification: what the proxy promises about its connections |
| `Delegation` | agents that ask agents: chains, guards, nested and overlapping runs |
| `MCDelegation` | the symmetry of `Delegation` for TLC |
| `Transcripts` | the buffers of the server, the history, and what the view model shows |
| `SelectionProofs`, `OutputControllerProofs`, `OutputOrderProofs`, `AgentTasksProofs`, `BargeInProofs`, `GeminiProxyProofs`, `DelegationProofs`, `TranscriptsProofs` | theorems, see section 4 |

`GeminiProxy` composes three parts that share state: the manager (who may end a
session), the endpoint (which starts and closes the proxy) and the proxy itself
(which may end the session). The other modules meet at the places they name: a
response of Gemini is an await of `GeminiProxy` and an action of `BargeIn`,
`AgentTasks`, `Transcripts` or `OutputController`; the agent tasks that
`terminate_session` cancels are those of `AgentTasks`.

### OutputController

One action is the stretch of one task between two `await`s. The tasks:

- the *drain loop* (`drain.pc`): `wait` (line 303), `announce` (322), `send`
  (484), `agent_done` (346), `idle` (311);
- the *response loop* (`resp.pc`): `wait` (365), `tts` (388), and `cancelled`, a
  cancellation that arrived when the TTS task was already done (389);
- one *eager TTS* task per response (`tts[r]`): absent, running, done with audio
  (`pcm`) or without (`none`: failed, returned nothing, or cancelled, since
  `_eager_tts` swallows the cancellation and returns `None`);
- the *connection handler*: a confirmed barge-in (`BargeIn`: increment and
  `flush`, with no `await` in between, handler lines 277-280) and, when the
  connection is gone, `stop()` in three steps, one per thing it waits for.

The enqueue operations are synchronous and called from other tasks, so each is
one action of the environment, with the generation current at that moment, as
all their callers pass `session.gen_id`.

A response is a number in the order of `enqueue_response` calls, and keeps it
through the text queue, the hand of the response loop, and the audio queue;
audio of no response (moderator chunks, timeout phrases) has number 0. All items
are `Frames` chunks long. A frame is written when the drain loop reaches
`send_bytes`, and the loop is then suspended until the write is accepted. Every
`await` is taken as a possible suspension.

The socket either accepts writes or, after `Disconnect`, fails them; failures are
swallowed as in the code. After the disconnection the handler calls `stop()`.

Left out: PCM contents, frame sequence numbers, the text of the playback
messages (that they are awaited is kept), logging, and the variant without a TTS
function, which production never uses.

### ResponseDelivery

`submitted`, `waiting`, `spoken`: responses are submitted in order; one is spoken only
when it waits and no earlier one waits; none is spoken twice. And none is lost
without a reason: a barge-in (`interrupts`) may cost any that wait, a new response one,
if at least `Capacity` wait, and otherwise only an `excused` one is dropped.
`OutputController` implements it with `submitted <- issued`, `waiting <- Queued` (the
numbers in either queue or in hand), `interrupts <- bargeIns`, `Capacity <-
ResponseQueueMax` and `excused <- Excused`: its synthesis gave nothing, it is from
before a barge-in, or the controller is being stopped.

### AgentTasks

One manager serves all conversations of the process; its semaphore and its
registry of callbacks are shared, so the model has several conversations. In
each, two callers can begin a run: the Gemini receive loop (`dispatch_agent` and
`resume_agent`, `gemini_proxy.py:775-890`) and the connection handler
(follow-ups, `handler.py:292`). A call is a synchronous part (`Begin`: busy check,
status `active`), the await of the `thinking` message (`call[c][a].pc`), and the
creation of the task (`CreateTask`); a dispatch then reports `dispatched`.

A run (`pc[r]`) is `_run_agent` between two awaits:

| `pc` | suspended at |
|---|---|
| `announce` | the thinking message, before the task exists |
| `new` | created, not yet started by the loop |
| `permit` | `async with self._semaphore` (line 190), first come first served |
| `sdk` | `wait_for` of the A2A call, with a heartbeat task beside it |
| `fallback` | rephrasing and messages of the timeout handler |
| `deliver` | rephrasing and messages of a success |
| `ended` | all `finally` clauses have run |

`doomed` holds the tasks that were cancelled and have not resumed since:
`task.cancel()` returns at once and the exception appears at the next step of the
task, or before its first. `callback[n]` is the registry, keyed by agent *name*;
`ear[r]` is the callback the A2A executor of run `r` looked up when it started,
which need not be that of `r`. `shown` is the last `agent_status` the client got.
A conversation ends by `Delete` (REST, any time) or by `Disconnect` followed by
`HandlerTerminate`; both cancel what is registered as `claude_task`.

A run is tied to a session in advance (`SessOf`), so a resumed session is one
with two runs. Left out: the texts, their debounce, prompts, `sdk_session_id`, and
the end of the executor on the far side, which touches no state of the manager.

### AgentWork

`working` are the runs that work for their session, `holding` those with a permit,
`state` the status of a session. A run takes a session nobody works for, and only
once; the run that works for a session is the only one that settles its state, and
then has no more part in it; it may also leave without a word (a cancellation that
nobody records). Permits are taken while fewer than `Permits` are out, and may be
kept beyond the work or given back before it ends. `AgentTasks` implements it with
`working <- Workers` (every `pc` from `announce` to `deliver` but the fallback) and
`holding <- Holding` (`sdk` and `fallback`).

### BargeIn

One client with its successive sessions at the server. Three places decide about
a barge-in, and they hold four copies of the generation:

- the *server gate*: `trigger` (the user's transcript buffer holds a trigger
  word), `window` and `by` (the pending first signal), `vad` (the Gemini loop is
  awaiting the transcript messages of an interruption, between `VadSignal` and
  `VadCheck`); `gen` is `session.gen_id`. `HandleInterrupt` and `VadCheck` confirm
  in different ways, as in the code: only the first increments and flushes;
- the *wires* `up` (signals) and `down` (frames and announcements), in order, and
  both lost with the connection;
- the *client*: `current` (`ConversationSession.currentGen`), `engine`
  (`AudioPlaybackEngine.currentGen`), and `held`, the value the main queue has
  read for a local barge-in before it flushes, while the receiving thread may
  adopt another. `nodes` are the buffers scheduled per speaker, `stops` the node
  stops queued on the watchdog queue.

The client has three threads. The receiving thread handles an announcement in one
step, but a frame in two: `ReceiveFrame` up to the guard against old frames, and
`ScheduleFrame` behind it (`AudioPlaybackEngine.swift:113` and `:148`), with the frame
in `hand` between them. No lock is held there, so the main queue may flush (`LocalBargeIn`)
and the watchdog queue stop the nodes (`StopNodes`) in between; one thread receives,
so the next message waits.

Time is a set of countdowns lowered together by `Tick`: the debounce window, the
cooldown and grace period of the detector, and the age of a signal on its way,
at most `Jitter`. In ticks of 0.2 s the code has window 4, cooldown 5, grace 4;
that signals need at most one tick is an assumption about the network and the
main queue (`Window + Jitter <= Cooldown` in `BargeInAssumption`).

What the server writes is an abstraction of `OutputController`: at any time a
frame of the current generation or up to `MaxAge` older. `MaxAge` is the number
of barge-ins that can pass while the drain loop awaits one announcement (finding
`output_lost_flush`) or the response loop one synthesis.

Left out: meeting mode (the backend never sends `meeting_status`, so it is never
entered), listener mode (it discards all audio), the watchdogs (they stop nodes
that are played out), the flush of `OutputController` itself, which has its own
module, and what becomes of the dictionary of nodes when two threads use it at the same
time: it has no lock, and the model takes each access as atomic.

### SessionManager and GeminiProxy

`handler[c].pc` is the endpoint of an upgrade request between two awaits: `new`,
`refused`, `accepting`, `starting` (`start_session`), `failing`, `receiving`,
`stopping` and `stopped` (`close_session` and `terminate_session` for a client's
`stop`), `leaving` (`output_controller.stop`), `closing` (`close_session`), `ending`
(`terminate_session`), `done`. Tokens are
their sessions; times are two flags, `lapsed` (the token) and `idle` (the
session). `terminate_session` is `Pop`, up to its only await, and `Closed` behind
it; `closer[s]` is the one caller that found the session. `due` is what the
cleanup loop still has to terminate of the list it made once.

In `GeminiProxy`, `link` are the connections to Gemini in the order in which they
were opened, `live` is `gemini_session`, `loop` the receive loops, each created by
the endpoint or by its predecessor during a reconnection, and `task` the one in
`_tasks`. `doomed` are loops that were cancelled and have not resumed since. A
receive loop is at the top (`new`, `route`), waits for a message (`wait`),
closes the dead connection (`shut`), opens another (`open`), or tells the client,
loses its socket and terminates (`tell`, `lost`, `term`). The send loop takes from
`queue`, sends, sleeps while there is no connection, and counts that.

Left out: what a response does, resumption handles, and an iterator of Gemini
messages that ends without an error (`gemini_proxy.py:467`), which the SDK does
not do on a live connection.

### ModeratorLine

`line` are the connections of a conversation, `hungUp` that `close_session` is
through. A connection is dialled only when all before it are closed, at most
`MaxRedials` times after the first, and neither dialled nor answered after hanging up;
hanging up closes all but one that is still being opened. `GeminiProxy` implements it
with `line <- link` and `hungUp <- link # <<>> /\ ~stored`: that the client and the
configuration are forgotten is what tells the end of `close_session`. The abstract
specification knows no counter, no tasks and no cancellation; that the three tasks
which write `_reconnect_count` keep within the limit is for the proxy to show.

### Delegation

A run is a request to the A2A server of an agent, dispatched or asked by another
run: `sent`, `running`, `closing` (`gen.aclose()` is awaited), `ended`. `chain[r]` is the
`delegation_chain` it was given, `registered[a]` the dictionary entry of its
agent's name, and `line[r]`, a history variable, the agents that really are above
it. `mode`, chosen at the start, says whether runs may overlap in another way than
by nesting. The comment at `sdk_agent_runner.py:32` calls the dictionary
thread-local; it is one for the process. So a run may find in the entry of its agent
the chain of another run, or none. The history variable `doubtful` has the runs that
have shared the entry with another run of their agent, and those that were asked by a
run which by then had. The properties are stated for all other runs, whatever
overlaps, together with the fact that nesting makes none doubtful. `gen.aclose()` is
taken to return.

### Transcripts

The receive loop of the proxy accumulates fragments and flushes them; `turn` is
where it is inside `flush`, which takes both buffers at once, awaits a message for
each, and keeps both afterwards. Other tasks (an agent's answer, an apology, what an
agent says while it works, a confirmed barge-in) run at any of these awaits.
`listener`, chosen at the start, is the mode. In listener mode an answer is kept in the
history and sent (`Answer`); in talk mode it is kept and joins `waiting`, the answers
the output controller has yet to speak (`SpokenAnswer`), and leaves it one way or
another (`Leaves`; `OutputController` has which). A barge-in takes what waits, but for
an answer the response loop may have in hand, and keeps it once more, marked as
flushed (`Interrupt`, `handler.py:276-289`). A fragment is a number and a text the sequence of its fragments, so
that "the same text" and "missing a word" can be told apart. A trigger word is a
user buffer that is not empty; the debounce gate is a choice (`BargeIn` has it).

On the client a text frame becomes a task of the main actor, and each task is one
call of the view model. `inOrder`, chosen at the start, says whether these tasks
run in the order of their creation: the executor does that today, the language
does not promise it. `FinalsStay` is stated for both. `Reauthenticate` is a new
server session under a client that keeps everything, `NewConversation` is `reset`
followed by a new start.

Left out: the audio of a spoken answer or apology, agent statuses and meeting progress
(the view model keeps the last one), generations beyond the wrap, and that two
texts can have the same words: each is a new number here.

## 3. Runs

The environment is bounded (`MaxResponses`, `MaxChunks`, `MaxBargeIns`,
`MaxSessions`, `MaxTexts`, the lengths of queues and wires, the runs, the
requests); when it is used up the systems come to rest, so deadlock is checked
only in `BargeIn`, where the user can always speak. `GenMod = 4` replaces 256: 4 is
the smallest modulus with an ambiguous half circle, and staleness depends only on
distances on the circle.

| run | bounds | shows |
|---|---|---|
| `output_safety` | fair, 3 responses, queue cap 1, 1 chunk, 2 barge-ins, 2 frames per item | all safety and action properties, the refinement, no lost wakeup, the controller comes to rest |
| `output_lost_flush` | 2 chunks, 1 barge-in | finding: a flush during the announcement is undone |
| `output_stop` | fair, 1 response | finding: `stop()` can wait for ever |
| `agents_safety` | 2 sessions of one agent, one resumed (3 runs), 2 permits | the safety properties of `AgentTasks` |
| `agents_liveness` | the same with 1 permit, fair | every run that was begun ends |
| `agents_comm` | 2 conversations with one session each | finding: texts reach the wrong conversation |
| `bargein_safety` | 2 sessions, 4 barge-ins in the first (the counter wraps) and 2 in the second, window 1, cooldown 2, jitter 1, frames 1 generation old, 2 messages to the client (the frame in hand among them) and 1 to the server, 1 queued stop, 1 scheduled buffer | the properties of `BargeIn` |
| `bargein_vad` | the same | finding: an announcement without a new generation |
| `gemini_safety` | fair, 1 session, 2 upgrade requests, 1 reconnection, 1 wait for a connection, queue of 1 | the properties of `SessionManager` and `GeminiProxy` |
| `gemini_deaf` | 1 request, 2 reconnections | finding: the send loop is gone when the reconnection succeeds |
| `delegation_safety` | 4 agents, depth 2, 4 runs, symmetric agents | the properties of `Delegation` |
| `transcripts` | both modes, 3 fragments or texts, 2 barge-ins, 2 sessions, 2 messages on the wire, 2 tasks | the properties of `Transcripts` |

The bounds reach the interesting cases. `output_safety`: with cap 1 and three
responses one is dropped by overflow, one is in hand and one is put back; two
barge-ins of four generations make stragglers of two ages; a chunk of two frames
meets agent audio at every point. One chunk is enough there because every safety
property of this module is also proved for all values. `agents_safety`: two runs of
one session meet only when the first has timed out, and the third competes with
both for permits and for the callback of their common name. `bargein_safety`: a
signal needs no tick or one, so that two signals of one source arrive closer
together than they were sent; with one stop in the queue a node can be made,
filled and found stale before it runs, and a frame in hand be overtaken by a
flush and its stop. `gemini_safety`: the second request meets
the first at every step; with one attempt there is a reconnection that succeeds,
one that fails and one that is refused; one chunk in the queue is read before,
during and after. `delegation_safety`: four runs are a chain of the full depth and
one more question, or two overlapping pairs. `transcripts`: three texts make a
partial, its continuation and a foreign text in between, or a trigger word and two
answers that wait, of which two barge-ins flush one each; with two sessions the old
one's tasks and line meet the new one's.

Properties of `output_safety`:

- `TypeOK`; in particular the loop holds a response exactly while awaiting TTS.
- `DeliversResponses`: refinement of `ResponseDelivery`: order, no repetition, and no
  loss on the way between two queues and a hand. (`PipelineOrdered`, on which it rests,
  is proved.)
- `OneStraggler`: a barge-in leaves behind at most one thing that may still be
  heard, the response whose TTS was awaited, and never moderator audio. It is the
  guarantee that remains: `flush` does not see the response in hand (section 5).
  It holds until the counter has wrapped.
- `BacklogBounded`: cap plus one, for the response put back behind a full queue.
- `NoOrphanTts`: every running TTS task belongs to a response that can be played.
- `ModeratorSilenced`: after a barge-in no frame of older moderator audio is
  written. For agent audio this is false (finding `output_lost_flush`).
- `NoTalkOver`: no response audio is queued while moderator audio goes out.

Properties of `agents_safety`:

- `OneWorker`: two callers, a timeout that frees the session while its run still
  speaks, and cancellation never put two working runs on one session.
- `CancelReachesWorkers`: a working run is the session's `claude_task`.
- `NoDanglingCallback`: every way out of a run cleans the registry, although runs
  of one agent replace and remove each other's entry.
- `HandlerEndsWork`: after the handler has ended a conversation no run works for
  it uncancelled, because the Gemini loop is closed first. For `Delete` this does
  not hold, see section 5.

- `DoesAgentWork` (`AgentWork!Spec`): whatever a run does late, after its timeout or
  its cancellation, it leaves alone the session that was resumed behind its back.
  No way in or out, and no timeout that holds on to its permit, lets more than
  `Permits` runs keep an agent busy (`PermitsKept`, which follows and is proved).

Properties of `bargein_safety`:

- `GenerationsAgree`: with all messages read, client and server agree.
- `NothingFromTheFuture`: no frame overtakes its announcement, none is more than
  `MaxAge` announcements late: the half circle of `isStale` suffices.
- `OneLateBuffer`: of what the engine would discard, all but one buffer is sure to be
  stopped. A frame that has passed the guard is scheduled after the flush, and after
  the stop (section 5); but the receiving thread has one frame at a time, and
  whatever it takes next meets the new generation, also when the race of `held` sets
  the engine back in between.
- `EchoAloneNeverCancels`: residual echo alone never confirms a barge-in.

Properties of `gemini_safety`:

- `OneConnection`: a token lets in one connection, whatever two requests do at the
  same time and whoever deletes, stops or touches the session in between.
- `OneLoopInReach`: a receive loop creates its own successor; there never are two,
  and the one there is can be cancelled by `close_session`.
- `ClosedForGood`: once the endpoint has returned no connection to Gemini is open
  and none will be, even if one was being opened.
- `HoldsTheLine` (`ModeratorLine!Spec`): there never are two connections, no more than
  the attempts allow, and none is opened once `close_session` is through, also when it
  comes while the old connection is closed or the new one awaited.
- `SenderStays`: as long as the conversation goes on, the send loop ends only when
  it has given up waiting.
- `AbandonedGo` (liveness): a session nobody can use is removed. This is about the
  session: nobody stops the output controller of an endpoint that failed to start.
- `TerminationReaches` (liveness): whoever terminates a session, its endpoint comes to
  its `finally` clause, in whatever await it is; and from `close_session` to its end.
  Between the two it waits for `output_controller.stop()`, of which nothing is claimed.
- `DeathAnswered` (liveness): a dead connection is replaced or the session is terminated.
- `LoopsEnd` (liveness): both loops end after the endpoint.

Properties of `delegation_safety`:

- `ChainIsLineage`: a run is given the agents that really are above it, unless it is
  `doubtful`; and no run is while runs only nest.
- `NoCycle`: no agent works on a question that comes from its own work, none is
  asked too deep, with that one exception.
  (`GuardIsExact`, that nothing else is blocked, is proved.)
- `NoStaleChain`: no entry of the dictionary outlives its run, overlapping or not.

Properties of `transcripts`:

- `FinalsStay`: a finished line stays until a new conversation, although user,
  moderator and agents share one slot, and in any order of the tasks.
- `OpenLineIsCurrent`: at most one line is unfinished, and at rest it is what is in
  the server's buffer.
- `HistoryIsKept`: what is said to the end is in the history that the next agent is
  told, and no entry twice. At rest the finished lines of user and moderator, and in
  listener mode of agents, are in it, and those of user and moderator in the same
  order, although they are sent before they are kept (`TurnsAreKept`). An answer that
  waits to be spoken has been kept, and a flushed entry repeats an answer kept before
  it (`AnswersAreKept`).
- `CommsCurrent`: after a barge-in has been shown no agent text from before remains.

Liveness of the others: `ResponsesSettle` (every accepted response leaves the queue
and the hand while the connection lives), `ComesToRest`, and `RunsEnd`.

*Fairness.* `OutputController`: `WF` of the drain loop, the response loop and
`stop()`: asyncio runs every task that is ready, and an awaited write completes or
raises. `WF` of each TTS task: `synthesize` makes two attempts of a client call
that has a deadline, and swallows every exception. `AgentTasks`: `WF` of the
creation of a task, of the steps of a run that are ready or await something with
a deadline, of the timeout (`wait_for` ends the wait), and of a delivered
cancellation. `GeminiProxy`: `WF` of each receive loop, the send loop, the endpoint
behind `receive()`, a call of `terminate_session` that awaits the close, and the
cleanup loop: what is ready runs, opening a connection succeeds or fails, sends
and closes return, and a session nobody touches becomes idle. Nothing is assumed of
`output_controller.stop()`, which can wait for ever (`output_stop`): the step behind it,
`FinallyBegins`, has no fairness, and no liveness property needs it. Nor is anything
assumed of callers, users, barge-ins, disconnections or Gemini, nor that an agent
ever answers.

## 4. Proofs

TLAPS proves, for all values of the constants allowed by `GenModAssumption`,
`OutputAssumption`, `AgentsAssumption`, `BargeInAssumption`, `SessionAssumption`,
`ProxyAssumption`, `DelegationAssumption` and `TranscriptAssumption`:

- `SelectProperties` (`SelectionProofs`): `Select(q, S)` has the elements of `q` at
  the positions in `S`, in their order. It rests on the rank function being
  injective, with finite-set cardinality from the library.
- `TypeCorrect` (`OutputControllerProofs`): `Spec => []TypeOK`. `TypeOK` is
  inductive once it says that a response is held exactly in `pc = "tts"`; boolean
  and other variables are separate lemmas because they need different provers.
- `ResponsesOrdered` (`OutputOrderProofs`): `Spec => []PipelineOrdered`.
  `TypeOK /\ PipelineOrdered` is inductive: the five parts of `PipelineOrdered`
  need each other (putting back needs `HandBetween`, playing needs
  `AudioBeforeText`, speaking needs `AudioOrdered`). The proof gathers the
  pipeline in one operator of constants, `Pipeline(a, h, t, s, n)`, proves what
  each elementary move preserves (drop, put back, play, speak, flush), and maps
  each action to moves.
- `ResponsesDelivered` (`OutputOrderProofs`): `OutputController` implements
  `ResponseDelivery`. Every step drops responses, submits one, speaks one or is a
  barge-in; that the one spoken is the earliest is `PipelineOrdered` in the next state,
  that what the response loop skips is excused is `SkippedExcused`, and that a full
  queue means `Capacity` waiting responses is `FullQueue`: numbers in a queue differ.
- `BacklogStaysBounded`, `NoTtsIsOrphaned` (`OutputControllerProofs`): both are
  inductive with the types. `NeverTalksOver` needs to know whose turn it is: `Speakers`
  and `Turn` relate the speaking state to what the drain loop holds at each await.
- `OneStragglerOnly`, `ModeratorFallsSilent` (`OutputOrderProofs`), under
  `MaxBargeIns < GenMod`, that is, before the counter wraps: `Ages` says that the
  generation is the number of barge-ins so far, and that what is older than the
  last barge-in is one response at most, in hand or in one of its two queues, and no
  moderator audio. The flush at a wrap compares integers and would break it (section 5).
- `AgentsInv` (`AgentTasksProofs`) and from it `AgentsOneWorker`,
  `AgentsReachable`, `AgentsRegistry`, `AgentsHandlerEnds`. The inductive invariant
  adds to the four properties what they rest on: a caller in a call has a run of
  its own in `announce` (`CallsOwn`, `CallsApart`), and such a run is its session's
  only worker (`Announced`); tasks are runs that were begun (`TasksBegun`); the
  callers of a closed conversation are gone (`CallersGone`). A run's actions are
  handled together by what they may change (`RunMoves`, `RunKeeps`).
- `SemaphoreQueueExact`: the runs that wait for a permit are the elements of the queue,
  each once. A cancellation takes out that run and no other: `SelectCovers`
  (`SelectionProofs`) says that `Select` misses nothing, `SelectProperties` that it adds
  nothing. Fair progress of the queue, `RunsEnd`, is left to TLC.
- `TextsKeepTheirAgent`, `TextsReachOwnersApart`: the executor only finds a callback of
  its own agent; so texts reach their conversation if no two conversations have a
  session of one agent. The condition is a hypothesis of the second theorem and not an
  assumption of the module; without it the claim is false (`agents_comm`).
- `AgentTypes`: every variable of `AgentTasks` keeps its type.
- `AgentsDoWork`: `AgentTasks` implements `AgentWork`. What a step of one run makes of
  the three sets is one lemma (`SetsMove`); a beginning is a `Take` because of
  `OneWorker`, every way out is a `Leave`, `Settle` or `Abandon` of the run that moves.
- `AgentsWithinPermits`: `PermitsKept`, for any number of runs, finite or not, from that
  refinement: only one step of `AgentWork` adds to `holding`.
- `BargeInTypes` (`BargeInProofs`): `Spec => []TypeOK`, by groups of variables.
- `EchoNeverCancels`: the invariant `EchoInv` relates three clocks that no single
  action compares: as long as a signal of the detector is pending or on its way,
  the cooldown still covers the rest of its window and its way.
- `GenerationsAgreed`, `FramesInOrder`: both by induction over the wire, in terms
  of what the client has after `n` messages (`Has`). Appending, reading and losing
  messages are lemmas about sequences (`AppendHas`, `TailHas`); every action is one
  of five treatments of the wire (`DownStep`).
- `OldFramesAreTold`: from `FramesInOrder`. A frame is at most `MaxAge` announcements
  old and never newer than the client, so the serial comparison of a wrapping byte
  tells exactly the old ones, as long as the engine has the client's generation.
- `OneLateBufferOnly`: `OneLateBuffer` is inductive with the types. That a flush queues a
  stop of *all* nodes that exist covers what is scheduled; what is in hand can become the
  one late buffer; and while there is one, the hand holds nothing the engine would
  discard, which has to be part of the property.

- `OneConnectionPerSession` (`GeminiProxyProofs`): `SmInv` adds who holds a session
  at which step of the endpoint. It is proved about `SessionManager` alone; the steps
  of the proxy map to its steps or leave it alone (`ManagerStep`), so that
  `GeminiProxy` implements `SessionManager` (`ProxyServesManager`).
- `OneLoopInReachAlways`, `ClosedForGoodAlways`: `ProxyInv` says, for each stage of
  the endpoint, which loops and connections there can be (`Stages`): before the
  start none, while it serves one reading loop and one connection that is not
  closed, after `close_session` only what is cancelled. `ProxyTypeCorrect` follows.
- `ProxyHoldsTheLine`: `GeminiProxy` implements `ModeratorLine`. The invariant
  `LineInv` says what the mapping needs beyond `ProxyInv`: the connection a loop awaits
  is being opened, and the live one is not (`Dialled`); a loop that reads after
  `close_session` is a cancelled one (`Outlived`); and, as long as it is not
  cancelled, the number of attempts is the number of connections (`Counted`), which is
  why counting deaths limits connections.
- `NeverTwoConnections`: what follows from `ModeratorLine` for `link`, by induction over
  its steps (`OneLineStep`).
- `SenderStaysAlways`: `SendInv`, that a sentinel in the queue or a sender that has
  read one means that the session is gone, or its endpoint past receiving.
- `TypeCorrect`, `NoChainIsStale` (`DelegationProofs`): for overlapping runs too.
- `ChainsAreLineages`, `NoCycles`, `GuardsAreExact`, whatever runs overlap: by
  `OverlapInv`, two runs of one agent at a time are both doubtful (`Alone`), any other run
  has its own chain in the entry (`Finds`), and what it was given is its lineage
  (`Guarded`). That nested runs are never doubtful needs more: `NestInv` says that nothing is
  abandoned, chains are lineages without the run's own agent (`Faithful`), the entry of a
  running agent is its chain (`Entered`), a run is one deeper than its parent
  (`Parents`), and the active runs form a stack in which each is on the chain of
  all deeper ones (`Stack`). From this no agent has two active runs (`OneRunPerAgent`), which
  is what makes a dictionary by name enough.
- `TypeCorrect`, `FinalLinesStay` (`TranscriptsProofs`): with `OneOpen`, that the
  slot holds the one line that is not final, for any order of the tasks.
- `CommsStayCurrent`: `WireOrdered`, that generations on the wire only rise, from the
  one announced to the one there is, and `StaleIsCleared`, that a stale text still
  has the announcement before it.
- `OpenLineStaysCurrent`: `Reflected`, that the last transcript under way (on the
  wire, else among the tasks, else in the slot), if it is a partial of this session,
  is what is in the buffer.
- `HistoryStaysKept`, of two invariants. `SeenInv` follows the finished texts along their way, on the
  wire, among the tasks of the client, in its lines, all three read as one sequence
  (`Ahead`). On it stands what is kept, or is in the hand of a flush and about to be
  kept, and nothing else (`SentIsKnown`), once (`SentOnce`) and, if the tasks run in
  order, in the order of the history (`SentInOrder`, where `NotesFollow` says that a
  line which takes the slot passes only notes). `Gathered` and `SentAreWhole` say that
  no text on the way begins with a fragment that is still in a buffer or in the hand:
  that two texts differ rests on their first fragments. Nothing comes of a session that
  has not begun (`NoneToCome`). The property compares positions, not selected
  subsequences, since what `SelectSeq` returns is defined by recursion over data. `HistoryInv` has the answers: all numbers in
  the history are given out (`Numbered`), an entry that is not flushed is there once
  (`Once`), a flushed one is a copy of one before it and there once (`Copied`), and what
  waits has been kept, has not been flushed and waits once (`Queued`).

Only model-checked: liveness, which like `ENABLED` is outside the prover's reach, that
is `ResponsesSettle`, `ComesToRest`, `RunsEnd`, `AbandonedGo`, `TerminationReaches`,
`DeathAnswered` and `LoopsEnd`. Every other property of a passing run is a theorem.

## 5. Findings

Each is a run that violates one statement of the repository. See `PROJECT.json` for
the quotes.

1. `output_lost_flush`: a flush during the `agent_speaking` announcement is undone
   (`output_controller.py:341`).
2. `output_stop`: `stop()` can wait for ever, and `close_session` is then not
   reached (`:389`).
3. `agents_comm`: with two conversations, what an agent says for one user is sent
   to the other (`agent_task_manager.py:217`).
4. `bargein_vad`: a barge-in confirmed through Gemini starts no generation and
   flushes nothing (`gemini_proxy.py:617`).
5. `gemini_deaf`: a send loop that took more than 50 chunks while there was no
   connection has ended when the reconnection succeeds (`gemini_proxy.py:344`).

Seen while modelling, without a run of their own:

- The response whose TTS is awaited survives a flush (`output_controller.py:388`);
  `OneStraggler` bounds the damage.
- A task cancelled outside the wait for the agent leaves its session busy for ever
  (`agent_task_manager.py:248`).
- After a barge-in and a new session the client keeps its generation while the
  server starts at 0: frames it should play look stale
  (`ConversationSession.swift:490`).
- When two runs of an agent overlap, the guards of delegation see the chain of the
  other one, or none: an agent can be asked for its own work, and questions nest too
  deep (`sdk_agent_runner.py:89`). TLC finds both when the exception is taken out of
  `NoCycle` (the second with `MaxDepth = 1`, since it takes a fifth run otherwise).
- The reconnect counter is never reset after a success (`gemini_proxy.py:183`).
- A termination between the consumed token and the accepted upgrade leaves an
  endpoint that serves a session the manager no longer knows (`handler.py:104`).
- When the Gemini session cannot be started, the endpoint returns without ending the
  session (`handler.py:123`). The cleanup loop removes the session later, but
  `terminate_session` does not stop the output controller: its two loops live on.
- The cleanup loop terminates a session that was touched after the list was made
  (`session_manager.py:144`).
- The history has a flushed response twice (`agent_task_manager.py:310`,
  `handler.py:283`); a moderator text without a transcription and an apology are
  shown but not kept (`gemini_proxy.py:562`, `agent_task_manager.py:407`).
- `flush` of the transcript sends the user's text first, also when the user
  interrupted the moderator (`transcript_buffer.py:84`).
- The filter for agent texts compares integers at the wrap; and after a
  reauthentication the client's old generation makes a local barge-in clear valid
  texts of the new session (`ConversationViewModel.swift:161`).
- An open line of a lost session is taken over by the first partial of the next
  (`ConversationViewModel.swift:103`).
- `flush` compares generations as integers (`output_controller.py:261`): the
  barge-in that wraps the counter keeps all queued audio, which
  `docs/exec-plans/barge-in-ios-backend.md:394` calls handled. The client drops these
  frames as stale. Up to the wrap the flush does what it should (`OneStragglerOnly`).
- The response queue can exceed its cap by one (`:395`), and two responses can be
  queued as audio at once (`:413`).
- `dispatched` can be shown after `done` (`gemini_proxy.py:816`).
- A `DELETE` during a dispatch finds no task; the one created afterwards works for
  a conversation that is gone (`agent_task_manager.py:102`).
- The Gemini path of a barge-in clears the trigger word before it asks the gate,
  so that a client signal right after it is suppressed (`gemini_proxy.py:609`).
- The cooldown of the detector is longer than the window of the server: a user
  who only speaks, without a second source, cannot confirm a barge-in. This is
  the other side of `EchoAloneNeverCancels`.
- A frame that has passed the guard against old ones is scheduled whatever has been
  flushed meanwhile, and then plays after the barge-in, with no stop to come
  (`AudioPlaybackEngine.swift:113`, `:148`); `OneLateBuffer` bounds it to one buffer.
- A local barge-in can set the playback engine back to the generation it was in before
  an announcement the receiving thread has just adopted (`ConversationSession.swift:267`);
  until the next announcement frames of the old generation are played.
- A queued node stop also drops buffers of the new generation scheduled before it
  runs (`AudioPlaybackEngine.swift:233`).
- `skip_speaker` needs a trigger word and two signals, and flushes everybody
  (`handler.py:239`).

## 6. Not modelled

- Registry, configuration, start-up and health routes (`registry.py`, `config.py`,
  `main.py`, `agent_cards.py`): files are loaded once; no state changes later.
- Prompts, tool schemas, TTS voices and rephrasing: I/O and wording. Of a synthesis
  the model keeps whether it ended with audio.
- The messages of the Claude SDK and of A2A over HTTP: a request succeeds or fails.
- Audio itself: frames carry a generation and an owner, no samples; the noise
  floor, echo gate and meters of the client are a choice.
- Meeting mode of the playback engine: this backend never sends `meeting_status`.
- Agent statuses, meeting progress and views: the last message received is shown.
- Demos, scripts and tests.

What could follow: the order of `agent_status` messages against the run they
describe, once a document says what the client should see; and the turn of Gemini
as a stream of chunks, to state when agent audio may be heard between them.
