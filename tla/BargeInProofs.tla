--------------------------- MODULE BargeInProofs ---------------------------
(***************************************************************************)
(* Proofs about BargeIn: types, the agreement on the generation, the order *)
(* of frames and announcements, and that the detector alone never cancels. *)
(***************************************************************************)
EXTENDS BargeIn, TLAPS

Signal == [source : Sources \ {"vad"}, age : 0 .. Jitter]

(* TypeOK in parts, for provers with different strengths.                  *)
GateTypes ==
  /\ window \in 0 .. Window
  /\ by \in Sources \cup {"none"} /\ (by = "none" <=> window = 0)
FlagTypes == trigger \in BOOLEAN /\ vad \in BOOLEAN
WireTypes == up \in Seq(Signal) /\ down \in Seq(Message)
CounterTypes ==
  /\ gen \in Gen /\ issued \in Nat /\ sessions \in Nat \ {0}
  /\ current \in Gen /\ engine \in Gen /\ held \in Gen \cup {NoGen}
NodeTypes ==
  /\ Made \subseteq Speakers /\ nodes \in [Made -> Seq(Gen)]
  /\ stops \in Seq(SUBSET Speakers)
Frames == [type : {"frame"}, speaker : Speakers, gen : Gen]
HandTypes == hand \subseteq Frames /\ \A f, h \in hand : f = h
DetectorTypes == playing \in 0 .. Grace + 1 /\ cooldown \in 0 .. Cooldown


(* The parts make up TypeOK.                                               *)
LEMMA TypeParts ==
  TypeOK <=> /\ GateTypes /\ FlagTypes /\ WireTypes
             /\ CounterTypes /\ NodeTypes /\ HandTypes /\ DetectorTypes
  BY DEF TypeOK, GateTypes, FlagTypes, WireTypes, CounterTypes, NodeTypes,
         HandTypes, DetectorTypes, Signal, Frames

(* The assumptions on the constants, in the form the proofs use.           *)
LEMMA Constants ==
  /\ Window \in Nat /\ Window > 0 /\ Cooldown \in Nat /\ Cooldown > 0
  /\ Grace \in Nat /\ Jitter \in Nat /\ MaxAge \in Nat
  /\ Window + Jitter <= Cooldown /\ 2 * MaxAge < GenMod
  /\ GenMod \in Nat /\ GenMod >= 4 /\ NoGen \notin Gen
  BY BargeInAssumption, GenModAssumption

(* Generations of the past and of the future are generations.              *)
LEMMA GenArith ==
  ASSUME NEW g \in Gen
  PROVE  /\ NextGen(g) \in Gen
         /\ 0 \in Gen
         /\ g = gen => \A k \in 0 .. MaxAge :
              Older(k) \in Gen /\ Age(Older(k), g) = k
  BY Constants DEF NextGen, Gen, Older, Age

(* The gate and the counters of the server.                                *)
LEMMA GateStep == TypeOK /\ [Next]_vars => GateTypes'
<1> SUFFICES ASSUME TypeOK, [Next]_vars PROVE GateTypes'
  OBVIOUS
<1> USE Constants DEF TypeOK, GateTypes, Sources
<1>1. ASSUME HandleInterrupt PROVE GateTypes'
  <2>1. up \in Seq(Signal) /\ up # <<>>
    BY <1>1 DEF HandleInterrupt, Signal
  <2>2. Head(up) \in Signal
    BY <2>1
  <2>3. Head(up).source \in Sources \ {"vad"}
    BY <2>2 DEF Signal
  <2> QED
    BY <1>1, <2>3 DEF HandleInterrupt, Record, Pending, UsedUp
<1>2. ASSUME VadCheck PROVE GateTypes'
  BY <1>2 DEF VadCheck, Record, Pending, UsedUp
<1>3. ASSUME NewSession PROVE GateTypes'
  BY <1>3 DEF NewSession
<1>4. ASSUME Tick PROVE GateTypes'
  <2>1. /\ window' = Down(window)
        /\ by' = IF window <= 1 THEN "none" ELSE by
    BY <1>4 DEF Tick
  <2>2. /\ window \in 0 .. Window
        /\ by \in {"detector", "skip", "vad", "none"}
        /\ by = "none" <=> window = 0
    OBVIOUS
  <2>3. CASE window <= 1
    BY <2>1, <2>2, <2>3 DEF Down
  <2>4. CASE window > 1
    BY <2>1, <2>2, <2>4 DEF Down
  <2> QED
    BY <2>2, <2>3, <2>4
<1>5. ASSUME UNCHANGED <<window, by>> PROVE GateTypes'
  BY <1>5
<1> QED
  BY <1>1, <1>2, <1>3, <1>4, <1>5
  DEF Next, Server, Client, AccumulateUser, TurnComplete, VadSignal, SendFrame,
      ReceiveFrame, ScheduleFrame, ReceiveInterruption, StopNodes, Play, Detect, LocalBargeIn,
      Skip, PlaybackEnds, Reauthenticate, Restart, vars, server, gate

(* The Boolean variables.                                                  *)
LEMMA FlagStep == TypeOK /\ [Next]_vars => FlagTypes'
<1> SUFFICES ASSUME TypeOK, [Next]_vars PROVE FlagTypes'
  OBVIOUS
<1>1. /\ trigger' = trigger \/ trigger' = TRUE \/ trigger' = FALSE
      /\ vad' = vad \/ vad' = TRUE \/ vad' = FALSE
  BY Zenon
  DEF Next, Server, Client, AccumulateUser, TurnComplete, HandleInterrupt, VadSignal,
      VadCheck, SendFrame, ReceiveFrame, ScheduleFrame, ReceiveInterruption, StopNodes, Play, Detect,
      LocalBargeIn, Skip, PlaybackEnds, Reauthenticate, Restart, NewSession, Tick, vars,
      server, gate, wires, player, detector, client
<1> QED
  BY <1>1, Zenon DEF TypeOK, FlagTypes

(* The messages of both directions.                                        *)
LEMMA WireStep == TypeOK /\ [Next]_vars => WireTypes'
<1> SUFFICES ASSUME TypeOK, [Next]_vars PROVE WireTypes'
  OBVIOUS
<1> USE TypeParts DEF WireTypes
<1>t. up \in Seq(Signal) /\ down \in Seq(Message) /\ gen \in Gen
  BY DEF CounterTypes
<1>1. ASSUME NEW g \in Gen PROVE Interruption(g) \in Message
  BY DEF Interruption, Message
<1>2. ASSUME NEW s \in Speakers, NEW g \in Gen PROVE Frame(s, g) \in Message
  BY DEF Frame, Message
<1>3. ASSUME NEW a \in {"detector", "skip"} PROVE Interrupt(a) \in Signal
  BY Constants DEF Interrupt, Signal, Sources
<1>4. ASSUME HandleInterrupt PROVE WireTypes'
  <2>1. up' \in Seq(Signal)
    BY <1>4, <1>t DEF HandleInterrupt
  <2>2. NextGen(gen) \in Gen
    BY <1>t, GenArith
  <2>3. down' \in Seq(Message)
    <3>1. down' = down \/ down' = Append(down, Interruption(NextGen(gen)))
      BY <1>4 DEF HandleInterrupt, Announce
    <3> QED
      BY <1>t, <3>1, <2>2, <1>1
  <2> QED
    BY <2>1, <2>3
<1>5. ASSUME VadCheck PROVE WireTypes'
  <2>1. up' = up /\ (down' = down \/ down' = Append(down, Interruption(gen)))
    BY <1>5 DEF VadCheck, Announce
  <2> QED
    BY <2>1, <1>t, <1>1
<1>6. ASSUME NEW s \in Speakers, NEW k \in 0 .. MaxAge, SendFrame(s, k)
      PROVE  WireTypes'
  <2>1. up' = up /\ down' = Append(down, Frame(s, Older(k)))
    BY <1>6 DEF SendFrame, wires
  <2>2. Older(k) \in Gen
    BY <1>t, GenArith
  <2> QED
    BY <2>1, <2>2, <1>t, <1>2
<1>7. ASSUME ReceiveFrame \/ ReceiveInterruption PROVE WireTypes'
  <2>1. up' = up /\ down # <<>> /\ down' = Tail(down)
    BY <1>7 DEF ReceiveFrame, ReceiveInterruption
  <2> QED
    BY <2>1, <1>t
<1>8. ASSUME LocalBargeIn \/ Skip PROVE WireTypes'
  <2>1. /\ down' = down
        /\ up' = Append(up, Interrupt("detector")) \/ up' = Append(up, Interrupt("skip"))
    BY <1>8 DEF LocalBargeIn, Skip
  <2> QED
    BY <2>1, <1>t, <1>3
<1>9. ASSUME NewSession PROVE WireTypes'
  <2>1. up' = <<>> /\ down' = <<>>
    BY <1>9 DEF NewSession
  <2> QED
    BY <2>1
<1>10. ASSUME Tick PROVE WireTypes'
  <2>1. /\ down' = down
        /\ \A i \in DOMAIN up : up[i].age < Jitter
        /\ up' = [i \in DOMAIN up |-> [up[i] EXCEPT !.age = @ + 1]]
    BY <1>10 DEF Tick
  <2>2. ASSUME NEW i \in DOMAIN up
        PROVE  [up[i] EXCEPT !.age = @ + 1] \in Signal
    <3>1. up[i] \in Signal /\ up[i].age < Jitter
      BY <1>t, <2>1, <2>2
    <3> DEFINE r == up[i]
    <3>2. r \in Signal /\ r.age \in 0 .. Jitter /\ r.age < Jitter
      BY <3>1 DEF Signal
    <3>3. r.age + 1 \in 0 .. Jitter
      BY <3>2, Constants
    <3> HIDE DEF r
    <3>4. [r EXCEPT !.age = r.age + 1] \in Signal
      BY <3>2, <3>3 DEF Signal
    <3> QED
      BY <3>4 DEF r
  <2>3. DOMAIN up = 1 .. Len(up) /\ Len(up) \in Nat
    BY <1>t
  <2>4. up' \in [1 .. Len(up) -> Signal]
    BY <2>1, <2>2, <2>3
  <2> QED
    BY <2>1, <2>3, <2>4, <1>t
<1>11. ASSUME UNCHANGED <<up, down>> PROVE WireTypes'
  BY <1>11, <1>t
<1> QED
  BY <1>4, <1>5, <1>6, <1>7, <1>8, <1>9, <1>10, <1>11
  DEF Next, Server, Client, AccumulateUser, TurnComplete, VadSignal, StopNodes, Play,
      ScheduleFrame, Detect, PlaybackEnds, Reauthenticate, Restart, vars, wires, client

(* Generations and the count of sessions.                                  *)
LEMMA CounterStep == TypeOK /\ [Next]_vars => CounterTypes'
<1> SUFFICES ASSUME TypeOK, [Next]_vars PROVE CounterTypes'
  OBVIOUS
<1> USE TypeParts DEF CounterTypes
<1>1. gen \in Gen /\ NextGen(gen) \in Gen /\ 0 \in Gen
  BY GenArith
<1>2. down # <<>> => Head(down).gen \in Gen
  <2>1. down # <<>> => Head(down) \in Message
    BY DEF WireTypes
  <2> QED
    BY <2>1 DEF Message
<1>3. /\ gen' \in {gen, NextGen(gen), 0}
      /\ issued' \in {issued, issued + 1, 0}
      /\ sessions' \in {sessions, sessions + 1}
      /\ held' \in {held, NoGen, current}
  BY DEF Next, Server, Client, AccumulateUser, TurnComplete, HandleInterrupt, VadSignal,
      VadCheck, SendFrame, ReceiveFrame, ScheduleFrame, ReceiveInterruption, StopNodes, Play, Detect,
      LocalBargeIn, Skip, PlaybackEnds, Reauthenticate, Restart, NewSession, Tick, vars,
      server, gate, wires, player, detector, client
<1>5. \/ UNCHANGED <<current, engine>>
      \/ /\ down # <<>> /\ current' = Head(down).gen
         /\ FlushAllAndStop(Head(down).gen)
      \/ current' = current /\ held # NoGen /\ FlushAllAndStop(held)
      \/ current' = 0 /\ FlushAllAndStop(current)
  BY DEF Next, Server, Client, AccumulateUser, TurnComplete, HandleInterrupt, VadSignal,
      VadCheck, SendFrame, ReceiveFrame, ScheduleFrame, ReceiveInterruption, StopNodes, Play, Detect,
      LocalBargeIn, Skip, PlaybackEnds, Reauthenticate, Restart, Tick, vars,
      server, gate, wires, player, detector, client
<1>6. current' \in Gen /\ engine' \in Gen
  BY <1>1, <1>2, <1>5 DEF FlushAllAndStop
<1> QED
  BY <1>1, <1>3, <1>6

(* The timers of the detector.                                             *)
LEMMA DetectorStep == TypeOK /\ [Next]_vars => DetectorTypes'
<1> SUFFICES ASSUME TypeOK, [Next]_vars PROVE DetectorTypes'
  OBVIOUS
<1>1. playing \in 0 .. Grace + 1 /\ cooldown \in 0 .. Cooldown
  BY TypeParts DEF DetectorTypes
<1>2. /\ \/ playing' \in {0, 1, playing}
         \/ playing \in 1 .. Grace /\ playing' = playing + 1
      /\ cooldown' \in {cooldown, Cooldown, Down(cooldown)}
  BY DEF Next, Server, Client, AccumulateUser, TurnComplete, HandleInterrupt, VadSignal,
      VadCheck, SendFrame, ReceiveFrame, ScheduleFrame, ReceiveInterruption, StopNodes, Play, Detect,
      LocalBargeIn, Skip, PlaybackEnds, Reauthenticate, Restart, Tick, vars,
      server, gate, wires, player, detector, client
<1> QED
  BY <1>1, <1>2, Constants DEF DetectorTypes, Down

(* The player nodes and the stops queued for them.                         *)
LEMMA NodeStep == TypeOK /\ [Next]_vars => NodeTypes'
<1> SUFFICES ASSUME TypeOK, [Next]_vars PROVE NodeTypes'
  OBVIOUS
<1>t. /\ Made \subseteq Speakers /\ nodes \in [Made -> Seq(Gen)]
      /\ stops \in Seq(SUBSET Speakers)
  BY TypeParts DEF NodeTypes
<1>1. ASSUME NEW g, FlushAllAndStop(g) PROVE NodeTypes'
  <2>1. nodes' = nodes /\ stops' = Append(stops, Made)
    BY <1>1 DEF FlushAllAndStop
  <2> QED
    BY <2>1, <1>t DEF NodeTypes, Made
<1>2. ASSUME NEW f \in hand, ScheduleFrame(f) PROVE NodeTypes'
  <2> DEFINE s == f.speaker
             g == f.gen
  <2>1. s \in Speakers /\ g \in Gen
    BY <1>2, TypeParts DEF HandTypes, Frames
  <2>2. Schedule(s, g) /\ stops' = stops
    BY <1>2 DEF ScheduleFrame
  <2> HIDE DEF s, g
  <2>3. nodes' = [t \in Made \cup {s} |->
                   IF t # s THEN nodes[t]
                   ELSE IF s \in Made THEN Append(nodes[s], g) ELSE <<g>>]
    BY <2>2 DEF Schedule
  <2>4. <<g>> \in Seq(Gen) /\ (s \in Made => Append(nodes[s], g) \in Seq(Gen))
    BY <2>1, <1>t
  <2>5. Made' = Made \cup {s}
    BY <2>3 DEF Made
  <2>6. nodes' \in [Made' -> Seq(Gen)]
    BY <2>3, <2>4, <2>5, <1>t
  <2> QED
    BY <2>1, <2>2, <2>5, <2>6, <1>t DEF NodeTypes
<1>3. ASSUME StopNodes PROVE NodeTypes'
  <2>1. /\ stops # <<>> /\ stops' = Tail(stops)
        /\ nodes' = [s \in Made |-> IF s \in Head(stops) THEN <<>> ELSE nodes[s]]
    BY <1>3 DEF StopNodes
  <2>2. Made' = Made
    BY <2>1 DEF Made
  <2>3. <<>> \in Seq(Gen)
    OBVIOUS
  <2>4. nodes' \in [Made -> Seq(Gen)]
    BY <2>1, <2>3, <1>t
  <2> QED
    BY <2>1, <2>2, <2>4, <1>t DEF NodeTypes
<1>4. ASSUME NEW s \in Speakers, Play(s) PROVE NodeTypes'
  <2>1. /\ s \in Made /\ nodes[s] # <<>> /\ stops' = stops
        /\ nodes' = [nodes EXCEPT ![s] = Tail(nodes[s])]
    BY <1>4 DEF Play
  <2>2. Made' = Made /\ Tail(nodes[s]) \in Seq(Gen)
    BY <2>1, <1>t DEF Made
  <2>3. nodes' \in [Made -> Seq(Gen)]
    BY <2>1, <2>2, <1>t
  <2> QED
    BY <2>1, <2>2, <2>3, <1>t DEF NodeTypes
<1>5. ASSUME UNCHANGED <<nodes, stops>> PROVE NodeTypes'
  BY <1>5, <1>t DEF NodeTypes, Made
<1> QED
  BY <1>1, <1>2, <1>3, <1>4, <1>5
  DEF Next, Server, Client, AccumulateUser, TurnComplete, HandleInterrupt, VadSignal,
      VadCheck, SendFrame, ReceiveFrame, ReceiveInterruption, Detect, LocalBargeIn, Skip,
      PlaybackEnds, Reauthenticate, Restart, Tick, vars, server, gate, wires, player,
      detector, client

(* The frame in the hand of the receiving thread.                          *)
LEMMA HandStep == TypeOK /\ [Next]_vars => HandTypes'
<1> SUFFICES ASSUME TypeOK, [Next]_vars PROVE HandTypes'
  OBVIOUS
<1>1. ASSUME ReceiveFrame PROVE HandTypes'
  <2>1. down # <<>> /\ Head(down).type = "frame" /\ hand' \in {{}, {Head(down)}}
    BY <1>1 DEF ReceiveFrame
  <2>2. Head(down) \in Message
    BY <2>1, TypeParts DEF WireTypes
  <2>3. Head(down) \in Frames
    BY <2>1, <2>2 DEF Message, Frames
  <2> QED
    BY <2>1, <2>3 DEF HandTypes
<1>2. ASSUME hand' = {} \/ hand' = hand PROVE HandTypes'
  BY <1>2, TypeParts DEF HandTypes
<1> QED
  BY <1>1, <1>2
  DEF Next, Server, Client, AccumulateUser, TurnComplete, HandleInterrupt, VadSignal,
      VadCheck, SendFrame, ScheduleFrame, ReceiveInterruption, StopNodes, Play, Detect,
      LocalBargeIn, Skip, PlaybackEnds, Reauthenticate, Restart, Tick, FlushAllAndStop,
      vars, server, gate, wires, player, detector, client

(* Every variable stays in its type.                                       *)
THEOREM BargeInTypes == Spec => []TypeOK
<1>1. Init => TypeOK
  <2> SUFFICES ASSUME Init PROVE TypeOK
    OBVIOUS
  <2>1. GateTypes /\ WireTypes /\ CounterTypes /\ DetectorTypes
    BY Constants DEF Init, GateTypes, WireTypes, CounterTypes, DetectorTypes, Gen
  <2>2. FlagTypes
    BY Zenon DEF Init, FlagTypes
  <2>3. Made = {} /\ nodes = [s \in {} |-> <<>>] /\ stops = <<>>
    BY DEF Init, Made
  <2>4. nodes \in [{} -> Seq(Gen)]
    BY <2>3
  <2>5. NodeTypes /\ HandTypes
    BY <2>3, <2>4 DEF NodeTypes, HandTypes, Init
  <2> QED
    BY <2>1, <2>2, <2>5, TypeParts
<1>2. TypeOK /\ [Next]_vars => TypeOK'
  <2>1. (GateTypes /\ FlagTypes /\ WireTypes /\ CounterTypes /\ NodeTypes
           /\ HandTypes /\ DetectorTypes)' => TypeOK'
    BY DEF TypeOK, GateTypes, FlagTypes, WireTypes, CounterTypes, NodeTypes,
           HandTypes, DetectorTypes, Signal, Frames
  <2> QED
    BY <2>1, GateStep, FlagStep, WireStep, CounterStep, NodeStep, HandStep, DetectorStep
<1> QED
  BY <1>1, <1>2, PTL DEF Spec

-----------------------------------------------------------------------------
(* An echo keeps its distance: what the detector sent, is sending or has   *)
(* pending at the gate is so recent that the detector may not fire yet.    *)
DetectorSent(i) == up[i].source = "detector"
NoneSent == \A i \in DOMAIN up : ~DetectorSent(i)
EchoInv ==
  /\ \A i \in DOMAIN up : DetectorSent(i) => cooldown = Cooldown - up[i].age
  /\ \A i, j \in DOMAIN up : DetectorSent(i) /\ DetectorSent(j) => i = j
  /\ window > 0 /\ by = "detector" => cooldown >= window /\ NoneSent
  /\ held # NoGen => /\ cooldown = Cooldown /\ NoneSent
                     /\ ~(window > 0 /\ by = "detector")

(* A signal on its way has not used up the cooldown.                       *)
LEMMA SignalTypes ==
  ASSUME TypeOK
  PROVE  /\ Len(up) \in Nat /\ DOMAIN up = 1 .. Len(up)
         /\ \A i \in DOMAIN up : up[i] \in Signal /\ up[i].age \in 0 .. Jitter
         /\ window \in 0 .. Window /\ cooldown \in 0 .. Cooldown
<1>1. up \in Seq(Signal)
  BY TypeParts DEF WireTypes
<1>2. window \in 0 .. Window /\ cooldown \in 0 .. Cooldown
  BY TypeParts DEF GateTypes, DetectorTypes
<1>3. \A i \in DOMAIN up : up[i] \in Signal
  BY <1>1
<1>4. \A i \in DOMAIN up : up[i].age \in 0 .. Jitter
  BY <1>3 DEF Signal
<1> QED
  BY <1>1, <1>2, <1>3, <1>4

(* The detector fires only when nothing of it is left.                     *)
LEMMA DetectKeeps == TypeOK /\ EchoInv /\ Detect => EchoInv'
<1> SUFFICES ASSUME TypeOK, EchoInv, Detect PROVE EchoInv'
  OBVIOUS
<1>1. /\ cooldown = 0 /\ cooldown' = Cooldown /\ UNCHANGED <<up, window, by>>
  BY DEF Detect, MayFire, server, gate, wires
<1>2. NoneSent
  BY <1>1, SignalTypes, Constants DEF EchoInv, NoneSent
<1>3. ~(window > 0 /\ by = "detector")
  BY <1>1, SignalTypes DEF EchoInv
<1> QED
  BY <1>1, <1>2, <1>3 DEF EchoInv, NoneSent, DetectorSent

(* Handing a signal over to the gate.                                      *)
LEMMA HandleKeeps == TypeOK /\ EchoInv /\ HandleInterrupt => EchoInv'
<1> SUFFICES ASSUME TypeOK, EchoInv, HandleInterrupt PROVE EchoInv'
  OBVIOUS
<1>1. /\ up # <<>> /\ up' = Tail(up) /\ UNCHANGED <<cooldown, held>>
  BY DEF HandleInterrupt, client, detector
<1>2. /\ Len(up) > 0 /\ DOMAIN up' = 1 .. Len(up) - 1
      /\ \A i \in DOMAIN up' : i + 1 \in DOMAIN up /\ up'[i] = up[i + 1]
      /\ 1 \in DOMAIN up /\ Head(up) = up[1]
  <2>1. up \in Seq(Signal)
    BY TypeParts DEF WireTypes
  <2> QED
    BY <1>1, <2>1
<1>3. /\ \A i \in DOMAIN up' : DetectorSent(i)' => DetectorSent(i + 1)
      /\ NoneSent => NoneSent'
      /\ DetectorSent(1) => NoneSent'
  <2>1. \A i \in DOMAIN up' : DetectorSent(i)' => DetectorSent(i + 1)
    BY <1>2 DEF DetectorSent
  <2>2. \A i \in DOMAIN up' : i \in Nat /\ i + 1 # 1
    BY <1>2, SignalTypes
  <2> QED
    BY <1>2, <2>1, <2>2 DEF EchoInv, NoneSent
<1>4. /\ \A i \in DOMAIN up' : DetectorSent(i)' => cooldown' = Cooldown - up'[i].age
      /\ \A i, j \in DOMAIN up' : DetectorSent(i)' /\ DetectorSent(j)' => i = j
  <2>1. \A i \in DOMAIN up' : i \in Nat
    BY <1>2, SignalTypes
  <2> QED
    BY <1>1, <1>2, <1>3, <2>1 DEF EchoInv
<1>5. CASE UNCHANGED <<window, by>>
  BY <1>1, <1>3, <1>4, <1>5 DEF EchoInv
<1>6. CASE Record(Head(up).source)
  <2>1. window' = Window /\ by' = up[1].source
    BY <1>2, <1>6 DEF Record
  <2>2. CASE DetectorSent(1)
    <3>1. cooldown >= Window /\ NoneSent' /\ held = NoGen
      BY <1>2, <1>3, <2>2, SignalTypes, Constants DEF EchoInv, NoneSent
    <3> QED
      BY <1>1, <1>4, <2>1, <3>1 DEF EchoInv
  <2>3. CASE ~DetectorSent(1)
    <3>1. by' # "detector"
      BY <2>1, <2>3 DEF DetectorSent
    <3> QED
      BY <1>1, <1>3, <1>4, <3>1 DEF EchoInv
  <2> QED
    BY <2>2, <2>3
<1>7. CASE UsedUp
  <2>1. by' # "detector"
    BY <1>7 DEF UsedUp
  <2> QED
    BY <1>1, <1>3, <1>4, <2>1 DEF EchoInv
<1> QED
  BY <1>5, <1>6, <1>7 DEF HandleInterrupt

(* A signal of the client sets out.                                        *)
LEMMA SendKeeps == TypeOK /\ EchoInv /\ (LocalBargeIn \/ Skip) => EchoInv'
<1> SUFFICES ASSUME TypeOK, EchoInv, LocalBargeIn \/ Skip PROVE EchoInv'
  OBVIOUS
<1> DEFINE source == IF LocalBargeIn THEN "detector" ELSE "skip"
<1>1. /\ UNCHANGED <<window, by, cooldown>>
      /\ up' = Append(up, Interrupt(source))
      /\ \/ source = "detector" /\ held # NoGen /\ held' = NoGen
         \/ source = "skip" /\ held' = held
  BY DEF LocalBargeIn, Skip, server, gate, client, detector
<1> HIDE DEF source
<1>2. up \in Seq(Signal)
  BY TypeParts DEF WireTypes
<1>3. /\ DOMAIN up' = DOMAIN up \cup {Len(up) + 1}
      /\ \A i \in DOMAIN up : up'[i] = up[i]
      /\ up'[Len(up) + 1] = Interrupt(source)
  BY <1>1, <1>2
<1>4. CASE source = "detector"
  <2>1. /\ cooldown = Cooldown /\ NoneSent /\ ~(window > 0 /\ by = "detector")
    BY <1>1, <1>4 DEF EchoInv
  <2>2. up'[Len(up) + 1].age = 0
    BY <1>3 DEF Interrupt
  <2> QED
    BY <1>1, <1>3, <1>4, <2>1, <2>2, Constants DEF EchoInv, NoneSent, DetectorSent
<1>5. CASE source = "skip"
  <2>1. up'[Len(up) + 1].source # "detector"
    BY <1>3, <1>5 DEF Interrupt
  <2> QED
    BY <1>1, <1>3, <1>5, <2>1 DEF EchoInv, NoneSent, DetectorSent
<1> QED
  BY <1>1, <1>4, <1>5

(* Time passes for the signals, the gate and the detector alike.           *)
LEMMA TickKeeps == TypeOK /\ EchoInv /\ Tick => EchoInv'
<1> SUFFICES ASSUME TypeOK, EchoInv, Tick PROVE EchoInv'
  OBVIOUS
<1>1. /\ held' = NoGen
      /\ \A i \in DOMAIN up : up[i].age < Jitter
      /\ up' = [i \in DOMAIN up |-> [up[i] EXCEPT !.age = @ + 1]]
      /\ window' = Down(window) /\ cooldown' = Down(cooldown)
      /\ by' = IF window <= 1 THEN "none" ELSE by
  BY DEF Tick
<1>2. \A i \in DOMAIN up : up'[i].age = up[i].age + 1 /\ up'[i].source = up[i].source
  BY <1>1, SignalTypes DEF Signal
<1>3. DOMAIN up' = DOMAIN up /\ \A i \in DOMAIN up : DetectorSent(i)' <=> DetectorSent(i)
  BY <1>1, <1>2 DEF DetectorSent
<1>4. ASSUME NEW i \in DOMAIN up, DetectorSent(i)
      PROVE  cooldown' = Cooldown - up'[i].age
  <2>1. cooldown = Cooldown - up[i].age /\ up[i].age < Jitter
    BY <1>1, <1>4 DEF EchoInv
  <2>2. up[i].age \in 0 .. Jitter
    BY SignalTypes
  <2> QED
    BY <1>1, <1>2, <2>1, <2>2, Constants DEF Down
<1>5. window' > 0 /\ by' = "detector" =>
        window > 0 /\ by = "detector" /\ window' = window - 1 /\ cooldown' >= window'
  BY <1>1, SignalTypes, Constants DEF Down, EchoInv
<1> QED
  BY <1>1, <1>3, <1>4, <1>5 DEF EchoInv, NoneSent

(* The inductive invariant.                                                *)
LEMMA EchoStep == TypeOK /\ EchoInv /\ [Next]_vars => EchoInv'
<1> SUFFICES ASSUME TypeOK, EchoInv, [Next]_vars PROVE EchoInv'
  OBVIOUS
<1>1. CASE Reauthenticate \/ Restart
  <2>1. up' = <<>> /\ window' = 0 /\ UNCHANGED <<held, cooldown>>
    BY <1>1 DEF Reauthenticate, Restart, NewSession, detector
  <2>2. DOMAIN up' = {}
    BY <2>1
  <2> QED
    BY <2>1, <2>2 DEF EchoInv, NoneSent
<1>2. CASE VadCheck
  <2>1. UNCHANGED <<up, held, cooldown>> /\ by' # "detector"
    BY <1>2 DEF VadCheck, Record, UsedUp, client, detector
  <2> QED
    BY <2>1 DEF EchoInv, NoneSent, DetectorSent
<1>3. CASE UNCHANGED <<up, window, by, held, cooldown>>
  BY <1>3 DEF EchoInv, NoneSent, DetectorSent
<1> QED
  BY <1>1, <1>2, <1>3, DetectKeeps, HandleKeeps, SendKeeps, TickKeeps
  DEF Next, Server, Client, AccumulateUser, TurnComplete, VadSignal, SendFrame,
      ReceiveFrame, ScheduleFrame, ReceiveInterruption, StopNodes, Play, PlaybackEnds, vars, server,
      gate, wires, player, detector, client

(* The detector alone never cancels (handler.py:277): its cooldown is      *)
(* longer than the window of the gate and the way of a signal together.    *)
THEOREM EchoNeverCancels == Spec => EchoAloneNeverCancels
<1>1. Init => EchoInv
  BY DEF Init, EchoInv, NoneSent
<1>2. TypeOK /\ EchoInv /\ [Next]_vars
        => [issued' > issued => by # "detector" \/ Head(up).source # "detector"]_vars
  <2> SUFFICES ASSUME TypeOK, EchoInv, Next, issued' > issued, by = "detector"
               PROVE  Head(up).source # "detector"
    OBVIOUS
  <2>1. issued \in Nat
    BY TypeParts DEF CounterTypes
  <2>2. HandleInterrupt /\ Pending /\ up # <<>>
    BY <2>1
    DEF Next, Server, Client, AccumulateUser, TurnComplete, HandleInterrupt, VadSignal,
        VadCheck, SendFrame, ReceiveFrame, ScheduleFrame, ReceiveInterruption, StopNodes, Play, Detect,
        LocalBargeIn, Skip, PlaybackEnds, Reauthenticate, Restart, NewSession, Tick,
        server, gate, wires, player, detector, client
  <2>3. up \in Seq(Signal)
    BY TypeParts DEF WireTypes
  <2>4. 1 \in DOMAIN up /\ Head(up) = up[1]
    BY <2>2, <2>3
  <2>5. NoneSent
    BY <2>2 DEF EchoInv, Pending
  <2> QED
    BY <2>4, <2>5 DEF NoneSent, DetectorSent
<1> QED
  BY <1>1, <1>2, BargeInTypes, EchoStep, PTL DEF Spec, EchoAloneNeverCancels

-----------------------------------------------------------------------------
(* HasAfter for any messages d and any generation c at the client.         *)
Has(d, c, n, g) ==
  \/ g = c /\ \A i \in 1 .. n : d[i].type # "interruption"
  \/ \E i \in 1 .. n :
       /\ d[i].type = "interruption" /\ g = d[i].gen
       /\ \A j \in i + 1 .. n : d[j].type # "interruption"

(* A new message changes nothing about the messages before it; a frame     *)
(* changes nothing at all, and an announcement is the last word.           *)
LEMMA AppendHas ==
  ASSUME NEW d \in Seq(Message), NEW m \in Message, NEW c, NEW g
  PROVE  /\ \A n \in 0 .. Len(d) : Has(d, c, n, g) => Has(Append(d, m), c, n, g)
         /\ m.type # "interruption" /\ Has(d, c, Len(d), g)
              => Has(Append(d, m), c, Len(d) + 1, g)
         /\ m.type = "interruption" => Has(Append(d, m), c, Len(d) + 1, m.gen)
<1> DEFINE e == Append(d, m)
<1>1. /\ Len(d) \in Nat /\ \A i \in 1 .. Len(d) : e[i] = d[i]
      /\ e[Len(d) + 1] = m
  OBVIOUS
<1> HIDE DEF e
<1>2. ASSUME NEW n \in 0 .. Len(d), Has(d, c, n, g) PROVE Has(e, c, n, g)
  <2>1. \A i \in 1 .. n : e[i] = d[i]
    BY <1>1
  <2> QED
    BY <1>1, <1>2, <2>1 DEF Has
<1>3. ASSUME m.type # "interruption", Has(d, c, Len(d), g)
      PROVE  Has(e, c, Len(d) + 1, g)
  <2>1. \A i \in 1 .. Len(d) + 1 : e[i] = IF i = Len(d) + 1 THEN m ELSE d[i]
    BY <1>1
  <2>2. CASE g = c /\ \A i \in 1 .. Len(d) : d[i].type # "interruption"
    BY <1>1, <1>3, <2>1, <2>2 DEF Has
  <2>3. CASE \E i \in 1 .. Len(d) :
               /\ d[i].type = "interruption" /\ g = d[i].gen
               /\ \A j \in i + 1 .. Len(d) : d[j].type # "interruption"
    <3>1. PICK i \in 1 .. Len(d) :
               /\ d[i].type = "interruption" /\ g = d[i].gen
               /\ \A j \in i + 1 .. Len(d) : d[j].type # "interruption"
      BY <2>3
    <3>2. e[i].type = "interruption" /\ g = e[i].gen
      BY <1>1, <3>1
    <3>3. \A j \in i + 1 .. Len(d) + 1 : e[j].type # "interruption"
      BY <1>1, <1>3, <2>1, <3>1
    <3>4. i \in 1 .. Len(d) + 1
      BY <1>1
    <3> QED
      BY <3>2, <3>3, <3>4 DEF Has
  <2> QED
    BY <1>3, <2>2, <2>3 DEF Has
<1>4. ASSUME m.type = "interruption" PROVE Has(e, c, Len(d) + 1, m.gen)
  <2>1. Len(d) + 1 \in 1 .. Len(d) + 1
    BY <1>1
  <2>2. \A j \in (Len(d) + 1) + 1 .. Len(d) + 1 : FALSE
    BY <1>1
  <2> QED
    BY <1>1, <1>4, <2>1, <2>2 DEF Has
<1> QED
  BY <1>2, <1>3, <1>4 DEF e

(* Reading the first message leaves the last word of the others as it was, *)
(* if an announcement is adopted.                                          *)
LEMMA TailHas ==
  ASSUME NEW d \in Seq(Message), d # <<>>, NEW c, NEW g,
         NEW n \in 0 .. Len(d) - 1, Has(d, c, n + 1, g)
  PROVE  Has(Tail(d), IF Head(d).type = "interruption" THEN Head(d).gen ELSE c, n, g)
<1> DEFINE e == Tail(d)
           b == IF Head(d).type = "interruption" THEN Head(d).gen ELSE c
<1>1. /\ Len(d) \in Nat /\ Len(d) > 0 /\ Head(d) = d[1] /\ n \in Nat
      /\ \A i \in 1 .. n : e[i] = d[i + 1]
  OBVIOUS
<1>2. /\ d[1].type = "interruption" => b = d[1].gen
      /\ d[1].type # "interruption" => b = c
  BY <1>1
<1> HIDE DEF e, b
<1>3. CASE g = c /\ \A i \in 1 .. n + 1 : d[i].type # "interruption"
  <2>1. g = b
    BY <1>1, <1>2, <1>3
  <2>2. \A i \in 1 .. n : e[i].type # "interruption"
    BY <1>1, <1>3
  <2> QED
    BY <2>1, <2>2 DEF Has, e, b
<1>4. CASE \E i \in 1 .. n + 1 :
             /\ d[i].type = "interruption" /\ g = d[i].gen
             /\ \A j \in i + 1 .. n + 1 : d[j].type # "interruption"
  <2>1. PICK i \in 1 .. n + 1 :
             /\ d[i].type = "interruption" /\ g = d[i].gen
             /\ \A j \in i + 1 .. n + 1 : d[j].type # "interruption"
    BY <1>4
  <2>2. CASE i = 1
    <3>1. g = b
      BY <1>2, <2>1, <2>2
    <3>2. \A k \in 1 .. n : e[k].type # "interruption"
      BY <1>1, <2>1, <2>2
    <3> QED
      BY <3>1, <3>2 DEF Has, e, b
  <2>3. CASE i # 1
    <3>1. i - 1 \in 1 .. n /\ e[i - 1] = d[i]
      BY <1>1, <2>1, <2>3
    <3>2. ASSUME NEW k \in (i - 1) + 1 .. n PROVE e[k].type # "interruption"
      <4>1. k \in 1 .. n /\ k + 1 \in i + 1 .. n + 1
        BY <1>1, <2>1, <3>1
      <4> QED
        BY <1>1, <2>1, <4>1
    <3> QED
      BY <2>1, <3>1, <3>2 DEF Has, e, b
  <2> QED
    BY <2>2, <2>3
<1> QED
  BY <1>3, <1>4 DEF Has

(* HasAfter is Has of the messages on their way and of the client.         *)
LEMMA HasNow ==
  ASSUME NEW n, NEW g
  PROVE  HasAfter(n, g) <=> Has(down, current, n, g)
  BY DEF HasAfter, Has, Announced

(* The same in the next state.                                             *)
LEMMA HasNext ==
  ASSUME NEW n, NEW g
  PROVE  HasAfter(n, g)' <=> Has(down', current', n, g)
  BY DEF HasAfter, Has, Announced

(* The ways a step can treat the messages to the client.                   *)
Kept ==
  /\ down' = down /\ current' = current
  /\ gen' = gen /\ issued' = issued /\ sessions' = sessions
Sent ==
  /\ \E s \in Speakers, k \in 0 .. MaxAge : down' = Append(down, Frame(s, Older(k)))
  /\ current' = current
  /\ gen' = gen /\ issued' = issued /\ sessions' = sessions
Told ==
  /\ down' = Append(down, Interruption(gen'))
  /\ current' = current /\ sessions' = sessions
Read ==
  /\ down # <<>> /\ down' = Tail(down)
  /\ current' = IF Head(down).type = "interruption" THEN Head(down).gen ELSE current
  /\ gen' = gen /\ issued' = issued /\ sessions' = sessions
Fresh == issued' = 0 /\ sessions' # 1

(* Every step treats them in one of these ways.                            *)
LEMMA DownStep == TypeOK /\ [Next]_vars => Kept \/ Sent \/ Told \/ Read \/ Fresh
<1> SUFFICES ASSUME TypeOK, [Next]_vars PROVE Kept \/ Sent \/ Told \/ Read \/ Fresh
  OBVIOUS
<1>1. CASE HandleInterrupt
  BY <1>1 DEF HandleInterrupt, client, Announce, Kept, Told
<1>2. CASE VadCheck
  BY <1>2 DEF VadCheck, client, Announce, Kept, Told
<1>3. CASE AccumulateUser \/ TurnComplete \/ VadSignal
  BY <1>3 DEF AccumulateUser, TurnComplete, VadSignal, client, wires, Kept
<1>4. CASE \E s \in Speakers, k \in 0 .. MaxAge : SendFrame(s, k)
  BY <1>4 DEF SendFrame, server, client, Sent
<1>5. CASE ReceiveFrame
  BY <1>5 DEF ReceiveFrame, server, Read
<1>6. CASE ReceiveInterruption
  BY <1>6 DEF ReceiveInterruption, server, Read
<1>7. CASE StopNodes \/ (\E s \in Speakers : Play(s)) \/ (\E f \in hand : ScheduleFrame(f)) \/ Detect
  BY <1>7 DEF StopNodes, Play, ScheduleFrame, Detect, server, wires, Kept
<1>8. CASE LocalBargeIn \/ Skip \/ PlaybackEnds
  BY <1>8 DEF LocalBargeIn, Skip, PlaybackEnds, server, client, wires, Kept
<1>9. CASE Reauthenticate \/ Restart
  BY <1>9 DEF Reauthenticate, Restart, NewSession, Fresh, TypeOK
<1>10. CASE Tick
  BY <1>10 DEF Tick, Kept
<1>11. CASE UNCHANGED vars
  BY <1>11 DEF vars, Kept
<1> QED
  BY <1>1, <1>2, <1>3, <1>4, <1>5, <1>6, <1>7, <1>8, <1>9, <1>10, <1>11
     DEF Next, Server, Client

(* What is sent is a message.                                              *)
LEMMA MessageTypes ==
  TypeOK => /\ \A g \in Gen : Interruption(g) \in Message
            /\ \A s \in Speakers, k \in 0 .. MaxAge :
                 /\ Frame(s, Older(k)) \in Message
                 /\ Frame(s, Older(k)).type # "interruption"
                 /\ Age(Frame(s, Older(k)).gen, gen) <= MaxAge
<1> SUFFICES ASSUME TypeOK
             PROVE  /\ \A g \in Gen : Interruption(g) \in Message
                    /\ \A s \in Speakers, k \in 0 .. MaxAge :
                         /\ Frame(s, Older(k)) \in Message
                         /\ Frame(s, Older(k)).type # "interruption"
                         /\ Age(Frame(s, Older(k)).gen, gen) <= MaxAge
  OBVIOUS
<1>1. gen \in Gen
  BY DEF TypeOK
<1>2. \A k \in 0 .. MaxAge : Older(k) \in Gen /\ Age(Older(k), gen) = k
  BY <1>1, GenArith
<1>3. ASSUME NEW s \in Speakers, NEW k \in 0 .. MaxAge
      PROVE  /\ Frame(s, Older(k)) \in Message
             /\ Frame(s, Older(k)).type # "interruption"
             /\ Frame(s, Older(k)).gen = Older(k)
  BY <1>2 DEF Frame, Message
<1>4. \A g \in Gen : Interruption(g) \in Message
  BY DEF Interruption, Message
<1> QED
  BY <1>2, <1>3, <1>4, Constants

(* When all messages have arrived the client has the generation of the     *)
(* server.                                                                 *)
LEMMA AgreeStep == TypeOK /\ TypeOK' /\ GenerationsAgree /\ [Next]_vars => GenerationsAgree'
<1> SUFFICES ASSUME TypeOK, TypeOK', GenerationsAgree, [Next]_vars,
                    (issued > 0 \/ sessions = 1)'
             PROVE  Has(down', current', Len(down'), gen')
  BY HasNext DEF GenerationsAgree
<1>1. down \in Seq(Message) /\ gen \in Gen /\ gen' \in Gen
  BY DEF TypeOK, Message
<1>2. ASSUME issued > 0 \/ sessions = 1 PROVE Has(down, current, Len(down), gen)
  BY <1>2, HasNow DEF GenerationsAgree
<1>3. CASE Kept
  BY <1>2, <1>3 DEF Kept
<1>4. CASE Sent
  <2>1. PICK s \in Speakers, k \in 0 .. MaxAge : down' = Append(down, Frame(s, Older(k)))
    BY <1>4 DEF Sent
  <2> DEFINE m == Frame(s, Older(k))
  <2>2. m \in Message /\ m.type # "interruption"
    BY MessageTypes
  <2> HIDE DEF m
  <2>3. Has(Append(down, m), current, Len(down) + 1, gen)
    BY <1>1, <1>2, <1>4, <2>2, AppendHas DEF Sent
  <2>4. down' = Append(down, m) /\ Len(down') = Len(down) + 1
    BY <1>1, <2>1, <2>2 DEF m
  <2> QED
    BY <1>4, <2>3, <2>4 DEF Sent
<1>5. CASE Told
  <2> DEFINE m == Interruption(gen')
  <2>1. m \in Message /\ m.type = "interruption" /\ m.gen = gen'
    BY <1>1, MessageTypes DEF Interruption
  <2>2. down' = Append(down, m) /\ current' = current
    BY <1>5 DEF Told
  <2> HIDE DEF m
  <2>3. Has(Append(down, m), current, Len(down) + 1, gen')
    BY <1>1, <2>1, AppendHas
  <2>4. Len(down') = Len(down) + 1
    BY <1>1, <2>1, <2>2
  <2> QED
    BY <2>2, <2>3, <2>4
<1>6. CASE Read
  <2>1. Has(down, current, Len(down), gen) /\ down # <<>> /\ Len(down) > 0
        /\ Len(down) \in Nat /\ Len(down') = Len(down) - 1
    BY <1>1, <1>2, <1>6 DEF Read
  <2> DEFINE n == Len(down) - 1
  <2>2. n \in 0 .. Len(down) - 1 /\ n + 1 = Len(down) /\ Len(down') = n
    BY <2>1
  <2> HIDE DEF n
  <2>3. Has(down, current, n + 1, gen)
    BY <2>1, <2>2
  <2>4. Has(down', current', n, gen)
    BY <1>1, <1>6, <2>1, <2>2, <2>3, TailHas DEF Read
  <2> QED
    BY <1>6, <2>2, <2>4 DEF Read
<1>7. CASE Fresh
  BY <1>7 DEF Fresh
<1> QED
  BY <1>3, <1>4, <1>5, <1>6, <1>7, DownStep

(* GenerationsAgree: the client adopts the generation of the server,       *)
(* whatever the interleaving of frames and announcements.                  *)
THEOREM GenerationsAgreed == Spec => []GenerationsAgree
<1>1. Init => GenerationsAgree
  BY DEF Init, GenerationsAgree, HasAfter, Announced
<1>2. GenerationsAgree /\ UNCHANGED vars => GenerationsAgree'
  BY DEF GenerationsAgree, HasAfter, Announced, vars
<1> QED
  BY <1>1, <1>2, BargeInTypes, AgreeStep, PTL DEF Spec

(* A frame is followed by no generation that it does not know.             *)
LEMMA OrderStep ==
  TypeOK /\ TypeOK' /\ GenerationsAgree /\ NothingFromTheFuture /\ [Next]_vars
    => NothingFromTheFuture'
<1> SUFFICES ASSUME TypeOK, TypeOK', GenerationsAgree, NothingFromTheFuture, [Next]_vars,
                    sessions' = 1,
                    NEW i \in DOMAIN down', down'[i].type # "interruption"
             PROVE  \E g \in Gen : /\ Has(down', current', i, g)
                                   /\ Age(down'[i].gen, g) <= MaxAge
  BY HasNext DEF NothingFromTheFuture, Announced
<1> DEFINE Known(j) == \E g \in Gen : /\ Has(down, current, j, g)
                                      /\ Age(down[j].gen, g) <= MaxAge
<1>1. down \in Seq(Message) /\ gen \in Gen /\ Len(down) \in Nat
      /\ DOMAIN down = 1 .. Len(down)
  BY DEF TypeOK, Message
<1>2. ASSUME NEW j \in 1 .. Len(down), down[j].type # "interruption", sessions = 1
      PROVE  Known(j)
  BY <1>1, <1>2, HasNow DEF NothingFromTheFuture, Announced
<1>3. CASE Kept
  BY <1>1, <1>2, <1>3 DEF Kept
<1>4. ASSUME NEW m \in Message, down' = Append(down, m), i # Len(down) + 1,
             current' = current, sessions = 1
      PROVE  \E g \in Gen : Has(down', current', i, g) /\ Age(down'[i].gen, g) <= MaxAge
  <2>1. /\ i \in 1 .. Len(down) /\ i \in 0 .. Len(down)
        /\ down'[i] = down[i] /\ down[i].type # "interruption"
    BY <1>1, <1>4
  <2>2. PICK g \in Gen : Has(down, current, i, g) /\ Age(down[i].gen, g) <= MaxAge
    BY <1>2, <1>4, <2>1
  <2>3. Has(Append(down, m), current, i, g)
    BY <1>1, <2>1, <2>2, AppendHas
  <2> QED
    BY <1>4, <2>1, <2>2, <2>3
<1>5. CASE Sent
  <2>1. PICK s \in Speakers, k \in 0 .. MaxAge : down' = Append(down, Frame(s, Older(k)))
    BY <1>5 DEF Sent
  <2> DEFINE m == Frame(s, Older(k))
  <2>2. m \in Message /\ m.type # "interruption" /\ Age(m.gen, gen) <= MaxAge
    BY MessageTypes
  <2>3. down' = Append(down, m)
    BY <2>1
  <2> HIDE DEF m
  <2>4. sessions = 1 /\ current' = current
    BY <1>5 DEF Sent
  <2>5. CASE i = Len(down) + 1
    <3>1. Has(down, current, Len(down), gen)
      BY <2>4, HasNow DEF GenerationsAgree
    <3>2. Has(Append(down, m), current, Len(down) + 1, gen)
      BY <1>1, <2>2, <3>1, AppendHas
    <3>3. down'[i] = m
      BY <1>1, <2>2, <2>3, <2>5
    <3> QED
      BY <1>1, <2>2, <2>3, <2>4, <2>5, <3>2, <3>3
  <2> QED
    BY <1>4, <2>2, <2>3, <2>4, <2>5
<1>6. CASE Told
  <2> DEFINE m == Interruption(gen')
  <2>1. down' = Append(down, m) /\ current' = current /\ sessions = 1
    BY <1>6 DEF Told
  <2>2. m.type = "interruption" /\ m \in Message
    BY MessageTypes DEF Interruption, TypeOK
  <2> HIDE DEF m
  <2>3. i # Len(down) + 1
    BY <1>1, <2>1, <2>2
  <2> QED
    BY <1>4, <2>1, <2>2, <2>3
<1>7. CASE Read
  <2>1. down # <<>> /\ down' = Tail(down) /\ sessions = 1
        /\ current' = IF Head(down).type = "interruption" THEN Head(down).gen ELSE current
    BY <1>7 DEF Read
  <2>2. /\ i \in 0 .. Len(down) - 1 /\ i + 1 \in 1 .. Len(down)
        /\ down'[i] = down[i + 1]
    BY <1>1, <2>1
  <2>3. PICK g \in Gen : Has(down, current, i + 1, g) /\ Age(down[i + 1].gen, g) <= MaxAge
    BY <1>2, <2>1, <2>2
  <2>4. Has(down', current', i, g)
    BY <1>1, <2>1, <2>2, <2>3, TailHas
  <2> QED
    BY <2>2, <2>3, <2>4
<1>8. CASE Fresh
  BY <1>8 DEF Fresh
<1> QED
  BY <1>3, <1>5, <1>6, <1>7, <1>8, DownStep

(* NothingFromTheFuture: a frame reaches the client after the announcement *)
(* of its generation, and at most MaxAge announcements late.               *)
THEOREM FramesInOrder == Spec => []NothingFromTheFuture
<1>1. Init => NothingFromTheFuture
  BY DEF Init, NothingFromTheFuture
<1> QED
  BY <1>1, BargeInTypes, GenerationsAgreed, OrderStep, PTL DEF Spec

(* The frame that arrives next is discarded exactly when it is from before *)
(* the announcement the client has read last, as long as the engine has    *)
(* the generation of the client.                                           *)
FilterExact ==
  sessions = 1 /\ engine = current /\ down # <<>> /\ ~Announced(1)
    => (Discards(down[1].gen) <=> down[1].gen # current)

(* FilterExact: a byte that wraps is enough to tell old frames from        *)
(* current ones (isStale, AudioFrameHeader.swift:75; receiveAudioFrame,    *)
(* AudioPlaybackEngine.swift:111-116).                                     *)
THEOREM OldFramesAreTold == Spec => []FilterExact
<1>1. TypeOK /\ NothingFromTheFuture => FilterExact
  <2> SUFFICES ASSUME TypeOK, NothingFromTheFuture, sessions = 1, engine = current,
                      down # <<>>, ~Announced(1)
               PROVE  Discards(down[1].gen) <=> down[1].gen # current
    BY DEF FilterExact
  <2>1. 1 \in DOMAIN down /\ down[1] \in Message /\ current \in Gen
    BY TypeParts DEF WireTypes, CounterTypes
  <2>2. down[1].gen \in Gen
    BY <2>1 DEF Message
  <2>3. Age(down[1].gen, current) <= MaxAge
    <3>1. PICK g \in Gen : HasAfter(1, g) /\ Age(down[1].gen, g) <= MaxAge
      BY <2>1 DEF NothingFromTheFuture
    <3>2. g = current
      BY <3>1 DEF HasAfter
    <3> QED BY <3>1, <3>2
  <2>4. Age(down[1].gen, current) = 0 <=> down[1].gen = current
    BY <2>1, <2>2, Constants DEF Age, Gen
  <2>5. Age(down[1].gen, current) \in Nat
    BY <2>1, <2>2, Constants DEF Age, Gen
  <2> HIDE DEF Age
  <2> QED BY <2>3, <2>4, <2>5, Constants DEF Discards, IsStale
<1> QED BY <1>1, BargeInTypes, FramesInOrder, PTL

-----------------------------------------------------------------------------
(* OneLateBuffer, with the bounds of its variables in Late.                *)
LateApart ==
  /\ \A s, r, i, k : Late(s, i) /\ Late(r, k) => s = r /\ i = k
  /\ \A s, i : Late(s, i) => \A f \in hand : ~Discards(f.gen)

LEMMA LateForms == OneLateBuffer <=> LateApart
  BY DEF OneLateBuffer, LateApart, Late

(* The same in the next state.                                             *)
LEMMA LateFormsNext == LateApart' => OneLateBuffer'
  BY DEF OneLateBuffer, LateApart, Late

(* A flush leaves none, a stop or a buffer played adds none; and when the  *)
(* frame in hand has become one, there was none before.                    *)
LEMMA LateStep == TypeOK /\ OneLateBuffer /\ [Next]_vars => OneLateBuffer'
<1> SUFFICES ASSUME TypeOK, LateApart, [Next]_vars PROVE LateApart'
  BY LateForms, LateFormsNext
<1>1. /\ nodes \in [Made -> Seq(Gen)] /\ stops \in Seq(SUBSET Speakers)
      /\ Made \subseteq Speakers
      /\ hand \subseteq Frames /\ \A f, h \in hand : f = h
  BY TypeParts DEF NodeTypes, HandTypes
<1>2. ASSUME UNCHANGED player PROVE LateApart'
  BY <1>2 DEF LateApart, Late, Discards, Made, player
<1>3. ASSUME NEW g, FlushAllAndStop(g) PROVE LateApart'
  <2>1. nodes' = nodes /\ stops' = Append(stops, Made)
    BY <1>3 DEF FlushAllAndStop
  <2>2. Len(stops) + 1 \in DOMAIN stops' /\ stops'[Len(stops) + 1] = Made
    BY <1>1, <2>1
  <2>3. Made' = Made
    BY <2>1 DEF Made
  <2>4. \A s, i : ~Late(s, i)'
    BY <2>2, <2>3 DEF Late
  <2> QED
    BY <2>4 DEF LateApart
<1>4. CASE ReceiveFrame
  <2>1. /\ UNCHANGED <<engine, nodes, stops>>
        /\ \A f \in hand' : ~Discards(f.gen)
    BY <1>4 DEF ReceiveFrame
  <2>2. \A s, i : Late(s, i)' <=> Late(s, i)
    BY <2>1 DEF Late, Discards, Made
  <2>3. \A f \in hand' : ~Discards(f.gen)'
    BY <2>1 DEF Discards
  <2> QED
    BY <2>2, <2>3 DEF LateApart
<1>5. ASSUME NEW f \in hand, ScheduleFrame(f) PROVE LateApart'
  <2>1. UNCHANGED <<engine, stops>> /\ hand' = {} /\ Schedule(f.speaker, f.gen)
    BY <1>5 DEF ScheduleFrame
  <2> DEFINE p == f.speaker
             g == f.gen
             last == IF p \in Made THEN Len(nodes[p]) + 1 ELSE 1
  <2>2. Made' = Made \cup {p}
    BY <2>1 DEF Schedule, Made
  <2>3. g \in Gen
    BY <1>1 DEF Frames
  <2>4. ASSUME NEW s, NEW i, Late(s, i)'
        PROVE  Late(s, i) \/ (s = p /\ i = last /\ Discards(g))
    <3>1. /\ s \in Made' /\ i \in DOMAIN nodes'[s] /\ Discards(nodes'[s][i])
          /\ \A j \in DOMAIN stops : s \notin stops[j]
      BY <2>1, <2>4 DEF Late, Discards
    <3>2. CASE s # p
      <4>1. s \in Made /\ nodes'[s] = nodes[s]
        BY <2>1, <2>2, <3>1, <3>2 DEF Schedule
      <4> QED
        BY <3>1, <4>1 DEF Late
    <3>3. CASE s = p /\ s \in Made
      <4>1. nodes'[s] = Append(nodes[s], g) /\ nodes[s] \in Seq(Gen)
        BY <1>1, <2>1, <3>3 DEF Schedule
      <4>2. \/ i = Len(nodes[s]) + 1 /\ nodes'[s][i] = g
            \/ i \in DOMAIN nodes[s] /\ nodes'[s][i] = nodes[s][i]
        BY <2>3, <3>1, <4>1
      <4> QED
        BY <3>1, <3>3, <4>2 DEF Late
    <3>4. CASE s = p /\ s \notin Made
      <4>1. nodes'[s] = <<g>>
        BY <2>1, <3>4 DEF Schedule
      <4> QED
        BY <3>1, <3>4, <4>1
    <3> QED
      BY <3>2, <3>3, <3>4
  <2> HIDE DEF p, last
  <2>5. Discards(g) => \A s, i : ~Late(s, i)
    BY DEF LateApart
  <2> HIDE DEF g
  <2> QED
    BY <2>1, <2>4, <2>5 DEF LateApart
<1>6. CASE StopNodes
  <2>1. /\ stops # <<>> /\ stops' = Tail(stops) /\ UNCHANGED <<engine, hand>>
        /\ nodes' = [s \in Made |-> IF s \in Head(stops) THEN <<>> ELSE nodes[s]]
    BY <1>6 DEF StopNodes
  <2>2. ASSUME NEW s, NEW i, Late(s, i)' PROVE Late(s, i)
    <3>1. /\ s \in Made' /\ i \in DOMAIN nodes'[s] /\ Discards(nodes'[s][i])
          /\ \A j \in DOMAIN stops' : s \notin stops'[j]
      BY <2>1, <2>2 DEF Late, Discards
    <3>2. s \in Made /\ s \notin Head(stops) /\ nodes'[s] = nodes[s]
      BY <2>1, <3>1 DEF Made
    <3>3. ASSUME NEW j \in DOMAIN stops PROVE s \notin stops[j]
      <4>1. j = 1 \/ (j - 1 \in DOMAIN stops' /\ stops'[j - 1] = stops[j])
        BY <1>1, <2>1
      <4> QED
        BY <1>1, <2>1, <3>1, <3>2, <4>1
    <3> QED
      BY <3>1, <3>2, <3>3 DEF Late
  <2> QED
    BY <2>1, <2>2 DEF LateApart, Discards
<1>7. ASSUME NEW p \in Speakers, Play(p) PROVE LateApart'
  <2>1. /\ p \in Made /\ nodes[p] # <<>> /\ UNCHANGED <<engine, hand, stops>>
        /\ nodes' = [nodes EXCEPT ![p] = Tail(nodes[p])] /\ nodes[p] \in Seq(Gen)
    BY <1>1, <1>7 DEF Play
  <2>2. ASSUME NEW s, NEW i, Late(s, i)'
        PROVE  /\ s # p => Late(s, i)
               /\ s = p => Late(s, i + 1) /\ i \in Nat
    <3>1. /\ s \in Made /\ i \in DOMAIN nodes'[s] /\ Discards(nodes'[s][i])
          /\ \A j \in DOMAIN stops : s \notin stops[j]
      BY <1>1, <2>1, <2>2 DEF Late, Discards, Made
    <3>2. ASSUME s # p PROVE Late(s, i)
      <4>1. nodes'[s] = nodes[s]
        BY <1>1, <2>1, <3>1, <3>2
      <4> QED
        BY <3>1, <4>1 DEF Late
    <3>3. ASSUME s = p PROVE Late(s, i + 1) /\ i \in Nat
      <4> DEFINE q == nodes[s]
      <4>1. q \in Seq(Gen) /\ q # <<>> /\ nodes'[s] = Tail(q)
        BY <1>1, <2>1, <3>1, <3>3
      <4>2. i \in DOMAIN Tail(q) /\ Discards(Tail(q)[i])
        BY <3>1, <4>1
      <4> HIDE DEF q
      <4>3. i \in Nat /\ i + 1 \in DOMAIN q /\ Tail(q)[i] = q[i + 1]
        BY <4>1, <4>2
      <4> QED
        BY <3>1, <4>2, <4>3 DEF Late, q
    <3> QED
      BY <3>2, <3>3
  <2>3. ASSUME NEW s, NEW i, NEW r, NEW k, Late(s, i)', Late(r, k)'
        PROVE  s = r /\ i = k
    <3>1. s = r
      BY <2>2, <2>3 DEF LateApart
    <3>2. CASE s = p
      <4>1. i \in Nat /\ k \in Nat /\ i + 1 = k + 1
        BY <2>2, <2>3, <3>1, <3>2 DEF LateApart
      <4> QED
        BY <3>1, <4>1
    <3>3. CASE s # p
      BY <2>2, <2>3, <3>1, <3>3 DEF LateApart
    <3> QED
      BY <3>2, <3>3
  <2>4. ASSUME NEW s, NEW i, Late(s, i)' PROVE \A f \in hand : ~Discards(f.gen)
    BY <2>2, <2>4 DEF LateApart
  <2> QED
    BY <2>1, <2>3, <2>4 DEF LateApart, Discards
<1>8. CASE ReceiveInterruption
  BY <1>3, <1>8 DEF ReceiveInterruption
<1>9. CASE LocalBargeIn
  BY <1>3, <1>9 DEF LocalBargeIn
<1>10. CASE Restart
  BY <1>3, <1>10 DEF Restart
<1>11. CASE Server
  BY <1>2, <1>11 DEF Server, AccumulateUser, TurnComplete, HandleInterrupt, VadSignal,
                     VadCheck, SendFrame, client
<1>12. CASE Detect \/ Skip \/ PlaybackEnds \/ Reauthenticate \/ Tick \/ UNCHANGED vars
  BY <1>2, <1>12 DEF Detect, Skip, PlaybackEnds, Reauthenticate, Tick, client, vars, player
<1> QED
  BY <1>4, <1>5, <1>6, <1>7, <1>8, <1>9, <1>10, <1>11, <1>12 DEF Next, Client

(* OneLateBuffer: of what the engine has left behind, one buffer at most   *)
(* escapes the stops, the one that the receiving thread had let through    *)
(* (AudioPlaybackEngine.swift:113, :148).                                  *)
THEOREM OneLateBufferOnly == Spec => []OneLateBuffer
<1>1. Init => OneLateBuffer
  BY DEF Init, OneLateBuffer, Made
<1> QED
  BY <1>1, BargeInTypes, LateStep, PTL DEF Spec

=============================================================================
