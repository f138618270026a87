-------------------------- MODULE TranscriptsProofs --------------------------
(***************************************************************************)
(* The lines and agent texts the user sees and the history the agents are  *)
(* told, for every number of texts, barge-ins and sessions and every       *)
(* length of the queues.                                                   *)
(***************************************************************************)
EXTENDS Transcripts, SequenceTheorems, TLAPS

-----------------------------------------------------------------------------
(* Sequences, as far as they are needed.                                   *)

LEMMA AppendElements ==
  ASSUME NEW T, NEW q \in Seq(T), NEW x \in T
  PROVE  /\ Append(q, x) \in Seq(T) /\ Len(Append(q, x)) = Len(q) + 1
         /\ \A i \in DOMAIN q : Append(q, x)[i] = q[i]
         /\ Append(q, x)[Len(q) + 1] = x
  BY AppendProperties

LEMMA RemoveElements ==
  ASSUME NEW T, NEW q \in Seq(T), NEW i \in DOMAIN q
  PROVE  /\ RemoveAt(q, i) \in Seq(T) /\ Len(RemoveAt(q, i)) = Len(q) - 1
         /\ \A j \in 1 .. Len(q) - 1 :
              RemoveAt(q, i)[j] = IF j < i THEN q[j] ELSE q[j + 1]
<1> DEFINE a == SubSeq(q, 1, i - 1)
           b == SubSeq(q, i + 1, Len(q))
<1>1. Len(q) \in Nat /\ i \in 1 .. Len(q)
  OBVIOUS
<1>2. a \in Seq(T) /\ Len(a) = i - 1 /\ \A j \in 1 .. i - 1 : a[j] = q[j]
  BY <1>1, SubSeqProperties
<1>3. b \in Seq(T) /\ Len(b) = Len(q) - i /\ \A j \in 1 .. Len(q) - i : b[j] = q[i + j]
  <2>1. i + 1 \in Int /\ Len(q) \in Int /\ \A k \in i + 1 .. Len(q) : q[k] \in T
    BY <1>1
  <2>2. /\ b \in Seq(T) /\ Len(b) = IF i + 1 <= Len(q) THEN Len(q) - (i + 1) + 1 ELSE 0
        /\ \A j \in 1 .. Len(q) - (i + 1) + 1 : b[j] = q[i + 1 + j - 1]
    BY <2>1, SubSeqProperties, SMTT(30)
  <2>3. \A j \in 1 .. Len(q) - i : i + 1 + j - 1 = i + j
    BY <1>1
  <2> HIDE DEF b
  <2> QED  BY <1>1, <2>2, <2>3
<1>4. RemoveAt(q, i) = a \o b
  BY DEF RemoveAt
<1> HIDE DEF a, b
<1>5. /\ a \o b \in Seq(T) /\ Len(a \o b) = Len(q) - 1
      /\ \A j \in 1 .. Len(q) - 1 : (a \o b)[j] = IF j <= i - 1 THEN a[j] ELSE b[j - (i - 1)]
  <2>1. /\ a \o b \in Seq(T) /\ Len(a \o b) = Len(a) + Len(b)
        /\ \A j \in 1 .. Len(a) + Len(b) :
              (a \o b)[j] = IF j <= Len(a) THEN a[j] ELSE b[j - Len(a)]
    <3>1. a \in Seq(T) /\ b \in Seq(T)
      BY <1>2, <1>3
    <3> QED  BY <3>1, ConcatProperties
  <2>2. Len(a) = i - 1 /\ Len(a) + Len(b) = Len(q) - 1
    BY <1>1, <1>2, <1>3
  <2> QED  BY <2>1, <2>2
<1>6. ASSUME NEW j \in 1 .. Len(q) - 1
      PROVE  (a \o b)[j] = IF j < i THEN q[j] ELSE q[j + 1]
  <2>1. CASE j < i
    BY <1>1, <1>2, <1>5, <2>1
  <2>2. CASE ~(j < i)
    <3>1. j - (i - 1) \in 1 .. Len(q) - i /\ i + (j - (i - 1)) = j + 1
      BY <1>1, <2>2
    <3>2. (a \o b)[j] = b[j - (i - 1)]
      BY <1>1, <1>5, <2>2
    <3> QED BY <1>3, <2>2, <3>1, <3>2
  <2> QED BY <2>1, <2>2
<1> QED BY <1>4, <1>5, <1>6

-----------------------------------------------------------------------------
(* Types.                                                                  *)

Entries == [who : Speakers \cup {"agent"}, text : Sayings, flushed : BOOLEAN]
Answers == [who : {"agent"}, text : Sayings, flushed : {FALSE}]
Wire == Texts \cup Comms \cup [kind : {"interruption"}, gen : Gens]
Work == Texts \cup Comms \cup [kind : {"clear"}, gen : Gens]

LEMMA MessageTypes ==
  ASSUME TypeOK
  PROVE  /\ \A w \in Whose, t \in Sayings : Text(w, t, TRUE) \in Texts /\ Text(w, t, FALSE) \in Texts
         /\ \A t \in Sayings : Comm(t) \in Comms
         /\ \A g \in Gens : Interruption(g) \in Wire /\ Clear(g) \in Work
  BY DEF TypeOK, Text, Comm, Interruption, Clear, Texts, Comms, Wire, Work, Lines

LEMMA SendType ==
  ASSUME TypeOK, NEW m \in Wire, Send(m)
  PROVE  down' \in Seq(Wire)
  BY AppendElements DEF TypeOK, Send, Wire

LEMMA TaskType ==
  ASSUME TypeOK, NEW t \in Work, Task(t)
  PROVE  tasks' \in Seq(Work)
  BY AppendElements DEF TypeOK, Task, Work

LEMMA SaysType ==
  ASSUME TypeOK, Says
  PROVE  /\ texts' \in 0..MaxTexts /\ NextText \in 1..MaxTexts
         /\ <<NextText>> \in Sayings
  BY TranscriptAssumption DEF TypeOK, Says, NextText, Sayings

LEMMA EntryType ==
  ASSUME TypeOK, NEW w \in Speakers \cup {"agent"}, NEW t \in Sayings
  PROVE  /\ Entry(w, t) \in Entries
         /\ Append(history, Entry(w, t)) \in Seq(Entries)
<1>1. Entry(w, t) \in Entries
  BY DEF Entry, Entries
<1>2. history \in Seq(Entries)
  BY DEF TypeOK, Entries
<1> HIDE DEF Entries
<1> QED BY <1>1, <1>2, AppendElements

LEMMA KeptType ==
  ASSUME TypeOK
  PROVE  history \o Kept(turn.took) \in Seq(Entries)
<1> DEFINE E == Entries
<1>1. ASSUME NEW s \in Speakers
      PROVE  Said(s, turn.took) \in Seq(E)
  <2>1. turn.took[s] \in Sayings
    BY DEF TypeOK
  <2>2. Entry(s, turn.took[s]) \in E
    BY <2>1, EntryType
  <2>3. <<>> \in Seq(E) /\ <<Entry(s, turn.took[s])>> \in Seq(E)
    BY <2>2
  <2> QED BY <2>3 DEF Said
<1> HIDE DEF E
<1>2. Said("user", turn.took) \in Seq(E) /\ Said("moderator", turn.took) \in Seq(E)
  BY <1>1 DEF Speakers
<1>3. Kept(turn.took) \in Seq(E)
  BY <1>2, ConcatProperties DEF Kept
<1>4. history \in Seq(E)
  BY DEF TypeOK, E, Entries
<1>5. history \o Kept(turn.took) \in Seq(E)
  BY <1>3, <1>4, ConcatProperties
<1> QED BY <1>5 DEF E

(* A barge-in keeps once more, as flushed, what it takes from the queue.   *)
LEMMA FlushedType ==
  ASSUME TypeOK, NEW spared \in 0 .. 1, spared <= Len(waiting)
  PROVE  LET kept == SubSeq(waiting, 1, spared)
             q == Flushed(SubSeq(waiting, spared + 1, Len(waiting)))
         IN  /\ kept \in Seq(Answers) /\ Len(kept) = spared
             /\ \A i \in 1 .. spared : kept[i] = waiting[i] /\ i \in DOMAIN waiting
             /\ q \in Seq(Entries) /\ Len(q) = Len(waiting) - spared
             /\ \A i \in 1 .. Len(waiting) - spared :
                  /\ i + spared \in DOMAIN waiting
                  /\ q[i] = [waiting[i + spared] EXCEPT !.flushed = TRUE]
<1>1. waiting \in Seq(Answers) /\ Len(waiting) \in Nat /\ DOMAIN waiting = 1 .. Len(waiting)
  BY DEF TypeOK, Answers
<1> DEFINE kept == SubSeq(waiting, 1, spared)
           rest == SubSeq(waiting, spared + 1, Len(waiting))
           n == Len(waiting) - spared
<1>2. /\ kept \in Seq(Answers) /\ Len(kept) = spared
      /\ \A i \in 1 .. spared : kept[i] = waiting[i] /\ i \in DOMAIN waiting
  BY <1>1
<1>3. /\ rest \in Seq(Answers) /\ Len(rest) = n /\ n \in Nat
      /\ \A i \in 1 .. n : rest[i] = waiting[i + spared] /\ i + spared \in DOMAIN waiting
  BY <1>1
<1> HIDE DEF kept, rest, n
<1>4. DOMAIN rest = 1 .. n
  BY <1>3
<1>5. \A i \in 1 .. n : waiting[i + spared] \in Answers
  BY <1>1, <1>3
<1>6. \A a \in Answers : [a EXCEPT !.flushed = TRUE] \in Entries
  BY DEF Answers, Entries
<1>7. Flushed(rest) = [i \in 1 .. n |-> [waiting[i + spared] EXCEPT !.flushed = TRUE]]
  BY <1>3, <1>4 DEF Flushed
<1>8. Flushed(rest) \in [1 .. n -> Entries]
  BY <1>5, <1>6, <1>7
<1>9. Flushed(rest) \in Seq(Entries) /\ Len(Flushed(rest)) = n
  <2>1. PICK q \in [1 .. n -> Entries] : q = Flushed(rest)
    BY <1>8
  <2>2. q \in Seq(Entries) /\ Len(q) = n
    BY <1>3
  <2> QED BY <2>1, <2>2
<1> QED BY <1>2, <1>3, <1>7, <1>9 DEF kept, rest, n

(* What only the output controller's queue and the history see.            *)
Queues == SpokenAnswer \/ \E i \in DOMAIN waiting : Leaves(i)

LEMMA QueuesOnly ==
  ASSUME Queues
  PROVE  UNCHANGED <<listener, inOrder, session, buf, turn, gen, down, tasks, lines, slot, comm,
                     current, announced>>
  BY Zenon DEF Queues, SpokenAnswer, Leaves, env, client

LEMMA SilentType == Silent \in [Speakers -> Sayings]
  BY DEF Silent, Sayings

LEMMA SessionStartsType ==
  ASSUME TypeOK, session < MaxSessions, session' = session + 1, SessionStarts
  PROVE  /\ session' \in 1..MaxSessions
         /\ buf' \in [Speakers -> Sayings]
         /\ turn' \in [pc : {"idle"} \cup Speakers, took : [Speakers -> Sayings], vad : BOOLEAN]
         /\ history' \in Seq(Entries) /\ waiting' \in Seq(Answers)
         /\ gen' \in Gens /\ announced' \in Gens
         /\ down' \in Seq(Wire)
<1>1. session' \in 1..MaxSessions
  BY TranscriptAssumption DEF TypeOK
<1>2. turn' \in [pc : {"idle"} \cup Speakers, took : [Speakers -> Sayings], vad : BOOLEAN]
  BY SilentType DEF SessionStarts, NoTurn
<1>3. buf' \in [Speakers -> Sayings]
  BY SilentType DEF SessionStarts
<1>4. gen' \in Gens /\ announced' \in Gens
  BY TranscriptAssumption DEF SessionStarts, Gens
<1>5. waiting' \in Seq(Answers) /\ history' \in Seq(Entries) /\ down' \in Seq(Wire)
  BY DEF SessionStarts
<1> QED BY <1>1, <1>2, <1>3, <1>4, <1>5

(* Of the server's actions, those which only say something.                *)
LEMMA TypeSays ==
  ASSUME TypeOK,
         Says, NEW m \in Wire, Send(m),
         buf' \in [Speakers -> Sayings],
         history' \in Seq(Entries),
         UNCHANGED <<listener, inOrder, waiting, session, turn, gen, tasks, lines, slot, comm, current,
                     announced>>
  PROVE  TypeOK'
<1>1. texts' \in 0..MaxTexts
  BY SaysType
<1>2. down' \in Seq(Wire)
  BY SendType
<1> QED BY <1>1, <1>2 DEF TypeOK, Wire, Entries

LEMMA TypeServer ==
  ASSUME TypeOK,
         \/ \E s \in Speakers : Accumulate(s)
         \/ \E vad \in BOOLEAN : Flush(vad)
         \/ TextOnly \/ FlushGoesOn \/ FlushEnds \/ Answer \/ Apology \/ OnText \/ Interrupt \/ Queues
  PROVE  TypeOK'
<1> USE DEF Whose
<1>1. ASSUME NEW s \in Speakers, Accumulate(s) PROVE TypeOK'
  <2>1. Says /\ buf' = [buf EXCEPT ![s] = Append(@, NextText)]
    BY <1>1 DEF Accumulate
  <2>2. NextText \in 1..MaxTexts /\ buf[s] \in Seq(1..MaxTexts)
    BY <2>1, SaysType DEF TypeOK, Sayings
  <2>3. Append(buf[s], NextText) \in Sayings
    BY <2>2, AppendElements DEF Sayings
  <2>4. buf' \in [Speakers -> Sayings]
    BY <2>1, <2>3 DEF TypeOK
  <2>5. Text(s, buf'[s], FALSE) \in Wire
    BY <2>4, MessageTypes DEF Wire
  <2>6. Send(Text(s, buf'[s], FALSE)) /\ history' = history
    BY <1>1 DEF Accumulate
  <2>7. history' \in Seq(Entries)
    BY <2>6 DEF TypeOK, Entries
  <2>8. UNCHANGED <<listener, inOrder, waiting, session, turn, gen, tasks, lines, slot, comm, current,
                    announced>>
    BY <1>1 DEF Accumulate, env, client
  <2> QED BY <2>1, <2>4, <2>5, <2>6, <2>7, <2>8, TypeSays
<1>2. ASSUME NEW vad \in BOOLEAN, Flush(vad) PROVE TypeOK'
  <2>1. /\ buf' = Silent /\ turn' = [pc |-> FirstOf(buf), took |-> buf, vad |-> vad]
        /\ Send(Text(FirstOf(buf), buf[FirstOf(buf)], TRUE))
    BY <1>2 DEF Flush
  <2>2. FirstOf(buf) \in Speakers /\ buf \in [Speakers -> Sayings]
    BY DEF FirstOf, Speakers, TypeOK
  <2>3. down' \in Seq(Wire)
    BY <2>1, <2>2, MessageTypes, SendType DEF Wire
  <2>4. turn' \in [pc : {"idle"} \cup Speakers, took : [Speakers -> Sayings], vad : BOOLEAN]
    BY <2>1, <2>2
  <2>5. buf' \in [Speakers -> Sayings]
    BY <2>1, SilentType
  <2>6. UNCHANGED <<listener, inOrder, waiting, session, texts, history, gen, tasks, lines, slot, comm,
                    current, announced>>
    BY <1>2 DEF Flush, env, client
  <2> QED BY <2>3, <2>4, <2>5, <2>6 DEF TypeOK, Wire, Entries
<1>3. ASSUME TextOnly PROVE TypeOK'
  <2>1. Says /\ Send(Text("note", <<NextText>>, TRUE))
    BY <1>3 DEF TextOnly
  <2>2. Text("note", <<NextText>>, TRUE) \in Wire
    BY <2>1, SaysType, MessageTypes DEF Wire
  <2>3. UNCHANGED <<listener, inOrder, waiting, session, buf, turn, history, gen, tasks, lines, slot,
                    comm, current, announced>>
    BY <1>3 DEF TextOnly, env, client
  <2>4. /\ buf' \in [Speakers -> Sayings]
        /\ history' \in Seq(Entries)
    BY <2>3 DEF TypeOK, Entries
  <2> QED BY <2>1, <2>2, <2>3, <2>4, TypeSays
<1>4. ASSUME FlushGoesOn PROVE TypeOK'
  <2>1. /\ turn' = [turn EXCEPT !.pc = "moderator"]
        /\ Send(Text("moderator", turn.took["moderator"], TRUE))
    BY <1>4 DEF FlushGoesOn
  <2>2. turn.took["moderator"] \in Sayings
    BY DEF TypeOK, Speakers
  <2>3. down' \in Seq(Wire)
    BY <2>1, <2>2, MessageTypes, SendType DEF Wire, Speakers
  <2>4. turn' \in [pc : {"idle"} \cup Speakers, took : [Speakers -> Sayings], vad : BOOLEAN]
    BY <2>1 DEF TypeOK, Speakers
  <2>5. UNCHANGED <<listener, inOrder, waiting, session, texts, buf, history, gen, tasks, lines, slot,
                    comm, current, announced>>
    BY <1>4 DEF FlushGoesOn, env, client
  <2> QED BY <2>3, <2>4, <2>5 DEF TypeOK, Wire, Entries
<1>5. ASSUME FlushEnds PROVE TypeOK'
  <2>1. /\ history' = history \o Kept(turn.took) /\ turn' = NoTurn
        /\ Send(Interruption(gen)) \/ UNCHANGED down
    BY <1>5, Zenon DEF FlushEnds, env, client
  <2>2. down' \in Seq(Wire)
    BY <2>1, MessageTypes, SendType DEF TypeOK, Wire, Entries
  <2>3. turn' \in [pc : {"idle"} \cup Speakers, took : [Speakers -> Sayings], vad : BOOLEAN]
    BY <2>1, SilentType DEF NoTurn
  <2>4. history' \in Seq(Entries)
    BY <2>1, KeptType
  <2>5. UNCHANGED <<listener, inOrder, waiting, session, texts, buf, gen, tasks, lines, slot, comm,
                    current, announced>>
    BY <1>5, Zenon DEF FlushEnds, env, client
  <2> QED BY <2>2, <2>3, <2>4, <2>5 DEF TypeOK, Wire, Entries
<1>6. ASSUME Answer PROVE TypeOK'
  <2>1. /\ Says /\ history' = Append(history, Entry("agent", <<NextText>>))
        /\ Send(Text("agent", <<NextText>>, TRUE))
    BY <1>6 DEF Answer
  <2>2. Text("agent", <<NextText>>, TRUE) \in Wire
    BY <2>1, SaysType, MessageTypes DEF Wire
  <2>3. history' \in Seq(Entries)
    BY <2>1, SaysType, EntryType
  <2>4. UNCHANGED <<listener, inOrder, waiting, session, buf, turn, gen, tasks, lines, slot, comm,
                    current, announced>>
    BY <1>6 DEF Answer, env, client
  <2>5. buf' \in [Speakers -> Sayings]
    BY <2>4 DEF TypeOK
  <2> QED BY <2>1, <2>2, <2>3, <2>4, <2>5, TypeSays
<1>7. ASSUME Apology PROVE TypeOK'
  <2>1. Says /\ Send(Text("note", <<NextText>>, TRUE))
    BY <1>7 DEF Apology
  <2>2. Text("note", <<NextText>>, TRUE) \in Wire
    BY <2>1, SaysType, MessageTypes DEF Wire
  <2>3. UNCHANGED <<listener, inOrder, waiting, session, buf, turn, history, gen, tasks, lines, slot,
                    comm, current, announced>>
    BY <1>7 DEF Apology, env, client
  <2>4. /\ buf' \in [Speakers -> Sayings]
        /\ history' \in Seq(Entries)
    BY <2>3 DEF TypeOK, Entries
  <2> QED BY <2>1, <2>2, <2>3, <2>4, TypeSays
<1>8. ASSUME OnText PROVE TypeOK'
  <2>1. Says /\ Send(Comm(<<NextText>>))
    BY <1>8 DEF OnText
  <2>2. Comm(<<NextText>>) \in Wire
    BY <2>1, SaysType, MessageTypes DEF Wire
  <2>3. UNCHANGED <<listener, inOrder, waiting, session, buf, turn, history, gen, tasks, lines, slot,
                    comm, current, announced>>
    BY <1>8 DEF OnText, env, client
  <2>4. /\ buf' \in [Speakers -> Sayings]
        /\ history' \in Seq(Entries)
    BY <2>3 DEF TypeOK, Entries
  <2> QED BY <2>1, <2>2, <2>3, <2>4, TypeSays
<1>9. ASSUME Interrupt PROVE TypeOK'
  <2>1. gen + 1 \in Gens /\ gen' = gen + 1 /\ Send(Interruption(gen + 1))
    BY <1>9, TranscriptAssumption DEF Interrupt, TypeOK, Gens
  <2>2. down' \in Seq(Wire)
    BY <2>1, MessageTypes, SendType
  <2>3. UNCHANGED <<listener, inOrder, session, texts, buf, turn, tasks, lines, slot, comm,
                    current, announced>>
    BY <1>9, Zenon DEF Interrupt, env, client
  <2>4. PICK spared \in 0 .. 1 :
          /\ spared <= Len(waiting) /\ waiting' = SubSeq(waiting, 1, spared)
          /\ history' = history \o Flushed(SubSeq(waiting, spared + 1, Len(waiting)))
    BY <1>9, Zenon DEF Interrupt
  <2>5. waiting' \in Seq(Answers)
    BY <2>4, FlushedType
  <2>6. Flushed(SubSeq(waiting, spared + 1, Len(waiting))) \in Seq(Entries)
    BY <2>4, FlushedType
  <2>7. history \in Seq(Entries)
    BY DEF TypeOK, Entries
  <2>8. history' \in Seq(Entries)
    BY <2>4, <2>6, <2>7, ConcatProperties
  <2> QED BY <2>1, <2>2, <2>3, <2>5, <2>8 DEF TypeOK, Wire, Entries, Answers
<1>10. ASSUME SpokenAnswer PROVE TypeOK'
  <2>1. /\ Says /\ history' = Append(history, Entry("agent", <<NextText>>))
        /\ waiting' = Append(waiting, Entry("agent", <<NextText>>))
    BY <1>10 DEF SpokenAnswer
  <2>2. texts' \in 0..MaxTexts /\ <<NextText>> \in Sayings
    BY <2>1, SaysType
  <2>3. history' \in Seq(Entries)
    BY <2>1, <2>2, EntryType
  <2>4. Entry("agent", <<NextText>>) \in Answers /\ waiting \in Seq(Answers)
    BY <2>2 DEF Entry, Answers, TypeOK
  <2>5. waiting' \in Seq(Answers)
    BY <2>1, <2>4, AppendElements
  <2>6. UNCHANGED <<listener, inOrder, session, buf, turn, gen, down, tasks, lines, slot, comm,
                    current, announced>>
    BY <1>10, QueuesOnly DEF Queues
  <2> QED BY <2>2, <2>3, <2>5, <2>6 DEF TypeOK, Entries, Answers
<1>11. ASSUME NEW i \in DOMAIN waiting, Leaves(i) PROVE TypeOK'
  <2>1. waiting' = RemoveAt(waiting, i) /\ history' = history /\ texts' = texts
    BY <1>11, Zenon DEF Leaves
  <2>2. waiting \in Seq(Answers)
    BY DEF TypeOK, Answers
  <2>3. waiting' \in Seq(Answers)
    BY <2>1, <2>2, RemoveElements
  <2>4. UNCHANGED <<listener, inOrder, session, buf, turn, gen, down, tasks, lines, slot, comm,
                    current, announced>>
    BY <1>11, QueuesOnly DEF Queues
  <2> QED BY <2>1, <2>3, <2>4 DEF TypeOK, Answers
<1> QED BY <1>1, <1>2, <1>3, <1>4, <1>5, <1>6, <1>7, <1>8, <1>9, <1>10, <1>11 DEF Queues

LEMMA SlotType ==
  ASSUME TypeOK, NEW m \in Texts, HandleTranscript(m)
  PROVE  lines' \in Seq(Lines) /\ slot' \in 0..Len(lines') /\ comm' = comm
<1>1. Line(m) \in Lines /\ lines \in Seq(Lines)
  BY DEF Line, Lines, Texts, TypeOK
<1>2. Append(lines, Line(m)) \in Seq(Lines) /\ Len(Append(lines, Line(m))) = Len(lines) + 1
  BY <1>1, AppendElements
<1>3. ASSUME Open
      PROVE  /\ [lines EXCEPT ![slot] = Line(m)] \in Seq(Lines)
             /\ Len([lines EXCEPT ![slot] = Line(m)]) = Len(lines)
  BY <1>1, <1>3 DEF Open
<1>4. lines' = Shown(m) /\ slot' = SlotAfter(m) /\ comm' = comm
  BY DEF HandleTranscript
<1>5. slot \in 0..Len(lines) /\ Len(lines) \in Nat
  BY DEF TypeOK
<1>6. CASE Open
  <2>1. lines' \in Seq(Lines) /\ Len(lines') = Len(lines)
    BY <1>3, <1>4, <1>6 DEF Shown
  <2>2. slot' \in {0, slot}
    BY <1>4, <1>6 DEF SlotAfter
  <2> QED BY <1>4, <1>5, <2>1, <2>2
<1>7. CASE ~Open
  <2>1. lines' \in Seq(Lines) /\ Len(lines') = Len(lines) + 1
    BY <1>2, <1>4, <1>7 DEF Shown
  <2>2. slot' \in {0, Len(lines) + 1}
    BY <1>4, <1>7 DEF SlotAfter
  <2> QED BY <1>4, <1>5, <2>1, <2>2
<1> QED BY <1>6, <1>7

LEMMA TypeClient ==
  ASSUME TypeOK,
         \/ ReceiveText \/ ReceiveInterruption \/ LocalBargeIn \/ Reauthenticate
         \/ NewConversation \/ (\E i \in DOMAIN tasks : RunTask(i)) \/ Fade
  PROVE  TypeOK'
<1>1. ASSUME down # <<>> PROVE Head(down) \in Wire /\ Tail(down) \in Seq(Wire)
  BY <1>1, HeadTailProperties DEF TypeOK, Wire, Entries
<1>2. ASSUME ReceiveText PROVE TypeOK'
  <2>1. /\ Head(down).kind # "interruption" /\ Head(down) \in Wire /\ Tail(down) \in Seq(Wire)
        /\ Task(Head(down)) /\ down' = Tail(down)
    BY <1>1, <1>2 DEF ReceiveText
  <2>2. Head(down) \in Work
    BY <2>1 DEF Wire, Work, Texts, Comms
  <2>3. tasks' \in Seq(Work)
    BY <2>1, <2>2, TaskType
  <2>4. UNCHANGED <<env, server, model, current, announced>>
    BY <1>2 DEF ReceiveText
  <2> QED BY <2>1, <2>3, <2>4 DEF TypeOK, Wire, Work, env, server, model
<1>3. ASSUME ReceiveInterruption PROVE TypeOK'
  <2>1. /\ Head(down).kind = "interruption" /\ Head(down) \in Wire /\ Tail(down) \in Seq(Wire)
        /\ Task(Clear(Head(down).gen)) /\ down' = Tail(down)
        /\ current' = Head(down).gen /\ announced' = Head(down).gen
    BY <1>1, <1>3 DEF ReceiveInterruption
  <2>2. Head(down).gen \in Gens
    BY <2>1 DEF Wire, Texts, Comms
  <2>3. tasks' \in Seq(Work)
    BY <2>1, <2>2, MessageTypes, TaskType
  <2>4. UNCHANGED <<env, server, model>>
    BY <1>3 DEF ReceiveInterruption
  <2> QED BY <2>1, <2>2, <2>3, <2>4 DEF TypeOK, Wire, Work, env, server, model
<1>4. ASSUME LocalBargeIn PROVE TypeOK'
  <2>1. Task(Clear(current)) /\ current \in Gens
    BY <1>4 DEF LocalBargeIn, TypeOK
  <2>2. tasks' \in Seq(Work)
    BY <2>1, MessageTypes, TaskType
  <2>3. UNCHANGED <<env, server, down, model, current, announced>>
    BY <1>4 DEF LocalBargeIn
  <2> QED BY <2>2, <2>3 DEF TypeOK, Work, env, server, model
<1>5. ASSUME Reauthenticate PROVE TypeOK'
  <2>1. session < MaxSessions /\ session' = session + 1 /\ SessionStarts
    BY <1>5 DEF Reauthenticate
  <2>2. UNCHANGED <<listener, inOrder, texts, tasks, lines, slot, comm, current>>
    BY <1>5 DEF Reauthenticate
  <2> QED BY <2>1, <2>2, SessionStartsType DEF TypeOK, Wire, Entries, Answers
<1>6. ASSUME NewConversation PROVE TypeOK'
  <2>1. session < MaxSessions /\ session' = session + 1 /\ SessionStarts
    BY <1>6 DEF NewConversation
  <2>2. /\ UNCHANGED <<listener, inOrder, texts, tasks>>
        /\ lines' = <<>> /\ slot' = 0 /\ comm' = {} /\ current' = 0
    BY <1>6 DEF NewConversation
  <2>3. lines' \in Seq(Lines) /\ slot' \in 0..Len(lines') /\ current' \in Gens
    BY <2>2, TranscriptAssumption DEF Gens
  <2> QED BY <2>1, <2>2, <2>3, SessionStartsType DEF TypeOK, Wire, Entries, Answers
<1>7. ASSUME NEW i \in DOMAIN tasks, RunTask(i) PROVE TypeOK'
  <2>1. tasks \in Seq(Work) /\ tasks' = RemoveAt(tasks, i)
    BY <1>7 DEF TypeOK, Work, RunTask
  <2>2. tasks' \in Seq(Work) /\ tasks[i] \in Work
    BY <2>1, RemoveElements
  <2>3. UNCHANGED <<env, server, down, current, announced>>
    BY <1>7, Zenon DEF RunTask
  <2>4. \/ HandleTranscript(tasks[i]) \/ HandleComm(tasks[i]) \/ ClearStale(tasks[i])
    BY <1>7, Zenon DEF RunTask
  <2>5. /\ lines' \in Seq(Lines) /\ slot' \in 0..Len(lines')
        /\ comm' \in SUBSET [gen : Gens, of : 1..MaxSessions]
    <3>1. CASE HandleTranscript(tasks[i])
      <4>1. tasks[i] \in Texts
        BY <2>2, <3>1 DEF HandleTranscript, Work, Comms
      <4> QED BY <3>1, <4>1, SlotType DEF TypeOK
    <3>2. CASE HandleComm(tasks[i])
      <4>1. tasks[i] \in Comms
        BY <2>2, <3>2 DEF HandleComm, Work, Texts
      <4> DEFINE l == [who |-> "note", text |-> tasks[i].text, final |-> TRUE, of |-> tasks[i].of]
      <4>2. l \in Lines /\ [gen |-> tasks[i].gen, of |-> tasks[i].of] \in [gen : Gens, of : 1..MaxSessions]
        BY <4>1 DEF Lines, Whose, Comms
      <4>3. /\ lines' = Append(lines, l) /\ slot' = slot
            /\ comm' = {[gen |-> tasks[i].gen, of |-> tasks[i].of]}
        BY <3>2 DEF HandleComm
      <4> HIDE DEF l
      <4>4. lines \in Seq(Lines) /\ slot \in 0..Len(lines)
        BY DEF TypeOK
      <4>5. lines' \in Seq(Lines) /\ Len(lines') = Len(lines) + 1
        BY <4>2, <4>3, <4>4, AppendElements
      <4> QED BY <4>2, <4>3, <4>4, <4>5
    <3>3. CASE ClearStale(tasks[i])
      BY <3>3 DEF ClearStale, StillCurrent, TypeOK
    <3> QED BY <2>4, <3>1, <3>2, <3>3
  <2> QED BY <2>2, <2>3, <2>5 DEF TypeOK, Work, env, server
<1>8. ASSUME Fade PROVE TypeOK'
  BY <1>8 DEF Fade, TypeOK, env, server
<1> QED BY <1>2, <1>3, <1>4, <1>5, <1>6, <1>7, <1>8

LEMMA TypeStep ==
  ASSUME TypeOK, [Next]_vars
  PROVE  TypeOK'
<1>1. CASE UNCHANGED vars
  BY <1>1, Zenon DEF vars, TypeOK
<1>2. CASE Next
  BY <1>2, TypeServer, TypeClient, Zenon DEF Next, Queues
<1> QED BY <1>1, <1>2

LEMMA TypeAtStart == Init => TypeOK
<1> SUFFICES ASSUME Init PROVE TypeOK
  OBVIOUS
<1>1. turn \in [pc : {"idle"} \cup Speakers, took : [Speakers -> Sayings], vad : BOOLEAN]
  BY SilentType DEF Init, NoTurn
<1>2. buf \in [Speakers -> Sayings]
  BY SilentType DEF Init
<1>3. /\ session \in 1..MaxSessions /\ gen \in Gens /\ current \in Gens /\ announced \in Gens
      /\ texts \in 0..MaxTexts /\ slot \in 0..Len(lines)
  BY TranscriptAssumption DEF Init, Gens
<1>4. listener \in BOOLEAN /\ inOrder \in BOOLEAN
  BY Zenon DEF Init
<1> QED BY <1>1, <1>2, <1>3, <1>4 DEF Init, TypeOK

(* Every variable keeps its type.                                          *)
THEOREM TypeCorrect == Spec => []TypeOK
  BY TypeAtStart, TypeStep, PTL DEF Spec

-----------------------------------------------------------------------------
(* The lines: the slot holds the only one that is not final.               *)

OneOpen ==
  /\ \A i \in DOMAIN lines : ~lines[i].final => i = slot
  /\ slot # 0 => ~lines[slot].final

LEMMA SlotStep ==
  ASSUME TypeOK, OneOpen, NEW m \in Texts, HandleTranscript(m)
  PROVE  OneOpen' /\ LinesStay
<1>1. lines' = Shown(m) /\ slot' = SlotAfter(m)
  BY DEF HandleTranscript
<1>2. Line(m) \in Lines /\ lines \in Seq(Lines) /\ Len(lines) \in Nat
      /\ slot \in 0..Len(lines) /\ Line(m).final = m.final
  BY DEF Line, Lines, Texts, TypeOK
<1>3. CASE Open
  <2>1. slot \in DOMAIN lines /\ ~lines[slot].final
    BY <1>2, <1>3 DEF Open, OneOpen
  <2>2. /\ DOMAIN lines' = DOMAIN lines /\ lines'[slot] = Line(m)
        /\ \A i \in DOMAIN lines : i # slot => lines'[i] = lines[i]
    BY <1>1, <1>2, <1>3, <2>1 DEF Shown
  <2>3. \A i \in DOMAIN lines : i # slot => lines[i].final
    BY DEF OneOpen
  <2>4. LinesStay
    BY <2>1, <2>2 DEF LinesStay
  <2>5. CASE m.final
    <3>1. slot' = 0
      BY <1>1, <2>5 DEF SlotAfter
    <3>2. lines'[slot].final
      BY <1>2, <2>2, <2>5
    <3> QED BY <2>2, <2>3, <2>4, <3>1, <3>2 DEF OneOpen
  <2>6. CASE ~m.final
    <3>1. slot' = slot
      BY <1>1, <1>3, <2>6 DEF SlotAfter
    <3>2. ~lines'[slot].final
      BY <1>2, <2>2, <2>6
    <3> QED BY <2>2, <2>3, <2>4, <3>1, <3>2 DEF OneOpen
  <2> QED BY <2>5, <2>6
<1>4. CASE ~Open
  <2>1. slot = 0
    BY <1>2, <1>4 DEF Open
  <2>2. lines' = Append(lines, Line(m))
    BY <1>1, <1>4 DEF Shown
  <2>3. /\ DOMAIN lines' = 1 .. Len(lines) + 1 /\ lines'[Len(lines) + 1] = Line(m)
        /\ \A i \in DOMAIN lines : lines'[i] = lines[i]
    BY <1>2, <2>2, AppendElements
  <2>4. \A i \in DOMAIN lines : lines[i].final
    BY <1>2, <2>1 DEF OneOpen
  <2>5. \A i \in DOMAIN lines' : i \in DOMAIN lines \/ i = Len(lines) + 1
    BY <1>2, <2>3
  <2>6. LinesStay
    BY <1>2, <2>3 DEF LinesStay
  <2>7. CASE m.final
    <3>1. slot' = 0
      BY <1>1, <2>7 DEF SlotAfter
    <3>2. lines'[Len(lines) + 1].final
      BY <1>2, <2>3, <2>7
    <3> QED BY <2>3, <2>4, <2>5, <2>6, <3>1, <3>2 DEF OneOpen
  <2>8. CASE ~m.final
    <3>1. slot' = Len(lines) + 1
      BY <1>1, <1>4, <2>8 DEF SlotAfter
    <3>2. ~lines'[Len(lines) + 1].final
      BY <1>2, <2>3, <2>8
    <3> QED BY <2>3, <2>4, <2>5, <2>6, <3>1, <3>2 DEF OneOpen
  <2> QED BY <2>7, <2>8
<1> QED BY <1>3, <1>4

LEMMA CommLineStep ==
  ASSUME TypeOK, OneOpen, NEW m \in Comms, HandleComm(m)
  PROVE  OneOpen' /\ LinesStay
<1> DEFINE l == [who |-> "note", text |-> m.text, final |-> TRUE, of |-> m.of]
<1>1. l.final
  OBVIOUS
<1>2. lines' = Append(lines, l) /\ slot' = slot
  BY DEF HandleComm
<1>3. l \in Lines
  BY DEF Lines, Whose, Comms
<1> HIDE DEF l
<1>4. lines \in Seq(Lines) /\ Len(lines) \in Nat /\ slot \in 0..Len(lines)
  BY DEF TypeOK
<1>5. /\ DOMAIN lines' = 1 .. Len(lines) + 1 /\ lines'[Len(lines) + 1] = l
      /\ \A i \in DOMAIN lines : lines'[i] = lines[i]
  BY <1>2, <1>3, <1>4, AppendElements
<1>6. \A i \in DOMAIN lines' : i \in DOMAIN lines \/ i = Len(lines) + 1
  BY <1>4, <1>5
<1>7. slot # 0 => slot \in DOMAIN lines
  BY <1>4
<1>8. LinesStay
  BY <1>4, <1>5 DEF LinesStay
<1>9. lines'[Len(lines) + 1].final
  BY <1>1, <1>5
<1> QED BY <1>2, <1>5, <1>6, <1>7, <1>8, <1>9 DEF OneOpen

LEMMA LinesStep ==
  ASSUME TypeOK, OneOpen, [Next]_vars
  PROVE  OneOpen' /\ (lines' = <<>> \/ LinesStay)
<1>1. ASSUME UNCHANGED <<lines, slot>>
      PROVE  OneOpen' /\ LinesStay
  BY <1>1, Zenon DEF OneOpen, LinesStay
<1>2. CASE NewConversation
  BY <1>2 DEF NewConversation, OneOpen
<1>3. ASSUME NEW i \in DOMAIN tasks, RunTask(i)
      PROVE  OneOpen' /\ LinesStay
  <2>1. tasks[i] \in Work
    BY DEF TypeOK, Work
  <2>2. HandleTranscript(tasks[i]) \/ HandleComm(tasks[i]) \/ ClearStale(tasks[i])
    BY <1>3, Zenon DEF RunTask
  <2>3. CASE HandleTranscript(tasks[i])
    <3>1. tasks[i] \in Texts
      BY <2>1, <2>3 DEF HandleTranscript, Work, Comms
    <3> QED BY <2>3, <3>1, SlotStep
  <2>4. CASE HandleComm(tasks[i])
    <3>1. tasks[i] \in Comms
      BY <2>1, <2>4 DEF HandleComm, Work, Texts
    <3> QED BY <2>4, <3>1, CommLineStep
  <2>5. CASE ClearStale(tasks[i])
    BY <1>1, <2>5 DEF ClearStale
  <2> QED BY <2>2, <2>3, <2>4, <2>5
<1>4. CASE \/ \E s \in Speakers : Accumulate(s)
           \/ \E vad \in BOOLEAN : Flush(vad)
           \/ TextOnly \/ FlushGoesOn \/ FlushEnds
           \/ Answer \/ Apology \/ OnText \/ Interrupt \/ Queues
  <2>1. UNCHANGED <<lines, slot>>
    BY <1>4, Zenon DEF Accumulate, Flush, TextOnly, FlushGoesOn, FlushEnds, Answer, Apology,
                       OnText, Interrupt, Queues, SpokenAnswer, Leaves, env, client
  <2> QED BY <1>1, <2>1
<1>5. CASE ReceiveText \/ ReceiveInterruption \/ LocalBargeIn \/ Reauthenticate \/ Fade
  <2>1. UNCHANGED <<lines, slot>>
    BY <1>5, Zenon DEF ReceiveText, ReceiveInterruption, LocalBargeIn, Reauthenticate, Fade, model
  <2> QED BY <1>1, <2>1
<1>6. CASE UNCHANGED vars
  <2>1. UNCHANGED <<lines, slot>>
    BY <1>6, Zenon DEF vars
  <2> QED BY <1>1, <2>1
<1> QED BY <1>2, <1>3, <1>4, <1>5, <1>6, Zenon DEF Next, Queues

(* What was said to the end stays as it was shown until a new conversation *)
(* begins: ConversationViewModel never overwrites a final line, for every  *)
(* number of texts and whatever the order of its tasks.                    *)
THEOREM FinalLinesStay == Spec => FinalsStay
<1>1. Init => OneOpen
  BY DEF Init, OneOpen
<1>2. TypeOK /\ OneOpen /\ [Next]_vars => OneOpen' /\ [lines' = <<>> \/ LinesStay]_vars
  BY LinesStep
<1> QED BY <1>1, <1>2, TypeCorrect, PTL DEF Spec, FinalsStay

-----------------------------------------------------------------------------
(* The texts of agents.  On the wire generations only rise, from the one   *)
(* last announced to the one there is; a stale text has the announcement   *)
(* still before it.                                                        *)

Dated(m) == m.kind \in {"comm", "interruption"}

WireOrdered ==
  /\ announced <= gen
  /\ \A i \in DOMAIN down :
       /\ Dated(down[i]) => announced <= down[i].gen /\ down[i].gen <= gen
       /\ down[i].kind = "comm" => down[i].of = session
       /\ \A j \in DOMAIN down :
            i < j /\ Dated(down[i]) /\ Dated(down[j]) => down[i].gen <= down[j].gen
  /\ \A i \in DOMAIN tasks : tasks[i].kind = "comm" => tasks[i].of <= session
  /\ \A c \in comm : c.of <= session

Clears(i) == tasks[i].kind = "clear" /\ tasks[i].gen = announced

StaleIsCleared ==
  /\ \A i \in DOMAIN tasks :
       tasks[i].kind = "comm" /\ tasks[i].of = session /\ tasks[i].gen < announced
         => \E j \in DOMAIN tasks : i < j /\ Clears(j)
  /\ \A c \in comm :
       c.of = session /\ c.gen < announced => \E j \in DOMAIN tasks : Clears(j)

(* A message is sent with the generation there is, or a later one.         *)
LEMMA SendOrdered ==
  ASSUME TypeOK, WireOrdered, NEW m \in Wire, Send(m),
         gen' \in Gens, gen <= gen', announced' = announced, session' = session,
         Dated(m) => m.gen = gen',
         m.kind = "comm" => m.of = session,
         UNCHANGED <<tasks, comm>>
  PROVE  WireOrdered'
<1>1. /\ down' = Append(down, m) /\ down \in Seq(Wire) /\ Len(down) \in Nat
      /\ gen \in Nat /\ gen' \in Nat /\ announced \in Nat
  BY DEF Send, TypeOK, Wire, Gens
<1>2. /\ DOMAIN down' = 1 .. Len(down) + 1 /\ down'[Len(down) + 1] = m
      /\ \A i \in DOMAIN down : down'[i] = down[i]
  BY <1>1, AppendElements
<1>3. \A i \in DOMAIN down : Dated(down[i]) => down[i].gen \in Nat
  BY <1>1 DEF Dated, Wire, Texts, Comms, Gens
<1>4. announced' <= gen'
  BY <1>1 DEF WireOrdered
<1>5. ASSUME NEW i \in DOMAIN down'
      PROVE  /\ Dated(down'[i]) => announced' <= down'[i].gen /\ down'[i].gen <= gen'
             /\ down'[i].kind = "comm" => down'[i].of = session'
  <2>1. CASE i = Len(down) + 1
    BY <1>1, <1>2, <1>4, <2>1
  <2>2. CASE i \in DOMAIN down
    BY <1>1, <1>2, <1>3, <2>2 DEF WireOrdered
  <2> QED BY <1>1, <1>2, <2>1, <2>2
<1>6. ASSUME NEW i \in DOMAIN down', NEW j \in DOMAIN down',
             i < j, Dated(down'[i]), Dated(down'[j])
      PROVE  down'[i].gen <= down'[j].gen
  <2>1. i \in DOMAIN down
    BY <1>1, <1>2, <1>6
  <2>2. CASE j = Len(down) + 1
    BY <1>1, <1>2, <1>5, <1>6, <2>2
  <2>3. CASE j \in DOMAIN down
    BY <1>2, <1>6, <2>1, <2>3 DEF WireOrdered
  <2> QED BY <1>1, <1>2, <2>2, <2>3
<1>7. /\ \A i \in DOMAIN tasks' : tasks'[i].kind = "comm" => tasks'[i].of <= session'
      /\ \A c \in comm' : c.of <= session'
  BY DEF WireOrdered
<1> QED BY <1>4, <1>5, <1>6, <1>7 DEF WireOrdered, Dated

(* Adding a task, with the wire as it is.                                  *)
LEMMA TaskOrdered ==
  ASSUME TypeOK, WireOrdered, NEW t \in Work, Task(t),
         t.kind = "comm" => t.of <= session,
         session' = session, comm' = comm
  PROVE  /\ \A i \in DOMAIN tasks' : tasks'[i].kind = "comm" => tasks'[i].of <= session'
         /\ \A c \in comm' : c.of <= session'
<1>1. tasks' = Append(tasks, t) /\ tasks \in Seq(Work) /\ Len(tasks) \in Nat
  BY DEF Task, TypeOK, Work
<1>2. /\ DOMAIN tasks' = 1 .. Len(tasks) + 1 /\ tasks'[Len(tasks) + 1] = t
      /\ \A i \in DOMAIN tasks : tasks'[i] = tasks[i]
  BY <1>1, AppendElements
<1>3. \A i \in DOMAIN tasks' : i \in DOMAIN tasks \/ i = Len(tasks) + 1
  BY <1>1, <1>2
<1> QED BY <1>2, <1>3 DEF WireOrdered

LEMMA HeadOfWire ==
  ASSUME TypeOK, down # <<>>
  PROVE  /\ Head(down) \in Wire /\ 1 \in DOMAIN down /\ Head(down) = down[1]
         /\ Len(down) \in Nat \ {0}
         /\ DOMAIN Tail(down) = 1 .. Len(down) - 1
         /\ \A i \in DOMAIN Tail(down) :
              i + 1 \in DOMAIN down /\ Tail(down)[i] = down[i + 1]
<1>1. down \in Seq(Wire)
  BY DEF TypeOK, Wire, Entries
<1>2. Len(down) \in Nat \ {0} /\ DOMAIN down = 1 .. Len(down)
  BY <1>1
<1>3. /\ Head(down) = down[1] /\ Len(Tail(down)) = Len(down) - 1 /\ Tail(down) \in Seq(Wire)
      /\ \A i \in 1 .. Len(down) - 1 : Tail(down)[i] = down[i + 1]
  BY <1>1, <1>2, HeadTailProperties
<1> QED BY <1>1, <1>2, <1>3

LEMMA OrderedServer ==
  ASSUME TypeOK, WireOrdered,
         \/ \E s \in Speakers : Accumulate(s)
         \/ \E vad \in BOOLEAN : Flush(vad)
         \/ TextOnly \/ FlushGoesOn \/ FlushEnds \/ Answer \/ Apology \/ OnText \/ Interrupt \/ Queues
  PROVE  WireOrdered'
<1>0. gen \in Gens /\ gen <= gen /\ gen \in Nat
  BY DEF TypeOK, Gens
<1>1. ASSUME NEW m \in Texts, Send(m),
             UNCHANGED <<session, gen, announced, tasks, comm>>
      PROVE  WireOrdered'
  <2>1. m \in Wire /\ m.kind = "transcript"
    BY DEF Wire, Texts
  <2>2. ~Dated(m) /\ m.kind # "comm"
    BY <2>1 DEF Dated
  <2> QED BY <1>0, <1>1, <2>1, <2>2, SendOrdered
<1>2. ASSUME NEW s \in Speakers, Accumulate(s) PROVE WireOrdered'
  <2>1. /\ Send(Text(s, buf'[s], FALSE))
        /\ UNCHANGED <<session, gen, announced, tasks, comm>>
    BY <1>2 DEF Accumulate, env, client
  <2>2. TypeOK'
    BY <1>2, TypeServer, Zenon
  <2>3. Text(s, buf'[s], FALSE) \in Texts
    BY <2>2, MessageTypes DEF TypeOK, Whose
  <2> QED BY <1>1, <2>1, <2>3
<1>3. ASSUME NEW vad \in BOOLEAN, Flush(vad) PROVE WireOrdered'
  <2>1. /\ Send(Text(FirstOf(buf), buf[FirstOf(buf)], TRUE))
        /\ UNCHANGED <<session, gen, announced, tasks, comm>>
    BY <1>3, Zenon DEF Flush, env, client
  <2>2. FirstOf(buf) \in Speakers /\ buf \in [Speakers -> Sayings]
    BY DEF FirstOf, Speakers, TypeOK
  <2>3. Text(FirstOf(buf), buf[FirstOf(buf)], TRUE) \in Texts
    BY <2>2, MessageTypes DEF Whose
  <2> QED BY <1>1, <2>1, <2>3
<1>4. ASSUME TextOnly \/ Apology PROVE WireOrdered'
  <2>1. /\ Says /\ Send(Text("note", <<NextText>>, TRUE))
        /\ UNCHANGED <<session, gen, announced, tasks, comm>>
    BY <1>4, Zenon DEF TextOnly, Apology, env, client
  <2>2. Text("note", <<NextText>>, TRUE) \in Texts
    BY <2>1, SaysType, MessageTypes DEF Whose
  <2> QED BY <1>1, <2>1, <2>2
<1>5. ASSUME FlushGoesOn PROVE WireOrdered'
  <2>1. /\ Send(Text("moderator", turn.took["moderator"], TRUE))
        /\ UNCHANGED <<session, gen, announced, tasks, comm>>
    BY <1>5 DEF FlushGoesOn, env, client
  <2>2. turn.took["moderator"] \in Sayings
    BY DEF TypeOK, Speakers
  <2>3. Text("moderator", turn.took["moderator"], TRUE) \in Texts
    BY <2>2, MessageTypes DEF Whose, Speakers
  <2> QED BY <1>1, <2>1, <2>3
<1>6. ASSUME FlushEnds PROVE WireOrdered'
  <2>1. /\ Send(Interruption(gen)) \/ UNCHANGED down
        /\ UNCHANGED <<session, gen, announced, tasks, comm>>
    BY <1>6, Zenon DEF FlushEnds, env, client
  <2>2. CASE Send(Interruption(gen))
    <3>1. Interruption(gen) \in Wire /\ Interruption(gen).gen = gen
          /\ Interruption(gen).kind = "interruption"
      BY <1>0 DEF Interruption, Wire
    <3> QED BY <1>0, <2>1, <2>2, <3>1, SendOrdered
  <2>3. CASE UNCHANGED down
    BY <2>1, <2>3, Zenon DEF WireOrdered, Dated
  <2> QED BY <2>1, <2>2, <2>3
<1>7. ASSUME Answer PROVE WireOrdered'
  <2>1. /\ Says /\ Send(Text("agent", <<NextText>>, TRUE))
        /\ UNCHANGED <<session, gen, announced, tasks, comm>>
    BY <1>7 DEF Answer, env, client
  <2>2. Text("agent", <<NextText>>, TRUE) \in Texts
    BY <2>1, SaysType, MessageTypes DEF Whose
  <2> QED BY <1>1, <2>1, <2>2
<1>8. ASSUME OnText PROVE WireOrdered'
  <2>1. /\ Says /\ Send(Comm(<<NextText>>))
        /\ UNCHANGED <<session, gen, announced, tasks, comm>>
    BY <1>8 DEF OnText, env, client
  <2>2. Comm(<<NextText>>) \in Wire
    BY <2>1, SaysType, MessageTypes DEF Wire
  <2>3. Comm(<<NextText>>).gen = gen /\ Comm(<<NextText>>).of = session
    BY DEF Comm
  <2> QED BY <1>0, <2>1, <2>2, <2>3, SendOrdered
<1>9. ASSUME Interrupt PROVE WireOrdered'
  <2>1. /\ gen' = gen + 1 /\ gen + 1 \in Gens /\ Send(Interruption(gen + 1))
        /\ UNCHANGED <<session, announced, tasks, comm>>
    BY <1>9, TranscriptAssumption DEF Interrupt, TypeOK, Gens, env, client
  <2>2. /\ Interruption(gen + 1) \in Wire /\ Interruption(gen + 1).gen = gen'
        /\ Interruption(gen + 1).kind = "interruption" /\ gen <= gen'
    BY <1>0, <2>1 DEF Interruption, Wire
  <2> QED BY <2>1, <2>2, SendOrdered
<1>10. ASSUME Queues PROVE WireOrdered'
  <2>1. UNCHANGED <<session, gen, down, tasks, comm, announced>>
    BY <1>10, QueuesOnly, Zenon
  <2> QED BY <2>1, Zenon DEF WireOrdered, Dated
<1> QED BY <1>2, <1>3, <1>4, <1>5, <1>6, <1>7, <1>8, <1>9, <1>10

LEMMA OrderedClient ==
  ASSUME TypeOK, WireOrdered,
         \/ ReceiveText \/ ReceiveInterruption \/ LocalBargeIn \/ Reauthenticate
         \/ NewConversation \/ (\E i \in DOMAIN tasks : RunTask(i)) \/ Fade
  PROVE  WireOrdered'
<1>0. gen \in Nat /\ announced \in Nat /\ session \in Nat
  BY DEF TypeOK, Gens
<1>1. ASSUME ReceiveText PROVE WireOrdered'
  <2>1. /\ down # <<>> /\ Head(down).kind # "interruption" /\ Task(Head(down))
        /\ down' = Tail(down) /\ UNCHANGED <<session, gen, comm, announced>>
    BY <1>1 DEF ReceiveText, server, model
  <2>2. Head(down) \in Work
    BY <2>1, HeadOfWire DEF Wire, Work, Texts, Comms
  <2>3. Head(down).kind = "comm" => Head(down).of <= session
    BY <1>0, <2>1, HeadOfWire DEF WireOrdered
  <2>4. /\ \A i \in DOMAIN tasks' : tasks'[i].kind = "comm" => tasks'[i].of <= session'
        /\ \A c \in comm' : c.of <= session'
    BY <2>1, <2>2, <2>3, TaskOrdered
  <2> QED BY <2>1, <2>4, HeadOfWire DEF WireOrdered, Dated
<1>2. ASSUME ReceiveInterruption PROVE WireOrdered'
  <2>1. /\ down # <<>> /\ Head(down).kind = "interruption" /\ Task(Clear(Head(down).gen))
        /\ down' = Tail(down) /\ UNCHANGED <<session, gen, comm>>
        /\ announced' = Head(down).gen
    BY <1>2 DEF ReceiveInterruption, server, model
  <2>2. Head(down).gen \in Gens /\ Dated(Head(down))
    BY <2>1, HeadOfWire DEF Wire, Texts, Comms, Dated
  <2>3. Clear(Head(down).gen) \in Work /\ Clear(Head(down).gen).kind # "comm"
    BY <2>2 DEF Clear, Work
  <2>4. /\ \A i \in DOMAIN tasks' : tasks'[i].kind = "comm" => tasks'[i].of <= session'
        /\ \A c \in comm' : c.of <= session'
    BY <2>1, <2>3, TaskOrdered
  <2>5. announced' <= gen'
    BY <2>1, <2>2, HeadOfWire DEF WireOrdered
  <2>6. ASSUME NEW i \in DOMAIN down', Dated(down'[i])
        PROVE  announced' <= down'[i].gen /\ down'[i].gen <= gen'
    <3>1. /\ i + 1 \in DOMAIN down /\ down'[i] = down[i + 1] /\ 1 \in DOMAIN down
          /\ Head(down) = down[1] /\ 1 < i + 1
      BY <2>1, HeadOfWire
    <3>2. Dated(down[i + 1]) /\ Dated(down[1])
      BY <2>2, <2>6, <3>1
    <3> QED BY <2>1, <3>1, <3>2 DEF WireOrdered
  <2>7. ASSUME NEW i \in DOMAIN down'
        PROVE  i + 1 \in DOMAIN down /\ down'[i] = down[i + 1]
    BY <2>1, HeadOfWire
  <2>8. \A i \in DOMAIN down' : down'[i].kind = "comm" => down'[i].of = session'
    BY <2>1, <2>7 DEF WireOrdered
  <2>9. ASSUME NEW i \in DOMAIN down', NEW j \in DOMAIN down',
               i < j, Dated(down'[i]), Dated(down'[j])
        PROVE  down'[i].gen <= down'[j].gen
    <3>1. i \in Nat /\ j \in Nat /\ i + 1 < j + 1
      BY <2>1, <2>9, HeadOfWire
    <3> QED BY <2>7, <2>9, <3>1 DEF WireOrdered
  <2> QED BY <2>4, <2>5, <2>6, <2>8, <2>9 DEF WireOrdered, Dated
<1>3. ASSUME LocalBargeIn PROVE WireOrdered'
  <2>1. Task(Clear(current)) /\ UNCHANGED <<session, gen, comm, down, announced>>
    BY <1>3 DEF LocalBargeIn, server, model
  <2>2. Clear(current) \in Work /\ Clear(current).kind # "comm"
    BY DEF Clear, Work, TypeOK
  <2>3. /\ \A i \in DOMAIN tasks' : tasks'[i].kind = "comm" => tasks'[i].of <= session'
        /\ \A c \in comm' : c.of <= session'
    BY <2>1, <2>2, TaskOrdered
  <2> QED BY <2>1, <2>3 DEF WireOrdered, Dated
<1>4. ASSUME Reauthenticate \/ NewConversation PROVE WireOrdered'
  <2>1. /\ session' = session + 1 /\ gen' = 0 /\ announced' = 0 /\ down' = <<>>
        /\ tasks' = tasks /\ comm' \in {comm, {}}
    BY <1>4 DEF Reauthenticate, NewConversation, SessionStarts
  <2>2. \A i \in DOMAIN tasks : tasks[i].kind = "comm" => tasks[i].of \in Nat
    BY DEF TypeOK, Texts, Comms
  <2>3. \A c \in comm : c.of \in Nat
    BY DEF TypeOK
  <2>4. \A i \in DOMAIN tasks' : tasks'[i].kind = "comm" => tasks'[i].of <= session'
    BY <1>0, <2>1, <2>2 DEF WireOrdered
  <2>5. \A c \in comm' : c.of <= session'
    BY <1>0, <2>1, <2>3 DEF WireOrdered
  <2> QED BY <2>1, <2>4, <2>5 DEF WireOrdered
<1>5. ASSUME NEW i \in DOMAIN tasks, RunTask(i) PROVE WireOrdered'
  <2>1. /\ tasks' = RemoveAt(tasks, i) /\ UNCHANGED <<session, gen, down, announced>>
        /\ HandleTranscript(tasks[i]) \/ HandleComm(tasks[i]) \/ ClearStale(tasks[i])
    BY <1>5, Zenon DEF RunTask, server
  <2>2. tasks \in Seq(Work)
    BY DEF TypeOK, Work
  <2>3. \A j \in DOMAIN tasks' : \E k \in DOMAIN tasks : tasks'[j] = tasks[k]
    <3> SUFFICES ASSUME NEW j \in DOMAIN tasks'
                 PROVE  \E k \in DOMAIN tasks : tasks'[j] = tasks[k]
      OBVIOUS
    <3>1. j \in 1 .. Len(tasks) - 1 /\ tasks'[j] = IF j < i THEN tasks[j] ELSE tasks[j + 1]
      BY <2>1, <2>2, RemoveElements
    <3>2. j \in DOMAIN tasks /\ j + 1 \in DOMAIN tasks
      BY <2>2, <3>1
    <3> QED BY <3>1, <3>2
  <2>4. \A j \in DOMAIN tasks' : tasks'[j].kind = "comm" => tasks'[j].of <= session'
    BY <2>1, <2>3 DEF WireOrdered
  <2>5. \A c \in comm' : c.of <= session'
    <3>1. CASE HandleTranscript(tasks[i])
      BY <2>1, <3>1 DEF HandleTranscript, WireOrdered
    <3>2. CASE HandleComm(tasks[i])
      BY <2>1, <3>2 DEF HandleComm, WireOrdered
    <3>3. CASE ClearStale(tasks[i])
      BY <2>1, <3>3 DEF ClearStale, StillCurrent, WireOrdered
    <3> QED BY <2>1, <3>1, <3>2, <3>3
  <2> QED BY <2>1, <2>4, <2>5 DEF WireOrdered, Dated
<1>6. ASSUME Fade PROVE WireOrdered'
  BY <1>6 DEF Fade, server, WireOrdered, Dated
<1> QED BY <1>1, <1>2, <1>3, <1>4, <1>5, <1>6

LEMMA OrderedStep ==
  ASSUME TypeOK, WireOrdered, [Next]_vars
  PROVE  WireOrdered'
<1>1. CASE UNCHANGED vars
  BY <1>1, Zenon DEF vars, WireOrdered, Dated
<1>2. CASE Next
  BY <1>2, OrderedServer, OrderedClient, Zenon DEF Next, Queues
<1> QED BY <1>1, <1>2

(* A task that is added leaves those before it, and what is to clear them. *)
LEMMA TaskCleared ==
  ASSUME TypeOK, StaleIsCleared, NEW t \in Work, Task(t),
         ~(t.kind = "comm" /\ t.of = session /\ t.gen < announced),
         UNCHANGED <<session, announced, comm>>
  PROVE  StaleIsCleared'
<1>1. tasks' = Append(tasks, t) /\ tasks \in Seq(Work) /\ Len(tasks) \in Nat
  BY DEF Task, TypeOK, Work
<1>2. /\ DOMAIN tasks' = 1 .. Len(tasks) + 1 /\ tasks'[Len(tasks) + 1] = t
      /\ \A i \in DOMAIN tasks : i \in DOMAIN tasks' /\ tasks'[i] = tasks[i]
  BY <1>1, AppendElements
<1>3. \A i \in DOMAIN tasks' : i \in DOMAIN tasks \/ i = Len(tasks) + 1
  BY <1>1, <1>2
<1>4. \A j \in DOMAIN tasks : Clears(j) => Clears(j)'
  BY <1>2 DEF Clears
<1>5. ASSUME NEW i \in DOMAIN tasks',
             tasks'[i].kind = "comm", tasks'[i].of = session', tasks'[i].gen < announced'
      PROVE  \E j \in DOMAIN tasks' : i < j /\ Clears(j)'
  <2>1. i \in DOMAIN tasks /\ tasks'[i] = tasks[i]
    BY <1>2, <1>3, <1>5
  <2>2. PICK j \in DOMAIN tasks : i < j /\ Clears(j)
    BY <1>5, <2>1 DEF StaleIsCleared
  <2> QED BY <1>2, <1>4, <2>2
<1>6. ASSUME NEW c \in comm', c.of = session', c.gen < announced'
      PROVE  \E j \in DOMAIN tasks' : Clears(j)'
  <2>1. PICK j \in DOMAIN tasks : Clears(j)
    BY <1>6 DEF StaleIsCleared
  <2> QED BY <1>2, <1>4, <2>1
<1> QED BY <1>5, <1>6 DEF StaleIsCleared

LEMMA ReceiveInterruptionCleared ==
  ASSUME TypeOK, ReceiveInterruption
  PROVE  StaleIsCleared'
<1> DEFINE t == Clear(Head(down).gen)
<1>1. /\ down # <<>> /\ Head(down).kind = "interruption" /\ Task(t)
      /\ announced' = Head(down).gen
  BY DEF ReceiveInterruption
<1>2. Head(down).gen \in Gens
  BY <1>1, HeadOfWire DEF Wire, Texts, Comms
<1>3. t \in Work /\ t.kind = "clear" /\ t.gen = announced'
  BY <1>1, <1>2 DEF Clear, Work
<1>4. comm' = comm /\ session' = session
  BY DEF ReceiveInterruption, model, server
<1> HIDE DEF t
<1>5. tasks' = Append(tasks, t) /\ tasks \in Seq(Work) /\ Len(tasks) \in Nat
  BY <1>1 DEF Task, TypeOK, Work
<1>6. DOMAIN tasks' = 1 .. Len(tasks) + 1 /\ tasks'[Len(tasks) + 1] = t
  BY <1>3, <1>5, AppendElements
<1>7. PICK n \in Nat : n = Len(tasks) + 1
  BY <1>5
<1>8. n \in DOMAIN tasks' /\ Clears(n)'
  BY <1>3, <1>5, <1>6, <1>7 DEF Clears
<1>9. ASSUME NEW i \in DOMAIN tasks', tasks'[i].kind = "comm"
      PROVE  i < n
  <2>1. i # n
    BY <1>3, <1>6, <1>7, <1>9
  <2> QED BY <1>5, <1>6, <1>7, <2>1
<1>10. \A i \in DOMAIN tasks' :
         tasks'[i].kind = "comm" => \E j \in DOMAIN tasks' : i < j /\ Clears(j)'
  BY <1>8, <1>9
<1>11. \E j \in DOMAIN tasks' : Clears(j)'
  BY <1>8
<1> QED BY <1>10, <1>11, Zenon DEF StaleIsCleared

(* Nothing of a new session is stale, and nothing else is of it.           *)
LEMMA NewSessionCleared ==
  ASSUME TypeOK, WireOrdered, Reauthenticate \/ NewConversation
  PROVE  StaleIsCleared'
<1>1. session' = session + 1 /\ announced' = 0 /\ tasks' = tasks /\ comm' \in {comm, {}}
  BY DEF Reauthenticate, NewConversation, SessionStarts
<1>2. /\ \A i \in DOMAIN tasks : tasks[i].kind = "comm" => tasks[i].gen \in Nat
      /\ \A c \in comm : c.gen \in Nat
  BY DEF TypeOK, Texts, Comms, Gens
<1> QED BY <1>1, <1>2 DEF StaleIsCleared

(* The first task goes; the others move up.                                *)
LEMMA FirstTaskGoes ==
  ASSUME TypeOK, 1 \in DOMAIN tasks, tasks' = RemoveAt(tasks, 1)
  PROVE  /\ tasks[1] \in Work
         /\ \A j \in DOMAIN tasks' : j \in Nat /\ j + 1 \in DOMAIN tasks /\ tasks'[j] = tasks[j + 1]
         /\ \A j \in DOMAIN tasks : j \in Nat /\ (j = 1 \/ (1 < j /\ j - 1 \in DOMAIN tasks' /\ tasks'[j - 1] = tasks[j]))
<1>1. tasks \in Seq(Work) /\ Len(tasks) \in Nat
  BY DEF TypeOK, Work
<1>2. /\ Len(tasks') = Len(tasks) - 1 /\ tasks' \in Seq(Work)
      /\ \A j \in 1 .. Len(tasks) - 1 : tasks'[j] = IF j < 1 THEN tasks[j] ELSE tasks[j + 1]
  BY <1>1, RemoveElements
<1>3. DOMAIN tasks' = 1 .. Len(tasks) - 1 /\ DOMAIN tasks = 1 .. Len(tasks)
  BY <1>1, <1>2
<1>4. \A j \in 1 .. Len(tasks) - 1 : tasks'[j] = tasks[j + 1]
  BY <1>1, <1>2
<1>5. ASSUME NEW j \in DOMAIN tasks, j # 1
      PROVE  1 < j /\ j - 1 \in DOMAIN tasks' /\ tasks'[j - 1] = tasks[j]
  <2>1. j \in Nat /\ j - 1 \in 1 .. Len(tasks) - 1 /\ (j - 1) + 1 = j
    BY <1>1, <1>3, <1>5
  <2>2. tasks'[j - 1] = tasks[(j - 1) + 1]
    BY <1>4, <2>1
  <2> QED BY <1>3, <2>1, <2>2
<1>6. tasks[1] \in Work
  BY <1>1
<1> QED BY <1>1, <1>3, <1>4, <1>5, <1>6

LEMMA RunTaskCleared ==
  ASSUME TypeOK, StaleIsCleared, inOrder, NEW i \in DOMAIN tasks, RunTask(i)
  PROVE  StaleIsCleared'
<1>1. i = 1
  BY Zenon DEF RunTask
<1>2. /\ tasks' = RemoveAt(tasks, 1) /\ UNCHANGED <<session, announced>>
      /\ HandleTranscript(tasks[1]) \/ HandleComm(tasks[1]) \/ ClearStale(tasks[1])
  BY <1>1, Zenon DEF RunTask, server
<1>3. 1 \in DOMAIN tasks
  BY <1>1
<1>4. /\ tasks[1] \in Work
      /\ \A j \in DOMAIN tasks' : j \in Nat /\ j + 1 \in DOMAIN tasks /\ tasks'[j] = tasks[j + 1]
      /\ \A j \in DOMAIN tasks : j \in Nat /\ (j = 1 \/ (1 < j /\ j - 1 \in DOMAIN tasks' /\ tasks'[j - 1] = tasks[j]))
  BY <1>2, <1>3, FirstTaskGoes
<1>5. ASSUME NEW j \in DOMAIN tasks, 1 < j, Clears(j)
      PROVE  j - 1 \in DOMAIN tasks' /\ Clears(j - 1)'
  BY <1>2, <1>4, <1>5 DEF Clears
<1>6. ASSUME NEW k \in DOMAIN tasks',
             tasks'[k].kind = "comm", tasks'[k].of = session', tasks'[k].gen < announced'
      PROVE  \E j \in DOMAIN tasks' : k < j /\ Clears(j)'
  <2>1. k \in Nat /\ k + 1 \in DOMAIN tasks /\ tasks'[k] = tasks[k + 1]
    BY <1>4
  <2>2. PICK j \in DOMAIN tasks : k + 1 < j /\ Clears(j)
    BY <1>2, <1>6, <2>1 DEF StaleIsCleared
  <2>3. j \in Nat /\ 1 < j /\ k < j - 1
    BY <1>4, <2>1, <2>2
  <2> QED BY <1>5, <2>2, <2>3
<1>7. ASSUME NEW c \in comm', c.of = session', c.gen < announced'
      PROVE  \E j \in DOMAIN tasks' : Clears(j)'
  <2>1. ASSUME c \in comm, ~Clears(1)
        PROVE  \E j \in DOMAIN tasks' : Clears(j)'
    <3>1. PICK j \in DOMAIN tasks : Clears(j)
      BY <1>2, <1>7, <2>1 DEF StaleIsCleared
    <3>2. 1 < j
      BY <1>4, <2>1, <3>1
    <3> QED BY <1>5, <3>1, <3>2
  <2>2. CASE HandleTranscript(tasks[1])
    <3>1. comm' = comm /\ ~Clears(1)
      BY <2>2 DEF HandleTranscript, Clears
    <3> QED BY <1>7, <2>1, <3>1
  <2>3. CASE HandleComm(tasks[1])
    <3>1. /\ tasks[1].kind = "comm" /\ comm' = {[gen |-> tasks[1].gen, of |-> tasks[1].of]}
      BY <2>3 DEF HandleComm
    <3>2. tasks[1].of = session /\ tasks[1].gen < announced
      BY <1>2, <1>7, <3>1
    <3>3. PICK j \in DOMAIN tasks : 1 < j /\ Clears(j)
      BY <1>3, <3>1, <3>2 DEF StaleIsCleared
    <3> QED BY <1>5, <3>3
  <2>4. CASE ClearStale(tasks[1])
    <3>1. c \in comm /\ c.gen >= tasks[1].gen
      BY <1>7, <2>4 DEF ClearStale, StillCurrent
    <3>2. /\ c.gen \in Nat /\ announced \in Nat
          /\ tasks[1].kind = "clear" => tasks[1].gen \in Nat
      BY <1>4, <3>1 DEF TypeOK, Work, Texts, Comms, Gens
    <3>3. ~Clears(1)
      BY <1>2, <1>7, <3>1, <3>2 DEF Clears
    <3> QED BY <2>1, <3>1, <3>3
  <2> QED BY <1>2, <2>2, <2>3, <2>4
<1> QED BY <1>6, <1>7 DEF StaleIsCleared

LEMMA ClearedStep ==
  ASSUME TypeOK, WireOrdered, inOrder => StaleIsCleared, [Next]_vars, inOrder'
  PROVE  StaleIsCleared'
<1>1. inOrder' = inOrder
  BY Zenon DEF Next, vars, env, Accumulate, Flush, TextOnly, FlushGoesOn, FlushEnds, Answer,
               Apology, OnText, Interrupt, ReceiveText, ReceiveInterruption, LocalBargeIn,
               Reauthenticate, NewConversation, RunTask, Fade, Queues, SpokenAnswer, Leaves, client
<1>2. inOrder /\ StaleIsCleared
  BY <1>1, Zenon
<1>3. ASSUME UNCHANGED <<session, tasks, comm, announced>>
      PROVE  StaleIsCleared'
  BY <1>2, <1>3, Zenon DEF StaleIsCleared, Clears
<1>4. CASE \/ \E s \in Speakers : Accumulate(s)
           \/ \E vad \in BOOLEAN : Flush(vad)
           \/ TextOnly \/ FlushGoesOn \/ FlushEnds
           \/ Answer \/ Apology \/ OnText \/ Interrupt \/ Queues
  <2>1. UNCHANGED <<session, tasks, comm, announced>>
    BY <1>4, Zenon DEF Accumulate, Flush, TextOnly, FlushGoesOn, FlushEnds, Answer, Apology,
                       OnText, Interrupt, Queues, SpokenAnswer, Leaves, env, client
  <2> QED BY <1>3, <2>1
<1>5. CASE ReceiveText
  <2>1. /\ down # <<>> /\ Head(down).kind # "interruption" /\ Task(Head(down))
        /\ UNCHANGED <<session, announced, comm>>
    BY <1>5 DEF ReceiveText, server, model
  <2>2. Head(down) \in Work
    BY <2>1, HeadOfWire DEF Wire, Work, Texts, Comms
  <2>3. ASSUME Head(down).kind = "comm"
        PROVE  ~(Head(down).gen < announced)
    <3>1. Head(down).gen \in Nat /\ announced \in Nat
      BY <2>2, <2>3 DEF Work, Texts, Comms, Gens, TypeOK
    <3>2. announced <= Head(down).gen
      BY <2>1, <2>3, HeadOfWire DEF WireOrdered, Dated
    <3> QED BY <3>1, <3>2
  <2> QED BY <1>2, <2>1, <2>2, <2>3, TaskCleared
<1>6. CASE ReceiveInterruption
  BY <1>6, ReceiveInterruptionCleared
<1>7. CASE LocalBargeIn
  <2>1. Task(Clear(current)) /\ UNCHANGED <<session, announced, comm>>
    BY <1>7 DEF LocalBargeIn, server, model
  <2>2. Clear(current) \in Work /\ Clear(current).kind # "comm"
    BY DEF Clear, Work, TypeOK
  <2> QED BY <1>2, <2>1, <2>2, TaskCleared
<1>8. CASE Reauthenticate \/ NewConversation
  BY <1>8, NewSessionCleared
<1>9. CASE \E i \in DOMAIN tasks : RunTask(i)
  BY <1>2, <1>9, RunTaskCleared
<1>10. CASE Fade
  <2>1. comm' = {} /\ UNCHANGED <<session, tasks, announced>>
    BY <1>10 DEF Fade, server
  <2> QED BY <1>2, <2>1 DEF StaleIsCleared, Clears
<1>11. CASE UNCHANGED vars
  <2>1. UNCHANGED <<session, tasks, comm, announced>>
    BY <1>11, Zenon DEF vars
  <2> QED BY <1>3, <2>1
<1> QED BY <1>4, <1>5, <1>6, <1>7, <1>8, <1>9, <1>10, <1>11, Zenon DEF Next, Queues

(* Once a barge-in has been shown, no text of an agent from before it      *)
(* remains, for every number of barge-ins below the wrap and every length  *)
(* of the queues: the filter of clearStaleAgentComms is enough, if the     *)
(* main actor keeps the order.                                             *)
THEOREM CommsStayCurrent == Spec => []CommsCurrent
<1> DEFINE CInv == TypeOK /\ WireOrdered /\ (inOrder => StaleIsCleared)
<1>1. Init => CInv
  <2> SUFFICES ASSUME Init PROVE WireOrdered /\ StaleIsCleared /\ TypeOK
    OBVIOUS
  <2>1. WireOrdered
    BY DEF Init, WireOrdered
  <2>2. StaleIsCleared
    BY DEF Init, StaleIsCleared
  <2>3. TypeOK
    BY TypeAtStart
  <2> QED BY <2>1, <2>2, <2>3
<1>2. CInv /\ [Next]_vars => CInv'
  BY TypeStep, OrderedStep, ClearedStep, Zenon
<1>3. CInv => CommsCurrent
  <2> SUFFICES ASSUME TypeOK, StaleIsCleared, tasks = <<>>, NEW c \in comm, c.of = session
               PROVE  c.gen >= announced
    BY Zenon DEF CommsCurrent
  <2>1. ~(c.gen < announced)
    BY DEF StaleIsCleared
  <2>2. c.gen \in Nat /\ announced \in Nat
    BY DEF TypeOK, Gens
  <2> QED BY <2>1, <2>2
<1> QED BY <1>1, <1>2, <1>3, PTL DEF Spec

-----------------------------------------------------------------------------
(* The unfinished line.  The last transcript on its way, or when there is  *)
(* none the line in the slot, is what is in a buffer, if it is a partial   *)
(* of this session.                                                        *)

Right(l) ==
  ~l.final /\ l.of = session => l.who \in Speakers /\ l.text = buf[l.who]

NoneIn(q) == \A j \in DOMAIN q : q[j].kind # "transcript"
LastIn(q, i) ==
  q[i].kind = "transcript" /\ \A j \in DOMAIN q : i < j => q[j].kind # "transcript"

Reflected ==
  /\ \A i \in DOMAIN down : LastIn(down, i) => Right(down[i])
  /\ NoneIn(down) => \A i \in DOMAIN tasks : LastIn(tasks, i) => Right(tasks[i])
  /\ NoneIn(down) /\ NoneIn(tasks) /\ slot # 0 => Right(lines[slot])

Origins ==
  /\ \A i \in DOMAIN down : down[i].kind = "transcript" => down[i].of <= session
  /\ \A i \in DOMAIN tasks : tasks[i].kind = "transcript" => tasks[i].of <= session
  /\ \A i \in DOMAIN lines : lines[i].of <= session

LEMMA SentTranscript ==
  ASSUME TypeOK, Reflected, Origins, NEW m \in Texts, Send(m),
         m.of = session, Right(m)', UNCHANGED <<session, tasks, lines, slot>>
  PROVE  Reflected' /\ Origins'
<1>1. /\ down' = Append(down, m) /\ down \in Seq(Wire) /\ Len(down) \in Nat /\ m \in Wire
      /\ m.kind = "transcript" /\ session \in Nat
  BY DEF Send, TypeOK, Wire, Texts
<1>2. /\ DOMAIN down' = 1 .. Len(down) + 1 /\ down'[Len(down) + 1] = m
      /\ \A i \in DOMAIN down : down'[i] = down[i]
  BY <1>1, AppendElements
<1>3. ASSUME NEW i \in DOMAIN down', LastIn(down', i)
      PROVE  down'[i] = m
  <2>1. ~(i < Len(down) + 1)
    BY <1>1, <1>2, <1>3 DEF LastIn
  <2> QED BY <1>1, <1>2, <2>1
<1>4. ~NoneIn(down')
  BY <1>1, <1>2 DEF NoneIn
<1>5. \A i \in DOMAIN down' : LastIn(down', i) => Right(m)' /\ down'[i] = m
  BY <1>3
<1>6. Reflected'
  BY <1>4, <1>5 DEF Reflected, Right
<1>7. \A i \in DOMAIN down' : down'[i].kind = "transcript" => down'[i].of <= session'
  <2>1. \A i \in DOMAIN down' : i \in DOMAIN down \/ i = Len(down) + 1
    BY <1>1, <1>2
  <2> QED BY <1>1, <1>2, <2>1 DEF Origins
<1>8. /\ \A i \in DOMAIN tasks' : tasks'[i].kind = "transcript" => tasks'[i].of <= session'
      /\ \A i \in DOMAIN lines' : lines'[i].of <= session'
  BY DEF Origins
<1> QED BY <1>6, <1>7, <1>8 DEF Origins

(* Another message, or none, leaves the last transcript where it is.       *)
LEMMA SentOther ==
  ASSUME TypeOK, Reflected, Origins,
         NEW m \in Wire, Send(m), m.kind # "transcript",
         UNCHANGED <<session, buf, tasks, lines, slot>>
  PROVE  Reflected' /\ Origins'
<1>1. down' = Append(down, m) /\ down \in Seq(Wire) /\ Len(down) \in Nat
  BY DEF Send, TypeOK, Wire
<1>2. /\ DOMAIN down' = 1 .. Len(down) + 1 /\ down'[Len(down) + 1] = m
      /\ \A i \in DOMAIN down : i \in DOMAIN down' /\ down'[i] = down[i]
  BY <1>1, AppendElements
<1>3. \A i \in DOMAIN down' : i \in DOMAIN down \/ i = Len(down) + 1
  BY <1>1, <1>2
<1>4. \A i \in DOMAIN down' :
        down'[i].kind = "transcript" => i \in DOMAIN down /\ down[i] = down'[i]
  BY <1>2, <1>3
<1>5. NoneIn(down') => NoneIn(down)
  BY <1>2 DEF NoneIn
<1>6. ASSUME NEW i \in DOMAIN down', LastIn(down', i)
      PROVE  i \in DOMAIN down /\ down'[i] = down[i] /\ LastIn(down, i)
  <2>1. i \in DOMAIN down /\ down'[i] = down[i]
    BY <1>4, <1>6 DEF LastIn
  <2> QED BY <1>2, <1>6, <2>1 DEF LastIn
<1>7. \A i \in DOMAIN down' : LastIn(down', i) => Right(down[i]) /\ down'[i] = down[i]
  BY <1>6 DEF Reflected
<1>8. Reflected'
  BY <1>5, <1>7 DEF Reflected, Right
<1>9. Origins'
  BY <1>4 DEF Origins
<1> QED BY <1>8, <1>9

LEMMA ReflectedServer ==
  ASSUME TypeOK, Reflected, Origins,
         \/ \E s \in Speakers : Accumulate(s)
         \/ \E vad \in BOOLEAN : Flush(vad)
         \/ TextOnly \/ FlushGoesOn \/ FlushEnds \/ Answer \/ Apology \/ OnText \/ Interrupt \/ Queues
  PROVE  Reflected' /\ Origins'
<1>1. ASSUME NEW w \in Whose, NEW t \in Sayings, Send(Text(w, t, TRUE)),
             UNCHANGED <<session, tasks, lines, slot>>
      PROVE  Reflected' /\ Origins'
  <2> DEFINE m == Text(w, t, TRUE)
  <2>1. m.final /\ m.of = session /\ m \in Texts
    BY MessageTypes DEF Text
  <2>2. PICK n \in Texts : n = m
    BY <2>1
  <2>3. Right(n)'
    BY <2>1, <2>2 DEF Right
  <2> QED BY <1>1, <2>1, <2>2, <2>3, SentTranscript
<1>2. ASSUME NEW s \in Speakers, Accumulate(s) PROVE Reflected' /\ Origins'
  <2>1. /\ Send(Text(s, buf'[s], FALSE)) /\ UNCHANGED <<session, tasks, lines, slot>>
    BY <1>2 DEF Accumulate, env, client
  <2>2. TypeOK'
    BY <1>2, TypeServer, Zenon
  <2>3. Text(s, buf'[s], FALSE) \in Texts
    BY <2>2, MessageTypes DEF TypeOK, Whose
  <2>4. PICK n \in Texts : n = Text(s, buf'[s], FALSE)
    BY <2>3
  <2>5. n.who = s /\ n.text = buf'[s] /\ n.of = session
    BY <2>4 DEF Text
  <2>6. Right(n)'
    BY <2>5 DEF Right
  <2>7. Send(n)
    BY <2>1, <2>4
  <2> QED BY <2>1, <2>5, <2>6, <2>7, SentTranscript
<1>3. ASSUME NEW vad \in BOOLEAN, Flush(vad) PROVE Reflected' /\ Origins'
  <2>1. /\ Send(Text(FirstOf(buf), buf[FirstOf(buf)], TRUE))
        /\ UNCHANGED <<session, tasks, lines, slot>>
    BY <1>3, Zenon DEF Flush, env, client
  <2>2. FirstOf(buf) \in Whose /\ FirstOf(buf) \in Speakers /\ buf \in [Speakers -> Sayings]
    BY DEF FirstOf, Speakers, TypeOK, Whose
  <2>3. buf[FirstOf(buf)] \in Sayings
    BY <2>2
  <2> QED BY <1>1, <2>1, <2>2, <2>3
<1>4. ASSUME TextOnly \/ Apology PROVE Reflected' /\ Origins'
  <2>1. /\ Says /\ Send(Text("note", <<NextText>>, TRUE))
        /\ UNCHANGED <<session, tasks, lines, slot>>
    BY <1>4, Zenon DEF TextOnly, Apology, env, client
  <2>2. "note" \in Whose /\ <<NextText>> \in Sayings
    BY <2>1, SaysType DEF Whose
  <2> QED BY <1>1, <2>1, <2>2
<1>5. ASSUME FlushGoesOn PROVE Reflected' /\ Origins'
  <2>1. /\ Send(Text("moderator", turn.took["moderator"], TRUE))
        /\ UNCHANGED <<session, tasks, lines, slot>>
    BY <1>5 DEF FlushGoesOn, env, client
  <2>2. "moderator" \in Whose /\ turn.took["moderator"] \in Sayings
    BY DEF TypeOK, Speakers, Whose
  <2> QED BY <1>1, <2>1, <2>2
<1>6. ASSUME FlushEnds PROVE Reflected' /\ Origins'
  <2>1. /\ Send(Interruption(gen)) \/ UNCHANGED down
        /\ UNCHANGED <<session, buf, tasks, lines, slot>>
    BY <1>6, Zenon DEF FlushEnds, env, client
  <2>2. Interruption(gen) \in Wire /\ Interruption(gen).kind = "interruption"
    BY MessageTypes DEF Interruption, TypeOK
  <2>3. CASE Send(Interruption(gen))
    BY <2>1, <2>2, <2>3, SentOther
  <2>4. CASE UNCHANGED down
    BY <2>1, <2>4, Zenon DEF Reflected, Origins, Right, NoneIn, LastIn
  <2> QED BY <2>1, <2>3, <2>4
<1>7. ASSUME Answer PROVE Reflected' /\ Origins'
  <2>1. /\ Says /\ Send(Text("agent", <<NextText>>, TRUE))
        /\ UNCHANGED <<session, tasks, lines, slot>>
    BY <1>7 DEF Answer, env, client
  <2>2. "agent" \in Whose /\ <<NextText>> \in Sayings
    BY <2>1, SaysType DEF Whose
  <2> QED BY <1>1, <2>1, <2>2
<1>8. ASSUME OnText PROVE Reflected' /\ Origins'
  <2>1. /\ Says /\ Send(Comm(<<NextText>>))
        /\ UNCHANGED <<session, buf, tasks, lines, slot>>
    BY <1>8 DEF OnText, env, client
  <2>2. Comm(<<NextText>>) \in Wire /\ Comm(<<NextText>>).kind = "comm"
    BY <2>1, SaysType, MessageTypes DEF Wire, Comm
  <2> QED BY <2>1, <2>2, SentOther
<1>9. ASSUME Interrupt PROVE Reflected' /\ Origins'
  <2>1. /\ gen + 1 \in Gens /\ Send(Interruption(gen + 1))
        /\ UNCHANGED <<session, buf, tasks, lines, slot>>
    BY <1>9, TranscriptAssumption DEF Interrupt, TypeOK, Gens, env, client
  <2>2. Interruption(gen + 1) \in Wire /\ Interruption(gen + 1).kind = "interruption"
    BY <2>1, MessageTypes DEF Interruption
  <2> QED BY <2>1, <2>2, SentOther
<1>10. ASSUME Queues PROVE Reflected' /\ Origins'
  <2>1. UNCHANGED <<session, buf, down, tasks, lines, slot>>
    BY <1>10, QueuesOnly, Zenon
  <2> QED BY <2>1, Zenon DEF Reflected, Origins, Right, NoneIn, LastIn
<1> QED BY <1>2, <1>3, <1>4, <1>5, <1>6, <1>7, <1>8, <1>9, <1>10

LEMMA PassedOn ==
  ASSUME TypeOK, down # <<>>, down' = Tail(down)
  PROVE  /\ \A i \in DOMAIN down' : i + 1 \in DOMAIN down /\ down'[i] = down[i + 1]
         /\ \A i \in DOMAIN down' : LastIn(down', i) => LastIn(down, i + 1)
         /\ NoneIn(down') =>
              IF down[1].kind = "transcript" THEN LastIn(down, 1) ELSE NoneIn(down)
<1>1. /\ Len(down) \in Nat \ {0} /\ DOMAIN down' = 1 .. Len(down) - 1
      /\ DOMAIN down = 1 .. Len(down)
      /\ \A i \in DOMAIN down' : i + 1 \in DOMAIN down /\ down'[i] = down[i + 1]
  BY HeadOfWire DEF TypeOK
<1>2. ASSUME NEW j \in DOMAIN down, j # 1
      PROVE  j - 1 \in DOMAIN down' /\ down'[j - 1] = down[j]
  <2>1. j - 1 \in DOMAIN down' /\ (j - 1) + 1 = j
    BY <1>1, <1>2
  <2> QED BY <1>1, <2>1
<1>3. ASSUME NEW i \in DOMAIN down', LastIn(down', i)
      PROVE  LastIn(down, i + 1)
  <2>1. down[i + 1].kind = "transcript"
    BY <1>1, <1>3 DEF LastIn
  <2>2. ASSUME NEW j \in DOMAIN down, i + 1 < j
        PROVE  down[j].kind # "transcript"
    <3>1. j # 1 /\ i < j - 1
      BY <1>1, <2>2
    <3> QED BY <1>2, <1>3, <3>1 DEF LastIn
  <2> QED BY <2>1, <2>2 DEF LastIn
<1>4. ASSUME NoneIn(down')
      PROVE  \A j \in DOMAIN down : j # 1 => down[j].kind # "transcript"
  BY <1>2, <1>4 DEF NoneIn
<1>5. ASSUME NoneIn(down'), down[1].kind = "transcript" PROVE LastIn(down, 1)
  BY <1>1, <1>4, <1>5 DEF LastIn
<1>6. ASSUME NoneIn(down'), down[1].kind # "transcript" PROVE NoneIn(down)
  BY <1>4, <1>6 DEF NoneIn
<1> QED BY <1>1, <1>3, <1>5, <1>6

LEMMA TaskAdded ==
  ASSUME TypeOK, NEW t \in Work, Task(t)
  PROVE  /\ \A i \in DOMAIN tasks' :
              tasks'[i] = t \/ (i \in DOMAIN tasks /\ tasks'[i] = tasks[i])
         /\ NoneIn(tasks') => NoneIn(tasks) /\ t.kind # "transcript"
         /\ \A i \in DOMAIN tasks' : LastIn(tasks', i) =>
              IF t.kind = "transcript" THEN tasks'[i] = t
              ELSE i \in DOMAIN tasks /\ tasks'[i] = tasks[i] /\ LastIn(tasks, i)
<1>1. tasks' = Append(tasks, t) /\ tasks \in Seq(Work) /\ Len(tasks) \in Nat
  BY DEF Task, TypeOK, Work
<1>2. /\ DOMAIN tasks' = 1 .. Len(tasks) + 1 /\ tasks'[Len(tasks) + 1] = t
      /\ \A i \in DOMAIN tasks : i \in DOMAIN tasks' /\ tasks'[i] = tasks[i]
  BY <1>1, AppendElements
<1>3. \A i \in DOMAIN tasks' : i \in DOMAIN tasks \/ i = Len(tasks) + 1
  BY <1>1, <1>2
<1>4. NoneIn(tasks') => NoneIn(tasks) /\ t.kind # "transcript"
  BY <1>1, <1>2 DEF NoneIn
<1>5. ASSUME NEW i \in DOMAIN tasks', LastIn(tasks', i), t.kind = "transcript"
      PROVE  tasks'[i] = t
  <2>1. ~(i < Len(tasks) + 1)
    BY <1>1, <1>2, <1>5 DEF LastIn
  <2> QED BY <1>1, <1>2, <2>1
<1>6. ASSUME NEW i \in DOMAIN tasks', LastIn(tasks', i), t.kind # "transcript"
      PROVE  i \in DOMAIN tasks /\ tasks'[i] = tasks[i] /\ LastIn(tasks, i)
  <2>1. i # Len(tasks) + 1
    BY <1>2, <1>6 DEF LastIn
  <2>2. i \in DOMAIN tasks /\ tasks'[i] = tasks[i]
    BY <1>2, <1>3, <2>1
  <2> QED BY <1>2, <1>6, <2>2 DEF LastIn
<1> QED BY <1>2, <1>3, <1>4, <1>5, <1>6

LEMMA SlotLine ==
  ASSUME TypeOK, NEW m \in Texts, HandleTranscript(m)
  PROVE  /\ slot' # 0 => lines'[slot'] = Line(m)
         /\ \A i \in DOMAIN lines' :
              lines'[i] = Line(m) \/ (i \in DOMAIN lines /\ lines'[i] = lines[i])
<1>1. lines' = Shown(m) /\ slot' = SlotAfter(m)
  BY DEF HandleTranscript
<1>2. Line(m) \in Lines /\ lines \in Seq(Lines) /\ Len(lines) \in Nat /\ slot \in 0..Len(lines)
  BY DEF Line, Lines, Texts, TypeOK
<1>3. CASE Open
  <2>1. /\ DOMAIN lines' = DOMAIN lines /\ lines'[slot] = Line(m)
        /\ \A i \in DOMAIN lines : i # slot => lines'[i] = lines[i]
    BY <1>1, <1>2, <1>3 DEF Shown, Open
  <2>2. slot' \in {0, slot}
    BY <1>1, <1>3 DEF SlotAfter
  <2> QED BY <2>1, <2>2
<1>4. CASE ~Open
  <2>1. lines' = Append(lines, Line(m)) /\ slot' \in {0, Len(lines) + 1}
    BY <1>1, <1>4 DEF Shown, SlotAfter
  <2>2. /\ DOMAIN lines' = 1 .. Len(lines) + 1 /\ lines'[Len(lines) + 1] = Line(m)
        /\ \A i \in DOMAIN lines : lines'[i] = lines[i]
    BY <1>2, <2>1, AppendElements
  <2>3. \A i \in DOMAIN lines' : i \in DOMAIN lines \/ i = Len(lines) + 1
    BY <1>2, <2>2
  <2> QED BY <2>1, <2>2, <2>3
<1> QED BY <1>3, <1>4

LEMMA ReflectedReceive ==
  ASSUME TypeOK, Reflected, Origins, ReceiveText \/ ReceiveInterruption \/ LocalBargeIn
  PROVE  Reflected' /\ Origins'
<1>0. UNCHANGED <<session, buf, lines, slot>>
  BY DEF ReceiveText, ReceiveInterruption, LocalBargeIn, server, model
<1>1. CASE ReceiveText \/ ReceiveInterruption
  <2>1. PICK t \in Work :
          /\ Task(t) /\ down # <<>> /\ down' = Tail(down)
          /\ \/ t = down[1]
             \/ t.kind = "clear" /\ down[1].kind = "interruption"
    <3>1. CASE ReceiveText
      <4>1. /\ down # <<>> /\ Task(Head(down)) /\ down' = Tail(down)
            /\ Head(down).kind # "interruption"
        BY <3>1 DEF ReceiveText
      <4>2. Head(down) = down[1] /\ Head(down) \in Work
        BY <4>1, HeadOfWire DEF Wire, Work, Texts, Comms
      <4> QED BY <4>1, <4>2
    <3>2. CASE ReceiveInterruption
      <4>1. /\ down # <<>> /\ Task(Clear(Head(down).gen)) /\ down' = Tail(down)
            /\ Head(down).kind = "interruption"
        BY <3>2 DEF ReceiveInterruption
      <4>2. Head(down) = down[1] /\ Head(down).gen \in Gens
        BY <4>1, HeadOfWire DEF Wire, Texts, Comms
      <4>3. Clear(Head(down).gen) \in Work /\ Clear(Head(down).gen).kind = "clear"
        BY <4>2 DEF Clear, Work
      <4> QED BY <4>1, <4>2, <4>3
    <3> QED BY <1>1, <3>1, <3>2
  <2>2. t.kind = "transcript" => t = down[1]
    BY <2>1
  <2>3. t.kind # "transcript" => down[1].kind # "transcript"
    BY <2>1
  <2>4. 1 \in DOMAIN down
    BY <2>1, HeadOfWire
  <2>5. ASSUME NEW i \in DOMAIN down', LastIn(down', i) PROVE Right(down'[i])
    BY <2>1, <2>5, PassedOn DEF Reflected
  <2>6. ASSUME NoneIn(down'), NEW i \in DOMAIN tasks', LastIn(tasks', i)
        PROVE  Right(tasks'[i])
    <3>1. CASE t.kind = "transcript"
      <4>1. tasks'[i] = down[1] /\ LastIn(down, 1)
        BY <2>1, <2>2, <2>6, <3>1, TaskAdded, PassedOn
      <4> QED BY <2>4, <4>1 DEF Reflected
    <3>2. CASE t.kind # "transcript"
      <4>1. i \in DOMAIN tasks /\ tasks'[i] = tasks[i] /\ LastIn(tasks, i)
        BY <2>1, <2>6, <3>2, TaskAdded
      <4>2. NoneIn(down)
        BY <2>1, <2>3, <2>6, <3>2, PassedOn
      <4> QED BY <4>1, <4>2 DEF Reflected
    <3> QED BY <3>1, <3>2
  <2>7. ASSUME NoneIn(down'), NoneIn(tasks'), slot # 0 PROVE Right(lines[slot])
    <3>1. NoneIn(tasks) /\ t.kind # "transcript"
      BY <2>1, <2>7, TaskAdded
    <3>2. NoneIn(down)
      BY <2>1, <2>3, <2>7, <3>1, PassedOn
    <3> QED BY <2>7, <3>1, <3>2 DEF Reflected
  <2>8. Reflected'
    BY <1>0, <2>5, <2>6, <2>7 DEF Reflected, Right
  <2>9. \A i \in DOMAIN down' : down'[i].kind = "transcript" => down'[i].of <= session
    BY <2>1, PassedOn DEF Origins
  <2>10. \A i \in DOMAIN tasks' : tasks'[i].kind = "transcript" => tasks'[i].of <= session
    BY <2>1, <2>2, <2>4, TaskAdded DEF Origins
  <2>11. Origins'
    BY <1>0, <2>9, <2>10 DEF Origins
  <2> QED BY <2>8, <2>11
<1>2. CASE LocalBargeIn
  <2>1. Task(Clear(current)) /\ down' = down
    BY <1>2 DEF LocalBargeIn
  <2>2. PICK t \in Work : t.kind = "clear" /\ Task(t)
    BY <2>1 DEF Clear, Work, TypeOK
  <2>3. /\ NoneIn(tasks') => NoneIn(tasks)
        /\ \A i \in DOMAIN tasks' :
             LastIn(tasks', i) => i \in DOMAIN tasks /\ tasks'[i] = tasks[i] /\ LastIn(tasks, i)
    BY <2>2, TaskAdded
  <2>4. Reflected'
    BY <1>0, <2>1, <2>3 DEF Reflected, Right
  <2>5. \A i \in DOMAIN tasks' : tasks'[i].kind = "transcript" => tasks'[i].of <= session
    BY <2>2, TaskAdded DEF Origins
  <2> QED BY <1>0, <2>1, <2>4, <2>5 DEF Origins
<1> QED BY <1>1, <1>2

LEMMA ReflectedRunTask ==
  ASSUME TypeOK, WireOrdered, Reflected, Origins, inOrder,
         NEW i \in DOMAIN tasks, RunTask(i)
  PROVE  Reflected' /\ Origins'
<1>1. i = 1
  BY Zenon DEF RunTask
<1>2. /\ tasks' = RemoveAt(tasks, 1) /\ UNCHANGED <<session, buf, down>>
      /\ HandleTranscript(tasks[1]) \/ HandleComm(tasks[1]) \/ ClearStale(tasks[1])
  BY <1>1, Zenon DEF RunTask, server
<1>3. 1 \in DOMAIN tasks
  BY <1>1
<1>4. /\ tasks[1] \in Work
      /\ \A j \in DOMAIN tasks' : j \in Nat /\ j + 1 \in DOMAIN tasks /\ tasks'[j] = tasks[j + 1]
      /\ \A j \in DOMAIN tasks : j \in Nat /\ (j = 1 \/ (1 < j /\ j - 1 \in DOMAIN tasks' /\ tasks'[j - 1] = tasks[j]))
  BY <1>2, <1>3, FirstTaskGoes
<1>5. ASSUME NEW k \in DOMAIN tasks', LastIn(tasks', k)
      PROVE  LastIn(tasks, k + 1)
  <2>1. tasks[k + 1].kind = "transcript"
    BY <1>4, <1>5 DEF LastIn
  <2>2. ASSUME NEW j \in DOMAIN tasks, k + 1 < j
        PROVE  tasks[j].kind # "transcript"
    <3>1. k < j - 1 /\ j # 1
      BY <1>4, <2>2
    <3> QED BY <1>4, <1>5, <3>1 DEF LastIn
  <2> QED BY <2>1, <2>2 DEF LastIn
<1>6. ASSUME NoneIn(tasks')
      PROVE  \A j \in DOMAIN tasks : j # 1 => tasks[j].kind # "transcript"
  BY <1>4, <1>6 DEF NoneIn
<1>7. NoneIn(down) => \A k \in DOMAIN tasks' : LastIn(tasks', k) => Right(tasks'[k])
  BY <1>4, <1>5 DEF Reflected
<1>8. \A k \in DOMAIN tasks' : tasks'[k].kind = "transcript" => tasks'[k].of <= session
  BY <1>4 DEF Origins
<1>9. CASE HandleTranscript(tasks[1])
  <2>1. tasks[1] \in Texts /\ tasks[1].kind = "transcript"
    BY <1>4, <1>9 DEF HandleTranscript, Work, Comms
  <2>2. PICK m \in Texts : m = tasks[1]
    BY <2>1
  <2>3. /\ slot' # 0 => lines'[slot'] = Line(m)
        /\ \A j \in DOMAIN lines' :
             lines'[j] = Line(m) \/ (j \in DOMAIN lines /\ lines'[j] = lines[j])
    BY <1>9, <2>2, SlotLine
  <2>4. ASSUME NoneIn(down), NoneIn(tasks') PROVE Right(m)
    <3>1. LastIn(tasks, 1)
      BY <1>4, <1>6, <2>1, <2>4 DEF LastIn
    <3> QED BY <1>3, <2>2, <2>4, <3>1 DEF Reflected
  <2>5. ASSUME NoneIn(down), NoneIn(tasks'), slot' # 0 PROVE Right(lines'[slot'])
    <3>1. lines'[slot'] = Line(m) /\ Right(m)
      BY <2>3, <2>4, <2>5
    <3> QED BY <3>1 DEF Right, Line
  <2>6. Reflected'
    BY <1>2, <1>7, <2>5 DEF Reflected, Right
  <2>7. Line(m).of <= session
    BY <1>3, <2>1, <2>2 DEF Origins, Line
  <2>8. \A j \in DOMAIN lines' : lines'[j].of <= session
    BY <2>3, <2>7 DEF Origins
  <2> QED BY <1>2, <1>8, <2>6, <2>8 DEF Origins
<1>10. CASE HandleComm(tasks[1])
  <2>1. tasks[1] \in Comms /\ tasks[1].kind = "comm"
    BY <1>4, <1>10 DEF HandleComm, Work, Texts
  <2> DEFINE l == [who |-> "note", text |-> tasks[1].text, final |-> TRUE, of |-> tasks[1].of]
  <2>2. lines' = Append(lines, l) /\ slot' = slot
    BY <1>10 DEF HandleComm
  <2>3. l \in Lines /\ l.of = tasks[1].of
    BY <2>1 DEF Lines, Whose, Comms
  <2> HIDE DEF l
  <2>4. lines \in Seq(Lines) /\ Len(lines) \in Nat /\ slot \in 0..Len(lines)
    BY DEF TypeOK
  <2>5. /\ DOMAIN lines' = 1 .. Len(lines) + 1 /\ lines'[Len(lines) + 1] = l
        /\ \A j \in DOMAIN lines : lines'[j] = lines[j]
    BY <2>2, <2>3, <2>4, AppendElements
  <2>6. NoneIn(tasks') => NoneIn(tasks)
    BY <1>6, <2>1 DEF NoneIn
  <2>7. slot # 0 => lines'[slot] = lines[slot]
    BY <2>4, <2>5
  <2>8. Reflected'
    BY <1>2, <1>7, <2>2, <2>6, <2>7 DEF Reflected, Right
  <2>9. \A j \in DOMAIN lines' : lines'[j].of <= session
    <3>1. \A j \in DOMAIN lines' : j \in DOMAIN lines \/ j = Len(lines) + 1
      BY <2>4, <2>5
    <3>2. l.of <= session
      BY <1>3, <2>1, <2>3 DEF WireOrdered
    <3> QED BY <2>5, <3>1, <3>2 DEF Origins
  <2> QED BY <1>2, <1>8, <2>8, <2>9 DEF Origins
<1>11. CASE ClearStale(tasks[1])
  <2>1. UNCHANGED <<lines, slot>> /\ tasks[1].kind = "clear"
    BY <1>11 DEF ClearStale
  <2>2. NoneIn(tasks') => NoneIn(tasks)
    BY <1>6, <2>1 DEF NoneIn
  <2>3. Reflected'
    BY <1>2, <1>7, <2>1, <2>2 DEF Reflected, Right
  <2> QED BY <1>2, <1>8, <2>1, <2>3 DEF Origins
<1> QED BY <1>2, <1>9, <1>10, <1>11

LEMMA ReflectedStep ==
  ASSUME TypeOK, WireOrdered, inOrder => Reflected /\ Origins, [Next]_vars, inOrder'
  PROVE  Reflected' /\ Origins'
<1>1. inOrder' = inOrder
  BY Zenon DEF Next, vars, env, Accumulate, Flush, TextOnly, FlushGoesOn, FlushEnds, Answer,
               Apology, OnText, Interrupt, ReceiveText, ReceiveInterruption, LocalBargeIn,
               Reauthenticate, NewConversation, RunTask, Fade, Queues, SpokenAnswer, Leaves, client
<1>2. inOrder /\ Reflected /\ Origins
  BY <1>1, Zenon
<1>3. CASE \/ \E s \in Speakers : Accumulate(s)
           \/ \E vad \in BOOLEAN : Flush(vad)
           \/ TextOnly \/ FlushGoesOn \/ FlushEnds
           \/ Answer \/ Apology \/ OnText \/ Interrupt \/ Queues
  BY <1>2, <1>3, ReflectedServer, Zenon
<1>4. CASE ReceiveText \/ ReceiveInterruption \/ LocalBargeIn
  BY <1>2, <1>4, ReflectedReceive
<1>5. CASE Reauthenticate \/ NewConversation
  <2>1. /\ session' = session + 1 /\ down' = <<>> /\ tasks' = tasks
        /\ \/ lines' = lines /\ slot' = slot
           \/ lines' = <<>> /\ slot' = 0
    BY <1>5 DEF Reauthenticate, NewConversation, SessionStarts
  <2>2. /\ session \in Nat /\ slot \in 0..Len(lines) /\ Len(lines) \in Nat
        /\ \A i \in DOMAIN lines : lines[i].of \in Nat
        /\ \A i \in DOMAIN tasks : tasks[i].kind = "transcript" => tasks[i].of \in Nat
    <3>1. session \in Nat /\ slot \in 0..Len(lines) /\ Len(lines) \in Nat
      BY DEF TypeOK
    <3>2. \A i \in DOMAIN lines : lines[i].of \in Nat
      <4>1. \A i \in DOMAIN lines : lines[i] \in Lines
        BY DEF TypeOK
      <4>2. \A l \in Lines : l.of \in Nat
        BY DEF Lines
      <4> QED BY <4>1, <4>2
    <3>3. ASSUME NEW i \in DOMAIN tasks, tasks[i].kind = "transcript"
          PROVE  tasks[i].of \in Nat
      <4>1. tasks[i] \in Work
        BY DEF TypeOK, Work
      <4>2. tasks[i] \in Texts
        BY <3>3, <4>1 DEF Work, Comms
      <4> QED BY <4>2 DEF Texts
    <3> QED BY <3>1, <3>2, <3>3
  <2>3. \A i \in DOMAIN tasks' :
          tasks'[i].kind = "transcript" => tasks'[i].of <= session' /\ tasks'[i].of # session'
    BY <1>2, <2>1, <2>2 DEF Origins
  <2>4. \A i \in DOMAIN lines' : lines'[i].of <= session' /\ lines'[i].of # session'
    BY <1>2, <2>1, <2>2 DEF Origins
  <2>5. slot' # 0 => slot' \in DOMAIN lines'
    BY <2>1, <2>2 DEF TypeOK
  <2>6. \A i \in DOMAIN tasks' : LastIn(tasks', i) => tasks'[i].of # session'
    BY <2>3 DEF LastIn
  <2>7. Reflected'
    BY <2>1, <2>4, <2>5, <2>6 DEF Reflected, Right
  <2>8. Origins'
    BY <2>1, <2>3, <2>4 DEF Origins
  <2> QED BY <2>7, <2>8
<1>6. CASE \E i \in DOMAIN tasks : RunTask(i)
  BY <1>2, <1>6, ReflectedRunTask
<1>7. ASSUME UNCHANGED <<session, buf, down, tasks, lines, slot>>
      PROVE  Reflected' /\ Origins'
  BY <1>2, <1>7, Zenon DEF Reflected, Origins, Right, NoneIn, LastIn
<1>8. CASE Fade \/ UNCHANGED vars
  <2>1. UNCHANGED <<session, buf, down, tasks, lines, slot>>
    BY <1>8, Zenon DEF Fade, server, vars
  <2> QED BY <1>7, <2>1
<1> QED BY <1>3, <1>4, <1>5, <1>6, <1>8, Zenon DEF Next, Queues

(* One line at most is unfinished, and when all that was sent has been     *)
(* shown it is what is in the server's buffer: no partial is lost, doubled *)
(* or left behind, for every number of texts and length of the queues.     *)
THEOREM OpenLineStaysCurrent == Spec => []OpenLineIsCurrent
<1> DEFINE RInv == TypeOK /\ WireOrdered /\ OneOpen /\ (inOrder => Reflected /\ Origins)
<1>1. Init => RInv
  <2> SUFFICES ASSUME Init PROVE WireOrdered /\ OneOpen /\ Reflected /\ Origins /\ TypeOK
    OBVIOUS
  <2>1. down = <<>> /\ tasks = <<>> /\ lines = <<>> /\ slot = 0 /\ comm = {}
    BY DEF Init
  <2>2. WireOrdered /\ OneOpen
    BY DEF Init, WireOrdered, OneOpen
  <2>3. Reflected /\ Origins
    BY <2>1 DEF Reflected, Origins
  <2> QED BY <2>2, <2>3, TypeAtStart
<1>2. RInv /\ [Next]_vars => RInv'
  BY TypeStep, OrderedStep, LinesStep, ReflectedStep, Zenon
<1>3. RInv => OpenLineIsCurrent
  <2> SUFFICES ASSUME RInv PROVE OpenLineIsCurrent
    OBVIOUS
  <2>1. \A i \in DOMAIN lines : ~lines[i].final => i = slot
    BY DEF OneOpen
  <2>2. ASSUME inOrder, Settled, slot # 0, lines[slot].of = session
        PROVE  lines[slot].who \in Speakers /\ lines[slot].text = buf[lines[slot].who]
    <3>1. Reflected
      BY <2>2, Zenon
    <3>2. NoneIn(down) /\ NoneIn(tasks)
      BY <2>2 DEF Settled, NoneIn
    <3>3. ~lines[slot].final
      BY <2>2 DEF OneOpen
    <3> QED BY <2>2, <3>1, <3>2, <3>3 DEF Reflected, Right
  <2> QED BY <2>1, <2>2, Zenon DEF OpenLineIsCurrent
<1> QED BY <1>1, <1>2, <1>3, PTL DEF Spec

-----------------------------------------------------------------------------
(* What is shown against what is kept.  A text that user, moderator or an  *)
(* agent said to the end in session s goes from the wire through the tasks *)
(* to the lines; these are the positions where it is.                      *)

KeptTexts == [who : Speakers \cup {"agent"}, text : Sayings, flushed : {FALSE}]
SpokenTexts == [who : Speakers, text : Sayings, flushed : {FALSE}]

LEMMA EntryIs ==
  ASSUME NEW e \in KeptTexts, NEW w, NEW t
  PROVE  e = Entry(w, t) <=> e.who = w /\ e.text = t
<1>1. e = [who |-> e.who, text |-> e.text, flushed |-> e.flushed]
  BY DEF KeptTexts
<1>2. e.flushed = FALSE
  BY DEF KeptTexts
<1>3. Entry(w, t).who = w /\ Entry(w, t).text = t
  BY DEF Entry
<1>4. ASSUME e.who = w, e.text = t PROVE e = Entry(w, t)
  BY <1>1, <1>2, <1>4, Zenon DEF Entry
<1> QED BY <1>3, <1>4, Zenon

Shows(m, s, e) == m.final /\ m.of = s /\ m.who = e.who /\ m.text = e.text
Carries(m, s, e) == m.kind = "transcript" /\ Shows(m, s, e)

LinesOf(s, e) == {k \in DOMAIN lines : Shows(lines[k], s, e)}
TasksOf(s, e) == {i \in DOMAIN tasks : Carries(tasks[i], s, e)}
WireOf(s, e) == {j \in DOMAIN down : Carries(down[j], s, e)}

(* It has been sent and not lost.                                          *)
OnWay(s, e) == LinesOf(s, e) # {} \/ TasksOf(s, e) # {} \/ WireOf(s, e) # {}

(* One of three sequences in a row, and a position before another in it.   *)
Below(I, J) == \E i \in I, j \in J : i < j
Leads(L, T, W, M, U, X) ==
  \/ Below(L, M) \/ Below(T, U) \/ Below(W, X)
  \/ L # {} /\ (U # {} \/ X # {})
  \/ T # {} /\ X # {}

(* The text e comes before the text f.                                     *)
Ahead(s, e, f) ==
  Leads(LinesOf(s, e), TasksOf(s, e), WireOf(s, e), LinesOf(s, f), TasksOf(s, f), WireOf(s, f))

(* After the slot there are only notes: every other text takes the slot.   *)
NotesFollow ==
  slot # 0 => \A k \in DOMAIN lines : slot < k => lines[k].who = "note"

LEMMA Positions ==
  ASSUME TypeOK, NEW s, NEW e
  PROVE  LinesOf(s, e) \subseteq Nat /\ TasksOf(s, e) \subseteq Nat /\ WireOf(s, e) \subseteq Nat
  BY DEF TypeOK, LinesOf, TasksOf, WireOf

(* A text that is sent to the end comes last.                              *)
LEMMA SentFinal ==
  ASSUME TypeOK, NEW w \in Speakers \cup {"agent"}, NEW t \in Sayings,
         Send(Text(w, t, TRUE)), UNCHANGED <<tasks, lines>>,
         NEW s \in Nat
  PROVE  /\ \A e \in KeptTexts :
              OnWay(s, e)' <=> OnWay(s, e) \/ (s = session /\ e = Entry(w, t))
         /\ \A e, f \in KeptTexts :
              Ahead(s, e, f)' <=> \/ Ahead(s, e, f)
                                  \/ OnWay(s, e) /\ s = session /\ f = Entry(w, t)
<1> DEFINE m == Text(w, t, TRUE)
           n == Len(down) + 1
<1>1. m \in Texts
  BY MessageTypes DEF Whose
<1>2. \A e \in KeptTexts : Carries(m, s, e) <=> s = session /\ e = Entry(w, t)
  BY EntryIs DEF Text, Carries, Shows
<1>0. down' = Append(down, m)
  BY DEF Send
<1> HIDE DEF m
<1>3. /\ down \in Seq(Wire) /\ Len(down) \in Nat /\ down' = Append(down, m) /\ m \in Wire
  BY <1>0, <1>1 DEF TypeOK, Wire, Entries
<1>4. /\ DOMAIN down' = 1 .. n /\ down'[n] = m /\ DOMAIN down = 1 .. Len(down)
      /\ \A i \in DOMAIN down : down'[i] = down[i]
  BY <1>3, AppendElements
<1>5. ASSUME NEW e \in KeptTexts
      PROVE  /\ LinesOf(s, e)' = LinesOf(s, e) /\ TasksOf(s, e)' = TasksOf(s, e)
             /\ WireOf(s, e)' = WireOf(s, e) \cup IF s = session /\ e = Entry(w, t) THEN {n} ELSE {}
             /\ \A j \in WireOf(s, e) : j < n
  <2>1. \A j \in DOMAIN down' : j \in DOMAIN down \/ j = n
    BY <1>3, <1>4
  <2> QED BY <1>2, <1>3, <1>4, <2>1 DEF LinesOf, TasksOf, WireOf
<1>6. ASSUME NEW e \in KeptTexts
      PROVE  OnWay(s, e)' <=> OnWay(s, e) \/ (s = session /\ e = Entry(w, t))
  BY <1>5 DEF OnWay
<1>7. ASSUME NEW e \in KeptTexts, NEW f \in KeptTexts
      PROVE  Ahead(s, e, f)' <=> \/ Ahead(s, e, f)
                                 \/ OnWay(s, e) /\ s = session /\ f = Entry(w, t)
  <2>1. n \in Nat /\ WireOf(s, e) \subseteq Nat /\ WireOf(s, f) \subseteq Nat
    BY <1>3, Positions
  <2> HIDE DEF n
  <2>2. /\ LinesOf(s, e)' = LinesOf(s, e) /\ TasksOf(s, e)' = TasksOf(s, e)
        /\ LinesOf(s, f)' = LinesOf(s, f) /\ TasksOf(s, f)' = TasksOf(s, f)
    BY <1>5
  <2>3. CASE s = session /\ f = Entry(w, t)
    <3>1. n \in WireOf(s, f)' /\ WireOf(s, f) \subseteq WireOf(s, f)'
      BY <1>5, <2>3
    <3>2. WireOf(s, e) \subseteq WireOf(s, e)' /\ \A j \in WireOf(s, e)' : j \in WireOf(s, e) \/ j = n
      BY <1>5
    <3>3. \A j \in WireOf(s, f)' : j \in WireOf(s, f) \/ j = n
      BY <1>5
    <3>4. \A j \in WireOf(s, e) \cup WireOf(s, f) : j < n
      BY <1>5
    <3>5. Below(WireOf(s, e)', WireOf(s, f)') <=> WireOf(s, e) # {}
      BY <2>1, <3>1, <3>2, <3>3, <3>4 DEF Below
    <3>6. Below(WireOf(s, e), WireOf(s, f)) => WireOf(s, e) # {}
      BY DEF Below
    <3> QED BY <2>2, <2>3, <3>1, <3>5, <3>6 DEF Ahead, Leads, OnWay, Below
  <2>4. CASE ~(s = session /\ f = Entry(w, t))
    <3>1. WireOf(s, f)' = WireOf(s, f)
      BY <1>5, <2>4
    <3>2. WireOf(s, e) \subseteq WireOf(s, e)' /\ \A j \in WireOf(s, e)' : j \in WireOf(s, e) \/ j = n
      BY <1>5
    <3>3. \A j \in WireOf(s, f) : j < n
      BY <1>5
    <3>4. Below(WireOf(s, e)', WireOf(s, f)') <=> Below(WireOf(s, e), WireOf(s, f))
      BY <2>1, <3>1, <3>2, <3>3 DEF Below
    <3> QED BY <2>2, <2>4, <3>1, <3>4 DEF Ahead, Leads
  <2> QED BY <2>3, <2>4
<1> QED BY <1>6, <1>7

Stays ==
  \A s \in Nat, e, f \in KeptTexts :
    (OnWay(s, e)' <=> OnWay(s, e)) /\ (Ahead(s, e, f)' <=> Ahead(s, e, f))

(* Nothing else on the wire counts.                                        *)
LEMMA SentNothing ==
  ASSUME TypeOK, NEW m \in Wire, Send(m),
         \A s \in Nat, e \in KeptTexts : ~Carries(m, s, e),
         UNCHANGED <<tasks, lines>>
  PROVE  Stays
<1>1. /\ down \in Seq(Wire) /\ Len(down) \in Nat /\ down' = Append(down, m)
  BY DEF TypeOK, Send, Wire
<1>2. /\ DOMAIN down' = 1 .. Len(down) + 1 /\ down'[Len(down) + 1] = m
      /\ DOMAIN down = 1 .. Len(down) /\ \A i \in DOMAIN down : down'[i] = down[i]
  BY <1>1, AppendElements
<1>3. \A j \in DOMAIN down' : j \in DOMAIN down \/ j = Len(down) + 1
  BY <1>1, <1>2
<1>4. \A j \in DOMAIN down : j \in DOMAIN down'
  BY <1>1, <1>2
<1>5. ASSUME NEW s \in Nat, NEW e \in KeptTexts
      PROVE  /\ LinesOf(s, e)' = LinesOf(s, e) /\ TasksOf(s, e)' = TasksOf(s, e)
             /\ WireOf(s, e)' = WireOf(s, e)
  BY <1>2, <1>3, <1>4 DEF LinesOf, TasksOf, WireOf
<1> QED BY <1>5, Zenon DEF Stays, OnWay, Ahead

LEMMA NoChange ==
  ASSUME UNCHANGED <<down, tasks, lines>>
  PROVE  Stays
<1>1. ASSUME NEW s \in Nat, NEW e \in KeptTexts
      PROVE  /\ LinesOf(s, e)' = LinesOf(s, e) /\ TasksOf(s, e)' = TasksOf(s, e)
             /\ WireOf(s, e)' = WireOf(s, e)
  BY DEF LinesOf, TasksOf, WireOf
<1> QED BY <1>1, Zenon DEF Stays, OnWay, Ahead

(* A received message goes from the head of the wire to the end of the     *)
(* tasks; if it counts, it is the same one.                                *)
LEMMA ReceivedStays ==
  ASSUME TypeOK, ReceiveText \/ ReceiveInterruption
  PROVE  Stays
<1>1. PICK t \in Work :
        /\ Task(t) /\ down # <<>> /\ down' = Tail(down) /\ lines' = lines
        /\ \/ t = down[1]
           \/ t.kind = "clear" /\ down[1].kind = "interruption"
  <2>1. CASE ReceiveText
    <3>1. /\ down # <<>> /\ Task(Head(down)) /\ down' = Tail(down) /\ lines' = lines
          /\ Head(down).kind # "interruption"
      BY <2>1 DEF ReceiveText, model
    <3>2. Head(down) = down[1] /\ Head(down) \in Work
      BY <3>1, HeadOfWire DEF Wire, Work, Texts, Comms
    <3> QED BY <3>1, <3>2
  <2>2. CASE ReceiveInterruption
    <3>1. /\ down # <<>> /\ Task(Clear(Head(down).gen)) /\ down' = Tail(down) /\ lines' = lines
          /\ Head(down).kind = "interruption"
      BY <2>2 DEF ReceiveInterruption, model
    <3>2. Head(down) = down[1] /\ Head(down).gen \in Gens
      BY <3>1, HeadOfWire DEF Wire, Texts, Comms
    <3>3. Clear(Head(down).gen) \in Work /\ Clear(Head(down).gen).kind = "clear"
      BY <3>2 DEF Clear, Work
    <3> QED BY <3>1, <3>2, <3>3
  <2> QED BY <2>1, <2>2
<1>2. /\ tasks \in Seq(Work) /\ Len(tasks) \in Nat /\ tasks' = Append(tasks, t)
  BY <1>1 DEF TypeOK, Task, Work
<1> DEFINE n == Len(tasks) + 1
<1>3. /\ DOMAIN tasks' = 1 .. n /\ tasks'[n] = t /\ DOMAIN tasks = 1 .. Len(tasks)
      /\ \A i \in DOMAIN tasks : tasks'[i] = tasks[i]
  BY <1>2, AppendElements
<1>4. /\ \A i \in DOMAIN tasks' : i \in DOMAIN tasks \/ i = n
      /\ \A i \in DOMAIN tasks : i < n /\ i \in DOMAIN tasks' /\ i \in Nat
      /\ n \in DOMAIN tasks' /\ n \in Nat
  BY <1>2, <1>3
<1>5. /\ 1 \in DOMAIN down
      /\ \A j \in DOMAIN down' : 0 < j /\ j \in Nat /\ j + 1 \in DOMAIN down /\ down'[j] = down[j + 1]
      /\ \A j \in DOMAIN down : j \in Nat /\ (j = 1 \/ (1 < j /\ j - 1 \in DOMAIN down' /\ down'[j - 1] = down[j]))
  <2>1. down \in Seq(Wire)
    BY DEF TypeOK, Wire
  <2> QED BY <1>1, <2>1, HeadOfWire
<1> HIDE DEF n
<1>6. ASSUME NEW s \in Nat, NEW e \in KeptTexts
      PROVE  /\ LinesOf(s, e)' = LinesOf(s, e)
             /\ TasksOf(s, e)' = TasksOf(s, e) \cup IF 1 \in WireOf(s, e) THEN {n} ELSE {}
             /\ \A j \in WireOf(s, e)' : j + 1 \in WireOf(s, e)
             /\ \A j \in WireOf(s, e) : j # 1 => 1 < j /\ j - 1 \in WireOf(s, e)'
  <2>1. Carries(t, s, e) <=> 1 \in WireOf(s, e)
    BY <1>1, <1>5 DEF Carries, WireOf
  <2>2. TasksOf(s, e)' = TasksOf(s, e) \cup IF 1 \in WireOf(s, e) THEN {n} ELSE {}
    BY <1>3, <1>4, <2>1 DEF TasksOf
  <2>3. LinesOf(s, e)' = LinesOf(s, e)
    BY <1>1 DEF LinesOf
  <2>4. \A j \in WireOf(s, e)' : j + 1 \in WireOf(s, e)
    BY <1>5 DEF WireOf
  <2>5. \A j \in WireOf(s, e) : j # 1 => 1 < j /\ j - 1 \in WireOf(s, e)'
    BY <1>5 DEF WireOf
  <2> QED BY <2>2, <2>3, <2>4, <2>5
<1>7. ASSUME NEW s \in Nat, NEW e \in KeptTexts
      PROVE  OnWay(s, e)' <=> OnWay(s, e)
  BY <1>6 DEF OnWay
<1>8. ASSUME NEW s \in Nat, NEW e \in KeptTexts, NEW f \in KeptTexts
      PROVE  Ahead(s, e, f)' <=> Ahead(s, e, f)
  <2>1. /\ n \in Nat /\ \A i \in TasksOf(s, e) \cup TasksOf(s, f) : i \in Nat /\ i < n
        /\ \A j \in WireOf(s, e)' \cup WireOf(s, f)' \cup WireOf(s, e) \cup WireOf(s, f) : j \in Nat
    BY <1>4, <1>5 DEF TasksOf, WireOf
  <2>2. Below(TasksOf(s, e)', TasksOf(s, f)') <=>
          \/ Below(TasksOf(s, e), TasksOf(s, f))
          \/ TasksOf(s, e) # {} /\ 1 \in WireOf(s, f)
    <3>1. CASE 1 \in WireOf(s, f)
      <4>1. n \in TasksOf(s, f)' /\ \A i \in TasksOf(s, f)' : i \in TasksOf(s, f) \/ i = n
        BY <1>6, <3>1
      <4>2. /\ TasksOf(s, e) \subseteq TasksOf(s, e)' /\ TasksOf(s, f) \subseteq TasksOf(s, f)'
            /\ \A i \in TasksOf(s, e)' : i \in TasksOf(s, e) \/ i = n
        BY <1>6
      <4> QED BY <2>1, <3>1, <4>1, <4>2 DEF Below
    <3>2. CASE 1 \notin WireOf(s, f)
      <4>1. TasksOf(s, f)' = TasksOf(s, f)
        BY <1>6, <3>2
      <4>2. /\ TasksOf(s, e) \subseteq TasksOf(s, e)'
            /\ \A i \in TasksOf(s, e)' : i \in TasksOf(s, e) \/ i = n
        BY <1>6
      <4> QED BY <2>1, <3>2, <4>1, <4>2 DEF Below
    <3> QED BY <3>1, <3>2
  <2>3. Below(WireOf(s, e), WireOf(s, f)) <=>
          \/ Below(WireOf(s, e)', WireOf(s, f)')
          \/ 1 \in WireOf(s, e) /\ WireOf(s, f)' # {}
    <3>1. ASSUME NEW i \in WireOf(s, e), NEW j \in WireOf(s, f), i < j
          PROVE  \/ Below(WireOf(s, e)', WireOf(s, f)')
                 \/ 1 \in WireOf(s, e) /\ WireOf(s, f)' # {}
      <4>1. CASE i = 1
        BY <1>6, <2>1, <3>1, <4>1
      <4>2. CASE i # 1
        <5>1. 1 < i /\ i - 1 \in WireOf(s, e)' /\ j # 1 /\ j - 1 \in WireOf(s, f)' /\ i - 1 < j - 1
          BY <1>6, <2>1, <3>1, <4>2
        <5> QED BY <5>1 DEF Below
      <4> QED BY <4>1, <4>2
    <3>2. ASSUME NEW i \in WireOf(s, e)', NEW j \in WireOf(s, f)', i < j
          PROVE  Below(WireOf(s, e), WireOf(s, f))
      <4>1. i + 1 \in WireOf(s, e) /\ j + 1 \in WireOf(s, f) /\ i + 1 < j + 1
        BY <1>6, <2>1, <3>2
      <4> QED BY <4>1 DEF Below
    <3>4. \A j \in WireOf(s, f)' : 0 < j
      BY <1>5 DEF WireOf
    <3>3. ASSUME 1 \in WireOf(s, e), NEW j \in WireOf(s, f)'
          PROVE  Below(WireOf(s, e), WireOf(s, f))
      <4>1. j + 1 \in WireOf(s, f) /\ 1 < j + 1
        BY <1>5, <1>6, <2>1, <3>3, <3>4
      <4> QED BY <3>3, <4>1 DEF Below
    <3> QED BY <3>1, <3>2, <3>3 DEF Below
  <2>4. /\ TasksOf(s, e)' # {} <=> TasksOf(s, e) # {} \/ 1 \in WireOf(s, e)
        /\ TasksOf(s, f)' # {} <=> TasksOf(s, f) # {} \/ 1 \in WireOf(s, f)
        /\ WireOf(s, f) # {} <=> WireOf(s, f)' # {} \/ 1 \in WireOf(s, f)
        /\ LinesOf(s, e)' = LinesOf(s, e) /\ LinesOf(s, f)' = LinesOf(s, f)
    BY <1>6
  <2> QED BY <2>2, <2>3, <2>4 DEF Ahead, Leads
<1> QED BY <1>7, <1>8 DEF Stays

(* A local barge-in adds a task that does not count.                       *)
LEMMA LocalStays ==
  ASSUME TypeOK, LocalBargeIn
  PROVE  Stays
<1>1. PICK t \in Work : t.kind = "clear" /\ Task(t)
  BY DEF LocalBargeIn, Clear, Work, TypeOK
<1>2. tasks \in Seq(Work) /\ Len(tasks) \in Nat /\ tasks' = Append(tasks, t)
  BY <1>1 DEF TypeOK, Task, Work
<1>3. /\ DOMAIN tasks' = 1 .. Len(tasks) + 1 /\ tasks'[Len(tasks) + 1] = t
      /\ DOMAIN tasks = 1 .. Len(tasks) /\ \A i \in DOMAIN tasks : tasks'[i] = tasks[i]
  BY <1>2, AppendElements
<1>4. /\ \A i \in DOMAIN tasks' : i \in DOMAIN tasks \/ i = Len(tasks) + 1
      /\ \A i \in DOMAIN tasks : i \in DOMAIN tasks'
  BY <1>2, <1>3
<1>5. ASSUME NEW s \in Nat, NEW e \in KeptTexts
      PROVE  /\ LinesOf(s, e)' = LinesOf(s, e) /\ TasksOf(s, e)' = TasksOf(s, e)
             /\ WireOf(s, e)' = WireOf(s, e)
  BY <1>1, <1>3, <1>4 DEF LinesOf, TasksOf, WireOf, Carries, LocalBargeIn, model
<1> QED BY <1>5, Zenon DEF Stays, OnWay, Ahead

(* A task of the main actor that counts becomes a line behind all that     *)
(* count: it takes the slot, or comes at the end.                          *)
LEMMA Lands ==
  ASSUME TypeOK, OneOpen, NotesFollow, NEW i \in DOMAIN tasks, RunTask(i)
  PROVE  /\ NotesFollow'
         /\ \E p \in Nat :
              \A s \in Nat, e \in KeptTexts :
                /\ LinesOf(s, e)' =
                     LinesOf(s, e) \cup IF i \in TasksOf(s, e) THEN {p} ELSE {}
                /\ \A k \in LinesOf(s, e) : k < p
<1>1. tasks[i] \in Work /\ (HandleTranscript(tasks[i]) \/ HandleComm(tasks[i]) \/ ClearStale(tasks[i]))
  <2>1. tasks[i] \in Work
    BY DEF TypeOK, Work
  <2>2. HandleTranscript(tasks[i]) \/ HandleComm(tasks[i]) \/ ClearStale(tasks[i])
    BY Zenon DEF RunTask
  <2> QED BY <2>1, <2>2, Zenon
<1>2. lines \in Seq(Lines) /\ Len(lines) \in Nat /\ slot \in 0 .. Len(lines) /\ DOMAIN lines = 1 .. Len(lines)
  BY DEF TypeOK
<1>3. \A e \in KeptTexts : e.who # "note"
  BY DEF KeptTexts, Speakers
<1>4. ASSUME HandleTranscript(tasks[i])
      PROVE  /\ NotesFollow'
             /\ \E p \in Nat :
                  \A s \in Nat, e \in KeptTexts :
                    /\ LinesOf(s, e)' =
                         LinesOf(s, e) \cup IF i \in TasksOf(s, e) THEN {p} ELSE {}
                    /\ \A k \in LinesOf(s, e) : k < p
  <2>1. tasks[i] \in Texts /\ tasks[i].kind = "transcript"
    BY <1>1, <1>4 DEF HandleTranscript, Work, Comms
  <2>2. PICK m \in Texts : m = tasks[i]
    BY <2>1
  <2>3. Line(m) \in Lines /\ \A s, e : Shows(Line(m), s, e) <=> Shows(m, s, e)
    BY DEF Line, Lines, Texts, Shows
  <2>4. \A s, e : Shows(Line(m), s, e) <=> i \in TasksOf(s, e)
    BY <2>1, <2>2, <2>3 DEF TasksOf, Carries
  <2> DEFINE p == IF Open THEN slot ELSE Len(lines) + 1
  <2>5. /\ p \in DOMAIN lines' /\ lines'[p] = Line(m) /\ p \in Nat
        /\ \A k \in DOMAIN lines' : k = p \/ (k \in DOMAIN lines /\ lines'[k] = lines[k])
        /\ \A k \in DOMAIN lines : k \in DOMAIN lines' /\ (k # p => lines'[k] = lines[k])
        /\ slot' \in {0, p}
        /\ \A k \in DOMAIN lines : k # p => k < p \/ lines[k].who = "note"
        /\ p \in DOMAIN lines => ~lines[p].final
    <3>1. lines' = Shown(m) /\ slot' = SlotAfter(m)
      BY <1>4, <2>2 DEF HandleTranscript
    <3>2. CASE Open
      <4>1. slot \in DOMAIN lines /\ slot # 0 /\ ~lines[slot].final /\ p = slot
        BY <1>2, <3>2 DEF Open, OneOpen
      <4>2. /\ DOMAIN lines' = DOMAIN lines /\ lines'[slot] = Line(m)
            /\ \A k \in DOMAIN lines : k # slot => lines'[k] = lines[k]
        BY <1>2, <3>1, <3>2, <4>1 DEF Shown
      <4>3. slot' \in {0, p}
        BY <3>1, <3>2, <4>1 DEF SlotAfter
      <4>4. \A k \in DOMAIN lines : k # slot => k < slot \/ lines[k].who = "note"
        BY <1>2, <4>1 DEF NotesFollow
      <4> HIDE DEF p
      <4> QED BY <1>2, <4>1, <4>2, <4>3, <4>4
    <3>3. CASE ~Open
      <4>1. lines' = Append(lines, Line(m)) /\ p = Len(lines) + 1 /\ slot' \in {0, p}
        BY <3>1, <3>3 DEF Shown, SlotAfter
      <4>2. /\ DOMAIN lines' = 1 .. Len(lines) + 1 /\ lines'[Len(lines) + 1] = Line(m)
            /\ \A k \in DOMAIN lines : lines'[k] = lines[k]
        BY <1>2, <2>3, <4>1, AppendElements
      <4> HIDE DEF p
      <4> QED BY <1>2, <4>1, <4>2
    <3> QED BY <3>2, <3>3
  <2> HIDE DEF p
  <2>6. NotesFollow'
    <3> SUFFICES ASSUME slot' # 0, NEW k \in DOMAIN lines', slot' < k
                 PROVE  lines'[k].who = "note"
      BY DEF NotesFollow
    <3>1. k # p /\ k \in DOMAIN lines /\ lines'[k] = lines[k] /\ ~(k < p)
      BY <1>2, <2>5
    <3> QED BY <2>5, <3>1
  <2>7. ASSUME NEW s \in Nat, NEW e \in KeptTexts
        PROVE  /\ LinesOf(s, e)' = LinesOf(s, e) \cup IF i \in TasksOf(s, e) THEN {p} ELSE {}
               /\ \A k \in LinesOf(s, e) : k < p
    <3>1. p \notin LinesOf(s, e)
      BY <2>5 DEF LinesOf, Shows
    <3>2. \A k \in LinesOf(s, e) : k < p
      BY <1>3, <2>5, <3>1 DEF LinesOf, Shows
    <3>3. \A k : k # p => (k \in LinesOf(s, e)' <=> k \in LinesOf(s, e))
      BY <2>5 DEF LinesOf
    <3>4. p \in LinesOf(s, e)' <=> i \in TasksOf(s, e)
      BY <2>4, <2>5 DEF LinesOf
    <3> QED BY <3>1, <3>2, <3>3, <3>4
  <2> QED BY <2>5, <2>6, <2>7
<1>5. ASSUME \A s \in Nat, e \in KeptTexts : i \notin TasksOf(s, e),
             lines' = lines \/ \E l \in Lines : lines' = Append(lines, l) /\ l.who = "note",
             slot' = slot
      PROVE  /\ NotesFollow'
             /\ \E p \in Nat :
                  \A s \in Nat, e \in KeptTexts :
                    /\ LinesOf(s, e)' =
                         LinesOf(s, e) \cup IF i \in TasksOf(s, e) THEN {p} ELSE {}
                    /\ \A k \in LinesOf(s, e) : k < p
  <2>1. CASE lines' = lines
    <3>1. NotesFollow'
      BY <1>5, <2>1 DEF NotesFollow
    <3>2. \A s \in Nat, e \in KeptTexts :
            LinesOf(s, e)' = LinesOf(s, e) /\ \A k \in LinesOf(s, e) : k < Len(lines) + 1
      BY <1>2, <2>1 DEF LinesOf
    <3>3. Len(lines) + 1 \in Nat
      BY <1>2
    <3> QED BY <1>5, <3>1, <3>2, <3>3
  <2>2. CASE lines' # lines
    <3>1. PICK l \in Lines : lines' = Append(lines, l) /\ l.who = "note"
      BY <1>5, <2>2
    <3>2. /\ DOMAIN lines' = 1 .. Len(lines) + 1 /\ lines'[Len(lines) + 1] = l
          /\ \A k \in DOMAIN lines : lines'[k] = lines[k]
      BY <1>2, <3>1, AppendElements
    <3>3. /\ \A k \in DOMAIN lines' : k \in DOMAIN lines \/ k = Len(lines) + 1
          /\ \A k \in DOMAIN lines : k \in DOMAIN lines' /\ k < Len(lines) + 1
      BY <1>2, <3>2
    <3>4. NotesFollow'
      BY <1>5, <3>1, <3>2, <3>3 DEF NotesFollow
    <3>5. \A s \in Nat, e \in KeptTexts :
            LinesOf(s, e)' = LinesOf(s, e) /\ \A k \in LinesOf(s, e) : k < Len(lines) + 1
      BY <1>3, <3>1, <3>2, <3>3 DEF LinesOf, Shows
    <3>6. Len(lines) + 1 \in Nat
      BY <1>2
    <3> QED BY <1>5, <3>4, <3>5, <3>6
  <2> QED BY <2>1, <2>2
<1>6. ASSUME HandleComm(tasks[i])
      PROVE  /\ \A s \in Nat, e \in KeptTexts : i \notin TasksOf(s, e)
             /\ \E l \in Lines : lines' = Append(lines, l) /\ l.who = "note"
             /\ slot' = slot
  <2>1. tasks[i] \in Comms /\ tasks[i].kind # "transcript"
    BY <1>1, <1>6 DEF HandleComm, Work, Texts
  <2> DEFINE l == [who |-> "note", text |-> tasks[i].text, final |-> TRUE, of |-> tasks[i].of]
  <2>2. l \in Lines
    BY <2>1 DEF Lines, Whose, Comms
  <2>3. lines' = Append(lines, l) /\ slot' = slot
    BY <1>6 DEF HandleComm
  <2>4. l.who = "note"
    OBVIOUS
  <2> HIDE DEF l
  <2> QED BY <2>1, <2>2, <2>3, <2>4 DEF TasksOf, Carries
<1>7. ASSUME ClearStale(tasks[i])
      PROVE  /\ \A s \in Nat, e \in KeptTexts : i \notin TasksOf(s, e)
             /\ lines' = lines /\ slot' = slot
  BY <1>7 DEF ClearStale, TasksOf, Carries
<1>8. CASE HandleTranscript(tasks[i])
  BY <1>4, <1>8
<1>9. CASE HandleComm(tasks[i])
  BY <1>5, <1>6, <1>9, Zenon
<1>10. CASE ClearStale(tasks[i])
  BY <1>5, <1>7, <1>10, Zenon
<1> QED BY <1>1, <1>8, <1>9, <1>10, Zenon

(* In whatever order the tasks run, nothing is lost or doubled; in their   *)
(* own order, nothing is overtaken.                                        *)
LEMMA RunTaskWay ==
  ASSUME TypeOK, OneOpen, NotesFollow, NEW i \in DOMAIN tasks, RunTask(i),
         NEW s \in Nat
  PROVE  /\ \A e \in KeptTexts : OnWay(s, e)' <=> OnWay(s, e)
         /\ \A e, f \in KeptTexts : Ahead(s, e, f)' => Ahead(s, e, f) \/ Ahead(s, f, e)
         /\ i = 1 => \A e, f \in KeptTexts : Ahead(s, e, f) => Ahead(s, e, f)'
<1>1. PICK p \in Nat :
        \A e \in KeptTexts :
          /\ LinesOf(s, e)' = LinesOf(s, e) \cup IF i \in TasksOf(s, e) THEN {p} ELSE {}
          /\ \A k \in LinesOf(s, e) : k < p
  BY Lands
<1>2. tasks' = RemoveAt(tasks, i) /\ down' = down
  BY DEF RunTask
<1>3. /\ tasks \in Seq(Work) /\ Len(tasks) \in Nat /\ DOMAIN tasks = 1 .. Len(tasks)
      /\ i \in 1 .. Len(tasks)
  BY DEF TypeOK, Work
<1>4. /\ DOMAIN tasks' = 1 .. Len(tasks) - 1
      /\ \A j \in 1 .. Len(tasks) - 1 : tasks'[j] = IF j < i THEN tasks[j] ELSE tasks[j + 1]
  <2>1. /\ RemoveAt(tasks, i) \in Seq(Work) /\ Len(RemoveAt(tasks, i)) = Len(tasks) - 1
        /\ \A j \in 1 .. Len(tasks) - 1 :
             RemoveAt(tasks, i)[j] = IF j < i THEN tasks[j] ELSE tasks[j + 1]
    BY <1>3, RemoveElements
  <2>2. DOMAIN RemoveAt(tasks, i) = 1 .. Len(tasks) - 1
    BY <1>3, <2>1
  <2> QED BY <1>2, <2>1, <2>2
<1>5. ASSUME NEW e \in KeptTexts
      PROVE  /\ WireOf(s, e)' = WireOf(s, e)
             /\ \A j \in TasksOf(s, e)' : j \in Nat /\ IF j < i THEN j \in TasksOf(s, e) ELSE j + 1 \in TasksOf(s, e)
             /\ \A j \in TasksOf(s, e) : j \in Nat /\ 0 < j
             /\ \A j \in TasksOf(s, e) : j < i => j \in TasksOf(s, e)'
             /\ \A j \in TasksOf(s, e) : i < j => j - 1 \in TasksOf(s, e)'
  <2>1. WireOf(s, e)' = WireOf(s, e)
    BY <1>2 DEF WireOf
  <2>2. \A j \in TasksOf(s, e)' : j \in Nat /\ IF j < i THEN j \in TasksOf(s, e) ELSE j + 1 \in TasksOf(s, e)
    BY <1>3, <1>4 DEF TasksOf
  <2>3. \A j \in TasksOf(s, e) : j \in 1 .. Len(tasks) /\ Carries(tasks[j], s, e)
    BY <1>3 DEF TasksOf
  <2>4. ASSUME NEW j \in TasksOf(s, e), j < i PROVE j \in TasksOf(s, e)'
    <3>1. j \in 1 .. Len(tasks) - 1 /\ tasks'[j] = tasks[j]
      BY <1>3, <1>4, <2>3, <2>4
    <3> QED BY <1>4, <2>3, <3>1 DEF TasksOf
  <2>5. ASSUME NEW j \in TasksOf(s, e), i < j PROVE j - 1 \in TasksOf(s, e)'
    <3>1. j - 1 \in 1 .. Len(tasks) - 1 /\ ~(j - 1 < i) /\ (j - 1) + 1 = j
      BY <1>3, <2>3, <2>5
    <3>2. tasks'[j - 1] = tasks[j]
      BY <1>4, <3>1
    <3> QED BY <1>4, <2>3, <3>1, <3>2 DEF TasksOf
  <2> QED BY <2>1, <2>2, <2>3, <2>4, <2>5
<1>6. ASSUME NEW e \in KeptTexts
      PROVE  OnWay(s, e)' <=> OnWay(s, e)
  <2>1. LinesOf(s, e)' # {} <=> LinesOf(s, e) # {} \/ i \in TasksOf(s, e)
    BY <1>1
  <2>2. TasksOf(s, e) # {} <=> TasksOf(s, e)' # {} \/ i \in TasksOf(s, e)
    BY <1>3, <1>5
  <2> QED BY <1>5, <2>1, <2>2 DEF OnWay
<1>7. ASSUME NEW e \in KeptTexts, NEW f \in KeptTexts
      PROVE  /\ LinesOf(s, e)' # {} <=> LinesOf(s, e) # {} \/ i \in TasksOf(s, e)
             /\ TasksOf(s, f) # {} <=> TasksOf(s, f)' # {} \/ i \in TasksOf(s, f)
             /\ WireOf(s, e)' = WireOf(s, e) /\ WireOf(s, f)' = WireOf(s, f)
  <2>1. LinesOf(s, e)' # {} <=> LinesOf(s, e) # {} \/ i \in TasksOf(s, e)
    BY <1>1
  <2>2. TasksOf(s, f) # {} <=> TasksOf(s, f)' # {} \/ i \in TasksOf(s, f)
    BY <1>3, <1>5
  <2> QED BY <1>5, <2>1, <2>2
<1>8. ASSUME NEW e \in KeptTexts, NEW f \in KeptTexts, Ahead(s, e, f)'
      PROVE  Ahead(s, e, f) \/ Ahead(s, f, e)
  <2>0. LinesOf(s, e) \subseteq Nat /\ LinesOf(s, f) \subseteq Nat
    BY Positions
  <2>1. CASE Below(LinesOf(s, e)', LinesOf(s, f)')
    <3>1. PICK k \in LinesOf(s, e)', l \in LinesOf(s, f)' : k < l
      BY <2>1 DEF Below
    <3>2. CASE l \in LinesOf(s, f)
      <4>1. k # p /\ k \in LinesOf(s, e)
        BY <1>1, <2>0, <3>1, <3>2
      <4> QED BY <3>1, <3>2, <4>1 DEF Below, Ahead, Leads
    <3>3. CASE l \notin LinesOf(s, f)
      <4>1. l = p /\ i \in TasksOf(s, f)
        BY <1>1, <3>3
      <4>2. k # p /\ k \in LinesOf(s, e)
        BY <1>1, <3>1, <4>1
      <4> QED BY <4>1, <4>2 DEF Ahead, Leads
    <3> QED BY <3>2, <3>3
  <2>2. CASE Below(TasksOf(s, e)', TasksOf(s, f)')
    <3>1. PICK j \in TasksOf(s, e)', h \in TasksOf(s, f)' : j < h
      BY <2>2 DEF Below
    <3>2. PICK a \in TasksOf(s, e), b \in TasksOf(s, f) : a < b
      BY <1>3, <1>5, <3>1
    <3> QED BY <3>2 DEF Below, Ahead, Leads
  <2>3. CASE Below(WireOf(s, e)', WireOf(s, f)')
    BY <1>7, <2>3 DEF Ahead, Leads
  <2>4. CASE LinesOf(s, e)' # {} /\ (TasksOf(s, f)' # {} \/ WireOf(s, f)' # {})
    <3>1. CASE LinesOf(s, e) # {}
      BY <1>7, <2>4, <3>1 DEF Ahead, Leads
    <3>2. CASE LinesOf(s, e) = {} /\ WireOf(s, f)' # {}
      BY <1>7, <2>4, <3>2 DEF Ahead, Leads
    <3>3. CASE LinesOf(s, e) = {} /\ TasksOf(s, f)' # {}
      <4>1. i \in TasksOf(s, e)
        BY <1>7, <2>4, <3>3
      <4>2. PICK j \in TasksOf(s, f) : j # i
        BY <1>3, <1>5, <3>3
      <4>3. j < i \/ i < j
        BY <1>3, <1>5, <4>2
      <4> QED BY <4>1, <4>2, <4>3 DEF Below, Ahead, Leads
    <3> QED BY <2>4, <3>1, <3>2, <3>3
  <2>5. CASE TasksOf(s, e)' # {} /\ WireOf(s, f)' # {}
    <3>1. TasksOf(s, e) # {}
      BY <1>7, <1>5, <2>5
    <3> QED BY <1>7, <2>5, <3>1 DEF Ahead, Leads
  <2> QED BY <1>8, <2>1, <2>2, <2>3, <2>4, <2>5 DEF Ahead, Leads
<1>9. ASSUME i = 1, NEW e \in KeptTexts, NEW f \in KeptTexts, Ahead(s, e, f)
      PROVE  Ahead(s, e, f)'
  <2>1. CASE Below(LinesOf(s, e), LinesOf(s, f))
    <3>1. LinesOf(s, e) \subseteq LinesOf(s, e)' /\ LinesOf(s, f) \subseteq LinesOf(s, f)'
      BY <1>1
    <3>2. Below(LinesOf(s, e)', LinesOf(s, f)')
      BY <2>1, <3>1 DEF Below
    <3> QED BY <3>2 DEF Ahead, Leads
  <2>2. CASE Below(TasksOf(s, e), TasksOf(s, f))
    <3>1. PICK j \in TasksOf(s, e), h \in TasksOf(s, f) : j < h
      BY <2>2 DEF Below
    <3>2. h - 1 \in TasksOf(s, f)'
      BY <1>5, <1>9, <3>1
    <3>3. CASE j = 1
      <4>1. LinesOf(s, e)' # {}
        BY <1>7, <1>9, <3>3
      <4> QED BY <3>2, <4>1 DEF Ahead, Leads
    <3>4. CASE j # 1
      <4>1. j - 1 \in TasksOf(s, e)' /\ j - 1 < h - 1
        BY <1>5, <1>9, <3>1, <3>4
      <4> QED BY <3>2, <4>1 DEF Below, Ahead, Leads
    <3> QED BY <3>3, <3>4
  <2>3. CASE Below(WireOf(s, e), WireOf(s, f))
    BY <1>7, <2>3 DEF Ahead, Leads
  <2>4. CASE LinesOf(s, e) # {} /\ (TasksOf(s, f) # {} \/ WireOf(s, f) # {})
    <3>1. LinesOf(s, e)' # {}
      BY <1>7, <2>4
    <3>2. CASE TasksOf(s, f)' # {} \/ WireOf(s, f)' # {}
      BY <3>1, <3>2 DEF Ahead, Leads
    <3>3. CASE i \in TasksOf(s, f)
      <4>1. PICK k \in LinesOf(s, e) : k < p
        BY <1>1, <2>4
      <4>2. k \in LinesOf(s, e)' /\ p \in LinesOf(s, f)'
        BY <1>1, <3>3
      <4> QED BY <4>1, <4>2 DEF Below, Ahead, Leads
    <3> QED BY <1>7, <2>4, <3>2, <3>3
  <2>5. CASE TasksOf(s, e) # {} /\ WireOf(s, f) # {}
    <3>1. TasksOf(s, e)' # {} \/ LinesOf(s, e)' # {}
      BY <1>5, <1>7, <2>5, <1>3, <1>1
    <3> QED BY <1>7, <2>5, <3>1 DEF Ahead, Leads
  <2> QED BY <1>9, <2>1, <2>2, <2>3, <2>4, <2>5 DEF Ahead, Leads
<1> QED BY <1>6, <1>8, <1>9

(* What the server has kept, or sent and not kept yet, and in which order; *)
(* of the agents' answers only what is sent as well, in listener mode.     *)
Sent(e) ==
  /\ turn.pc # "idle" /\ e.who \in Speakers /\ turn.took[e.who] # <<>>
  /\ e.text = turn.took[e.who] /\ (e.who = "moderator" => turn.pc = "moderator")
InHistory(e) ==
  (listener \/ e.who \in Speakers) /\ \E h \in DOMAIN history : history[h] = e
Known(e) == InHistory(e) \/ Sent(e)

Sooner(e, f) ==
  \/ \E g, h \in DOMAIN history : g < h /\ history[g] = e /\ history[h] = f
  \/ InHistory(e) /\ Sent(f)
  \/ Sent(e) /\ Sent(f) /\ e.who = "user" /\ f.who = "moderator"

(* A text is known by its first fragment: no two share one.                *)
Apart(t, u) == t # <<>> /\ u # <<>> => Head(t) # Head(u)
Used(t) == t # <<>> => Head(t) <= texts
NotGathered(e) ==
  /\ e.text # <<>> /\ Used(e.text)
  /\ \A s \in Speakers : Apart(buf[s], e.text)
  /\ turn.pc = "user" => Apart(turn.took["moderator"], e.text)

Gathered ==
  /\ turn.pc # "idle" => turn.took[turn.pc] # <<>>
  /\ Apart(buf["user"], buf["moderator"])
  /\ turn.pc = "user" => \A s \in Speakers : Apart(buf[s], turn.took["moderator"])
  /\ \A s \in Speakers : Used(buf[s])
  /\ Used(turn.took["moderator"])

SentAreWhole == \A e \in KeptTexts : OnWay(session, e) => NotGathered(e)
NoneToCome == \A s \in Nat, e \in KeptTexts : session < s => ~OnWay(s, e)
SentIsKnown == \A e \in KeptTexts : OnWay(session, e) <=> Known(e)
SentOnce == \A e \in KeptTexts : ~Ahead(session, e, e)
SentInOrder == \A e, f \in SpokenTexts : Sooner(e, f) => Ahead(session, e, f)

SeenInv ==
  /\ NotesFollow /\ Gathered /\ SentAreWhole /\ NoneToCome /\ SentIsKnown /\ SentOnce
  /\ inOrder => SentInOrder

LEMMA Types ==
  ASSUME TypeOK
  PROVE  /\ session \in Nat /\ texts \in Nat /\ SpokenTexts \subseteq KeptTexts
         /\ buf["user"] \in Sayings /\ buf["moderator"] \in Sayings
         /\ turn.took["user"] \in Sayings /\ turn.took["moderator"] \in Sayings
         /\ turn.pc \in {"idle", "user", "moderator"}
         /\ history \in Seq(Entries) /\ Len(history) \in Nat
         /\ KeptTexts \subseteq Entries
<1>1. history \in Seq(Entries) /\ Len(history) \in Nat
  BY DEF TypeOK, Entries
<1>2. KeptTexts \subseteq Entries /\ SpokenTexts \subseteq KeptTexts
  BY DEF SpokenTexts, KeptTexts, Entries
<1> QED BY <1>1, <1>2 DEF TypeOK, Speakers

(* A step that sends nothing that counts.                                  *)
LEMMA QuietStep ==
  ASSUME TypeOK, SeenInv, Stays, UNCHANGED <<session, inOrder, lines, slot>>, Gathered',
         \A e \in KeptTexts : NotGathered(e) => NotGathered(e)',
         \A e \in KeptTexts : Known(e)' <=> Known(e),
         \A e, f \in SpokenTexts : Sooner(e, f)' => Sooner(e, f)
  PROVE  SeenInv'
<1>1. session \in Nat /\ SpokenTexts \subseteq KeptTexts
  BY Types
<1>2. ASSUME NEW e \in KeptTexts
      PROVE  /\ OnWay(session, e)' <=> OnWay(session, e)
             /\ \A f \in KeptTexts : Ahead(session, e, f)' <=> Ahead(session, e, f)
  BY <1>1, Zenon DEF Stays
<1>3. SentAreWhole'
  BY <1>2, Zenon DEF SeenInv, SentAreWhole
<1>4. NoneToCome'
  BY <1>1, Zenon DEF SeenInv, NoneToCome, Stays
<1>5. SentIsKnown' /\ SentOnce'
  BY <1>2, Zenon DEF SeenInv, SentIsKnown, SentOnce
<1>6. inOrder' => SentInOrder'
  BY <1>1, <1>2, Zenon DEF SeenInv, SentInOrder
<1>7. NotesFollow'
  BY Zenon DEF SeenInv, NotesFollow
<1> QED BY <1>3, <1>4, <1>5, <1>6, <1>7, Zenon DEF SeenInv

(* A step that sends a text which has not been sent, and comes last in     *)
(* what is known.                                                          *)
LEMMA SendStep ==
  ASSUME TypeOK, SeenInv, NEW w \in Speakers \cup {"agent"}, NEW t \in Sayings,
         Send(Text(w, t, TRUE)), UNCHANGED <<session, inOrder, tasks, lines, slot>>,
         ~OnWay(session, Entry(w, t)), Gathered', NotGathered(Entry(w, t))',
         \A e \in KeptTexts : OnWay(session, e) /\ NotGathered(e) => NotGathered(e)',
         \A e \in KeptTexts : Known(e)' <=> Known(e) \/ e = Entry(w, t),
         \A e, f \in SpokenTexts : Sooner(e, f)' => Sooner(e, f) \/ (Known(e) /\ f = Entry(w, t))
  PROVE  SeenInv'
<1>1. session \in Nat /\ SpokenTexts \subseteq KeptTexts
  BY Types
<1>2. \A s \in Nat, e \in KeptTexts :
        /\ OnWay(s, e)' <=> OnWay(s, e) \/ (s = session /\ e = Entry(w, t))
        /\ \A f \in KeptTexts :
             Ahead(s, e, f)' <=> \/ Ahead(s, e, f)
                                 \/ OnWay(s, e) /\ s = session /\ f = Entry(w, t)
  BY SentFinal, Zenon
<1>3. SentAreWhole'
  BY <1>1, <1>2, Zenon DEF SeenInv, SentAreWhole
<1>4. NoneToCome'
  <2> SUFFICES ASSUME NEW s \in Nat, NEW e \in KeptTexts, session' < s, OnWay(s, e)' PROVE FALSE
    BY Zenon DEF NoneToCome
  <2>1. s # session
    BY <1>1
  <2> QED BY <1>2, <2>1, Zenon DEF SeenInv, NoneToCome
<1>5. SentIsKnown'
  BY <1>1, <1>2, Zenon DEF SeenInv, SentIsKnown
<1>6. SentOnce'
  BY <1>1, <1>2, Zenon DEF SeenInv, SentOnce
<1>7. inOrder' => SentInOrder'
  BY <1>1, <1>2, Zenon DEF SeenInv, SentInOrder, SentIsKnown
<1>8. NotesFollow'
  BY Zenon DEF SeenInv, NotesFollow
<1> QED BY <1>3, <1>4, <1>5, <1>6, <1>7, <1>8, Zenon DEF SeenInv

LEMMA FirstFragment ==
  ASSUME TypeOK, NEW x \in 1..MaxTexts
  PROVE  /\ \A t \in Sayings : /\ Append(t, x) # <<>>
                               /\ Head(Append(t, x)) = IF t = <<>> THEN x ELSE Head(t)
                               /\ t # <<>> => Head(t) \in Nat
         /\ <<x>> # <<>> /\ Head(<<x>>) = x
<1>1. ASSUME NEW t \in Sayings
      PROVE  /\ Append(t, x) # <<>>
             /\ Head(Append(t, x)) = IF t = <<>> THEN x ELSE Head(t)
             /\ t # <<>> => Head(t) \in Nat
  <2>1. t \in Seq(1..MaxTexts)
    BY DEF Sayings
  <2>2. /\ Append(t, x) \in Seq(1..MaxTexts) /\ Len(Append(t, x)) = Len(t) + 1
        /\ \A i \in DOMAIN t : Append(t, x)[i] = t[i]
        /\ Append(t, x)[Len(t) + 1] = x
    BY <2>1, AppendElements
  <2>3. Append(t, x) # <<>> /\ Head(Append(t, x)) = Append(t, x)[1]
    BY <2>1, <2>2
  <2>4. ASSUME t # <<>> PROVE 1 \in DOMAIN t /\ Head(t) = t[1] /\ t[1] \in 1..MaxTexts
    <3>1. Len(t) \in Nat \ {0} /\ DOMAIN t = 1 .. Len(t)
      BY <2>1, <2>4, EmptySeq
    <3>2. 1 \in DOMAIN t
      BY <3>1
    <3>3. Head(t) = t[1]
      BY <2>1, <3>1
    <3>4. Head(t) \in 1..MaxTexts
      BY <2>1, <2>4, HeadTailProperties
    <3> QED BY <3>2, <3>3, <3>4
  <2>5. CASE t = <<>>
    BY <2>2, <2>3, <2>5
  <2>6. CASE t # <<>>
    BY <2>2, <2>3, <2>4, <2>6
  <2> QED BY <2>5, <2>6
<1>2. <<x>> # <<>> /\ Head(<<x>>) = x
  OBVIOUS
<1> QED BY <1>1, <1>2

LEMMA SeenSays ==
  ASSUME TypeOK, SeenInv, Says, UNCHANGED <<listener, session, inOrder, turn, history, lines, slot>>, Stays,
         \/ buf' = buf
         \/ \E s \in Speakers : buf' = [buf EXCEPT ![s] = Append(@, NextText)]
  PROVE  SeenInv'
<1>1. /\ texts' = texts + 1 /\ NextText = texts + 1 /\ texts \in Nat /\ NextText \in 1..MaxTexts
      /\ buf \in [Speakers -> Sayings] /\ turn.took["moderator"] \in Sayings
      /\ turn.took["user"] \in Sayings
  BY SaysType, Types DEF Says, NextText, TypeOK
<1>2. PICK n \in 1..MaxTexts : n = texts + 1 /\ n = NextText
  BY <1>1
<1>3. \A t \in Sayings : /\ Append(t, n) # <<>>
                         /\ Head(Append(t, n)) = IF t = <<>> THEN n ELSE Head(t)
                         /\ t # <<>> => Head(t) \in Nat
  BY FirstFragment
<1>4. \A t \in Sayings : Used(t) => Used(t)'
  BY <1>1, <1>3 DEF Used
<1>5. ASSUME NEW s \in Speakers
      PROVE  /\ buf'[s] = buf[s] \/ buf'[s] = Append(buf[s], n)
             /\ buf'[s] # buf[s] => \A r \in Speakers : r # s => buf'[r] = buf[r]
             /\ buf[s] \in Sayings
  BY <1>1, <1>2
<1>6. ASSUME NEW s \in Speakers, NEW u \in Sayings, Apart(buf[s], u), Used(u)
      PROVE  Apart(buf'[s], u)
  <2>1. /\ buf'[s] = buf[s] \/ buf'[s] = Append(buf[s], n)
        /\ buf[s] \in Sayings
    BY <1>5
  <2>2. u # <<>> => Head(u) \in Nat /\ Head(u) <= texts /\ Head(u) # n
    BY <1>1, <1>2, <1>3, <1>6 DEF Used
  <2>3. Head(Append(buf[s], n)) = IF buf[s] = <<>> THEN n ELSE Head(buf[s])
    BY <1>3, <2>1
  <2>4. CASE buf'[s] = buf[s]
    BY <1>6, <2>4
  <2>5. CASE buf'[s] = Append(buf[s], n)
    BY <1>6, <2>2, <2>3, <2>5 DEF Apart
  <2> QED  BY <2>1, <2>4, <2>5
<1>7. \A s \in Speakers : Used(buf[s])
  BY DEF SeenInv, Gathered
<1>8. \A s \in Speakers : Used(buf[s])'
  <2> SUFFICES ASSUME NEW s \in Speakers, buf'[s] # <<>> PROVE Head(buf'[s]) <= texts'
    BY DEF Used
  <2>1. CASE buf'[s] = buf[s]
    BY <1>1, <1>3, <1>5, <1>7, <2>1 DEF Used
  <2>2. CASE buf'[s] = Append(buf[s], n)
    BY <1>1, <1>2, <1>3, <1>5, <1>7, <2>2 DEF Used
  <2> QED BY <1>5, <2>1, <2>2
<1>9. Gathered'
  <2>1. Apart(buf'["user"], buf'["moderator"])
    <3>1. /\ Apart(buf["user"], buf["moderator"]) /\ Apart(buf["moderator"], buf["user"])
          /\ "user" \in Speakers /\ "moderator" \in Speakers
      BY DEF SeenInv, Gathered, Apart, Speakers
    <3>2. Apart(buf'["user"], buf["moderator"]) /\ Apart(buf'["moderator"], buf["user"])
      BY <1>5, <1>6, <1>7, <3>1
    <3>3. buf'["user"] = buf["user"] \/ buf'["moderator"] = buf["moderator"]
      BY <1>5, <3>1
    <3> QED BY <3>2, <3>3 DEF Apart
  <2>2. turn.pc = "user" => \A s \in Speakers : Apart(buf'[s], turn.took["moderator"])
    BY <1>1, <1>6 DEF SeenInv, Gathered
  <2>3. Used(turn.took["moderator"])'
    BY <1>1, <1>4 DEF SeenInv, Gathered, Used
  <2>4. turn.pc # "idle" => turn.took[turn.pc] # <<>>
    BY DEF SeenInv, Gathered
  <2> QED BY <1>8, <2>1, <2>2, <2>3, <2>4 DEF Gathered, Apart
<1>10. ASSUME NEW e \in KeptTexts, NotGathered(e)
       PROVE  NotGathered(e)'
  <2>1. e.text \in Sayings
    BY DEF KeptTexts
  <2>2. \A s \in Speakers : Apart(buf'[s], e.text)
    BY <1>6, <1>10, <2>1 DEF NotGathered
  <2>3. e.text # <<>> /\ Used(e.text)'
    BY <1>4, <1>10, <2>1 DEF NotGathered
  <2> QED BY <1>10, <2>2, <2>3 DEF NotGathered, Apart
<1>11. \A e \in KeptTexts : Known(e)' <=> Known(e)
  BY Zenon DEF Known, InHistory, Sent
<1>12. \A e, f \in SpokenTexts : Sooner(e, f)' => Sooner(e, f)
  BY Zenon DEF Sooner, InHistory, Sent
<1> QED BY <1>9, <1>10, <1>11, <1>12, QuietStep, Zenon

LEMMA SilentIsEmpty == \A s \in Speakers : Silent[s] = <<>>
  BY DEF Silent

LEMMA SeenFlush ==
  ASSUME TypeOK, SeenInv, NEW vad \in BOOLEAN, Flush(vad)
  PROVE  SeenInv'
<1>0. /\ FirstOf(buf) \in Speakers /\ buf[FirstOf(buf)] \in Sayings /\ buf[FirstOf(buf)] # <<>>
      /\ FirstOf(buf) = "user" \/ (FirstOf(buf) = "moderator" /\ buf["user"] = <<>>)
  <2>1. buf \in [Speakers -> Sayings] /\ buf # Silent
    BY DEF TypeOK, Flush
  <2>2. buf["user"] # <<>> \/ buf["moderator"] # <<>>
    BY <2>1 DEF Silent, Speakers
  <2> QED BY <2>1, <2>2 DEF FirstOf, Speakers
<1>4. PICK w \in Speakers, t \in Sayings : w = FirstOf(buf) /\ t = buf[w]
  BY <1>0
<1>1. /\ turn.pc = "idle" /\ buf' = Silent /\ turn' = [pc |-> w, took |-> buf, vad |-> vad]
      /\ Send(Text(w, t, TRUE)) /\ UNCHANGED <<listener, session, inOrder, texts, history, tasks, lines, slot>>
  BY <1>4, Zenon DEF Flush, Listening, env, client
<1>2. t # <<>> /\ (w = "user" \/ (w = "moderator" /\ buf["user"] = <<>>))
  BY <1>0, <1>4
<1>3. turn'.pc = w /\ turn'.took = buf
  BY <1>1
<1>5. ASSUME NEW e \in KeptTexts
      PROVE  ~Sent(e) /\ (Sent(e)' <=> e = Entry(w, t)) /\ (InHistory(e)' <=> InHistory(e))
  <2>1. e = Entry(w, t) <=> e.who = w /\ e.text = t
    BY EntryIs
  <2>2. ~Sent(e)
    BY <1>1 DEF Sent
  <2>3. Sent(e)' <=> e.who = w /\ e.text = t
    BY <1>2, <1>3, <1>4 DEF Sent, Speakers
  <2> QED BY <1>1, <2>1, <2>2, <2>3 DEF InHistory
<1>6. \A e \in KeptTexts : Known(e)' <=> Known(e) \/ e = Entry(w, t)
  BY <1>5, Zenon DEF Known
<1>7. ASSUME NEW e \in SpokenTexts, NEW f \in SpokenTexts, Sooner(e, f)'
      PROVE  Sooner(e, f) \/ (Known(e) /\ f = Entry(w, t))
  <2>1. e \in KeptTexts /\ f \in KeptTexts
    BY Types
  <2>2. ~(e = Entry(w, t) /\ f = Entry(w, t) /\ e.who = "user" /\ f.who = "moderator")
    OBVIOUS
  <2> QED BY <1>1, <1>5, <1>7, <2>1, <2>2, Zenon DEF Sooner, Known
<1>8. ~OnWay(session, Entry(w, t))
  <2>1. Entry(w, t) \in KeptTexts /\ Entry(w, t).text = t
    BY <1>2 DEF Entry, KeptTexts
  <2>2. ~NotGathered(Entry(w, t))
    BY <1>2, <1>4, <2>1 DEF NotGathered, Apart
  <2> QED BY <2>1, <2>2 DEF SeenInv, SentAreWhole
<1>9. buf'["user"] = <<>> /\ buf'["moderator"] = <<>> /\ \A s \in Speakers : buf'[s] = <<>>
  BY <1>1, SilentIsEmpty DEF Speakers
<1>10. Gathered'
  BY <1>1, <1>2, <1>3, <1>4, <1>9 DEF Gathered, SeenInv, Apart, Used, Speakers
<1>11. NotGathered(Entry(w, t))'
  BY <1>1, <1>2, <1>3, <1>4, <1>9 DEF Gathered, NotGathered, SeenInv, Apart, Used, Speakers, Entry
<1>12. ASSUME NEW e \in KeptTexts, NotGathered(e) PROVE NotGathered(e)'
  BY <1>1, <1>3, <1>9, <1>12 DEF NotGathered, Apart, Used, Speakers
<1> QED BY <1>1, <1>2, <1>6, <1>7, <1>8, <1>10, <1>11, <1>12, SendStep, Zenon

LEMMA SeenFlushGoesOn ==
  ASSUME TypeOK, SeenInv, FlushGoesOn
  PROVE  SeenInv'
<1>1. PICK t \in Sayings : t = turn.took["moderator"] /\ t # <<>>
  BY Types DEF FlushGoesOn, MoreToSend
<1>2. /\ turn.pc = "user" /\ turn'.pc = "moderator" /\ turn'.took = turn.took
      /\ Send(Text("moderator", t, TRUE))
      /\ UNCHANGED <<listener, session, inOrder, texts, buf, history, tasks, lines, slot>>
  BY <1>1 DEF FlushGoesOn, MoreToSend, TypeOK, env, client
<1>3. turn.took["user"] # <<>>
  BY <1>2 DEF SeenInv, Gathered
<1>4. ASSUME NEW e \in KeptTexts
      PROVE  /\ Sent(e) <=> e.who = "user" /\ e.text = turn.took["user"]
             /\ Sent(e)' <=> Sent(e) \/ e = Entry("moderator", t)
             /\ InHistory(e)' <=> InHistory(e)
  <2>1. e = Entry("moderator", t) <=> e.who = "moderator" /\ e.text = t
    BY EntryIs
  <2>2. Sent(e) <=> e.who = "user" /\ e.text = turn.took["user"]
    BY <1>2, <1>3 DEF Sent, Speakers
  <2>3. Sent(e)' <=> \/ e.who = "user" /\ e.text = turn.took["user"]
                     \/ e.who = "moderator" /\ e.text = t
    BY <1>1, <1>2, <1>3 DEF Sent, Speakers
  <2> QED BY <1>2, <2>1, <2>2, <2>3 DEF InHistory
<1>5. \A e \in KeptTexts : Known(e)' <=> Known(e) \/ e = Entry("moderator", t)
  BY <1>4, Zenon DEF Known
<1>6. ASSUME NEW e \in SpokenTexts, NEW f \in SpokenTexts, Sooner(e, f)'
      PROVE  Sooner(e, f) \/ (Known(e) /\ f = Entry("moderator", t))
  <2>1. e \in KeptTexts /\ f \in KeptTexts
    BY Types
  <2>2. e.who = "user" => e # Entry("moderator", t)
    BY DEF Entry
  <2>3. f.who = "moderator" => ~Sent(f)
    BY <1>4, <2>1
  <2> QED BY <1>2, <1>4, <1>6, <2>1, <2>2, <2>3, Zenon DEF Sooner, Known
<1>7. ~OnWay(session, Entry("moderator", t))
  <2>1. Entry("moderator", t) \in KeptTexts /\ Entry("moderator", t).text = t
    BY DEF Entry, KeptTexts, Speakers
  <2>2. ~NotGathered(Entry("moderator", t))
    BY <1>1, <1>2, <2>1 DEF NotGathered, Apart
  <2> QED BY <2>1, <2>2 DEF SeenInv, SentAreWhole
<1>8. Gathered'
  BY <1>1, <1>2 DEF Gathered, SeenInv, Apart, Used
<1>9. NotGathered(Entry("moderator", t))'
  BY <1>1, <1>2 DEF Gathered, NotGathered, SeenInv, Apart, Used, Entry
<1>10. ASSUME NEW e \in KeptTexts, NotGathered(e) PROVE NotGathered(e)'
  BY <1>2, <1>10 DEF NotGathered, Apart, Used
<1>11. "moderator" \in Speakers \cup {"agent"}
  BY DEF Speakers
<1> QED BY <1>2, <1>5, <1>6, <1>7, <1>8, <1>9, <1>10, <1>11, SendStep, Zenon

(* What is kept at the end of a flush is what was sent, the user's first.  *)
LEMMA KeptIsSent ==
  ASSUME TypeOK, Gathered, turn.pc # "idle", ~MoreToSend
  PROVE  LET q == Kept(turn.took) IN
         /\ q \in Seq(KeptTexts) /\ Len(q) \in Nat
         /\ \A e \in KeptTexts : (\E j \in DOMAIN q : q[j] = e) <=> Sent(e)
         /\ \A i, j \in DOMAIN q : i < j => q[i].who = "user" /\ q[j].who = "moderator"
<1> DEFINE u == Entry("user", turn.took["user"])
           m == Entry("moderator", turn.took["moderator"])
<1>1. /\ u \in KeptTexts /\ m \in KeptTexts /\ u.who = "user" /\ m.who = "moderator"
      /\ \A e \in KeptTexts : e = u <=> e.who = "user" /\ e.text = turn.took["user"]
      /\ \A e \in KeptTexts : e = m <=> e.who = "moderator" /\ e.text = turn.took["moderator"]
  <2>1. u \in KeptTexts /\ m \in KeptTexts /\ u.who = "user" /\ m.who = "moderator"
    BY Types DEF Entry, KeptTexts, Speakers
  <2> QED BY <2>1, EntryIs
<1>2. /\ Said("user", turn.took) = IF turn.took["user"] = <<>> THEN <<>> ELSE <<u>>
      /\ Said("moderator", turn.took) = IF turn.took["moderator"] = <<>> THEN <<>> ELSE <<m>>
  BY DEF Said
<1> HIDE DEF u, m
<1>3. CASE turn.pc = "user"
  <2>1. turn.took["user"] # <<>> /\ turn.took["moderator"] = <<>>
    BY <1>3 DEF Gathered, MoreToSend
  <2>2. Kept(turn.took) = <<u>> \o <<>>
    BY <1>2, <2>1 DEF Kept
  <2>3. <<u>> \o <<>> = <<u>>
    BY <1>1
  <2>4. \A e \in KeptTexts : Sent(e) <=> e = u
    BY <1>1, <1>3, <2>1 DEF Sent, Speakers
  <2> QED BY <1>1, <2>2, <2>3, <2>4
<1>4. CASE turn.pc = "moderator"
  <2>1. turn.took["moderator"] # <<>>
    BY <1>4 DEF Gathered
  <2>2. CASE turn.took["user"] = <<>>
    <3>1. Kept(turn.took) = <<>> \o <<m>>
      BY <1>2, <2>1, <2>2 DEF Kept
    <3>2. <<>> \o <<m>> = <<m>>
      BY <1>1
    <3>3. \A e \in KeptTexts : Sent(e) <=> e = m
      BY <1>1, <1>4, <2>1, <2>2 DEF Sent, Speakers
    <3> QED BY <1>1, <3>1, <3>2, <3>3
  <2>3. CASE turn.took["user"] # <<>>
    <3>1. Kept(turn.took) = <<u>> \o <<m>>
      BY <1>2, <2>1, <2>3 DEF Kept
    <3>2. /\ <<u>> \o <<m>> \in Seq(KeptTexts) /\ Len(<<u>> \o <<m>>) = 2
          /\ (<<u>> \o <<m>>)[1] = u /\ (<<u>> \o <<m>>)[2] = m
      <4>1. <<u>> \in Seq(KeptTexts) /\ <<m>> \in Seq(KeptTexts) /\ Len(<<u>>) = 1 /\ Len(<<m>>) = 1
        BY <1>1
      <4> QED BY <4>1, ConcatProperties
    <3>3. \A e \in KeptTexts : Sent(e) <=> e = u \/ e = m
      BY <1>1, <1>4, <2>1, <2>3 DEF Sent, Speakers
    <3>4. DOMAIN (<<u>> \o <<m>>) = {1, 2}
      BY <3>2
    <3>5. PICK q \in Seq(KeptTexts) :
            q = Kept(turn.took) /\ Len(q) = 2 /\ DOMAIN q = {1, 2} /\ q[1] = u /\ q[2] = m
      BY <3>1, <3>2, <3>4
    <3> QED BY <1>1, <3>3, <3>5
  <2> QED BY <2>2, <2>3
<1> QED BY <1>3, <1>4, Types

LEMMA SeenFlushEnds ==
  ASSUME TypeOK, SeenInv, FlushEnds
  PROVE  SeenInv'
<1>1. /\ turn.pc # "idle" /\ ~MoreToSend /\ history' = history \o Kept(turn.took)
      /\ turn' = NoTurn /\ (Send(Interruption(gen)) \/ UNCHANGED down)
      /\ UNCHANGED <<listener, session, inOrder, texts, buf, tasks, lines, slot>>
  BY Zenon DEF FlushEnds, env, client
<1>2. PICK q \in Seq(KeptTexts) :
        /\ q = Kept(turn.took) /\ Len(q) \in Nat
        /\ \A e \in KeptTexts : (\E j \in DOMAIN q : q[j] = e) <=> Sent(e)
        /\ \A i, j \in DOMAIN q : i < j => q[i].who = "user" /\ q[j].who = "moderator"
  BY <1>1, KeptIsSent DEF SeenInv
<1>3. history \in Seq(Entries) /\ Len(history) \in Nat /\ q \in Seq(Entries)
  BY <1>2, Types
<1> DEFINE n == Len(history)
<1>4. /\ Len(history') = n + Len(q)
      /\ \A i \in 1 .. n + Len(q) : history'[i] = IF i <= n THEN history[i] ELSE q[i - n]
      /\ history' \in Seq(Entries)
  BY <1>1, <1>2, <1>3, ConcatProperties
<1>5. /\ DOMAIN history' = 1 .. n + Len(q) /\ DOMAIN history = 1 .. n /\ DOMAIN q = 1 .. Len(q)
  BY <1>2, <1>3, <1>4
<1>6. /\ \A i \in DOMAIN history' :
           \/ i \in DOMAIN history /\ history'[i] = history[i]
           \/ i - n \in DOMAIN q /\ history'[i] = q[i - n] /\ n < i
      /\ \A i \in DOMAIN history : i \in DOMAIN history' /\ history'[i] = history[i] /\ i <= n
      /\ \A j \in DOMAIN q : j + n \in DOMAIN history' /\ history'[j + n] = q[j]
      /\ \A i \in DOMAIN history' : i \in Nat
      /\ n \in Nat
  BY <1>2, <1>3, <1>4, <1>5
<1> HIDE DEF n
<1>7. ASSUME NEW e \in KeptTexts
      PROVE  ~Sent(e)' /\ (InHistory(e)' <=> InHistory(e) \/ Sent(e))
  <2>1. ~Sent(e)'
    BY <1>1 DEF Sent, NoTurn
  <2>2. ASSUME InHistory(e)' PROVE InHistory(e) \/ Sent(e)
    BY <1>1, <1>2, <1>6, <2>2 DEF InHistory
  <2>3. ASSUME InHistory(e) PROVE InHistory(e)'
    BY <1>1, <1>6, <2>3 DEF InHistory
  <2>4. ASSUME Sent(e) PROVE InHistory(e)'
    <3>1. PICK j \in DOMAIN q : q[j] = e
      BY <1>2, <2>4
    <3>2. e.who \in Speakers
      BY <2>4 DEF Sent
    <3> QED BY <1>6, <3>1, <3>2 DEF InHistory
  <2> QED BY <2>1, <2>2, <2>3, <2>4
<1>8. \A e \in KeptTexts : Known(e)' <=> Known(e)
  BY <1>7, Zenon DEF Known
<1>9. ASSUME NEW e \in SpokenTexts, NEW f \in SpokenTexts, Sooner(e, f)'
      PROVE  Sooner(e, f)
  <2>1. e \in KeptTexts /\ f \in KeptTexts
    BY Types
  <2>2. PICK g \in DOMAIN history', h \in DOMAIN history' : g < h /\ history'[g] = e /\ history'[h] = f
    BY <1>7, <1>9, <2>1 DEF Sooner
  <2>3. CASE h \in DOMAIN history
    <3>1. g \in DOMAIN history
      BY <1>6, <2>2, <2>3
    <3> QED BY <1>6, <2>2, <2>3, <3>1 DEF Sooner
  <2>4. CASE h \notin DOMAIN history
    <3>1. h - n \in DOMAIN q /\ q[h - n] = f
      BY <1>6, <2>2, <2>4
    <3>2. Sent(f)
      BY <1>2, <2>1, <3>1
    <3>3. CASE g \in DOMAIN history
      BY <1>6, <2>2, <3>2, <3>3 DEF Sooner, InHistory, SpokenTexts
    <3>4. CASE g \notin DOMAIN history
      <4>1. g - n \in DOMAIN q /\ q[g - n] = e /\ g - n < h - n
        BY <1>6, <2>2, <3>4
      <4>2. Sent(e) /\ e.who = "user" /\ f.who = "moderator"
        BY <1>2, <2>1, <3>1, <4>1
      <4> QED BY <3>2, <4>2 DEF Sooner
    <3> QED BY <3>3, <3>4
  <2> QED BY <2>3, <2>4
<1>10. Stays
  <2>1. CASE Send(Interruption(gen))
    <3>1. Interruption(gen) \in Wire /\ Interruption(gen).kind = "interruption"
      BY MessageTypes DEF Interruption, TypeOK
    <3>2. \A s \in Nat, e \in KeptTexts : ~Carries(Interruption(gen), s, e)
      BY <3>1 DEF Carries
    <3> QED BY <1>1, <2>1, <3>1, <3>2, SentNothing
  <2>2. CASE UNCHANGED down
    BY <1>1, <2>2, NoChange
  <2> QED BY <1>1, <2>1, <2>2
<1>11. /\ turn'.pc = "idle" /\ turn'.took["moderator"] = <<>>
  BY <1>1, SilentIsEmpty DEF NoTurn, Speakers
<1>12. Gathered'
  BY <1>1, <1>11 DEF Gathered, SeenInv, Apart, Used
<1>13. ASSUME NEW e \in KeptTexts, NotGathered(e) PROVE NotGathered(e)'
  BY <1>1, <1>11, <1>13 DEF NotGathered, Apart, Used
<1> QED BY <1>1, <1>8, <1>9, <1>10, <1>12, <1>13, QuietStep, Zenon

LEMMA SeenAnswer ==
  ASSUME TypeOK, SeenInv, Answer
  PROVE  SeenInv'
<1>1. PICK n \in 1..MaxTexts : n = texts + 1 /\ n = NextText
  BY SaysType DEF Answer, NextText
<1>2. PICK t \in Sayings : t = <<n>> /\ t # <<>> /\ Head(t) = n
  <2>1. <<n>> \in Sayings
    BY DEF Sayings
  <2> QED BY <2>1, FirstFragment
<1>3. /\ listener /\ texts' = n /\ history' = Append(history, Entry("agent", t))
      /\ Send(Text("agent", t, TRUE))
      /\ UNCHANGED <<listener, session, inOrder, buf, turn, tasks, lines, slot>>
  BY <1>1, <1>2 DEF Answer, Says, env, client
<1>4. /\ Entry("agent", t) \in KeptTexts /\ Entry("agent", t).text = t
      /\ Entry("agent", t).who = "agent" /\ Entry("agent", t) \notin SpokenTexts
  BY DEF Entry, KeptTexts, SpokenTexts, Speakers
<1>5. /\ history \in Seq(Entries) /\ KeptTexts \subseteq Entries /\ texts \in Nat /\ SpokenTexts \subseteq KeptTexts
      /\ turn.took["moderator"] \in Sayings /\ \A s \in Speakers : buf[s] \in Sayings
  BY Types DEF Speakers
<1>6. /\ DOMAIN history' = 1 .. Len(history) + 1 /\ DOMAIN history = 1 .. Len(history)
      /\ history'[Len(history) + 1] = Entry("agent", t) /\ Len(history) \in Nat
      /\ \A i \in DOMAIN history : history'[i] = history[i]
  BY <1>3, <1>4, <1>5, AppendElements
<1>7. /\ \A i \in DOMAIN history' : i \in DOMAIN history \/ i = Len(history) + 1
      /\ \A i \in DOMAIN history : i \in DOMAIN history'
  BY <1>6
<1>8. ASSUME NEW e \in KeptTexts
      PROVE  (Sent(e)' <=> Sent(e)) /\ (InHistory(e)' <=> InHistory(e) \/ e = Entry("agent", t))
  <2>1. InHistory(e)' <=> InHistory(e) \/ e = Entry("agent", t)
    BY <1>3, <1>6, <1>7 DEF InHistory
  <2>2. Sent(e)' <=> Sent(e)
    BY <1>3 DEF Sent
  <2> QED BY <2>1, <2>2
<1>9. \A e \in KeptTexts : Known(e)' <=> Known(e) \/ e = Entry("agent", t)
  BY <1>8, Zenon DEF Known
<1>10. ASSUME NEW e \in SpokenTexts, NEW f \in SpokenTexts, Sooner(e, f)'
       PROVE  Sooner(e, f)
  <2>1. e \in KeptTexts /\ f \in KeptTexts /\ e # Entry("agent", t) /\ f # Entry("agent", t)
    BY <1>4, <1>5
  <2>2. ASSUME NEW g \in DOMAIN history', NEW h \in DOMAIN history', g < h,
               history'[g] = e, history'[h] = f
        PROVE  Sooner(e, f)
    <3>1. g \in DOMAIN history /\ h \in DOMAIN history /\ history[g] = e /\ history[h] = f
      BY <1>6, <1>7, <2>1, <2>2
    <3> QED BY <2>2, <3>1 DEF Sooner
  <2>3. CASE InHistory(e)' /\ Sent(f)'
    BY <1>8, <2>1, <2>3 DEF Sooner
  <2>4. CASE Sent(e)' /\ Sent(f)' /\ e.who = "user" /\ f.who = "moderator"
    BY <1>8, <2>1, <2>4 DEF Sooner
  <2> QED BY <1>10, <2>2, <2>3, <2>4 DEF Sooner
<1>11. \A u \in Sayings : u # <<>> => Head(u) \in Nat
  BY <1>1, FirstFragment
<1>12. ~OnWay(session, Entry("agent", t))
  <2>1. ~NotGathered(Entry("agent", t))
    BY <1>1, <1>2, <1>4, <1>5 DEF NotGathered, Used
  <2> QED BY <1>4, <2>1 DEF SeenInv, SentAreWhole
<1>13. \A u \in Sayings : Used(u) => Used(u)' /\ Apart(u, t)
  BY <1>1, <1>2, <1>3, <1>5, <1>11 DEF Used, Apart
<1>14. Gathered'
  <2>1. \A s \in Speakers : Used(buf[s])'
    BY <1>3, <1>5, <1>13 DEF SeenInv, Gathered, Used
  <2>2. Used(turn.took["moderator"])'
    BY <1>3, <1>5, <1>13 DEF SeenInv, Gathered, Used
  <2> QED BY <1>3, <2>1, <2>2 DEF SeenInv, Gathered, Apart
<1>15. NotGathered(Entry("agent", t))'
  <2>1. /\ \A s \in Speakers : Apart(buf[s], t)
        /\ Apart(turn.took["moderator"], t)
    BY <1>5, <1>13 DEF SeenInv, Gathered
  <2>2. Used(t)'
    BY <1>1, <1>2, <1>3 DEF Used
  <2> QED BY <1>2, <1>3, <1>4, <2>1, <2>2 DEF NotGathered, Used, Apart
<1>16. ASSUME NEW e \in KeptTexts, NotGathered(e) PROVE NotGathered(e)'
  <2>1. e.text \in Sayings
    BY DEF KeptTexts
  <2>2. Used(e.text)'
    BY <1>13, <1>16, <2>1 DEF NotGathered
  <2> QED BY <1>3, <1>16, <2>2 DEF NotGathered, Apart, Used
<1>17. "agent" \in Speakers \cup {"agent"}
  OBVIOUS
<1> QED BY <1>3, <1>9, <1>10, <1>12, <1>14, <1>15, <1>16, <1>17, SendStep, Zenon

(* The history grows by what is not sent.                                  *)
LEMMA Unsent ==
  ASSUME TypeOK, NEW q \in Seq(Entries), history' = history \o q, UNCHANGED <<listener, turn>>,
         \A j \in DOMAIN q : q[j].flushed \/ (~listener /\ q[j].who \notin Speakers)
  PROVE  /\ \A e \in KeptTexts : Known(e)' <=> Known(e)
         /\ \A e, f \in SpokenTexts : Sooner(e, f)' => Sooner(e, f)
<1>1. history \in Seq(Entries) /\ Len(history) \in Nat /\ SpokenTexts \subseteq KeptTexts
  BY Types
<1> DEFINE n == Len(history)
<1>2. /\ Len(history') = n + Len(q) /\ history' \in Seq(Entries)
      /\ \A i \in 1 .. n + Len(q) : history'[i] = IF i <= n THEN history[i] ELSE q[i - n]
  BY <1>1, ConcatProperties
<1>3. /\ \A i \in DOMAIN history' :
           \/ i \in DOMAIN history /\ history'[i] = history[i]
           \/ i - n \in DOMAIN q /\ history'[i] = q[i - n]
      /\ \A i \in DOMAIN history : i \in DOMAIN history' /\ history'[i] = history[i]
  BY <1>1, <1>2
<1> HIDE DEF n
<1>4. ASSUME NEW e \in KeptTexts, listener \/ e.who \in Speakers, NEW j \in DOMAIN q, q[j] = e
      PROVE  FALSE
  <2>1. ~e.flushed
    BY DEF KeptTexts
  <2> QED BY <1>4, <2>1
<1>5. ASSUME NEW e \in KeptTexts, listener \/ e.who \in Speakers,
             NEW i \in DOMAIN history', history'[i] = e
      PROVE  i \in DOMAIN history /\ history[i] = e
  BY <1>3, <1>4, <1>5
<1>6. \A e \in KeptTexts : (InHistory(e)' <=> InHistory(e)) /\ (Sent(e)' <=> Sent(e))
  BY <1>3, <1>5 DEF InHistory, Sent
<1>7. \A e \in KeptTexts : Known(e)' <=> Known(e)
  BY <1>6, Zenon DEF Known
<1>8. ASSUME NEW e \in SpokenTexts, NEW f \in SpokenTexts, Sooner(e, f)'
      PROVE  Sooner(e, f)
  <2>1. e \in KeptTexts /\ f \in KeptTexts /\ e.who \in Speakers /\ f.who \in Speakers
    BY <1>1 DEF SpokenTexts
  <2>2. ASSUME NEW g \in DOMAIN history', NEW h \in DOMAIN history', g < h,
               history'[g] = e, history'[h] = f
        PROVE  Sooner(e, f)
    <3>1. g \in DOMAIN history /\ h \in DOMAIN history /\ history[g] = e /\ history[h] = f
      BY <1>5, <2>1, <2>2
    <3> QED BY <2>2, <3>1 DEF Sooner
  <2>3. CASE InHistory(e)' /\ Sent(f)'
    BY <1>6, <2>1, <2>3 DEF Sooner
  <2>4. CASE Sent(e)' /\ Sent(f)' /\ e.who = "user" /\ f.who = "moderator"
    BY <1>6, <2>1, <2>4 DEF Sooner
  <2> QED BY <1>8, <2>2, <2>3, <2>4 DEF Sooner
<1> QED BY <1>7, <1>8

(* An answer in talk mode.                                                 *)
LEMMA SeenSpokenAnswer ==
  ASSUME TypeOK, SeenInv, SpokenAnswer
  PROVE  SeenInv'
<1>1. /\ Says /\ history' = Append(history, Entry("agent", <<NextText>>)) /\ ~listener
      /\ UNCHANGED <<listener, session, inOrder, buf, turn, down, tasks, lines, slot>>
  BY DEF SpokenAnswer, env, client
<1>2. texts' = texts + 1 /\ texts \in Nat
  BY <1>1, Types DEF Says, NextText
<1>3. PICK a \in Entries : a = Entry("agent", <<NextText>>) /\ a.who \notin Speakers
  BY <1>1, SaysType, EntryType DEF Entry, Speakers
<1>4. history \in Seq(Entries) /\ <<a>> \in Seq(Entries)
  BY Types
<1>11. history' = history \o <<a>> /\ \A j \in DOMAIN <<a>> : <<a>>[j] = a
  BY <1>1, <1>3, <1>4, AppendIsConcat
<1>5. /\ \A e \in KeptTexts : Known(e)' <=> Known(e)
      /\ \A e, f \in SpokenTexts : Sooner(e, f)' => Sooner(e, f)
  BY <1>1, <1>3, <1>4, <1>11, Unsent
<1>6. ASSUME NEW t \in Sayings, Used(t)
      PROVE  Used(t)'
  <2>1. t # <<>> => Head(t) \in Nat
    BY <1>1, SaysType, FirstFragment
  <2> QED BY <1>2, <1>6, <2>1 DEF Used
<1>7. buf["user"] \in Sayings /\ buf["moderator"] \in Sayings /\ turn.took["moderator"] \in Sayings
  BY Types
<1>8. Gathered'
  <2>1. Used(buf["user"])' /\ Used(buf["moderator"])' /\ Used(turn.took["moderator"])'
    <3>1. Used(buf["user"]) /\ Used(buf["moderator"]) /\ Used(turn.took["moderator"])
      BY DEF SeenInv, Gathered, Speakers
    <3> QED BY <1>1, <1>6, <1>7, <3>1 DEF Used
  <2> QED BY <1>1, <2>1 DEF SeenInv, Gathered, Apart, Speakers
<1>9. ASSUME NEW e \in KeptTexts, NotGathered(e) PROVE NotGathered(e)'
  <2>1. e.text \in Sayings
    BY DEF KeptTexts
  <2>2. Used(e.text)'
    BY <1>6, <1>9, <2>1 DEF NotGathered
  <2> QED BY <1>1, <1>9, <2>2 DEF NotGathered, Apart, Used
<1>10. Stays
  BY <1>1, NoChange
<1> QED BY <1>1, <1>5, <1>8, <1>9, <1>10, QuietStep, Zenon

(* A barge-in keeps once more what it flushes.                             *)
LEMMA SeenInterrupt ==
  ASSUME TypeOK, SeenInv, Interrupt
  PROVE  SeenInv'
<1>1. /\ gen + 1 \in Gens /\ Send(Interruption(gen + 1))
      /\ UNCHANGED <<listener, session, inOrder, texts, buf, turn, tasks, lines, slot>>
  BY TranscriptAssumption DEF Interrupt, TypeOK, Gens, env, client
<1>2. PICK m \in Wire : m = Interruption(gen + 1) /\ m.kind = "interruption"
  BY <1>1, MessageTypes DEF Interruption
<1>3. Stays
  BY <1>1, <1>2, SentNothing DEF Carries
<1>4. PICK spared \in 0 .. 1 :
        /\ spared <= Len(waiting)
        /\ history' = history \o Flushed(SubSeq(waiting, spared + 1, Len(waiting)))
  BY Zenon DEF Interrupt
<1>5. PICK q \in Seq(Entries) :
        /\ q = Flushed(SubSeq(waiting, spared + 1, Len(waiting)))
        /\ \A j \in DOMAIN q : q[j].flushed
  <2>1. waiting \in Seq(Answers)
    BY DEF TypeOK, Answers
  <2>2. \A a \in Answers : [a EXCEPT !.flushed = TRUE].flushed
    BY DEF Answers
  <2>3. PICK q \in Seq(Entries) :
          /\ q = Flushed(SubSeq(waiting, spared + 1, Len(waiting)))
          /\ Len(q) = Len(waiting) - spared
          /\ \A i \in 1 .. Len(waiting) - spared :
               i + spared \in DOMAIN waiting /\ q[i] = [waiting[i + spared] EXCEPT !.flushed = TRUE]
    BY <1>4, FlushedType
  <2>4. ASSUME NEW j \in DOMAIN q PROVE q[j].flushed
    <3>1. j \in 1 .. Len(waiting) - spared
      BY <2>3
    <3>2. waiting[j + spared] \in Answers
      BY <2>1, <2>3, <3>1
    <3> QED BY <2>2, <2>3, <3>1, <3>2
  <2> QED BY <2>3, <2>4
<1>6. /\ \A e \in KeptTexts : Known(e)' <=> Known(e)
      /\ \A e, f \in SpokenTexts : Sooner(e, f)' => Sooner(e, f)
  BY <1>1, <1>4, <1>5, Unsent
<1>7. Gathered'
  BY <1>1, Zenon DEF SeenInv, Gathered, Apart, Used
<1>8. \A e \in KeptTexts : NotGathered(e) => NotGathered(e)'
  BY <1>1, Zenon DEF NotGathered, Apart, Used
<1> QED BY <1>1, <1>3, <1>6, <1>7, <1>8, QuietStep, Zenon

(* Nothing of what the server knows changes.                               *)
LEMMA SeenElsewhere ==
  ASSUME TypeOK, SeenInv, Stays,
         UNCHANGED <<listener, session, inOrder, texts, buf, turn, history, lines, slot>>
  PROVE  SeenInv'
<1>1. Gathered'
  BY Zenon DEF SeenInv, Gathered, Apart, Used
<1>2. ASSUME NEW e \in KeptTexts
      PROVE  (NotGathered(e) => NotGathered(e)') /\ (Known(e)' <=> Known(e))
  BY Zenon DEF NotGathered, Apart, Used, Known, InHistory, Sent
<1>3. \A e, f \in SpokenTexts : Sooner(e, f)' => Sooner(e, f)
  BY Zenon DEF Sooner, InHistory, Sent
<1> QED BY <1>1, <1>2, <1>3, QuietStep, Zenon

LEMMA SeenServer ==
  ASSUME TypeOK, SeenInv,
         \/ \E s \in Speakers : Accumulate(s)
         \/ \E vad \in BOOLEAN : Flush(vad)
         \/ TextOnly \/ FlushGoesOn \/ FlushEnds \/ Answer \/ Apology \/ OnText \/ Interrupt \/ Queues
  PROVE  SeenInv'
<1>1. ASSUME NEW s \in Speakers, Accumulate(s) PROVE SeenInv'
  <2>1. /\ Says /\ Send(Text(s, buf'[s], FALSE))
        /\ buf' = [buf EXCEPT ![s] = Append(@, NextText)]
        /\ UNCHANGED <<listener, session, inOrder, turn, history, tasks, lines, slot>>
    BY <1>1 DEF Accumulate, env, client
  <2>2. TypeOK'
    BY <1>1, TypeServer, Zenon
  <2>3. PICK m \in Texts : m = Text(s, buf'[s], FALSE)
    BY <2>2, MessageTypes DEF TypeOK, Whose
  <2>4. m \in Wire /\ ~m.final
    BY <2>3 DEF Wire, Text
  <2>5. Stays
    BY <2>1, <2>3, <2>4, SentNothing DEF Carries, Shows
  <2> QED BY <2>1, <2>5, SeenSays
<1>2. ASSUME TextOnly \/ Apology PROVE SeenInv'
  <2>1. /\ Says /\ Send(Text("note", <<NextText>>, TRUE)) /\ buf' = buf
        /\ UNCHANGED <<listener, session, inOrder, turn, history, tasks, lines, slot>>
    BY <1>2, Zenon DEF TextOnly, Apology, env, client
  <2>2. PICK m \in Texts : m = Text("note", <<NextText>>, TRUE)
    BY <2>1, SaysType, MessageTypes DEF Whose
  <2>3. m \in Wire /\ m.who = "note"
    BY <2>2 DEF Wire, Text
  <2>4. \A e \in KeptTexts : e.who # "note"
    BY DEF KeptTexts, Speakers
  <2>5. Stays
    BY <2>1, <2>2, <2>3, <2>4, SentNothing DEF Carries, Shows
  <2> QED BY <2>1, <2>5, SeenSays
<1>3. ASSUME OnText PROVE SeenInv'
  <2>1. /\ Says /\ Send(Comm(<<NextText>>)) /\ buf' = buf
        /\ UNCHANGED <<listener, session, inOrder, turn, history, tasks, lines, slot>>
    BY <1>3 DEF OnText, env, client
  <2>2. PICK m \in Comms : m = Comm(<<NextText>>)
    BY <2>1, SaysType, MessageTypes
  <2>3. m \in Wire /\ m.kind # "transcript"
    BY <2>2 DEF Wire, Comm
  <2>4. Stays
    BY <2>1, <2>2, <2>3, SentNothing DEF Carries
  <2> QED BY <2>1, <2>4, SeenSays
<1>4. ASSUME NEW i \in DOMAIN waiting, Leaves(i) PROVE SeenInv'
  <2>1. UNCHANGED <<listener, session, inOrder, texts, buf, turn, history, down, tasks, lines, slot>>
    BY <1>4, Zenon DEF Leaves, env, client
  <2> QED BY <2>1, NoChange, SeenElsewhere
<1> QED BY <1>1, <1>2, <1>3, <1>4, SeenFlush, SeenFlushGoesOn, SeenFlushEnds, SeenAnswer,
           SeenSpokenAnswer, SeenInterrupt DEF Queues

LEMMA SeenRunTask ==
  ASSUME TypeOK, OneOpen, SeenInv, NEW i \in DOMAIN tasks, RunTask(i)
  PROVE  SeenInv'
<1>1. /\ session \in Nat /\ SpokenTexts \subseteq KeptTexts
  BY Types
<1>2. /\ UNCHANGED <<listener, session, inOrder, texts, buf, turn, history>> /\ (inOrder => i = 1)
  BY Zenon DEF RunTask, env, server
<1>3. NotesFollow'
  BY Lands DEF SeenInv
<1>4. \A s \in Nat, e \in KeptTexts : OnWay(s, e)' <=> OnWay(s, e)
  BY RunTaskWay, Zenon DEF SeenInv
<1>5. \A s \in Nat : \A e, f \in KeptTexts :
        Ahead(s, e, f)' => Ahead(s, e, f) \/ Ahead(s, f, e)
  BY RunTaskWay, Zenon DEF SeenInv
<1>6. i = 1 => \A s \in Nat : \A e, f \in KeptTexts : Ahead(s, e, f) => Ahead(s, e, f)'
  BY RunTaskWay, Zenon DEF SeenInv
<1>7. Gathered'
  BY <1>2, Zenon DEF SeenInv, Gathered, Apart, Used
<1>8. ASSUME NEW e \in KeptTexts
      PROVE  (NotGathered(e) => NotGathered(e)') /\ (Known(e)' <=> Known(e))
  BY <1>2, Zenon DEF NotGathered, Apart, Used, Known, InHistory, Sent
<1>9. \A e, f \in SpokenTexts : Sooner(e, f)' => Sooner(e, f)
  BY <1>2, Zenon DEF Sooner, InHistory, Sent
<1>10. ASSUME NEW e \in KeptTexts
       PROVE  /\ OnWay(session, e)' <=> OnWay(session, e)
              /\ \A f \in KeptTexts :
                   /\ Ahead(session, e, f)' => Ahead(session, e, f) \/ Ahead(session, f, e)
                   /\ inOrder => (Ahead(session, e, f) => Ahead(session, e, f)')
  BY <1>1, <1>2, <1>4, <1>5, <1>6, Zenon
<1>11. SentAreWhole' /\ SentIsKnown'
  BY <1>8, <1>10, Zenon DEF SeenInv, SentAreWhole, SentIsKnown
<1>12. NoneToCome'
  BY <1>2, <1>4, Zenon DEF SeenInv, NoneToCome
<1>14. SentOnce'
  BY <1>10, Zenon DEF SeenInv, SentOnce
<1>15. inOrder' => SentInOrder'
  BY <1>1, <1>2, <1>9, <1>10, Zenon DEF SeenInv, SentInOrder
<1> QED BY <1>3, <1>7, <1>11, <1>12, <1>14, <1>15, Zenon DEF SeenInv

(* What comes from an earlier session is not looked at in the next.        *)
LEMMA SeenNewSession ==
  ASSUME TypeOK, SeenInv, Reauthenticate \/ NewConversation
  PROVE  SeenInv'
<1>1. /\ session' = session + 1 /\ session \in Nat /\ tasks' = tasks /\ down' = <<>>
      /\ buf' = Silent /\ turn' = NoTurn /\ history' = <<>>
      /\ (lines' = lines /\ slot' = slot) \/ (lines' = <<>> /\ slot' = 0)
  BY Types DEF Reauthenticate, NewConversation, SessionStarts
<1>2. NotesFollow'
  BY <1>1 DEF SeenInv, NotesFollow
<1>3. ASSUME NEW s \in Nat, NEW e \in KeptTexts, session < s
      PROVE  ~OnWay(s, e)' /\ \A f \in KeptTexts : ~Ahead(s, e, f)'
  <2>1. LinesOf(s, e) = {} /\ TasksOf(s, e) = {}
    BY <1>3 DEF SeenInv, NoneToCome, OnWay
  <2>2. LinesOf(s, e)' = {} /\ TasksOf(s, e)' = {} /\ WireOf(s, e)' = {}
    BY <1>1, <2>1 DEF LinesOf, TasksOf, WireOf
  <2> QED BY <2>2 DEF OnWay, Ahead, Leads, Below
<1>4. NoneToCome'
  BY <1>1, <1>3 DEF NoneToCome
<1>5. ASSUME NEW e \in KeptTexts
      PROVE  ~OnWay(session, e)' /\ \A f \in KeptTexts : ~Ahead(session, e, f)'
  <2>1. PICK s \in Nat : s = session' /\ session < s
    BY <1>1
  <2> QED BY <1>3, <2>1, Zenon
<1>6. \A e : ~Known(e)'
  BY <1>1 DEF Known, InHistory, Sent, NoTurn
<1>7. \A e, f : ~Sooner(e, f)'
  BY <1>1 DEF Sooner, InHistory, Sent, NoTurn
<1>8. SentAreWhole' /\ SentIsKnown' /\ SentOnce'
  BY <1>5, <1>6, Zenon DEF SentAreWhole, SentIsKnown, SentOnce
<1>9. SentInOrder'
  BY <1>7, Zenon DEF SentInOrder
<1>10. Gathered'
  BY <1>1, SilentIsEmpty DEF Gathered, NoTurn, Apart, Used, Speakers
<1> QED BY <1>2, <1>4, <1>8, <1>9, <1>10, Zenon DEF SeenInv

LEMMA SeenStep ==
  ASSUME TypeOK, OneOpen, SeenInv, [Next]_vars
  PROVE  SeenInv'
<1>1. CASE \/ \E s \in Speakers : Accumulate(s)
           \/ \E vad \in BOOLEAN : Flush(vad)
           \/ TextOnly \/ FlushGoesOn \/ FlushEnds
           \/ Answer \/ Apology \/ OnText \/ Interrupt \/ Queues
  BY <1>1, SeenServer
<1>2. CASE ReceiveText \/ ReceiveInterruption \/ LocalBargeIn
  <2>1. Stays
    BY <1>2, ReceivedStays, LocalStays, Zenon
  <2>2. UNCHANGED <<listener, session, inOrder, texts, buf, turn, history, lines, slot>>
    BY <1>2, Zenon DEF ReceiveText, ReceiveInterruption, LocalBargeIn, env, server, model
  <2> QED BY <2>1, <2>2, SeenElsewhere
<1>3. CASE Reauthenticate \/ NewConversation
  BY <1>3, SeenNewSession
<1>4. CASE \E i \in DOMAIN tasks : RunTask(i)
  BY <1>4, SeenRunTask
<1>5. CASE Fade \/ UNCHANGED vars
  <2>1. UNCHANGED <<listener, session, inOrder, texts, buf, turn, history, down, tasks, lines, slot>>
    BY <1>5, Zenon DEF Fade, env, server, vars
  <2> QED BY <2>1, NoChange, SeenElsewhere, Zenon
<1> QED BY <1>1, <1>2, <1>3, <1>4, <1>5, Zenon DEF Next, Queues

-----------------------------------------------------------------------------
(* The history by itself.  A text is known by its first fragment, which is *)
(* its number; an empty text has the number 0.                             *)

Key(t) == IF t = <<>> THEN 0 ELSE Head(t)

Numbered ==
  /\ \A s \in Speakers : Key(buf[s]) <= texts /\ Key(turn.took[s]) <= texts
  /\ \A h \in DOMAIN history :
       /\ Key(history[h].text) \in 1 .. texts
       /\ \A s \in Speakers : /\ Key(history[h].text) # Key(buf[s])
                              /\ Key(history[h].text) # Key(turn.took[s])
  /\ \A r, s \in Speakers : Key(buf[r]) = Key(turn.took[s]) => Key(buf[r]) = 0
  /\ Key(buf["user"]) = Key(buf["moderator"]) => Key(buf["user"]) = 0
  /\ Key(turn.took["user"]) = Key(turn.took["moderator"]) => Key(turn.took["user"]) = 0

(* Two entries of one text are an answer and its flushed copy.             *)
Once ==
  \A g, h \in DOMAIN history :
    g # h /\ Key(history[g].text) = Key(history[h].text)
      => ~(history[g].flushed <=> history[h].flushed)

(* A flushed entry is the copy of an answer, given in talk mode.           *)
Copied ==
  \A h \in DOMAIN history : history[h].flushed =>
    /\ history[h].who = "agent" /\ ~listener
    /\ \E g \in 1 .. h - 1 : history[h] = [history[g] EXCEPT !.flushed = TRUE]

(* What waits has been kept, once, and has not been flushed.               *)
Queued ==
  /\ listener => waiting = <<>>
  /\ \A i \in DOMAIN waiting :
       /\ \E h \in DOMAIN history : history[h] = waiting[i]
       /\ \A h \in DOMAIN history :
            history[h].flushed => Key(history[h].text) # Key(waiting[i].text)
       /\ \A j \in DOMAIN waiting : i # j => Key(waiting[i].text) # Key(waiting[j].text)

HistoryInv == Numbered /\ Once /\ Copied /\ Queued

LEMMA KeyType ==
  ASSUME NEW t \in Sayings
  PROVE  /\ Key(t) \in Nat /\ (Key(t) = 0 <=> t = <<>>)
         /\ \A n \in 1 .. MaxTexts : Key(Append(t, n)) = IF Key(t) = 0 THEN n ELSE Key(t)
<1>1. t \in Seq(1 .. MaxTexts)
  BY DEF Sayings
<1>2. t # <<>> => Head(t) \in 1 .. MaxTexts
  BY <1>1, HeadTailProperties
<1>3. Key(t) \in Nat /\ (Key(t) = 0 <=> t = <<>>)
  BY <1>2 DEF Key
<1>4. ASSUME NEW n \in 1 .. MaxTexts
      PROVE  Key(Append(t, n)) = IF Key(t) = 0 THEN n ELSE Key(t)
  <2>1. /\ Append(t, n) \in Seq(1 .. MaxTexts) /\ Len(Append(t, n)) = Len(t) + 1
        /\ \A i \in DOMAIN t : Append(t, n)[i] = t[i]
        /\ Append(t, n)[Len(t) + 1] = n
    BY <1>1, AppendElements
  <2>2. Append(t, n) # <<>> /\ Head(Append(t, n)) = Append(t, n)[1]
    BY <1>1, <2>1
  <2>3. CASE t = <<>>
    BY <1>3, <2>1, <2>2, <2>3 DEF Key
  <2>4. CASE t # <<>>
    <3>1. 1 \in DOMAIN t /\ Head(t) = t[1]
      BY <1>1, <2>4, EmptySeq
    <3> QED BY <1>3, <2>1, <2>2, <2>4, <3>1 DEF Key
  <2> QED BY <2>3, <2>4
<1> QED BY <1>3, <1>4

(* The text with the next number.                                          *)
LEMMA NextKey ==
  ASSUME TypeOK, Says
  PROVE  /\ texts' = texts + 1 /\ texts \in Nat /\ NextText = texts + 1
         /\ NextText \in 1 .. MaxTexts /\ Key(<<NextText>>) = NextText
<1>1. texts' = texts + 1 /\ texts \in Nat /\ NextText = texts + 1 /\ NextText \in 1 .. MaxTexts
  BY SaysType, Types DEF Says, NextText
<1>2. <<NextText>> # <<>> /\ Head(<<NextText>>) = NextText
  OBVIOUS
<1> QED BY <1>1, <1>2 DEF Key

LEMMA Keys ==
  ASSUME TypeOK
  PROVE  /\ texts \in Nat /\ "user" \in Speakers /\ "moderator" \in Speakers
         /\ \A s \in Speakers : /\ s = "user" \/ s = "moderator"
                                /\ buf[s] \in Sayings /\ Key(buf[s]) \in Nat
                                /\ turn.took[s] \in Sayings /\ Key(turn.took[s]) \in Nat
         /\ history \in Seq(Entries) /\ waiting \in Seq(Answers)
         /\ \A h \in DOMAIN history : history[h] \in Entries /\ Key(history[h].text) \in Nat
         /\ \A i \in DOMAIN waiting : waiting[i] \in Answers /\ Key(waiting[i].text) \in Nat
<1>1. history \in Seq(Entries) /\ waiting \in Seq(Answers)
  BY DEF TypeOK, Entries, Answers
<1>2. ASSUME NEW h \in DOMAIN history
      PROVE  history[h] \in Entries /\ history[h].text \in Sayings
  <2>1. history[h] \in Entries
    BY <1>1
  <2> QED BY <2>1 DEF Entries
<1>3. ASSUME NEW i \in DOMAIN waiting
      PROVE  waiting[i] \in Answers /\ waiting[i].text \in Sayings
  <2>1. waiting[i] \in Answers
    BY <1>1
  <2> QED BY <2>1 DEF Answers
<1>4. \A s \in Speakers : buf[s] \in Sayings /\ turn.took[s] \in Sayings
  BY DEF TypeOK
<1> QED BY <1>1, <1>2, <1>3, <1>4, Types, KeyType DEF Speakers

LEMMA SilentKey == \A s \in Speakers : Key(Silent[s]) = 0
  BY SilentIsEmpty DEF Key

(* Where the entries are once the history has grown by q.                  *)
LEMMA Grown ==
  ASSUME TypeOK, NEW q \in Seq(Entries), history' = history \o q
  PROVE  LET n == Len(history) IN
         /\ n \in Nat
         /\ \A i \in DOMAIN history :
              i \in DOMAIN history' /\ history'[i] = history[i] /\ i \in 1 .. n
         /\ \A i \in DOMAIN history' :
              \/ i \in DOMAIN history /\ history'[i] = history[i]
              \/ i \in Nat /\ n < i /\ i - n \in DOMAIN q /\ history'[i] = q[i - n]
         /\ \A j \in DOMAIN q : j + n \in DOMAIN history' /\ history'[j + n] = q[j]
<1>1. history \in Seq(Entries) /\ Len(history) \in Nat /\ DOMAIN history = 1 .. Len(history)
  BY Types
<1>2. /\ Len(history') = Len(history) + Len(q) /\ history' \in Seq(Entries)
      /\ \A i \in 1 .. Len(history) + Len(q) :
           history'[i] = IF i <= Len(history) THEN history[i] ELSE q[i - Len(history)]
  BY <1>1, ConcatProperties
<1> QED BY <1>1, <1>2

(* Nothing of the history or the queue changes, and no number comes back.  *)
LEMMA SameHistory ==
  ASSUME TypeOK, TypeOK', HistoryInv, UNCHANGED <<listener, history, waiting>>, Numbered'
  PROVE  HistoryInv'
<1>1. Once'
  BY Zenon DEF HistoryInv, Once
<1>2. Copied'
  BY Zenon DEF HistoryInv, Copied
<1>3. Queued'
  BY Zenon DEF HistoryInv, Queued
<1> QED BY <1>1, <1>2, <1>3, Zenon DEF HistoryInv

LEMMA HistorySays ==
  ASSUME TypeOK, TypeOK', HistoryInv, Says, UNCHANGED <<listener, history, waiting, turn>>,
         \/ buf' = buf
         \/ \E s \in Speakers : buf' = [buf EXCEPT ![s] = Append(@, NextText)]
  PROVE  HistoryInv'
<1>1. /\ texts' = texts + 1 /\ texts \in Nat /\ NextText = texts + 1 /\ NextText \in 1 .. MaxTexts
  BY NextKey
<1>2. ASSUME NEW s \in Speakers
      PROVE  /\ Key(buf'[s]) = Key(buf[s]) \/ (Key(buf[s]) = 0 /\ Key(buf'[s]) = texts + 1)
             /\ buf'[s] # buf[s] => \A r \in Speakers : r # s => buf'[r] = buf[r]
  <2>1. buf \in [Speakers -> Sayings]
    BY DEF TypeOK
  <2>2. Key(Append(buf[s], NextText)) = IF Key(buf[s]) = 0 THEN texts + 1 ELSE Key(buf[s])
    BY <1>1, <2>1, KeyType
  <2> QED BY <2>1, <2>2
<1>3. UNCHANGED <<turn, history>>
  OBVIOUS
<1>4. Numbered'
  <2>1. \A s \in Speakers : Key(buf'[s]) <= texts' /\ Key(turn'.took[s]) <= texts'
    BY <1>1, <1>2, <1>3, Keys DEF HistoryInv, Numbered
  <2>2. ASSUME NEW h \in DOMAIN history
        PROVE  /\ Key(history[h].text) \in 1 .. texts'
               /\ \A s \in Speakers : /\ Key(history[h].text) # Key(buf'[s])
                                      /\ Key(history[h].text) # Key(turn.took[s])
    BY <1>1, <1>2, Keys DEF HistoryInv, Numbered
  <2>3. \A r, s \in Speakers : Key(buf'[r]) = Key(turn.took[s]) => Key(buf'[r]) = 0
    BY <1>1, <1>2, Keys DEF HistoryInv, Numbered
  <2>4. Key(buf'["user"]) = Key(buf'["moderator"]) => Key(buf'["user"]) = 0
    BY <1>1, <1>2, Keys DEF HistoryInv, Numbered
  <2> QED BY <1>3, <2>1, <2>2, <2>3, <2>4 DEF HistoryInv, Numbered
<1> QED BY <1>4, SameHistory

LEMMA HistoryFlush ==
  ASSUME TypeOK, TypeOK', HistoryInv, NEW vad \in BOOLEAN, Flush(vad)
  PROVE  HistoryInv'
<1>1. /\ buf' = Silent /\ turn' = [pc |-> FirstOf(buf), took |-> buf, vad |-> vad]
      /\ UNCHANGED <<listener, history, waiting, texts>>
  BY Zenon DEF Flush, env, client
<1>2. turn'.took = buf /\ \A s \in Speakers : Key(buf'[s]) = 0
  BY <1>1, SilentKey
<1>3. Numbered'
  BY <1>1, <1>2, Keys DEF HistoryInv, Numbered
<1> QED BY <1>1, <1>3, SameHistory

LEMMA HistoryFlushEnds ==
  ASSUME TypeOK, TypeOK', Gathered, HistoryInv, FlushEnds
  PROVE  HistoryInv'
<1>1. /\ turn.pc # "idle" /\ ~MoreToSend /\ history' = history \o Kept(turn.took)
      /\ turn' = NoTurn /\ UNCHANGED <<listener, texts, buf, waiting>>
  BY Zenon DEF FlushEnds, env, client
<1>2. PICK q \in Seq(KeptTexts) :
        /\ q = Kept(turn.took) /\ Len(q) \in Nat
        /\ \A e \in KeptTexts : (\E j \in DOMAIN q : q[j] = e) <=> Sent(e)
        /\ \A i, j \in DOMAIN q : i < j => q[i].who = "user" /\ q[j].who = "moderator"
  BY <1>1, KeptIsSent
<1>3. ASSUME NEW j \in DOMAIN q
      PROVE  /\ ~q[j].flushed /\ q[j].who \in Speakers
             /\ Key(q[j].text) = Key(turn.took[q[j].who]) /\ Key(q[j].text) # 0
  <2>1. q[j] \in KeptTexts /\ Sent(q[j])
    BY <1>2
  <2>2. ~q[j].flushed
    BY <2>1 DEF KeptTexts
  <2>3. q[j].who \in Speakers /\ q[j].text = turn.took[q[j].who] /\ q[j].text # <<>>
    BY <2>1 DEF Sent
  <2> QED BY <2>2, <2>3, Keys, KeyType
<1>4. q \in Seq(Entries) /\ \A i, j \in DOMAIN q : i \in Nat /\ j \in Nat
  BY <1>2, Types
<1>5. PICK n \in Nat :
         /\ \A i \in DOMAIN history :
              i \in DOMAIN history' /\ history'[i] = history[i] /\ i \in 1 .. n
         /\ \A i \in DOMAIN history' :
              \/ i \in DOMAIN history /\ history'[i] = history[i]
              \/ i \in Nat /\ n < i /\ i - n \in DOMAIN q /\ history'[i] = q[i - n]
  BY <1>1, <1>2, <1>4, Grown, Zenon
<1>6. ASSUME NEW i \in DOMAIN q, NEW j \in DOMAIN q, i # j
      PROVE  Key(q[i].text) # Key(q[j].text)
  <2>1. (q[i].who = "user" /\ q[j].who = "moderator") \/ (q[j].who = "user" /\ q[i].who = "moderator")
    BY <1>2, <1>4, <1>6
  <2> QED BY <1>3, <2>1 DEF HistoryInv, Numbered
<1>7. ASSUME NEW i \in DOMAIN history, NEW j \in DOMAIN q
      PROVE  Key(history[i].text) # Key(q[j].text)
  BY <1>3, <1>7 DEF HistoryInv, Numbered
<1>8. \A s \in Speakers : Key(turn'.took[s]) = 0
  BY <1>1, SilentKey DEF NoTurn
<1>9. Numbered'
  <2>1. ASSUME NEW j \in DOMAIN q
        PROVE  Key(q[j].text) \in 1 .. texts /\ \A s \in Speakers : Key(q[j].text) # Key(buf[s])
    <3>1. PICK r \in Speakers : Key(q[j].text) = Key(turn.took[r])
      BY <1>3
    <3>2. Key(turn.took[r]) # 0
      BY <1>3, <3>1
    <3> QED BY <3>1, <3>2, Keys DEF HistoryInv, Numbered
  <2>2. ASSUME NEW h \in DOMAIN history'
        PROVE  /\ Key(history'[h].text) \in 1 .. texts
               /\ \A s \in Speakers : Key(history'[h].text) # Key(buf[s])
    BY <1>5, <2>1 DEF HistoryInv, Numbered
  <2>3. \A h \in DOMAIN history' : Key(history'[h].text) # 0
    BY <2>2
  <2> QED BY <1>1, <1>8, <2>2, <2>3, Keys DEF HistoryInv, Numbered
<1>10. Once'
  <2> SUFFICES ASSUME NEW g \in DOMAIN history', NEW h \in DOMAIN history', g # h,
                      Key(history'[g].text) = Key(history'[h].text)
               PROVE  ~(history'[g].flushed <=> history'[h].flushed)
    BY Zenon DEF Once
  <2>1. CASE g \in DOMAIN history /\ h \in DOMAIN history
    BY <1>5, <2>1 DEF HistoryInv, Once
  <2>2. CASE g \notin DOMAIN history /\ h \notin DOMAIN history
    <3>1. /\ g - n \in DOMAIN q /\ h - n \in DOMAIN q /\ g - n # h - n
          /\ history'[g] = q[g - n] /\ history'[h] = q[h - n]
      BY <1>5, <2>2
    <3> QED BY <1>6, <3>1
  <2>3. CASE g \in DOMAIN history /\ h \notin DOMAIN history
    BY <1>5, <1>7, <2>3
  <2>4. CASE g \notin DOMAIN history /\ h \in DOMAIN history
    BY <1>5, <1>7, <2>4
  <2> QED BY <2>1, <2>2, <2>3, <2>4
<1>11. ASSUME NEW h \in DOMAIN history', history'[h].flushed
       PROVE  h \in DOMAIN history /\ history'[h] = history[h]
  BY <1>3, <1>5, <1>11
<1>12. Copied'
  <2> SUFFICES ASSUME NEW h \in DOMAIN history', history'[h].flushed
               PROVE  /\ history'[h].who = "agent" /\ ~listener'
                      /\ \E g \in 1 .. h - 1 : history'[h] = [history'[g] EXCEPT !.flushed = TRUE]
    BY Zenon DEF Copied
  <2>1. h \in DOMAIN history /\ history'[h] = history[h] /\ listener' = listener
    BY <1>1, <1>11
  <2>2. PICK g \in 1 .. h - 1 : history[h] = [history[g] EXCEPT !.flushed = TRUE]
    BY <2>1 DEF HistoryInv, Copied
  <2>3. g \in DOMAIN history
    BY <2>1, <2>2, Types
  <2>4. history'[g] = history[g]
    BY <1>5, <2>3
  <2> QED BY <2>1, <2>2, <2>4 DEF HistoryInv, Copied
<1>13. Queued'
  <2>1. ASSUME NEW i \in DOMAIN waiting
        PROVE  /\ \E h \in DOMAIN history' : history'[h] = waiting[i]
               /\ \A h \in DOMAIN history' :
                    history'[h].flushed => Key(history'[h].text) # Key(waiting[i].text)
    <3>1. \E h \in DOMAIN history' : history'[h] = waiting[i]
      BY <1>5 DEF HistoryInv, Queued
    <3>2. \A h \in DOMAIN history' :
                    history'[h].flushed => Key(history'[h].text) # Key(waiting[i].text)
      BY <1>11 DEF HistoryInv, Queued
    <3> QED BY <3>1, <3>2
  <2>2. UNCHANGED <<listener, waiting>>
    BY <1>1
  <2> QED BY <2>1, <2>2 DEF HistoryInv, Queued
<1> QED BY <1>9, <1>10, <1>12, <1>13 DEF HistoryInv

(* An answer: what comes last in the history has a number of its own.      *)
LEMMA HistoryAnswer ==
  ASSUME TypeOK, TypeOK', HistoryInv, Answer \/ SpokenAnswer
  PROVE  HistoryInv'
<1>1. /\ Says /\ history' = Append(history, Entry("agent", <<NextText>>))
      /\ UNCHANGED <<listener, buf, turn>>
  BY Zenon DEF Answer, SpokenAnswer, env, client
<1>2. /\ texts' = texts + 1 /\ texts \in Nat /\ NextText = texts + 1
      /\ NextText \in 1 .. MaxTexts /\ Key(<<NextText>>) = NextText
  BY <1>1, NextKey
<1>3. PICK a \in Answers : a = Entry("agent", <<NextText>>) /\ Key(a.text) = texts + 1 /\ ~a.flushed
  <2>1. <<NextText>> \in Sayings
    BY <1>1, SaysType
  <2>2. Entry("agent", <<NextText>>) \in Answers /\ ~Entry("agent", <<NextText>>).flushed
    BY <2>1 DEF Entry, Answers
  <2>3. Entry("agent", <<NextText>>).text = <<NextText>>
    BY DEF Entry
  <2> QED BY <1>2, <2>2, <2>3
<1>4. a \in Entries /\ <<a>> \in Seq(Entries) /\ history \in Seq(Entries)
  <2>1. a \in Entries
    BY DEF Answers, Entries
  <2> QED BY <2>1, Types
<1>5. history' = history \o <<a>>
  BY <1>1, <1>3, <1>4, AppendIsConcat
<1>6. PICK n \in Nat :
        /\ \A i \in DOMAIN history :
             i \in DOMAIN history' /\ history'[i] = history[i] /\ i \in 1 .. n
        /\ \A i \in DOMAIN history' :
             \/ i \in DOMAIN history /\ history'[i] = history[i]
             \/ i = n + 1 /\ history'[i] = a
        /\ n + 1 \in DOMAIN history' /\ history'[n + 1] = a
  <2>1. DOMAIN <<a>> = {1} /\ <<a>>[1] = a
    OBVIOUS
  <2>2. PICK n \in Nat :
          /\ \A i \in DOMAIN history :
               i \in DOMAIN history' /\ history'[i] = history[i] /\ i \in 1 .. n
          /\ \A i \in DOMAIN history' :
               \/ i \in DOMAIN history /\ history'[i] = history[i]
               \/ i \in Nat /\ n < i /\ i - n \in DOMAIN <<a>> /\ history'[i] = <<a>>[i - n]
          /\ \A j \in DOMAIN <<a>> : j + n \in DOMAIN history' /\ history'[j + n] = <<a>>[j]
    BY <1>4, <1>5, Grown, Zenon
  <2> QED BY <2>1, <2>2
<1>7. ASSUME NEW i \in DOMAIN history
      PROVE  Key(history[i].text) # Key(a.text)
  BY <1>2, <1>3 DEF HistoryInv, Numbered
<1>8. Numbered'
  <2>1. \A s \in Speakers : Key(a.text) # Key(buf[s]) /\ Key(a.text) # Key(turn.took[s])
    BY <1>2, <1>3, Keys DEF HistoryInv, Numbered
  <2>2. ASSUME NEW h \in DOMAIN history'
        PROVE  /\ Key(history'[h].text) \in 1 .. texts'
               /\ \A s \in Speakers : /\ Key(history'[h].text) # Key(buf[s])
                                      /\ Key(history'[h].text) # Key(turn.took[s])
    <3>1. CASE h \in DOMAIN history /\ history'[h] = history[h]
      BY <1>2, <3>1 DEF HistoryInv, Numbered
    <3>2. CASE history'[h] = a
      BY <1>2, <1>3, <2>1, <3>2
    <3> QED BY <1>6, <3>1, <3>2
  <2>3. \A s \in Speakers : Key(buf[s]) <= texts' /\ Key(turn.took[s]) <= texts'
    BY <1>2, Keys DEF HistoryInv, Numbered
  <2> QED BY <1>1, <2>2, <2>3 DEF HistoryInv, Numbered
<1>9. Once'
  <2> SUFFICES ASSUME NEW g \in DOMAIN history', NEW h \in DOMAIN history', g # h,
                      Key(history'[g].text) = Key(history'[h].text)
               PROVE  ~(history'[g].flushed <=> history'[h].flushed)
    BY Zenon DEF Once
  <2>1. g \in DOMAIN history /\ h \in DOMAIN history
    BY <1>6, <1>7
  <2> QED BY <1>6, <2>1 DEF HistoryInv, Once
<1>10. ASSUME NEW h \in DOMAIN history', history'[h].flushed
       PROVE  h \in DOMAIN history /\ history'[h] = history[h]
  BY <1>3, <1>6, <1>10
<1>11. Copied'
  <2> SUFFICES ASSUME NEW h \in DOMAIN history', history'[h].flushed
               PROVE  /\ history'[h].who = "agent" /\ ~listener'
                      /\ \E g \in 1 .. h - 1 : history'[h] = [history'[g] EXCEPT !.flushed = TRUE]
    BY Zenon DEF Copied
  <2>1. h \in DOMAIN history /\ history'[h] = history[h] /\ listener' = listener
    BY <1>1, <1>10
  <2>2. PICK g \in 1 .. h - 1 : history[h] = [history[g] EXCEPT !.flushed = TRUE]
    BY <2>1 DEF HistoryInv, Copied
  <2>3. g \in DOMAIN history
    BY <2>1, <2>2, Types
  <2>4. history'[g] = history[g]
    BY <1>6, <2>3
  <2> QED BY <2>1, <2>2, <2>4 DEF HistoryInv, Copied
<1>12. ASSUME NEW i \in DOMAIN waiting
       PROVE  /\ \E h \in DOMAIN history' : history'[h] = waiting[i]
              /\ \A h \in DOMAIN history' :
                   history'[h].flushed => Key(history'[h].text) # Key(waiting[i].text)
              /\ Key(waiting[i].text) # Key(a.text)
  <2>1. PICK h \in DOMAIN history : history[h] = waiting[i]
    BY DEF HistoryInv, Queued
  <2>2. \E k \in DOMAIN history' : history'[k] = waiting[i]
    BY <1>6, <2>1
  <2>3. \A k \in DOMAIN history' :
          history'[k].flushed => Key(history'[k].text) # Key(waiting[i].text)
    BY <1>10 DEF HistoryInv, Queued
  <2> QED BY <1>7, <2>1, <2>2, <2>3
<1>13. Queued'
  <2>1. CASE waiting' = waiting
    <3>1. UNCHANGED <<listener, waiting>>
      BY <1>1, <2>1
    <3> QED BY <1>12, <3>1 DEF HistoryInv, Queued
  <2>2. CASE ~listener /\ waiting' = Append(waiting, a)
    <3>1. PICK m \in Nat :
            /\ \A i \in DOMAIN waiting' :
                 \/ i \in DOMAIN waiting /\ waiting'[i] = waiting[i]
                 \/ i = m + 1 /\ waiting'[i] = a
      <4>1. waiting \in Seq(Answers) /\ Len(waiting) \in Nat
        BY Keys
      <4>2. /\ Len(waiting') = Len(waiting) + 1 /\ waiting' \in Seq(Answers)
            /\ \A i \in DOMAIN waiting : waiting'[i] = waiting[i]
            /\ waiting'[Len(waiting) + 1] = a
        BY <2>2, <4>1, AppendElements
      <4> QED BY <4>1, <4>2
    <3>2. \A h \in DOMAIN history' : history'[h].flushed => Key(history'[h].text) # Key(a.text)
      BY <1>7, <1>10
    <3>3. ASSUME NEW i \in DOMAIN waiting'
          PROVE  /\ \E h \in DOMAIN history' : history'[h] = waiting'[i]
                 /\ \A h \in DOMAIN history' :
                      history'[h].flushed => Key(history'[h].text) # Key(waiting'[i].text)
      BY <1>6, <1>12, <3>1, <3>2
    <3>4. ASSUME NEW i \in DOMAIN waiting', NEW j \in DOMAIN waiting', i # j
          PROVE  Key(waiting'[i].text) # Key(waiting'[j].text)
      BY <1>12, <3>1, <3>4 DEF HistoryInv, Queued
    <3>5. ~listener'
      BY <1>1, <2>2
    <3> QED BY <3>3, <3>4, <3>5, Zenon DEF Queued
  <2> QED BY <1>3, <2>1, <2>2 DEF Answer, SpokenAnswer
<1> QED BY <1>8, <1>9, <1>11, <1>13 DEF HistoryInv

LEMMA HistoryLeaves ==
  ASSUME TypeOK, TypeOK', HistoryInv, NEW i \in DOMAIN waiting, Leaves(i)
  PROVE  HistoryInv'
<1>1. waiting' = RemoveAt(waiting, i) /\ UNCHANGED <<listener, texts, buf, turn, history>>
  BY Zenon DEF Leaves, env
<1>2. Numbered' /\ Once' /\ Copied'
  BY <1>1, Zenon DEF HistoryInv, Numbered, Once, Copied
<1>3. /\ waiting \in Seq(Answers) /\ Len(waiting) \in Nat /\ Len(waiting') = Len(waiting) - 1
      /\ waiting' \in Seq(Answers)
      /\ \A j \in 1 .. Len(waiting) - 1 : waiting'[j] = IF j < i THEN waiting[j] ELSE waiting[j + 1]
  <2>1. waiting \in Seq(Answers) /\ Len(waiting) \in Nat
    BY Keys
  <2>2. /\ RemoveAt(waiting, i) \in Seq(Answers)
        /\ Len(RemoveAt(waiting, i)) = Len(waiting) - 1
        /\ \A j \in 1 .. Len(waiting) - 1 :
             RemoveAt(waiting, i)[j] = IF j < i THEN waiting[j] ELSE waiting[j + 1]
    BY <2>1, RemoveElements
  <2> QED BY <1>1, <2>1, <2>2
<1> DEFINE Was(j) == IF j < i THEN j ELSE j + 1
<1>4. ASSUME NEW j \in DOMAIN waiting'
      PROVE  Was(j) \in DOMAIN waiting /\ waiting'[j] = waiting[Was(j)]
  BY <1>3
<1>5. ASSUME NEW j \in DOMAIN waiting', NEW k \in DOMAIN waiting', j # k
      PROVE  Was(j) # Was(k)
  BY <1>3, <1>5
<1> HIDE DEF Was
<1>6. ASSUME listener PROVE waiting' = <<>>
  BY <1>3, <1>6 DEF HistoryInv, Queued
<1>7. Queued'
  BY <1>1, <1>4, <1>5, <1>6 DEF HistoryInv, Queued
<1> QED BY <1>2, <1>7 DEF HistoryInv

(* A barge-in: what is flushed was kept and is copied for the first time.  *)
LEMMA HistoryInterrupt ==
  ASSUME TypeOK, TypeOK', HistoryInv, Interrupt
  PROVE  HistoryInv'
<1>1. UNCHANGED <<listener, texts, buf, turn>>
  BY Zenon DEF Interrupt, env, client
<1>2. PICK spared \in 0 .. 1 :
        /\ spared <= Len(waiting) /\ waiting' = SubSeq(waiting, 1, spared)
        /\ history' = history \o Flushed(SubSeq(waiting, spared + 1, Len(waiting)))
  BY Zenon DEF Interrupt
<1>3. /\ waiting' \in Seq(Answers) /\ Len(waiting') = spared
      /\ \A i \in 1 .. spared : waiting'[i] = waiting[i] /\ i \in DOMAIN waiting
  BY <1>2, FlushedType
<1>4. PICK q \in Seq(Entries) :
        /\ history' = history \o q /\ Len(q) = Len(waiting) - spared
        /\ \A i \in 1 .. Len(waiting) - spared :
             /\ i + spared \in DOMAIN waiting
             /\ q[i] = [waiting[i + spared] EXCEPT !.flushed = TRUE]
  BY <1>2, FlushedType
<1>5. ASSUME NEW j \in DOMAIN q
      PROVE  /\ j \in Nat /\ j + spared \in DOMAIN waiting
             /\ q[j] = [waiting[j + spared] EXCEPT !.flushed = TRUE]
             /\ q[j].flushed /\ q[j].who = "agent" /\ q[j].text = waiting[j + spared].text
  <2>1. /\ j \in Nat /\ j + spared \in DOMAIN waiting
        /\ q[j] = [waiting[j + spared] EXCEPT !.flushed = TRUE]
    BY <1>4
  <2>2. waiting[j + spared] \in Answers
    BY <2>1, Keys
  <2> QED BY <2>1, <2>2 DEF Answers
<1>6. PICK n \in Nat :
        /\ \A i \in DOMAIN history :
             i \in DOMAIN history' /\ history'[i] = history[i] /\ i \in 1 .. n
        /\ \A i \in DOMAIN history' :
             \/ i \in DOMAIN history /\ history'[i] = history[i]
             \/ i \in Nat /\ n < i /\ i - n \in DOMAIN q /\ history'[i] = q[i - n]
        /\ \A j \in DOMAIN q : j + n \in DOMAIN history' /\ history'[j + n] = q[j]
  BY <1>4, Grown, Zenon
<1>7. ASSUME NEW i \in DOMAIN waiting
      PROVE  \E g \in DOMAIN history : history[g] = waiting[i]
  BY DEF HistoryInv, Queued
<1>8. ASSUME NEW h \in DOMAIN history', h \notin DOMAIN history
      PROVE  \E j \in DOMAIN q : j = h - n /\ history'[h] = q[j] /\ n < h /\ h \in Nat
  BY <1>6, <1>8
<1>9. \A i \in DOMAIN history' : \E k \in DOMAIN history : Key(history'[i].text) = Key(history[k].text)
  <2> SUFFICES ASSUME NEW i \in DOMAIN history'
               PROVE  \E k \in DOMAIN history : Key(history'[i].text) = Key(history[k].text)
    OBVIOUS
  <2>1. CASE i \in DOMAIN history
    BY <1>6, <2>1
  <2>2. CASE i \notin DOMAIN history
    <3>1. PICK j \in DOMAIN q : history'[i] = q[j]
      BY <1>8, <2>2
    <3> QED BY <1>5, <1>7, <3>1
  <2> QED BY <2>1, <2>2
<1>10. Numbered'
  BY <1>1, <1>9 DEF HistoryInv, Numbered
<1>11. Once'
  <2> SUFFICES ASSUME NEW g \in DOMAIN history', NEW h \in DOMAIN history', g # h,
                      Key(history'[g].text) = Key(history'[h].text)
               PROVE  ~(history'[g].flushed <=> history'[h].flushed)
    BY Zenon DEF Once
  <2>1. CASE g \in DOMAIN history /\ h \in DOMAIN history
    BY <1>6, <2>1 DEF HistoryInv, Once
  <2>2. CASE g \notin DOMAIN history /\ h \notin DOMAIN history
    <3>1. PICK i \in DOMAIN q, j \in DOMAIN q :
            i = g - n /\ j = h - n /\ history'[g] = q[i] /\ history'[h] = q[j] /\ i # j
      BY <1>6, <2>2
    <3>2. i + spared # j + spared
      BY <1>5, <3>1
    <3> QED BY <1>5, <3>1, <3>2 DEF HistoryInv, Queued
  <2>3. ASSUME NEW k \in DOMAIN history, NEW j \in DOMAIN q,
               Key(history[k].text) = Key(q[j].text)
        PROVE  ~history[k].flushed /\ q[j].flushed
    BY <1>5, <2>3 DEF HistoryInv, Queued
  <2>4. CASE g \in DOMAIN history /\ h \notin DOMAIN history
    <3>1. PICK j \in DOMAIN q : history'[h] = q[j]
      BY <1>8, <2>4
    <3> QED BY <1>6, <2>3, <2>4, <3>1
  <2>5. CASE g \notin DOMAIN history /\ h \in DOMAIN history
    <3>1. PICK j \in DOMAIN q : history'[g] = q[j]
      BY <1>8, <2>5
    <3> QED BY <1>6, <2>3, <2>5, <3>1
  <2> QED BY <2>1, <2>2, <2>4, <2>5
<1>12. Copied'
  <2> SUFFICES ASSUME NEW h \in DOMAIN history', history'[h].flushed
               PROVE  /\ history'[h].who = "agent" /\ ~listener'
                      /\ \E g \in 1 .. h - 1 : history'[h] = [history'[g] EXCEPT !.flushed = TRUE]
    BY Zenon DEF Copied
  <2>1. CASE h \in DOMAIN history
    <3>1. history'[h] = history[h] /\ listener' = listener
      BY <1>1, <1>6, <2>1
    <3>2. PICK g \in 1 .. h - 1 : history[h] = [history[g] EXCEPT !.flushed = TRUE]
      BY <2>1, <3>1 DEF HistoryInv, Copied
    <3>3. g \in DOMAIN history
      BY <2>1, <3>2, Types
    <3>4. history'[g] = history[g]
      BY <1>6, <3>3
    <3> QED BY <2>1, <3>1, <3>2, <3>4 DEF HistoryInv, Copied
  <2>2. CASE h \notin DOMAIN history
    <3>1. PICK j \in DOMAIN q : history'[h] = q[j] /\ n < h /\ h \in Nat
      BY <1>8, <2>2
    <3>2. PICK g \in DOMAIN history : history[g] = waiting[j + spared]
      BY <1>5, <1>7
    <3>3. history'[g] = history[g] /\ g \in 1 .. h - 1
      BY <1>6, <3>1, <3>2
    <3>4. history'[h] = [history'[g] EXCEPT !.flushed = TRUE]
      BY <1>5, <3>1, <3>2, <3>3
    <3>5. waiting # <<>>
      BY <1>5, Keys
    <3>6. ~listener'
      BY <1>1, <3>5 DEF HistoryInv, Queued
    <3>7. history'[h].who = "agent"
      BY <1>5, <3>1
    <3> QED BY <3>3, <3>4, <3>6, <3>7
  <2> QED BY <2>1, <2>2
<1>13. Queued'
  <2>1. ASSUME NEW i \in DOMAIN waiting'
        PROVE  i \in 1 .. spared /\ i \in DOMAIN waiting /\ waiting'[i] = waiting[i]
    BY <1>3
  <2>2. ASSUME NEW i \in DOMAIN waiting'
        PROVE  \E h \in DOMAIN history' : history'[h] = waiting'[i]
    BY <1>6, <1>7, <2>1
  <2>3. ASSUME NEW i \in DOMAIN waiting', NEW h \in DOMAIN history', history'[h].flushed
        PROVE  Key(history'[h].text) # Key(waiting'[i].text)
    <3>1. CASE h \in DOMAIN history
      BY <1>6, <2>1, <2>3, <3>1 DEF HistoryInv, Queued
    <3>2. CASE h \notin DOMAIN history
      <4>1. PICK j \in DOMAIN q : history'[h] = q[j]
        BY <1>8, <3>2
      <4>2. i # j + spared
        BY <1>5, <2>1
      <4> QED BY <1>5, <2>1, <4>1, <4>2 DEF HistoryInv, Queued
    <3> QED BY <3>1, <3>2
  <2>4. ASSUME NEW i \in DOMAIN waiting', NEW j \in DOMAIN waiting', i # j
        PROVE  Key(waiting'[i].text) # Key(waiting'[j].text)
    BY <2>1, <2>4 DEF HistoryInv, Queued
  <2>5. ASSUME listener PROVE waiting' = <<>>
    <3>1. Len(waiting) = 0
      BY <2>5 DEF HistoryInv, Queued
    <3> QED BY <1>2, <1>3, <3>1
  <2> QED BY <1>1, <2>2, <2>3, <2>4, <2>5 DEF Queued
<1> QED BY <1>10, <1>11, <1>12, <1>13 DEF HistoryInv

LEMMA HistoryEmpty ==
  ASSUME history' = <<>>, waiting' = <<>>, buf' = Silent, turn' = NoTurn, texts' \in Nat
  PROVE  HistoryInv'
<1>1. \A s \in Speakers : Key(buf'[s]) = 0 /\ Key(turn'.took[s]) = 0
  BY SilentKey DEF NoTurn
<1>2. "user" \in Speakers /\ "moderator" \in Speakers
  BY DEF Speakers
<1> QED BY <1>1, <1>2 DEF HistoryInv, Numbered, Once, Copied, Queued

LEMMA HistoryStep ==
  ASSUME TypeOK, TypeOK', Gathered, HistoryInv, [Next]_vars
  PROVE  HistoryInv'
<1>1. CASE (\E s \in Speakers : Accumulate(s)) \/ TextOnly \/ Apology \/ OnText
  <2>1. /\ Says /\ UNCHANGED <<listener, history, waiting, turn>>
        /\ \/ buf' = buf
           \/ \E s \in Speakers : buf' = [buf EXCEPT ![s] = Append(@, NextText)]
    BY <1>1, Zenon DEF Accumulate, TextOnly, Apology, OnText, env, client
  <2> QED BY <2>1, HistorySays
<1>2. CASE \E vad \in BOOLEAN : Flush(vad)
  BY <1>2, HistoryFlush
<1>3. CASE FlushEnds
  BY <1>3, HistoryFlushEnds
<1>4. CASE Answer \/ SpokenAnswer
  BY <1>4, HistoryAnswer
<1>5. CASE \E i \in DOMAIN waiting : Leaves(i)
  BY <1>5, HistoryLeaves
<1>6. CASE Interrupt
  BY <1>6, HistoryInterrupt
<1>7. CASE Reauthenticate \/ NewConversation
  <2>1. history' = <<>> /\ waiting' = <<>> /\ buf' = Silent /\ turn' = NoTurn /\ texts' = texts
    BY <1>7, Zenon DEF Reauthenticate, NewConversation, SessionStarts
  <2> QED BY <2>1, Types, HistoryEmpty
<1>8. CASE FlushGoesOn
  <2>1. UNCHANGED <<listener, texts, buf, history, waiting>> /\ turn'.took = turn.took
    BY <1>8 DEF FlushGoesOn, TypeOK, env, client
  <2>2. Numbered'
    BY <2>1 DEF HistoryInv, Numbered
  <2> QED BY <2>1, <2>2, SameHistory
<1>9. CASE \/ ReceiveText \/ ReceiveInterruption \/ LocalBargeIn
           \/ (\E i \in DOMAIN tasks : RunTask(i)) \/ Fade \/ UNCHANGED vars
  <2>1. UNCHANGED <<listener, texts, buf, turn, history, waiting>>
    BY <1>9, Zenon DEF ReceiveText, ReceiveInterruption, LocalBargeIn, RunTask, Fade, vars,
                       env, server
  <2>2. Numbered'
    BY <2>1, Zenon DEF HistoryInv, Numbered
  <2> QED BY <2>1, <2>2, SameHistory
<1> QED BY <1>1, <1>2, <1>3, <1>4, <1>5, <1>6, <1>7, <1>8, <1>9, Zenon DEF Next

(* What is said to the end is kept, and what is kept of user, moderator    *)
(* and, in listener mode, agents is what is shown, once each and the user  *)
(* and moderator in the same order, although flush sends first and keeps   *)
(* after its awaits; an answer that waits to be spoken has been kept, and  *)
(* nothing is kept twice but what a barge-in flushed, which is marked: for *)
(* every number of texts, barge-ins and sessions and length of the queues, *)
(* and but for the order in whatever order the tasks run.                  *)
THEOREM HistoryStaysKept == Spec => []HistoryIsKept
<1> DEFINE EInv == TypeOK /\ OneOpen /\ SeenInv /\ HistoryInv
<1>1. Init => EInv
  <2> SUFFICES ASSUME Init PROVE EInv
    OBVIOUS
  <2>1. /\ down = <<>> /\ tasks = <<>> /\ lines = <<>> /\ slot = 0 /\ history = <<>>
        /\ buf = Silent /\ turn = NoTurn
    BY DEF Init
  <2>2. \A s, e : LinesOf(s, e) = {} /\ TasksOf(s, e) = {} /\ WireOf(s, e) = {}
    BY <2>1 DEF LinesOf, TasksOf, WireOf
  <2>3. \A s, e, f : ~OnWay(s, e) /\ ~Ahead(s, e, f)
    BY <2>2 DEF OnWay, Ahead, Leads, Below
  <2>4. \A e, f : ~Known(e) /\ ~Sooner(e, f)
    BY <2>1 DEF Known, Sooner, InHistory, Sent, NoTurn
  <2>5. SentAreWhole /\ NoneToCome /\ SentIsKnown /\ SentOnce /\ SentInOrder
    BY <2>3, <2>4, Zenon DEF SentAreWhole, NoneToCome, SentIsKnown, SentOnce, SentInOrder
  <2>6. Gathered
    BY <2>1, SilentIsEmpty DEF Gathered, NoTurn, Apart, Used, Speakers
  <2>7. NotesFollow /\ OneOpen
    BY <2>1 DEF NotesFollow, OneOpen
  <2>8. HistoryInv
    <3>1. \A s \in Speakers : Key(buf[s]) = 0 /\ Key(turn.took[s]) = 0
      BY <2>1, SilentKey DEF NoTurn
    <3>2. texts = 0 /\ waiting = <<>> /\ "user" \in Speakers /\ "moderator" \in Speakers
      BY DEF Init, Speakers
    <3> QED BY <2>1, <3>1, <3>2 DEF HistoryInv, Numbered, Once, Copied, Queued
  <2> QED BY <2>5, <2>6, <2>7, <2>8, TypeAtStart, Zenon DEF SeenInv
<1>2. EInv /\ [Next]_vars => EInv'
  <2> SUFFICES ASSUME EInv, [Next]_vars PROVE EInv'
    OBVIOUS
  <2>1. TypeOK' /\ OneOpen' /\ SeenInv'
    BY TypeStep, LinesStep, SeenStep, Zenon
  <2>2. HistoryInv'
    BY <2>1, HistoryStep, Zenon DEF SeenInv
  <2> QED BY <2>1, <2>2
<1>3. EInv => TurnsAreKept
  <2> SUFFICES ASSUME TypeOK, OneOpen, SeenInv, HistoryInv, Settled PROVE
        /\ {Seen(k) : k \in Finished} = {history[h] : h \in Told}
        /\ \A k, l \in Finished : Seen(k) = Seen(l) => k = l
        /\ inOrder =>
             \A g, h \in Spoken : g < h =>
               \E k, l \in Finished : k < l /\ Seen(k) = history[g] /\ Seen(l) = history[h]
    BY Zenon DEF TurnsAreKept
  <2>1. /\ \A s, e : TasksOf(s, e) = {} /\ WireOf(s, e) = {}
        /\ \A e : ~Sent(e)
    BY DEF Settled, Listening, TasksOf, WireOf, Sent
  <2>2. \A k \in Finished : Seen(k) \in KeptTexts
    <3>1. \A k \in Finished : lines[k] \in Lines /\ lines[k].who # "note"
      BY DEF TypeOK, Finished
    <3> QED BY <3>1 DEF Lines, Whose, Seen, Entry, KeptTexts
  <2>3. \A e \in KeptTexts : \A k : k \in LinesOf(session, e) <=> k \in Finished /\ Seen(k) = e
    <3>1. ASSUME NEW e \in KeptTexts, NEW k \in DOMAIN lines
          PROVE  Shows(lines[k], session, e) <=> k \in Finished /\ Seen(k) = e
      <4>1. lines[k] \in Lines /\ e.who # "note"
        BY DEF TypeOK, KeptTexts, Speakers
      <4>2. Seen(k) = e <=> lines[k].who = e.who /\ lines[k].text = e.text
        BY EntryIs DEF Seen
      <4> QED BY <4>1, <4>2 DEF Shows, Finished
    <3> QED BY <3>1 DEF LinesOf, Finished
  <2>4. \A e \in KeptTexts : (\E k \in Finished : Seen(k) = e) <=> InHistory(e)
    <3>1. \A e \in KeptTexts : OnWay(session, e) <=> InHistory(e)
      BY <2>1, Zenon DEF SeenInv, SentIsKnown, Known
    <3>2. \A e \in KeptTexts : OnWay(session, e) <=> LinesOf(session, e) # {}
      BY <2>1 DEF OnWay
    <3>3. \A e \in KeptTexts : LinesOf(session, e) # {} <=> \E k \in Finished : Seen(k) = e
      BY <2>3
    <3> QED BY <3>1, <3>2, <3>3, Zenon
  <2>5. ASSUME NEW h \in Told PROVE h \in DOMAIN history /\ history[h] \in KeptTexts
    <3>1. h \in DOMAIN history /\ history[h] \in Entries /\ (listener \/ history[h].who \in Speakers)
      BY Keys DEF Told
    <3>2. ~history[h].flushed
      BY <3>1 DEF HistoryInv, Copied, Speakers
    <3> QED BY <3>1, <3>2 DEF Entries, KeptTexts
  <2>10. \A e \in KeptTexts : InHistory(e) <=> \E h \in Told : history[h] = e
    BY DEF InHistory, Told
  <2>6. {Seen(k) : k \in Finished} = {history[h] : h \in Told}
    BY <2>2, <2>4, <2>5, <2>10
  <2>7. ASSUME NEW e \in KeptTexts, NEW f \in KeptTexts
        PROVE  Ahead(session, e, f) <=> Below(LinesOf(session, e), LinesOf(session, f))
    BY <2>1 DEF Ahead, Leads, Below
  <2>8. ASSUME NEW k \in Finished, NEW l \in Finished, Seen(k) = Seen(l), k # l
        PROVE  FALSE
    <3>1. Seen(k) \in KeptTexts /\ k \in LinesOf(session, Seen(k)) /\ l \in LinesOf(session, Seen(k))
      BY <2>2, <2>3, <2>8
    <3>2. k < l \/ l < k
      BY <2>8 DEF Finished, TypeOK
    <3>3. Below(LinesOf(session, Seen(k)), LinesOf(session, Seen(k)))
      BY <3>1, <3>2 DEF Below
    <3> QED BY <2>7, <3>1, <3>3 DEF SeenInv, SentOnce
  <2>9. ASSUME inOrder, NEW g \in Spoken, NEW h \in Spoken, g < h
        PROVE  \E k, l \in Finished : k < l /\ Seen(k) = history[g] /\ Seen(l) = history[h]
    <3>1. /\ g \in DOMAIN history /\ h \in DOMAIN history
          /\ history[g] \in KeptTexts /\ history[h] \in KeptTexts
      BY <2>5 DEF Spoken, Told
    <3>2. history[g] \in SpokenTexts /\ history[h] \in SpokenTexts
      BY <3>1 DEF Spoken, SpokenTexts, KeptTexts
    <3>3. Sooner(history[g], history[h])
      BY <2>9, <3>1 DEF Sooner
    <3>4. Below(LinesOf(session, history[g]), LinesOf(session, history[h]))
      BY <2>7, <2>9, <3>1, <3>2, <3>3 DEF SeenInv, SentInOrder
    <3> QED BY <2>3, <3>1, <3>4 DEF Below
  <2> QED BY <2>6, <2>8, <2>9
<1>4. EInv => HistoryIsKept
  <2> SUFFICES ASSUME TypeOK, HistoryInv PROVE AnswersAreKept /\
                 \A g, h \in DOMAIN history : history[g] = history[h] => g = h
    BY <1>3, Zenon DEF HistoryIsKept
  <2>1. AnswersAreKept
    BY Zenon DEF HistoryInv, Copied, Queued, AnswersAreKept
  <2>2. ASSUME NEW g \in DOMAIN history, NEW h \in DOMAIN history, history[g] = history[h]
        PROVE  g = h
    BY <2>2 DEF HistoryInv, Once
  <2> QED BY <2>1, <2>2
<1> QED BY <1>1, <1>2, <1>4, PTL DEF Spec
=============================================================================
