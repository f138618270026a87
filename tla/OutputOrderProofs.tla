-------------------------- MODULE OutputOrderProofs --------------------------
(***************************************************************************)
(* What happens to the order and the age of what is spoken, for every      *)
(* value of the constants.  The first part looks at the pipeline a         *)
(* response goes through as one structure (Pipeline), shows what the few   *)
(* things the program does to it preserve, and maps every action to those. *)
(* The second part is about what a barge-in leaves behind: everything that *)
(* can still be heard is of the current generation (Ages), except perhaps  *)
(* the response whose TTS was being awaited (Straggle).  The third maps    *)
(* every step to one of ResponseDelivery.                                  *)
(***************************************************************************)
EXTENDS OutputControllerProofs

-----------------------------------------------------------------------------
(* The pipeline: audio queue a, the ids in hand h, text queue t, the last  *)
(* response spoken s, the number of responses issued n.                    *)
AudioUp(a) ==
  \A i, j \in DOMAIN a : i < j /\ a[i].id > 0 /\ a[j].id > 0 => a[i].id < a[j].id

TextUp(t) == \A i, j \in DOMAIN t : i < j => t[i].id < t[j].id

HandFits(a, h, t, s, n) ==
  \A x \in h : /\ \A i \in DOMAIN a : a[i].id < x
               /\ \A i \in DOMAIN t : x < t[i].id
               /\ s < x /\ x <= n

AudioFirst(a, t) == \A i \in DOMAIN a, j \in DOMAIN t : a[i].id < t[j].id

Bounded(a, t, s, n) ==
  /\ s <= n
  /\ \A i \in DOMAIN a : a[i].id > 0 => s < a[i].id /\ a[i].id <= n
  /\ \A i \in DOMAIN t : s < t[i].id /\ t[i].id <= n

Pipeline(a, h, t, s, n) ==
  /\ AudioUp(a) /\ TextUp(t) /\ HandFits(a, h, t, s, n)
  /\ AudioFirst(a, t) /\ Bounded(a, t, s, n)

(* The ids in the hand of the response loop.                               *)
Hand == IF InHand THEN {resp.hand.id} ELSE {}

LEMMA PipelineForm ==
  /\ PipelineOrdered <=> Pipeline(agentQ, Hand, respQ, spoken, issued)
  /\ PipelineOrdered' <=> Pipeline(agentQ', Hand', respQ', spoken', issued')
<1> USE DEF AudioOrdered, TextOrdered, HandBetween, AudioBeforeText, BehindSpoken,
            AudioUp, TextUp, HandFits, AudioFirst, Bounded
<1>1. ASSUME PipelineOrdered PROVE Pipeline(agentQ, Hand, respQ, spoken, issued)
  BY <1>1 DEF PipelineOrdered, Pipeline, Hand
<1>2. ASSUME Pipeline(agentQ, Hand, respQ, spoken, issued) PROVE PipelineOrdered
  BY <1>2 DEF PipelineOrdered, Pipeline, Hand
<1>3. ASSUME PipelineOrdered' PROVE Pipeline(agentQ', Hand', respQ', spoken', issued')
  BY <1>3 DEF PipelineOrdered, Pipeline, Hand
<1>4. ASSUME Pipeline(agentQ', Hand', respQ', spoken', issued') PROVE PipelineOrdered'
  BY <1>4 DEF PipelineOrdered, Pipeline, Hand
<1> QED BY <1>1, <1>2, <1>3, <1>4

LEMMA ItemIds ==
  /\ \A x \in Item : x.id \in Nat
  /\ \A r \in Response : r.id \in Nat /\ r.id > 0 /\ AgentItem(r).id = r.id
  BY OutputAssumption DEF Item, Response, AgentItem

(* Audio that belongs to no response does not disturb the pipeline.        *)
LEMMA PlainAudio ==
  ASSUME NEW a \in Seq(Item), NEW h \in SUBSET Nat, NEW t \in Seq(Response),
         NEW s \in Nat, NEW n \in Nat, Pipeline(a, h, t, s, n),
         NEW x \in Item, x.id = 0
  PROVE  Pipeline(Append(a, x), h, t, s, n)
<1> DEFINE b == Append(a, x)
<1>1. /\ DOMAIN b = 1 .. Len(a) + 1
      /\ \A i \in DOMAIN b : IF i = Len(a) + 1 THEN b[i].id = 0
                                               ELSE i \in DOMAIN a /\ b[i] = a[i]
  BY AppendProperties
<1>2. \A i \in DOMAIN a : a[i].id \in Nat
  BY ItemIds
<1>3. \A i \in DOMAIN t : t[i].id \in Nat
  BY ItemIds
<1> HIDE DEF b
<1>4. Pipeline(b, h, t, s, n)
  <2>1. AudioUp(b)
    BY <1>1, <1>2, <1>3 DEF Pipeline, AudioUp, HandFits
  <2>2. TextUp(t)
    BY <1>1, <1>2, <1>3 DEF Pipeline, TextUp, HandFits, Bounded
  <2>3. HandFits(b, h, t, s, n)
    BY <1>1, <1>2, <1>3 DEF Pipeline, HandFits, TextUp, Bounded
  <2>4. AudioFirst(b, t)
    BY <1>1, <1>2, <1>3 DEF Pipeline, AudioFirst, HandFits, Bounded
  <2>5. Bounded(b, t, s, n)
    BY <1>1, <1>2, <1>3 DEF Pipeline, Bounded, AudioUp, HandFits, AudioFirst
  <2> QED BY <2>1, <2>2, <2>3, <2>4, <2>5 DEF Pipeline
<1> QED BY <1>4 DEF b

(* The oldest text can be dropped, and so can any others before a position.*)
LEMMA DropText ==
  ASSUME NEW a \in Seq(Item), NEW h \in SUBSET Nat, NEW t \in Seq(Response),
         NEW s \in Nat, NEW n \in Nat, Pipeline(a, h, t, s, n),
         NEW k \in DOMAIN t
  PROVE  /\ SubSeq(t, k + 1, Len(t)) \in Seq(Response)
         /\ Pipeline(a, h, SubSeq(t, k + 1, Len(t)), s, n)
         /\ Pipeline(a, {t[k].id}, SubSeq(t, k + 1, Len(t)), s, n)
<1> DEFINE u == SubSeq(t, k + 1, Len(t))
<1>1. k \in 1 .. Len(t) /\ Len(t) \in Nat
  OBVIOUS
<1>2. \A i \in k + 1 .. Len(t) : t[i] \in Response
  BY <1>1
<1>3. u \in Seq(Response) /\ Len(u) = Len(t) - k
  BY <1>1, <1>2, SubSeqProperties
<1>4. \A i \in 1 .. Len(t) - k : u[i] = t[k + i]
  <2> SUFFICES ASSUME NEW i \in 1 .. Len(t) - k PROVE u[i] = t[k + i]
    OBVIOUS
  <2>1. i \in 1 .. Len(t) - (k + 1) + 1
    BY <1>1
  <2>2. u[i] = t[(k + 1) + i - 1]
    BY <1>1, <1>2, <2>1, SubSeqProperties
  <2> QED BY <1>1, <2>2
<1>5. \A i \in DOMAIN u : u[i] = t[k + i] /\ k + i \in DOMAIN t /\ i \in Nat
  BY <1>1, <1>3, <1>4
<1>6. \A i \in DOMAIN t : t[i].id \in Nat
  BY ItemIds
<1> HIDE DEF u
<1>7. Pipeline(a, h, u, s, n)
  <2>1. AudioUp(a)
    BY <1>1, <1>5, <1>6 DEF Pipeline, AudioUp, HandFits
  <2>2. TextUp(u)
    <3> SUFFICES ASSUME NEW i \in DOMAIN u, NEW j \in DOMAIN u, i < j
                 PROVE  u[i].id < u[j].id
      BY DEF TextUp
    <3>1. k + i < k + j
      BY <1>1, <1>5
    <3> QED BY <1>5, <3>1 DEF Pipeline, TextUp
  <2>3. HandFits(a, h, u, s, n)
    BY <1>1, <1>5, <1>6 DEF Pipeline, HandFits, TextUp, Bounded
  <2>4. AudioFirst(a, u)
    BY <1>1, <1>5, <1>6 DEF Pipeline, AudioFirst, HandFits, Bounded
  <2>5. Bounded(a, u, s, n)
    BY <1>1, <1>5, <1>6 DEF Pipeline, Bounded, AudioUp, HandFits, AudioFirst
  <2> QED BY <2>1, <2>2, <2>3, <2>4, <2>5 DEF Pipeline
<1>8. Pipeline(a, {t[k].id}, u, s, n)
  <2>1. \A i \in DOMAIN u : k < k + i
    BY <1>1, <1>5, <1>3
  <2>2. HandFits(a, {t[k].id}, u, s, n)
    BY <1>1, <1>5, <1>6, <2>1 DEF Pipeline, HandFits, TextUp, AudioFirst, Bounded
  <2> QED BY <1>7, <2>2 DEF Pipeline
<1> QED BY <1>3, <1>7, <1>8 DEF u

(* Without the text queue, or without the hand, what remains is in order.  *)
LEMMA DropAll ==
  ASSUME NEW a \in Seq(Item), NEW h \in SUBSET Nat, NEW t \in Seq(Response),
         NEW s \in Nat, NEW n \in Nat, Pipeline(a, h, t, s, n)
  PROVE  /\ Pipeline(a, h, <<>>, s, n)
         /\ Pipeline(a, {}, t, s, n)
         /\ Pipeline(a, {}, <<>>, s, n)
  BY DEF Pipeline, AudioUp, TextUp, HandFits, AudioFirst, Bounded

(* A new response goes to the end of the text queue.                       *)
LEMMA NewText ==
  ASSUME NEW a \in Seq(Item), NEW h \in SUBSET Nat, NEW t \in Seq(Response),
         NEW s \in Nat, NEW n \in Nat, Pipeline(a, h, t, s, n),
         NEW r \in Response, r.id = n + 1
  PROVE  Pipeline(a, h, Append(t, r), s, n + 1)
<1> DEFINE u == Append(t, r)
<1>1. /\ DOMAIN u = 1 .. Len(t) + 1
      /\ \A i \in DOMAIN u : IF i = Len(t) + 1 THEN u[i].id = n + 1
                                               ELSE i \in DOMAIN t /\ u[i] = t[i]
  BY AppendProperties
<1>2. \A i \in DOMAIN a : a[i].id \in Nat
  BY ItemIds
<1>3. \A i \in DOMAIN t : t[i].id \in Nat
  BY ItemIds
<1> HIDE DEF u
<1>4. Pipeline(a, h, u, s, n + 1)
  <2>1. AudioUp(a)
    BY <1>1, <1>2, <1>3 DEF Pipeline, AudioUp, HandFits
  <2>2. TextUp(u)
    BY <1>1, <1>2, <1>3 DEF Pipeline, TextUp, HandFits, Bounded
  <2>3. HandFits(a, h, u, s, n + 1)
    <3> SUFFICES ASSUME NEW x \in h
                 PROVE  /\ \A i \in DOMAIN a : a[i].id < x
                        /\ \A i \in DOMAIN u : x < u[i].id
                        /\ s < x /\ x <= n + 1
      BY DEF HandFits
    <3>1. /\ \A i \in DOMAIN a : a[i].id < x
          /\ \A i \in DOMAIN t : x < t[i].id
          /\ x \in Nat /\ s < x /\ x <= n
      BY DEF Pipeline, HandFits
    <3>2. x <= n + 1 /\ x < n + 1
      BY <3>1
    <3>3. ASSUME NEW i \in DOMAIN u PROVE x < u[i].id
      BY <1>1, <3>1, <3>2
    <3> QED BY <3>1, <3>2, <3>3
  <2>4. AudioFirst(a, u)
    BY <1>1, <1>2, <1>3 DEF Pipeline, AudioFirst, HandFits, Bounded
  <2>5. Bounded(a, u, s, n + 1)
    BY <1>1, <1>2, <1>3 DEF Pipeline, Bounded, AudioUp, HandFits, AudioFirst
  <2> QED BY <2>1, <2>2, <2>3, <2>4, <2>5 DEF Pipeline
<1> QED BY <1>4 DEF u

(* The hand's response becomes audio, or goes back to the text queue.      *)
LEMMA PlayHand ==
  ASSUME NEW a \in Seq(Item), NEW t \in Seq(Response),
         NEW s \in Nat, NEW n \in Nat, NEW r \in Response,
         Pipeline(a, {r.id}, t, s, n)
  PROVE  Pipeline(Append(a, AgentItem(r)), {}, t, s, n)
<1> DEFINE b == Append(a, AgentItem(r))
<1>1. AgentItem(r) \in Item /\ AgentItem(r).id = r.id /\ r.id \in Nat
  BY ItemFacts, ItemIds
<1>2. /\ DOMAIN b = 1 .. Len(a) + 1
      /\ \A i \in DOMAIN b : IF i = Len(a) + 1 THEN b[i].id = r.id
                                               ELSE i \in DOMAIN a /\ b[i] = a[i]
  BY <1>1, AppendProperties
<1>3. \A i \in DOMAIN a : a[i].id \in Nat
  BY ItemIds
<1>4. \A i \in DOMAIN t : t[i].id \in Nat
  BY ItemIds
<1> HIDE DEF b
<1>5. Pipeline(b, {}, t, s, n)
  <2>1. AudioUp(b)
    BY <1>1, <1>2, <1>3, <1>4 DEF Pipeline, AudioUp, HandFits
  <2>2. TextUp(t)
    BY <1>1, <1>2, <1>3, <1>4 DEF Pipeline, TextUp, HandFits, Bounded
  <2>3. HandFits(b, {}, t, s, n)
    BY <1>1, <1>2, <1>3, <1>4 DEF Pipeline, HandFits, TextUp, Bounded
  <2>4. AudioFirst(b, t)
    BY <1>1, <1>2, <1>3, <1>4 DEF Pipeline, AudioFirst, HandFits, Bounded
  <2>5. Bounded(b, t, s, n)
    BY <1>1, <1>2, <1>3, <1>4 DEF Pipeline, Bounded, AudioUp, HandFits, AudioFirst
  <2> QED BY <2>1, <2>2, <2>3, <2>4, <2>5 DEF Pipeline
<1> QED BY <1>5 DEF b

LEMMA ReturnHand ==
  ASSUME NEW a \in Seq(Item), NEW t \in Seq(Response),
         NEW s \in Nat, NEW n \in Nat, NEW r \in Response,
         Pipeline(a, {r.id}, t, s, n)
  PROVE  Pipeline(a, {}, <<r>> \o t, s, n)
<1> DEFINE u == <<r>> \o t
<1>1. /\ DOMAIN u = 1 .. Len(t) + 1
      /\ \A i \in DOMAIN u : IF i = 1 THEN u[i] = r
                                      ELSE i - 1 \in DOMAIN t /\ u[i] = t[i - 1]
  OBVIOUS
<1>2. \A i \in DOMAIN t : t[i].id \in Nat
  BY ItemIds
<1>3. r.id \in Nat /\ Len(t) \in Nat
  BY ItemIds
<1> HIDE DEF u
<1>4. Pipeline(a, {}, u, s, n)
  <2>1. AudioUp(a)
    BY <1>1, <1>2, <1>3 DEF Pipeline, AudioUp, HandFits
  <2>2. TextUp(u)
    <3> SUFFICES ASSUME NEW i \in DOMAIN u, NEW j \in DOMAIN u, i < j
                 PROVE  u[i].id < u[j].id
      BY DEF TextUp
    <3>1. i \in Nat /\ j \in Nat /\ 1 <= i /\ j # 1 /\ i - 1 < j - 1
      BY <1>1, <1>3
    <3>2. CASE i = 1
      BY <1>1, <3>1, <3>2 DEF Pipeline, HandFits
    <3>3. CASE i # 1
      BY <1>1, <3>1, <3>3 DEF Pipeline, TextUp
    <3> QED BY <3>2, <3>3
  <2>3. HandFits(a, {}, u, s, n)
    BY <1>1, <1>2, <1>3 DEF Pipeline, HandFits, TextUp, Bounded
  <2>4. AudioFirst(a, u)
    BY <1>1, <1>2, <1>3 DEF Pipeline, AudioFirst, HandFits, Bounded
  <2>5. Bounded(a, u, s, n)
    BY <1>1, <1>2, <1>3 DEF Pipeline, Bounded, AudioUp, HandFits, AudioFirst
  <2> QED BY <2>1, <2>2, <2>3, <2>4, <2>5 DEF Pipeline
<1> QED BY <1>4 DEF u

(* The writer takes the first audio item.                                  *)
LEMMA SpeakFirst ==
  ASSUME NEW a \in Seq(Item), a # <<>>, NEW h \in SUBSET Nat, NEW t \in Seq(Response),
         NEW s \in Nat, NEW n \in Nat, Pipeline(a, h, t, s, n)
  PROVE  Pipeline(Tail(a), h, t, IF Head(a).id > 0 THEN Head(a).id ELSE s, n)
<1> DEFINE b == Tail(a)
           s2 == IF Head(a).id > 0 THEN Head(a).id ELSE s
<1>1. /\ DOMAIN b = 1 .. Len(a) - 1
      /\ \A i \in DOMAIN b : i + 1 \in DOMAIN a /\ b[i] = a[i + 1]
      /\ 1 \in DOMAIN a /\ Head(a) = a[1]
  OBVIOUS
<1>2. \A i \in DOMAIN a : a[i].id \in Nat
  BY ItemIds
<1>3. \A i \in DOMAIN t : t[i].id \in Nat
  BY ItemIds
<1>4. s2 = IF a[1].id > 0 THEN a[1].id ELSE s
  BY <1>1
<1> HIDE DEF b, s2
<1>5. Pipeline(b, h, t, s2, n)
  <2>1. AudioUp(b)
    <3> SUFFICES ASSUME NEW i \in DOMAIN b, NEW j \in DOMAIN b, i < j,
                        b[i].id > 0, b[j].id > 0
                 PROVE  b[i].id < b[j].id
      BY DEF AudioUp
    <3>1. i + 1 < j + 1
      BY <1>1
    <3> QED BY <1>1, <3>1 DEF Pipeline, AudioUp
  <2>2. TextUp(t)
    BY <1>1, <1>2, <1>3, <1>4 DEF Pipeline, TextUp, HandFits, Bounded
  <2>3. HandFits(b, h, t, s2, n)
    BY <1>1, <1>2, <1>3, <1>4 DEF Pipeline, HandFits, TextUp, Bounded
  <2>4. AudioFirst(b, t)
    BY <1>1, <1>2, <1>3, <1>4 DEF Pipeline, AudioFirst, HandFits, Bounded
  <2>5. Bounded(b, t, s2, n)
    <3>1. s2 <= n /\ \A i \in DOMAIN t : s2 < t[i].id /\ t[i].id <= n
      BY <1>1, <1>2, <1>3, <1>4 DEF Pipeline, Bounded, AudioFirst
    <3>2. ASSUME NEW i \in DOMAIN b, b[i].id > 0
          PROVE  s2 < b[i].id /\ b[i].id <= n
      <4>1. 1 < i + 1 /\ b[i] = a[i + 1] /\ i + 1 \in DOMAIN a
        BY <1>1
      <4> QED BY <1>1, <1>2, <1>4, <3>2, <4>1 DEF Pipeline, Bounded, AudioUp
    <3> QED BY <3>1, <3>2 DEF Bounded
  <2> QED BY <2>1, <2>2, <2>3, <2>4, <2>5 DEF Pipeline
<1> QED BY <1>5 DEF b, s2

(* A flush keeps part of the audio and no text.                            *)
LEMMA FlushPipeline ==
  ASSUME NEW a \in Seq(Item), NEW h \in SUBSET Nat, NEW t \in Seq(Response),
         NEW s \in Nat, NEW n \in Nat, Pipeline(a, h, t, s, n), NEW g
  PROVE  Pipeline(KeptByFlush(a, g), h, <<>>, s, n)
<1> DEFINE S == {i \in DOMAIN a : a[i].gen >= g}
           b == Select(a, S)
<1>1. S \in SUBSET (DOMAIN a)
  OBVIOUS
<1> HIDE DEF S
<1>2. /\ \A k \in DOMAIN b : Nth(S, k) \in DOMAIN a /\ b[k] = a[Nth(S, k)]
      /\ \A k, l \in DOMAIN b : k < l => Nth(S, k) < Nth(S, l)
  BY <1>1, SelectProperties
<1> HIDE DEF b
<1>3. Pipeline(b, h, <<>>, s, n)
  <2>1. AudioUp(b)
    BY <1>2 DEF Pipeline, AudioUp, HandFits
  <2>2. TextUp(<<>>)
    BY <1>2 DEF Pipeline, TextUp, HandFits, Bounded
  <2>3. HandFits(b, h, <<>>, s, n)
    BY <1>2 DEF Pipeline, HandFits, TextUp, Bounded
  <2>4. AudioFirst(b, <<>>)
    BY <1>2 DEF Pipeline, AudioFirst, HandFits, Bounded
  <2>5. Bounded(b, <<>>, s, n)
    BY <1>2 DEF Pipeline, Bounded, AudioUp, HandFits, AudioFirst
  <2> QED BY <2>1, <2>2, <2>3, <2>4, <2>5 DEF Pipeline
<1> QED BY <1>3 DEF b, S, KeptByFlush

-----------------------------------------------------------------------------
(* The actions.                                                            *)

LEMMA PipelineTypes ==
  ASSUME TypeOK
  PROVE  /\ agentQ \in Seq(Item) /\ respQ \in Seq(Response)
         /\ Hand \in SUBSET Nat /\ spoken \in Nat /\ issued \in Nat
<1>1. Hand \in SUBSET Nat
  <2>1. CASE InHand
    <3>1. resp.hand \in Response
      BY <2>1 DEF TypeOK, InHand
    <3> QED BY <3>1, ItemIds DEF Hand
  <2> QED BY <2>1 DEF Hand
<1> QED BY <1>1, OutputAssumption DEF TypeOK

LEMMA TakeNextOrdered ==
  ASSUME TypeOK, PipelineOrdered, TakeNext, UNCHANGED <<resp, respQ, issued>>
  PROVE  PipelineOrdered'
<1>1. Pipeline(agentQ, Hand, respQ, spoken, issued)
  BY PipelineForm
<1>2. Hand' = Hand /\ respQ' = respQ /\ issued' = issued
  BY DEF Hand, InHand
<1>3. CASE agentQ' = agentQ /\ spoken' = spoken
  BY <1>1, <1>2, <1>3, PipelineForm
<1>4. CASE /\ agentQ # <<>> /\ agentQ' = Tail(agentQ)
           /\ spoken' = IF Head(agentQ).id > 0 THEN Head(agentQ).id ELSE spoken
  BY <1>1, <1>2, <1>4, PipelineForm, PipelineTypes, SpeakFirst
<1> QED BY <1>3, <1>4 DEF TakeNext

LEMMA ServeOrdered ==
  ASSUME TypeOK, PipelineOrdered, Serve, UNCHANGED <<spoken, issued>>
  PROVE  PipelineOrdered'
<1>1. Pipeline(agentQ, Hand, respQ, spoken, issued)
  BY PipelineForm
<1>2. resp' = Waiting => Hand' = {}
  BY DEF Hand, InHand, Waiting
<1>3. CASE respQ' = <<>> /\ resp' = Waiting /\ agentQ' = agentQ
  BY <1>1, <1>2, <1>3, PipelineForm, PipelineTypes, DropAll
<1>4. ASSUME NEW n \in DOMAIN respQ,
             respQ' = SubSeq(respQ, n + 1, Len(respQ))
      PROVE  /\ Pipeline(agentQ, {respQ[n].id}, respQ', spoken, issued)
             /\ respQ' \in Seq(Response)
             /\ respQ[n] \in Response
  <2>1. /\ SubSeq(respQ, n + 1, Len(respQ)) \in Seq(Response)
        /\ Pipeline(agentQ, {respQ[n].id}, SubSeq(respQ, n + 1, Len(respQ)), spoken, issued)
    BY <1>1, PipelineTypes, DropText
  <2>2. respQ[n] \in Response
    BY PipelineTypes
  <2> QED BY <1>4, <2>1, <2>2
<1>5. ASSUME NEW n \in DOMAIN respQ,
             respQ' = SubSeq(respQ, n + 1, Len(respQ)),
             PlayResponse(respQ[n]), resp' = Waiting
      PROVE  PipelineOrdered'
  <2>1. agentQ' = Append(agentQ, AgentItem(respQ[n]))
    BY <1>5 DEF PlayResponse
  <2>2. Pipeline(agentQ', {}, respQ', spoken, issued)
    BY <1>4, <1>5, <2>1, PlayHand, PipelineTypes
  <2> QED BY <1>2, <1>5, <2>2, PipelineForm
<1>6. ASSUME NEW n \in DOMAIN respQ,
             respQ' = SubSeq(respQ, n + 1, Len(respQ)),
             agentQ' = agentQ, resp' = [pc |-> "tts", hand |-> respQ[n]]
      PROVE  PipelineOrdered'
  <2>1. Hand' = {respQ[n].id}
    BY <1>6 DEF Hand, InHand
  <2>2. Pipeline(agentQ, {respQ[n].id}, respQ', spoken, issued)
    BY <1>4, <1>6
  <2> QED BY <1>6, <2>1, <2>2, PipelineForm
<1> QED BY <1>3, <1>5, <1>6 DEF Serve

LEMMA OrderedStep == TypeOK /\ PipelineOrdered /\ [Next]_vars => PipelineOrdered'
<1> SUFFICES ASSUME TypeOK, PipelineOrdered, [Next]_vars PROVE PipelineOrdered'
  OBVIOUS
<1> USE DEF audio, responses, session
<1>a. Pipeline(agentQ, Hand, respQ, spoken, issued)
  BY PipelineForm
<1>b. ASSUME UNCHANGED <<agentQ, resp, respQ, spoken, issued>> PROVE PipelineOrdered'
  <2>1. Hand' = Hand
    BY <1>b DEF Hand, InHand
  <2> QED BY <1>a, <1>b, <2>1, PipelineForm
<1>1. CASE EnqueueModerator
  BY <1>1, <1>b DEF EnqueueModerator
<1>2. CASE EnqueueAgentAudio
  <2> DEFINE x == [speaker |-> "agent", id |-> 0, gen |-> gen]
  <2>1. x \in Item /\ x.id = 0
    BY ItemFacts DEF TypeOK
  <2>2. agentQ' = Append(agentQ, x) /\ UNCHANGED <<resp, respQ, spoken, issued>>
    BY <1>2 DEF EnqueueAgentAudio
  <2>3. Hand' = Hand
    BY <2>2 DEF Hand, InHand
  <2> HIDE DEF x
  <2>4. Pipeline(agentQ', Hand, respQ, spoken, issued)
    BY <1>a, <2>1, <2>2, PlainAudio, PipelineTypes
  <2> QED BY <2>2, <2>3, <2>4, PipelineForm
<1>3. CASE EnqueueResponse(gen)
  <2> DEFINE r == [id |-> issued + 1, gen |-> gen]
             kept == IF QueueFull THEN Tail(respQ) ELSE respQ
  <2>1. /\ r \in Response /\ r.id = issued + 1
    <3>1. issued + 1 \in 1 .. MaxResponses
      BY <1>3, OutputAssumption DEF EnqueueResponse, TypeOK
    <3> QED BY <3>1 DEF TypeOK, Response
  <2>2. /\ respQ' = Append(kept, r) /\ issued' = issued + 1
        /\ UNCHANGED <<agentQ, resp, spoken>>
    BY <1>3 DEF EnqueueResponse
  <2>3. Pipeline(agentQ, Hand, kept, spoken, issued) /\ kept \in Seq(Response)
    <3>1. CASE ~QueueFull
      BY <1>a, <3>1, PipelineTypes
    <3>2. CASE QueueFull
      <4>1. 1 \in DOMAIN respQ /\ Tail(respQ) = SubSeq(respQ, 1 + 1, Len(respQ))
        BY <3>2, OutputAssumption, PipelineTypes DEF QueueFull
      <4> QED BY <1>a, <3>2, <4>1, DropText, PipelineTypes
    <3> QED BY <3>1, <3>2
  <2>4. Hand' = Hand
    BY <2>2 DEF Hand, InHand
  <2> HIDE DEF r, kept
  <2>5. Pipeline(agentQ, Hand, respQ', spoken, issued + 1)
    BY <2>1, <2>2, <2>3, NewText, PipelineTypes
  <2> QED BY <2>2, <2>4, <2>5, PipelineForm
<1>4. ASSUME NEW r \in 1 .. MaxResponses, TtsDone(r) \/ TtsFail(r) PROVE PipelineOrdered'
  BY <1>4, <1>b DEF TtsDone, TtsFail
<1>5. CASE Drain
  <2>1. CASE DrainWake
    BY <2>1, TakeNextOrdered DEF DrainWake
  <2>2. CASE DrainAnnounced \/ SendFrame \/ FinishAgent \/ DrainIdle
    BY <2>2, <1>b DEF DrainAnnounced, SendFrame, FinishAgent, DrainIdle
  <2>3. CASE FinishModerator
    BY <2>3, TakeNextOrdered DEF FinishModerator
  <2>4. CASE DrainAgentDone
    BY <2>4, TakeNextOrdered DEF DrainAgentDone
  <2> QED BY <1>5, <2>1, <2>2, <2>3, <2>4 DEF Drain
<1>6. CASE RespondLoop
  <2>1. CASE ResponseWake
    <3>1. CASE Serve
      BY <2>1, <3>1, ServeOrdered DEF ResponseWake
    <3>2. CASE UNCHANGED <<respQ, tts, resp, agentQ, drainSet>>
      BY <2>1, <3>2, <1>b DEF ResponseWake
    <3> QED BY <2>1, <3>1, <3>2 DEF ResponseWake
  <2>2. CASE ResponseResume
    <3>1. /\ resp.hand \in Response /\ Hand = {resp.hand.id}
          /\ spoken' = spoken /\ issued' = issued
      BY <2>2 DEF ResponseResume, TypeOK, Hand, InHand
    <3>2. resp' = Waiting => Hand' = {}
      BY DEF Hand, InHand, Waiting
    <3>3. CASE respQ' = PutBack(resp.hand) /\ resp' = Waiting /\ agentQ' = agentQ
      <4>1. respQ' = <<resp.hand>> \o respQ
        BY <3>3 DEF PutBack
      <4>2. Pipeline(agentQ, {}, respQ', spoken, issued)
        BY <1>a, <3>1, <4>1, ReturnHand, PipelineTypes
      <4> QED BY <3>1, <3>2, <3>3, <4>2, PipelineForm
    <3>4. CASE PlayResponse(resp.hand) /\ resp' = Waiting /\ respQ' = respQ
      <4>1. agentQ' = Append(agentQ, AgentItem(resp.hand))
        BY <3>4 DEF PlayResponse
      <4>2. Pipeline(agentQ', {}, respQ, spoken, issued)
        BY <1>a, <3>1, <4>1, PlayHand, PipelineTypes
      <4> QED BY <3>1, <3>2, <3>4, <4>2, PipelineForm
    <3>5. CASE Serve
      BY <3>1, <3>5, ServeOrdered
    <3> QED BY <2>2, <3>3, <3>4, <3>5 DEF ResponseResume
  <2>3. CASE ResponseCancelled
    <3>1. CASE Serve
      BY <2>3, <3>1, ServeOrdered DEF ResponseCancelled
    <3>2. CASE resp' = Waiting /\ UNCHANGED <<respQ, tts, agentQ, drainSet>>
      <4>1. Hand' = {} /\ spoken' = spoken /\ issued' = issued
        BY <2>3, <3>2 DEF ResponseCancelled, Hand, InHand, Waiting
      <4> QED BY <1>a, <3>2, <4>1, DropAll, PipelineForm, PipelineTypes
    <3> QED BY <2>3, <3>1, <3>2 DEF ResponseCancelled
  <2> QED BY <1>6, <2>1, <2>2, <2>3 DEF RespondLoop
<1>7. CASE BargeIn
  <2>1. /\ agentQ' = KeptByFlush(agentQ, gen') /\ respQ' = <<>>
        /\ UNCHANGED <<resp, spoken, issued>>
    BY <1>7 DEF BargeIn
  <2>2. Hand' = Hand
    BY <2>1 DEF Hand, InHand
  <2>3. \A g : Pipeline(KeptByFlush(agentQ, g), Hand, <<>>, spoken, issued)
    BY <1>a, FlushPipeline, PipelineTypes
  <2> QED BY <2>1, <2>2, <2>3, PipelineForm
<1>8. CASE Disconnect
  BY <1>8, <1>b DEF Disconnect
<1>9. CASE Stop
  <2>1. CASE StopDrain
    BY <2>1, <1>b DEF StopDrain
  <2>2. CASE StopResponse
    <3>1. CASE resp' = resp
      BY <2>2, <3>1, <1>b DEF StopResponse
    <3>2. CASE resp' # resp
      <4>1. Hand' = {} /\ UNCHANGED <<agentQ, respQ, spoken, issued>>
        <5>1. resp' \in {[pc |-> "stopped", hand |-> NoResponse],
                         [pc |-> "cancelled", hand |-> NoResponse]}
          BY <2>2, <3>2 DEF StopResponse, Waiting
        <5> QED BY <2>2, <5>1 DEF StopResponse, Hand, InHand
      <4> QED BY <1>a, <4>1, DropAll, PipelineForm, PipelineTypes
    <3> QED BY <3>1, <3>2
  <2>3. CASE StopEnd
    <3>1. Hand' = Hand /\ respQ' = <<>> /\ UNCHANGED <<agentQ, spoken, issued>>
      BY <2>3 DEF StopEnd, Hand, InHand
    <3> QED BY <1>a, <3>1, DropAll, PipelineForm, PipelineTypes
  <2> QED BY <1>9, <2>1, <2>2, <2>3 DEF Stop
<1>10. CASE UNCHANGED vars
  BY <1>10, <1>b DEF vars
<1> QED BY <1>1, <1>2, <1>3, <1>4, <1>5, <1>6, <1>7, <1>8, <1>9, <1>10 DEF Next

(* Responses reach the writer in the order they were enqueued, none twice: *)
(* the invariant holds of every behaviour, whatever is put back, flushed,  *)
(* dropped or discarded.                                                   *)
THEOREM ResponsesOrdered == Spec => []PipelineOrdered
<1>1. Init => PipelineOrdered
  BY DEF Init, PipelineOrdered, AudioOrdered, TextOrdered, HandBetween,
         AudioBeforeText, BehindSpoken, InHand
<1>2. TypeOK /\ PipelineOrdered /\ [Next]_vars => PipelineOrdered'
  BY OrderedStep
<1> QED BY <1>1, <1>2, TypeCorrect, PTL DEF Spec

-----------------------------------------------------------------------------
(* What a barge-in leaves behind it, as long as the generation does not    *)
(* wrap.  First the pipeline, with generation g: audio queue a, responses  *)
(* in hand h, text queue t.                                                *)
OneOld(q, g) == \A i, j \in DOMAIN q : q[i].gen # g /\ q[j].gen # g => i = j
NoneOld(q, g) == \A i \in DOMAIN q : q[i].gen = g

Straggle(a, h, t, g) ==
  /\ OneOld(a, g) /\ OneOld(t, g) /\ (NoneOld(a, g) \/ NoneOld(t, g))
  /\ \A x \in h : x.gen = g \/ (NoneOld(a, g) /\ NoneOld(t, g))

LEMMA AppendOld ==
  ASSUME NEW T, NEW q \in Seq(T), NEW x \in T, NEW g
  PROVE  /\ NoneOld(q, g) => OneOld(Append(q, x), g)
         /\ x.gen = g /\ NoneOld(q, g) => NoneOld(Append(q, x), g)
         /\ x.gen = g /\ OneOld(q, g) => OneOld(Append(q, x), g)
<1> DEFINE r == Append(q, x)
<1>1. /\ DOMAIN q = 1 .. Len(q) /\ Len(q) \in Nat /\ DOMAIN r = 1 .. Len(q) + 1
      /\ \A i \in 1 .. Len(q) : r[i] = q[i]
      /\ r[Len(q) + 1] = x
  BY AppendProperties
<1>2. \A i \in 1 .. Len(q) + 1 : i \in 1 .. Len(q) \/ i = Len(q) + 1
  BY <1>1
<1> HIDE DEF r
<1>3. NoneOld(q, g) => OneOld(r, g)
  BY <1>1, <1>2 DEF NoneOld, OneOld
<1>4. x.gen = g /\ NoneOld(q, g) => NoneOld(r, g)
  BY <1>1, <1>2 DEF NoneOld
<1>5. x.gen = g /\ OneOld(q, g) => OneOld(r, g)
  BY <1>1, <1>2 DEF OneOld
<1> QED BY <1>3, <1>4, <1>5 DEF r

LEMMA TailOld ==
  ASSUME NEW T, NEW q \in Seq(T), q # <<>>, NEW g
  PROVE  /\ NoneOld(q, g) => NoneOld(Tail(q), g)
         /\ OneOld(q, g) => OneOld(Tail(q), g)
<1>1. \A i \in DOMAIN Tail(q) : /\ i \in Nat /\ i + 1 \in DOMAIN q
                                /\ Tail(q)[i] = q[i + 1]
  OBVIOUS
<1> QED BY <1>1 DEF NoneOld, OneOld

LEMMA DropOld ==
  ASSUME NEW T, NEW q \in Seq(T), NEW k \in DOMAIN q, NEW g
  PROVE  /\ NoneOld(q, g) => NoneOld(SubSeq(q, k + 1, Len(q)), g)
         /\ OneOld(q, g) => /\ OneOld(SubSeq(q, k + 1, Len(q)), g)
                            /\ q[k].gen = g \/ NoneOld(SubSeq(q, k + 1, Len(q)), g)
<1> DEFINE u == SubSeq(q, k + 1, Len(q))
<1>1. k \in 1 .. Len(q) /\ Len(q) \in Nat
  OBVIOUS
<1>2. u = [i \in 1 .. Len(q) - k |-> q[k + i]]
  BY <1>1
<1>3. \A i \in DOMAIN u : /\ i \in Nat /\ i > 0 /\ k + i \in DOMAIN q
                          /\ u[i] = q[k + i]
  BY <1>1, <1>2
<1> HIDE DEF u
<1>4. NoneOld(q, g) => NoneOld(u, g)
  BY <1>3 DEF NoneOld
<1>5. OneOld(q, g) => OneOld(u, g)
  BY <1>1, <1>3 DEF OneOld
<1>6. ASSUME OneOld(q, g), q[k].gen # g PROVE NoneOld(u, g)
  <2> SUFFICES ASSUME NEW i \in DOMAIN u, u[i].gen # g PROVE FALSE
    BY DEF NoneOld
  <2>1. k + i = k
    BY <1>3, <1>6 DEF OneOld
  <2> QED BY <1>1, <1>3, <2>1
<1> QED BY <1>4, <1>5, <1>6 DEF u

(* A response goes from the text queue to the hand or to the audio queue.  *)
LEMMA ServeOld ==
  ASSUME NEW a \in Seq(Item), NEW t \in Seq(Response), NEW g, Straggle(a, {}, t, g),
         NEW k \in DOMAIN t
  PROVE  /\ Straggle(a, {t[k]}, SubSeq(t, k + 1, Len(t)), g)
         /\ Straggle(Append(a, AgentItem(t[k])), {}, SubSeq(t, k + 1, Len(t)), g)
<1> DEFINE u == SubSeq(t, k + 1, Len(t))
<1>1. t[k] \in Response /\ AgentItem(t[k]) \in Item /\ AgentItem(t[k]).gen = t[k].gen
  BY ItemFacts DEF AgentItem
<1>2. /\ NoneOld(t, g) => NoneOld(u, g)
      /\ OneOld(u, g) /\ (t[k].gen = g \/ NoneOld(u, g))
  BY DropOld DEF Straggle
<1>3. t[k].gen # g => ~NoneOld(t, g)
  BY DEF NoneOld
<1> DEFINE b == Append(a, AgentItem(t[k]))
<1>4. /\ NoneOld(a, g) => OneOld(b, g)
      /\ t[k].gen = g /\ NoneOld(a, g) => NoneOld(b, g)
      /\ t[k].gen = g /\ OneOld(a, g) => OneOld(b, g)
  BY <1>1, AppendOld
<1> HIDE DEF u, b
<1>5. Straggle(a, {t[k]}, u, g)
  BY <1>2, <1>3 DEF Straggle
<1>6. Straggle(b, {}, u, g)
  BY <1>2, <1>3, <1>4 DEF Straggle
<1> QED BY <1>5, <1>6 DEF u, b

(* The response in hand goes to the audio queue, or back to the front.     *)
LEMMA HandOld ==
  ASSUME NEW a \in Seq(Item), NEW t \in Seq(Response), NEW x \in Response, NEW g,
         Straggle(a, {x}, t, g)
  PROVE  /\ Straggle(Append(a, AgentItem(x)), {}, t, g)
         /\ Straggle(a, {}, <<x>> \o t, g)
<1>1. AgentItem(x) \in Item /\ AgentItem(x).gen = x.gen
  BY ItemFacts DEF AgentItem
<1> DEFINE b == Append(a, AgentItem(x))
           u == <<x>> \o t
<1>2. /\ NoneOld(a, g) => OneOld(b, g)
      /\ x.gen = g /\ NoneOld(a, g) => NoneOld(b, g)
      /\ x.gen = g /\ OneOld(a, g) => OneOld(b, g)
  BY <1>1, AppendOld
<1>3. \A i \in DOMAIN u : \/ i = 1 /\ u[i] = x
                          \/ i \in Nat /\ i - 1 \in DOMAIN t /\ u[i] = t[i - 1]
  OBVIOUS
<1> HIDE DEF b, u
<1>4. Straggle(b, {}, t, g)
  BY <1>2 DEF Straggle
<1>5. CASE x.gen = g
  <2>1. OneOld(t, g) => OneOld(u, g)
    BY <1>3, <1>5 DEF OneOld
  <2>2. NoneOld(t, g) => NoneOld(u, g)
    BY <1>3, <1>5 DEF NoneOld
  <2> QED BY <1>4, <2>1, <2>2 DEF Straggle, b, u
<1>6. CASE x.gen # g
  <2>1. NoneOld(a, g) /\ NoneOld(t, g) /\ OneOld(a, g)
    BY <1>6 DEF Straggle
  <2>2. OneOld(u, g)
    BY <1>3, <2>1 DEF OneOld, NoneOld
  <2> QED BY <1>4, <2>1, <2>2 DEF Straggle, b, u
<1> QED BY <1>5, <1>6

(* The generations along the pipeline.                                     *)
Now(g) == {x \in Item : x.gen = g /\ x.speaker = "moderator"}
UpTo(g) == {x \in Item : x.gen <= g}
TextUpTo(g) == {r \in Response : r.gen <= g}
HandUp == IF InHand THEN {resp.hand} ELSE {}

Ages ==
  /\ gen = bargeIns
  /\ modQ \in Seq(Now(gen)) /\ agentQ \in Seq(UpTo(gen)) /\ respQ \in Seq(TextUpTo(gen))
  /\ HandUp \subseteq TextUpTo(gen)
  /\ Straggle(agentQ, HandUp, respQ, gen)

LEMMA AgesForm == Ages => OneStraggler
<1> SUFFICES ASSUME Ages PROVE OneStraggler
  OBVIOUS
<1>1. \A i \in DOMAIN modQ : ~Old(modQ[i])
  BY DEF Ages, Now, Old
<1>2. /\ \A i, j \in DOMAIN agentQ : Old(agentQ[i]) /\ Old(agentQ[j]) => i = j
      /\ \A i, j \in DOMAIN respQ : Old(respQ[i]) /\ Old(respQ[j]) => i = j
  BY DEF Ages, Straggle, OneOld, Old
<1>3. \/ \A i \in DOMAIN agentQ : ~Old(agentQ[i])
      \/ \A i \in DOMAIN respQ : ~Old(respQ[i])
  BY DEF Ages, Straggle, NoneOld, Old
<1>4. InHand /\ Old(resp.hand) => /\ \A i \in DOMAIN agentQ : ~Old(agentQ[i])
                                  /\ \A i \in DOMAIN respQ : ~Old(respQ[i])
  BY DEF Ages, Straggle, NoneOld, Old, HandUp
<1> QED BY <1>1, <1>2, <1>3, <1>4 DEF OneStraggler

LEMMA GenOrder ==
  /\ \A g \in Gen : g \in Nat
  /\ \A x \in Item : x.gen \in Nat
  /\ \A r \in Response : r.gen \in Nat /\ AgentItem(r).gen = r.gen
BY GenFacts DEF Item, Response, AgentItem

LEMMA TakeNextAges ==
  ASSUME TypeOK, Ages, TakeNext, UNCHANGED <<gen, bargeIns, respQ, resp>>
  PROVE  Ages'
<1>1. CASE modQ # <<>>
  <2>1. modQ' = Tail(modQ) /\ agentQ' = agentQ
    BY <1>1 DEF TakeNext
  <2>2. modQ' \in Seq(Now(gen))
    BY <1>1, <2>1 DEF Ages
  <2> QED BY <2>1, <2>2 DEF Ages, HandUp, InHand
<1>2. CASE modQ = <<>> /\ agentQ # <<>>
  <2>1. modQ' = modQ /\ agentQ' = Tail(agentQ)
    BY <1>2 DEF TakeNext
  <2>2. agentQ' \in Seq(UpTo(gen))
    BY <1>2, <2>1 DEF Ages
  <2>3. /\ NoneOld(agentQ, gen) => NoneOld(agentQ', gen)
        /\ OneOld(agentQ, gen) => OneOld(agentQ', gen)
    BY <1>2, <2>1, TailOld DEF Ages
  <2>4. Straggle(agentQ', HandUp, respQ, gen)
    BY <2>3 DEF Ages, Straggle
  <2> QED BY <2>1, <2>2, <2>4 DEF Ages, HandUp, InHand
<1>3. CASE modQ = <<>> /\ agentQ = <<>>
  BY <1>3 DEF TakeNext, Ages, HandUp, InHand
<1> QED BY <1>1, <1>2, <1>3

LEMMA ServeAges ==
  ASSUME TypeOK, Ages, Serve, UNCHANGED <<gen, bargeIns, modQ>>
  PROVE  Ages'
<1>0. /\ agentQ \in Seq(Item) /\ respQ \in Seq(Response)
      /\ Straggle(agentQ, {}, respQ, gen)
  BY DEF TypeOK, Ages, Straggle
<1>1. CASE respQ' = <<>> /\ resp' = Waiting /\ agentQ' = agentQ
  <2>1. HandUp' = {} /\ NoneOld(<<>>, gen) /\ OneOld(<<>>, gen) /\ <<>> \in Seq(TextUpTo(gen))
    BY <1>1 DEF HandUp, InHand, Waiting, NoneOld, OneOld
  <2>2. Straggle(agentQ, {}, <<>>, gen)
    BY <1>0, <2>1 DEF Straggle
  <2> QED BY <1>1, <2>1, <2>2 DEF Ages
<1>2. ASSUME NEW n \in DOMAIN respQ,
             respQ' = SubSeq(respQ, n + 1, Len(respQ)),
             \/ PlayResponse(respQ[n]) /\ resp' = Waiting
             \/ resp' = [pc |-> "tts", hand |-> respQ[n]] /\ agentQ' = agentQ
      PROVE  Ages'
  <2>1. respQ[n] \in TextUpTo(gen) /\ n \in 1 .. Len(respQ)
    BY DEF Ages
  <2>2. respQ' \in Seq(TextUpTo(gen))
    <3>1. \A i \in n + 1 .. Len(respQ) : respQ[i] \in TextUpTo(gen)
      BY <2>1 DEF Ages
    <3> QED BY <1>2, <2>1, <3>1, SubSeqProperties
  <2>3. /\ Straggle(agentQ, {respQ[n]}, respQ', gen)
        /\ Straggle(Append(agentQ, AgentItem(respQ[n])), {}, respQ', gen)
    BY <1>0, <1>2, ServeOld
  <2>4. CASE PlayResponse(respQ[n]) /\ resp' = Waiting
    <3>1. AgentItem(respQ[n]) \in UpTo(gen)
      BY <2>1, ItemFacts, GenOrder DEF UpTo, TextUpTo
    <3>2. agentQ' = Append(agentQ, AgentItem(respQ[n])) /\ HandUp' = {}
      BY <2>4 DEF PlayResponse, HandUp, InHand, Waiting
    <3>3. agentQ' \in Seq(UpTo(gen))
      BY <3>1, <3>2, AppendProperties DEF Ages
    <3> QED BY <1>2, <2>2, <2>3, <3>2, <3>3 DEF Ages
  <2>5. CASE resp' = [pc |-> "tts", hand |-> respQ[n]] /\ agentQ' = agentQ
    <3>1. HandUp' = {respQ[n]}
      BY <2>5 DEF HandUp, InHand
    <3> QED BY <1>2, <2>1, <2>2, <2>3, <2>5, <3>1 DEF Ages
  <2> QED BY <1>2, <2>4, <2>5
<1> QED BY <1>1, <1>2 DEF Serve

(* A flush empties the queues: everything is older than the new generation.*)
LEMMA BargeInAges ==
  ASSUME TypeOK, Ages, BargeIn, MaxBargeIns < GenMod
  PROVE  Ages' /\ modQ' = <<>>
<1>0. gen \in Nat /\ bargeIns' = gen + 1 /\ gen + 1 <= MaxBargeIns /\ MaxBargeIns \in Nat /\ GenMod \in Nat
  BY OutputAssumption, GenModAssumption, GenFacts DEF TypeOK, Ages, BargeIn
<1>1. gen' = gen + 1
  BY <1>0 DEF BargeIn, NextGen
<1>2. gen' \in Gen /\ modQ \in Seq(Item) /\ agentQ \in Seq(Item)
  BY GenFacts DEF TypeOK, BargeIn
<1>3. \A i \in DOMAIN modQ : modQ[i].gen < gen'
  <2> SUFFICES ASSUME NEW i \in DOMAIN modQ PROVE modQ[i].gen < gen'
    OBVIOUS
  <2>1. modQ[i].gen = gen
    BY DEF Ages, Now
  <2> QED BY <1>0, <1>1, <2>1
<1>4. \A i \in DOMAIN agentQ : agentQ[i].gen < gen'
  <2> SUFFICES ASSUME NEW i \in DOMAIN agentQ PROVE agentQ[i].gen < gen'
    OBVIOUS
  <2>1. agentQ[i].gen <= gen /\ agentQ[i].gen \in Nat
    <3>1. agentQ[i] \in UpTo(gen)
      BY DEF Ages
    <3> QED BY <3>1, GenOrder DEF UpTo
  <2> QED BY <1>0, <1>1, <2>1
<1>5. modQ' = <<>> /\ agentQ' = <<>>
  BY <1>2, <1>3, <1>4, FlushFacts DEF BargeIn
<1>6. respQ' = <<>> /\ HandUp' = HandUp
  BY DEF BargeIn, HandUp, InHand
<1>7. HandUp' \subseteq TextUpTo(gen')
  <2> SUFFICES ASSUME NEW r \in HandUp PROVE r \in TextUpTo(gen')
    BY <1>6
  <2>1. r \in Response /\ r.gen <= gen /\ r.gen \in Nat
    BY GenOrder DEF Ages, TextUpTo
  <2> QED BY <1>0, <1>1, <2>1 DEF TextUpTo
<1>8. /\ <<>> \in Seq(Now(gen')) /\ <<>> \in Seq(UpTo(gen')) /\ <<>> \in Seq(TextUpTo(gen'))
      /\ Straggle(<<>>, HandUp', <<>>, gen')
  BY DEF Straggle, NoneOld, OneOld
<1> QED BY <1>0, <1>1, <1>5, <1>6, <1>7, <1>8 DEF Ages

LEMMA AgesStep ==
  ASSUME MaxBargeIns < GenMod, TypeOK, Ages, [Next]_vars
  PROVE  Ages'
<1> USE DEF audio, responses, session
<1>0. /\ gen \in Gen /\ gen \in Nat /\ agentQ \in Seq(Item) /\ respQ \in Seq(Response)
      /\ issued \in 0 .. MaxResponses
  BY GenFacts DEF TypeOK
<1>a. ASSUME UNCHANGED <<gen, bargeIns, modQ, agentQ, respQ>>,
             resp' = resp \/ resp'.pc # "tts"
      PROVE  Ages'
  <2>1. HandUp' \subseteq HandUp
    BY <1>a DEF HandUp, InHand
  <2> QED BY <1>a, <2>1 DEF Ages, Straggle
<1>1. CASE EnqueueModerator
  <2> DEFINE x == [speaker |-> "moderator", id |-> 0, gen |-> gen]
  <2>1. x \in Now(gen) /\ modQ' = Append(modQ, x)
    BY <1>0, <1>1, ItemFacts DEF Now, EnqueueModerator
  <2> HIDE DEF x
  <2>2. modQ' \in Seq(Now(gen))
    BY <2>1, AppendProperties DEF Ages
  <2> QED BY <1>1, <2>2 DEF EnqueueModerator, Ages, HandUp, InHand
<1>2. CASE EnqueueAgentAudio
  <2> DEFINE x == [speaker |-> "agent", id |-> 0, gen |-> gen]
  <2>1. x \in Item /\ x.gen = gen /\ agentQ' = Append(agentQ, x)
    BY <1>0, <1>2, ItemFacts DEF EnqueueAgentAudio
  <2> HIDE DEF x
  <2>2. x \in UpTo(gen)
    BY <1>0, <2>1 DEF UpTo
  <2>3. agentQ' \in Seq(UpTo(gen))
    BY <2>1, <2>2, AppendProperties DEF Ages
  <2>4. Straggle(agentQ', HandUp, respQ, gen)
    BY <1>0, <2>1, AppendOld DEF Ages, Straggle
  <2> QED BY <1>2, <2>3, <2>4 DEF EnqueueAgentAudio, Ages, HandUp, InHand
<1>3. CASE EnqueueResponse(gen)
  <2> DEFINE r == [id |-> issued + 1, gen |-> gen]
             kept == IF QueueFull THEN Tail(respQ) ELSE respQ
  <2>1. respQ' = Append(kept, r) /\ issued < MaxResponses /\ UNCHANGED <<gen, bargeIns, modQ, agentQ, resp>>
    BY <1>3 DEF EnqueueResponse
  <2>2. r \in TextUpTo(gen) /\ r.gen = gen
    BY <1>0, <2>1, OutputAssumption DEF TextUpTo, Response
  <2>3. QueueFull => respQ # <<>>
    BY <1>0, OutputAssumption DEF QueueFull
  <2>4. /\ kept \in Seq(TextUpTo(gen))
        /\ NoneOld(respQ, gen) => NoneOld(kept, gen)
        /\ OneOld(respQ, gen) => OneOld(kept, gen)
    BY <1>0, <2>3, TailOld DEF Ages
  <2> HIDE DEF r, kept
  <2>5. respQ' \in Seq(TextUpTo(gen))
    BY <2>1, <2>2, <2>4, AppendProperties
  <2>6. /\ NoneOld(kept, gen) => NoneOld(respQ', gen)
        /\ OneOld(kept, gen) => OneOld(respQ', gen)
    BY <2>1, <2>2, <2>4, AppendOld
  <2>7. Straggle(agentQ, HandUp, respQ', gen)
    BY <2>4, <2>6 DEF Ages, Straggle
  <2> QED BY <2>1, <2>5, <2>7 DEF Ages, HandUp, InHand
<1>4. CASE Disconnect \/ (\E r \in 1 .. MaxResponses : TtsDone(r) \/ TtsFail(r)) \/ UNCHANGED vars
  BY <1>4, <1>a DEF Disconnect, TtsDone, TtsFail, vars
<1>5. CASE DrainWake \/ FinishModerator \/ DrainAgentDone
  BY <1>5, TakeNextAges DEF DrainWake, FinishModerator, DrainAgentDone
<1>6. CASE DrainAnnounced \/ SendFrame \/ FinishAgent \/ DrainIdle \/ StopDrain
  BY <1>6, <1>a DEF DrainAnnounced, SendFrame, FinishAgent, DrainIdle, StopDrain
<1>7. CASE ResponseWake \/ ResponseCancelled
  <2>1. UNCHANGED <<gen, bargeIns, modQ>>
    BY <1>7 DEF ResponseWake, ResponseCancelled
  <2>2. Serve \/ (UNCHANGED <<respQ, agentQ>> /\ (resp' = resp \/ resp' = Waiting))
    BY <1>7 DEF ResponseWake, ResponseCancelled
  <2> QED BY <1>a, <2>1, <2>2, ServeAges DEF Waiting
<1>8. CASE ResponseResume
  <2>1. UNCHANGED <<gen, bargeIns, modQ>> /\ HandUp = {resp.hand} /\ resp.hand \in Response
    BY <1>8 DEF ResponseResume, HandUp, InHand, TypeOK
  <2>2. resp.hand \in TextUpTo(gen) /\ Straggle(agentQ, {resp.hand}, respQ, gen)
    BY <2>1 DEF Ages
  <2>3. /\ Straggle(Append(agentQ, AgentItem(resp.hand)), {}, respQ, gen)
        /\ Straggle(agentQ, {}, <<resp.hand>> \o respQ, gen)
    BY <1>0, <2>1, <2>2, HandOld
  <2>4. resp' = Waiting => HandUp' = {}
    BY DEF Waiting, HandUp, InHand
  <2>5. CASE respQ' = PutBack(resp.hand) /\ resp' = Waiting /\ agentQ' = agentQ
    <3>1. respQ' \in Seq(TextUpTo(gen))
      BY <2>2, <2>5 DEF PutBack, Ages
    <3> QED BY <2>1, <2>3, <2>4, <2>5, <3>1 DEF PutBack, Ages
  <2>6. CASE PlayResponse(resp.hand) /\ resp' = Waiting /\ respQ' = respQ
    <3>1. AgentItem(resp.hand) \in UpTo(gen)
      BY <2>2, ItemFacts, GenOrder DEF UpTo, TextUpTo
    <3>2. agentQ' \in Seq(UpTo(gen))
      BY <2>6, <3>1, AppendProperties DEF PlayResponse, Ages
    <3> QED BY <2>1, <2>3, <2>4, <2>6, <3>2 DEF PlayResponse, Ages
  <2> QED BY <1>8, <2>1, <2>5, <2>6, ServeAges DEF ResponseResume
<1>9. CASE BargeIn
  BY <1>9, BargeInAges
<1>10. CASE StopResponse
  BY <1>10, <1>a DEF StopResponse, Waiting
<1>11. CASE StopEnd
  <2>1. respQ' = <<>> /\ UNCHANGED <<gen, bargeIns, modQ, agentQ, resp>>
    BY <1>11 DEF StopEnd
  <2>2. NoneOld(<<>>, gen) /\ OneOld(<<>>, gen) /\ <<>> \in Seq(TextUpTo(gen))
    BY DEF NoneOld, OneOld
  <2>3. Straggle(agentQ, HandUp, <<>>, gen)
    BY <2>2 DEF Ages, Straggle
  <2> QED BY <2>1, <2>2, <2>3 DEF Ages, HandUp, InHand
<1> QED
  BY <1>1, <1>2, <1>3, <1>4, <1>5, <1>6, <1>7, <1>8, <1>9, <1>10, <1>11
  DEF Next, Drain, RespondLoop, Stop

LEMMA AgesStart == Init => Ages
<1> SUFFICES ASSUME Init PROVE Ages
  OBVIOUS
<1>1. HandUp = {} /\ modQ = <<>> /\ agentQ = <<>> /\ respQ = <<>> /\ gen = 0 /\ bargeIns = 0
  BY DEF Init, HandUp, InHand
<1> QED BY <1>1 DEF Ages, Straggle, NoneOld, OneOld

(* Behind a barge-in at most the response whose TTS was being awaited is   *)
(* left, wherever it goes from there, and no moderator audio               *)
(* (output_controller.py:254-274, 388-411), until the generation wraps.    *)
THEOREM OneStragglerOnly ==
  ASSUME MaxBargeIns < GenMod
  PROVE  Spec => []OneStraggler
<1>1. TypeOK /\ Ages /\ [Next]_vars => Ages'
  BY AgesStep
<1> QED BY AgesStart, <1>1, AgesForm, TypeCorrect, PTL DEF Spec

-----------------------------------------------------------------------------
(* Moderator audio that goes out undisturbed is of the current generation. *)
FreshSending ==
  drain.pc = "send" /\ drain.item.speaker = "moderator" /\ ~flushed
    => drain.item.gen = gen

LEMMA TakeNextFresh ==
  ASSUME Ages, TakeNext, gen' = gen
  PROVE  /\ FreshSending'
         /\ drain'.pc = "send" => drain'.item.gen = gen
<1>1. CASE modQ # <<>>
  <2>1. drain' = [pc |-> "send", item |-> Head(modQ), sent |-> 1] /\ Head(modQ) \in Now(gen)
    BY <1>1 DEF TakeNext, StartSending, Suspend, Ages
  <2> QED BY <2>1 DEF FreshSending, Now
<1>2. CASE modQ = <<>>
  <2>1. drain'.pc # "send"
    BY <1>2 DEF TakeNext, Suspend
  <2> QED BY <2>1 DEF FreshSending
<1> QED BY <1>1, <1>2

LEMMA FreshStep ==
  ASSUME TypeOK, Ages, Speakers, FreshSending, [Next]_vars
  PROVE  /\ FreshSending'
         /\ FrameWritten /\ drain'.item.speaker = "moderator" => drain'.item.gen = gen
<1> DEFINE Goal == /\ FreshSending'
                   /\ FrameWritten /\ drain'.item.speaker = "moderator" => drain'.item.gen = gen
<1> USE DEF audio, responses, session
<1>a. ASSUME UNCHANGED <<drain, flushed, gen>> PROVE Goal
  BY <1>a, Zenon DEF FreshSending, FrameWritten
<1>1. CASE DrainWake \/ FinishModerator \/ DrainAgentDone
  <2>1. TakeNext /\ gen' = gen
    BY <1>1 DEF DrainWake, FinishModerator, DrainAgentDone
  <2>2. FreshSending' /\ (drain'.pc = "send" => drain'.item.gen = gen)
    BY <2>1, TakeNextFresh
  <2> QED BY <2>2, Zenon DEF FrameWritten
<1>2. CASE DrainAnnounced
  <2>1. drain'.item = drain.item /\ drain.item.speaker = "agent"
    BY <1>2 DEF DrainAnnounced, StartSending, Suspend, Speakers
  <2> QED BY <2>1 DEF FreshSending
<1>3. CASE SendFrame
  <2>1. /\ drain.pc = "send" /\ drain'.item = drain.item /\ gen' = gen
        /\ ~flushed /\ flushed' = flushed
    BY <1>3 DEF SendFrame, Suspend
  <2>2. drain.item.speaker = "moderator" => drain.item.gen = gen
    BY <2>1, Zenon DEF FreshSending
  <2> QED BY <2>1, <2>2 DEF FreshSending
<1>4. CASE FinishAgent \/ DrainIdle \/ StopDrain
  <2>1. drain'.pc # "send"
    BY <1>4 DEF FinishAgent, DrainIdle, StopDrain, Suspend
  <2> QED BY <2>1 DEF FreshSending, FrameWritten
<1>5. CASE BargeIn
  <2>1. flushed' /\ drain' = drain
    BY <1>5, Zenon DEF BargeIn
  <2> QED BY <2>1, Zenon DEF FreshSending, FrameWritten
<1>6. CASE \/ EnqueueModerator \/ EnqueueAgentAudio \/ EnqueueResponse(gen)
           \/ \E r \in 1 .. MaxResponses : TtsDone(r) \/ TtsFail(r)
  BY <1>6, <1>a DEF EnqueueModerator, EnqueueAgentAudio, EnqueueResponse, TtsDone, TtsFail
<1>7. CASE RespondLoop \/ Disconnect \/ StopResponse \/ StopEnd \/ UNCHANGED vars
  BY <1>7, <1>a
  DEF RespondLoop, ResponseWake, ResponseResume, ResponseCancelled, Disconnect, StopResponse,
      StopEnd, vars
<1> QED
  BY <1>1, <1>2, <1>3, <1>4, <1>5, <1>6, <1>7 DEF Next, Drain, Stop

(* Once a barge-in is confirmed no frame of older moderator audio is       *)
(* written, although the flush only empties queues and raises a flag       *)
(* (output_controller.py:254-274, 462-484), until the generation wraps.    *)
THEOREM ModeratorFallsSilent ==
  ASSUME MaxBargeIns < GenMod
  PROVE  Spec => ModeratorSilenced
<1>1. Init => Speakers /\ Turn /\ FreshSending
  BY DEF Init, Speakers, Turn, FreshSending
<1>2. TypeOK /\ Ages /\ [Next]_vars => Ages'
  BY AgesStep
<1>3. TypeOK /\ Speakers /\ Turn /\ [Next]_vars => Speakers' /\ Turn'
  BY TurnStep
<1>4. TypeOK /\ Ages /\ Speakers /\ FreshSending /\ [Next]_vars
        => /\ FreshSending'
           /\ [FrameWritten /\ drain'.item.speaker = "moderator" => drain'.item.gen = gen]_vars
  BY FreshStep
<1> QED BY AgesStart, <1>1, <1>2, <1>3, <1>4, TypeCorrect, PTL DEF Spec, ModeratorSilenced

-----------------------------------------------------------------------------
(* OutputController implements ResponseDelivery.  The identifiers in a     *)
(* queue after each thing that happens to a queue:                         *)

LEMMA IdsOf ==
  /\ Ids(<<>>) = {}
  /\ \A q, x : x \in Ids(q) <=> \E i \in DOMAIN q : q[i].id = x
  BY DEF Ids

LEMMA IdsAppend ==
  ASSUME NEW T, NEW q \in Seq(T), NEW x \in T
  PROVE  Ids(Append(q, x)) = Ids(q) \cup {x.id}
<1> DEFINE b == Append(q, x)
<1>1. /\ DOMAIN b = 1 .. Len(q) + 1 /\ DOMAIN q = 1 .. Len(q) /\ Len(q) \in Nat
      /\ \A i \in DOMAIN q : b[i] = q[i]
      /\ b[Len(q) + 1] = x
  BY AppendProperties
<1> HIDE DEF b
<1>2. DOMAIN b = DOMAIN q \cup {Len(q) + 1}
  BY <1>1
<1>3. Ids(b) = Ids(q) \cup {x.id}
  BY <1>1, <1>2 DEF Ids
<1> QED BY <1>3 DEF b

LEMMA IdsTail ==
  ASSUME NEW T, NEW q \in Seq(T), q # <<>>
  PROVE  Ids(q) = {Head(q).id} \cup Ids(Tail(q))
<1> DEFINE b == Tail(q)
<1>1. /\ DOMAIN b = 1 .. Len(q) - 1 /\ DOMAIN q = 1 .. Len(q) /\ Len(q) \in Nat
      /\ Len(q) >= 1 /\ Head(q) = q[1]
      /\ \A i \in DOMAIN b : b[i] = q[i + 1]
  OBVIOUS
<1> HIDE DEF b
<1>2. ASSUME NEW i \in DOMAIN q PROVE i = 1 \/ (i - 1 \in DOMAIN b /\ b[i - 1] = q[i])
  BY <1>1
<1>3. ASSUME NEW i \in DOMAIN b PROVE i + 1 \in DOMAIN q /\ b[i] = q[i + 1]
  BY <1>1
<1>4. Ids(q) \subseteq {Head(q).id} \cup Ids(b)
  BY <1>1, <1>2 DEF Ids
<1>5. {Head(q).id} \cup Ids(b) \subseteq Ids(q)
  BY <1>1, <1>3 DEF Ids
<1> QED BY <1>4, <1>5 DEF b

LEMMA IdsSuffix ==
  ASSUME NEW t \in Seq(Response), NEW k \in DOMAIN t
  PROVE  /\ Ids(SubSeq(t, k + 1, Len(t))) \subseteq Ids(t)
         /\ t[k].id \in Ids(t)
         /\ \A i \in DOMAIN t : i > k => t[i].id \in Ids(SubSeq(t, k + 1, Len(t)))
<1> DEFINE u == SubSeq(t, k + 1, Len(t))
<1>1. k \in 1 .. Len(t) /\ Len(t) \in Nat /\ DOMAIN t = 1 .. Len(t)
  OBVIOUS
<1>2. \A i \in k + 1 .. Len(t) : t[i] \in Response
  BY <1>1
<1>3. /\ Len(u) = Len(t) - k /\ u \in Seq(Response)
      /\ \A i \in 1 .. Len(t) - (k + 1) + 1 : u[i] = t[(k + 1) + i - 1]
  BY <1>1, <1>2, SubSeqProperties
<1> HIDE DEF u
<1>4. ASSUME NEW i \in DOMAIN u PROVE k + i \in DOMAIN t /\ u[i] = t[k + i]
  <2>1. i \in 1 .. Len(t) - (k + 1) + 1 /\ (k + 1) + i - 1 = k + i
    BY <1>1, <1>3
  <2> QED BY <1>1, <1>3, <2>1
<1>5. Ids(u) \subseteq Ids(t)
  BY <1>4 DEF Ids
<1>6. ASSUME NEW i \in DOMAIN t, i > k PROVE t[i].id \in Ids(u)
  <2>1. i - k \in DOMAIN u /\ k + (i - k) = i
    BY <1>1, <1>3, <1>6
  <2>2. u[i - k] = t[i]
    BY <1>4, <2>1
  <2> QED BY <2>1, <2>2, IdsOf
<1> QED BY <1>5, <1>6, IdsOf DEF u

LEMMA IdsCons ==
  ASSUME NEW r \in Response, NEW t \in Seq(Response)
  PROVE  Ids(<<r>> \o t) = {r.id} \cup Ids(t)
<1> DEFINE u == <<r>> \o t
<1>1. /\ DOMAIN u = 1 .. Len(t) + 1 /\ DOMAIN t = 1 .. Len(t) /\ Len(t) \in Nat
      /\ u[1] = r
      /\ \A i \in DOMAIN t : u[i + 1] = t[i]
  OBVIOUS
<1> HIDE DEF u
<1>2. ASSUME NEW i \in DOMAIN u PROVE i = 1 \/ (i - 1 \in DOMAIN t /\ u[i] = t[i - 1])
  BY <1>1
<1>3. ASSUME NEW i \in DOMAIN t PROVE i + 1 \in DOMAIN u /\ u[i + 1] = t[i]
  BY <1>1
<1>4. Ids(u) \subseteq {r.id} \cup Ids(t)
  BY <1>1, <1>2 DEF Ids
<1>5. {r.id} \cup Ids(t) \subseteq Ids(u)
  <2>1. 1 \in DOMAIN u
    BY <1>1
  <2> QED BY <1>1, <1>3, <2>1 DEF Ids
<1> QED BY <1>4, <1>5 DEF u

LEMMA IdsKept ==
  ASSUME NEW q \in Seq(Item), NEW g
  PROVE  Ids(KeptByFlush(q, g)) \subseteq Ids(q)
<1> DEFINE S == {i \in DOMAIN q : q[i].gen >= g}
           b == Select(q, S)
<1>1. S \in SUBSET (DOMAIN q)
  OBVIOUS
<1> HIDE DEF S
<1>2. \A k \in DOMAIN b : Nth(S, k) \in DOMAIN q /\ b[k] = q[Nth(S, k)]
  BY <1>1, SelectProperties
<1> HIDE DEF b
<1>3. Ids(b) \subseteq Ids(q)
  BY <1>2 DEF Ids
<1> QED BY <1>3 DEF b, S, KeptByFlush

-----------------------------------------------------------------------------
(* What waits in the abstract specification.                               *)

Positive(q) == {id \in Ids(q) : id > 0}

LEMMA QueuedForm ==
  /\ Queued = Ids(respQ) \cup Hand \cup Positive(agentQ)
  /\ Queued' = Ids(respQ') \cup Hand' \cup Positive(agentQ')
  BY DEF Queued, Unserved, Hand, Positive, Ids

LEMMA WaitingIsLater ==
  /\ PipelineOrdered => \A r \in Queued : spoken < r
  /\ PipelineOrdered' => \A r \in Queued' : spoken' < r
  BY PipelineForm, QueuedForm, IdsOf DEF Pipeline, HandFits, Bounded, Positive

LEMMA SameCount == Delivery!Cardinality(Queued) = Cardinality(Queued)
  BY DEF Delivery!Cardinality, Cardinality, Delivery!IsFiniteSet, IsFiniteSet

LEMMA ExcusedWait == Excused' \in SUBSET Queued'
  BY DEF Excused

(* The four kinds of steps, and none.                                      *)
LEMMA DropStep ==
  ASSUME Queued' \subseteq Queued, Queued \ Queued' \subseteq Excused,
         UNCHANGED <<issued, spoken, bargeIns>>
  PROVE  Delivery!Next
  BY ExcusedWait DEF Delivery!Next, Delivery!Drop

LEMMA NoStep ==
  ASSUME Queued' = Queued, UNCHANGED <<issued, spoken, bargeIns>>
  PROVE  Delivery!Next
  BY DropStep

LEMMA InterruptStep ==
  ASSUME Queued' \subseteq Queued, bargeIns' = bargeIns + 1, UNCHANGED <<issued, spoken>>
  PROVE  Delivery!Next
  BY ExcusedWait DEF Delivery!Next, Delivery!Interrupt

LEMMA SubmitStep ==
  ASSUME issued' = issued + 1, spoken' = spoken, bargeIns' = bargeIns,
         issued + 1 \in Queued', Queued' \subseteq Queued \cup {issued + 1},
         \A r, q \in Queued \ Queued' : r = q,
         Queued \ Queued' # {} => Cardinality(Queued) >= ResponseQueueMax
  PROVE  Delivery!Next
<1> DEFINE lost == Queued \ Queued'
<1>1. /\ lost \in SUBSET Queued
      /\ Queued' = (Queued \ lost) \cup {issued + 1}
      /\ \A r, q \in lost : r = q
      /\ lost # {} => Delivery!Cardinality(Queued) >= ResponseQueueMax
  BY SameCount
<1> HIDE DEF lost
<1> QED BY <1>1, ExcusedWait DEF Delivery!Next, Delivery!Submit

LEMMA SpeakStep ==
  ASSUME PipelineOrdered', spoken' \in Nat, Queued \in SUBSET Nat,
         spoken' \in Queued, Queued = Queued' \cup {spoken'},
         issued' = issued, bargeIns' = bargeIns
  PROVE  Delivery!Next
<1>1. \A r \in Queued' : spoken' < r
  BY WaitingIsLater
<1>2. Queued' = Queued \ {spoken'}
  BY <1>1
<1>3. \A r \in Queued : spoken' <= r
  BY <1>1
<1> QED BY <1>2, <1>3, ExcusedWait DEF Delivery!Next, Delivery!Speak

-----------------------------------------------------------------------------
(* The actions.                                                            *)

LEMMA HandKept == resp' = resp => Hand' = Hand
  BY DEF Hand, InHand

LEMMA HandEmpty == resp' = Waiting => Hand' = {}
  BY DEF Hand, InHand, Waiting

LEMMA QueuedType == TypeOK => Queued \in SUBSET Nat
<1> SUFFICES ASSUME TypeOK PROVE Queued \in SUBSET Nat
  OBVIOUS
<1>1. Ids(respQ) \in SUBSET Nat /\ Ids(agentQ) \in SUBSET Nat
  BY PipelineTypes, ItemIds DEF Ids
<1> QED BY <1>1, PipelineTypes, QueuedForm DEF Positive

LEMMA TakeNextDelivers ==
  ASSUME TypeOK, PipelineOrdered', TakeNext, UNCHANGED <<resp, respQ, issued, bargeIns>>
  PROVE  [Delivery!Next]_(Delivery!dvars)
<1>1. Hand' = Hand
  BY HandKept
<1>2. CASE agentQ' = agentQ /\ spoken' = spoken
  BY <1>1, <1>2, NoStep, QueuedForm
<1>3. CASE /\ agentQ # <<>> /\ agentQ' = Tail(agentQ)
           /\ spoken' = IF Head(agentQ).id > 0 THEN Head(agentQ).id ELSE spoken
  <2> DEFINE r == Head(agentQ).id
  <2>1. Ids(agentQ) = {r} \cup Ids(agentQ') /\ r \in Nat
    <3>1. Head(agentQ) \in Item
      BY <1>3, PipelineTypes
    <3> QED BY <1>3, <3>1, IdsTail, ItemIds, PipelineTypes
  <2>2. CASE r > 0
    <3>1. Positive(agentQ) = Positive(agentQ') \cup {r} /\ spoken' = r
      BY <1>3, <2>1, <2>2 DEF Positive
    <3> HIDE DEF r
    <3>2. Queued = Queued' \cup {spoken'} /\ spoken' \in Queued
      BY <1>1, <3>1, QueuedForm
    <3> QED BY <2>1, <3>1, <3>2, QueuedType, SpeakStep
  <2>3. CASE ~(r > 0)
    <3>1. Positive(agentQ) = Positive(agentQ') /\ spoken' = spoken
      BY <1>3, <2>1, <2>3 DEF Positive
    <3> QED BY <1>1, <3>1, NoStep, QueuedForm
  <2> QED BY <2>2, <2>3
<1> QED BY <1>2, <1>3 DEF TakeNext

(* Playing a response only moves it within the pipeline.                   *)
LEMMA PlayKeeps ==
  ASSUME TypeOK, NEW r \in Response, PlayResponse(r)
  PROVE  Positive(agentQ') = Positive(agentQ) \cup {r.id}
<1>1. AgentItem(r) \in Item /\ AgentItem(r).id = r.id /\ r.id > 0
  BY ItemFacts, ItemIds
<1>2. agentQ' = Append(agentQ, AgentItem(r))
  BY DEF PlayResponse
<1>3. Ids(agentQ') = Ids(agentQ) \cup {r.id}
  BY <1>1, <1>2, IdsAppend, PipelineTypes
<1> QED BY <1>1, <1>3 DEF Positive

(* What the response loop skips is excused.                                *)
LEMMA SkippedExcused ==
  ASSUME TypeOK, NEW i \in DOMAIN respQ, Discarded(respQ[i])
  PROVE  respQ[i].id \in Excused
<1>1. respQ[i].id \in Queued
  BY QueuedForm, IdsOf
<1>2. IsStale(respQ[i].gen, gen) => Old(respQ[i])
  <2>1. gen \in Int
    BY GenModAssumption DEF TypeOK, Gen
  <2> QED BY <2>1 DEF IsStale, Age, Old
<1> QED BY <1>1, <1>2 DEF Excused, Discarded

LEMMA ServeDelivers ==
  ASSUME TypeOK, Serve
  PROVE  Queued' \subseteq Queued /\ Queued \ Queued' \subseteq Excused \cup Hand
<1>1. CASE /\ \A i \in DOMAIN respQ : Discarded(respQ[i])
           /\ respQ' = <<>> /\ resp' = Waiting /\ agentQ' = agentQ
  <2>1. Ids(respQ) \subseteq Excused
    BY <1>1, IdsOf, SkippedExcused
  <2> QED BY <1>1, <2>1, HandEmpty, QueuedForm, IdsOf
<1>2. ASSUME NEW n \in DOMAIN respQ, \A i \in 1 .. n - 1 : Discarded(respQ[i]),
             respQ' = SubSeq(respQ, n + 1, Len(respQ))
      PROVE  /\ Ids(respQ') \subseteq Ids(respQ)
             /\ respQ[n].id \in Ids(respQ) /\ respQ[n] \in Response
             /\ Ids(respQ) \subseteq Ids(respQ') \cup {respQ[n].id} \cup Excused
  <2>1. respQ \in Seq(Response) /\ DOMAIN respQ = 1 .. Len(respQ) /\ Len(respQ) \in Nat
    BY PipelineTypes
  <2>2. ASSUME NEW i \in DOMAIN respQ
        PROVE  respQ[i].id \in Ids(respQ') \cup {respQ[n].id} \cup Excused
    <3>1. CASE i < n
      <4>1. Discarded(respQ[i])
        BY <1>2, <2>1, <3>1
      <4> QED BY <4>1, SkippedExcused
    <3>2. CASE i > n
      BY <1>2, <2>1, <3>2, IdsSuffix
    <3> QED BY <2>1, <3>1, <3>2
  <2>3. Ids(respQ) \subseteq Ids(respQ') \cup {respQ[n].id} \cup Excused
    BY <2>2, IdsOf
  <2> QED BY <1>2, <2>1, <2>3, IdsSuffix
<1>3. ASSUME NEW n \in DOMAIN respQ, \A i \in 1 .. n - 1 : Discarded(respQ[i]),
             respQ' = SubSeq(respQ, n + 1, Len(respQ)),
             PlayResponse(respQ[n]), resp' = Waiting
      PROVE  Queued' \subseteq Queued /\ Queued \ Queued' \subseteq Excused \cup Hand
  BY <1>2, <1>3, HandEmpty, PlayKeeps, QueuedForm
<1>4. ASSUME NEW n \in DOMAIN respQ, \A i \in 1 .. n - 1 : Discarded(respQ[i]),
             respQ' = SubSeq(respQ, n + 1, Len(respQ)),
             agentQ' = agentQ, resp' = [pc |-> "tts", hand |-> respQ[n]]
      PROVE  Queued' \subseteq Queued /\ Queued \ Queued' \subseteq Excused \cup Hand
  <2>1. Hand' = {respQ[n].id}
    BY <1>4 DEF Hand, InHand
  <2> QED BY <1>2, <1>4, <2>1, QueuedForm
<1> QED BY <1>1, <1>3, <1>4 DEF Serve

(* A full queue of responses is one of that many.                          *)
LEMMA FullQueue ==
  ASSUME TypeOK, PipelineOrdered, QueueFull
  PROVE  Cardinality(Queued) >= ResponseQueueMax
<1> DEFINE f == [i \in DOMAIN respQ |-> respQ[i].id]
<1>1. respQ \in Seq(Response) /\ DOMAIN respQ = 1 .. Len(respQ) /\ Len(respQ) \in Nat
  BY PipelineTypes
<1>2. IsFiniteSet(Queued)
  <2>1. Queued \in SUBSET (1 .. issued)
    <3>1. issued \in Nat /\ Queued \in SUBSET Nat
      BY OutputAssumption, QueuedType DEF TypeOK
    <3>2. /\ \A r \in Ids(respQ) : r > 0 /\ r <= issued
          /\ \A r \in Positive(agentQ) : r > 0 /\ r <= issued
      BY ItemIds, PipelineTypes DEF PipelineOrdered, BehindSpoken, Ids, Positive
    <3>3. \A r \in Hand : r > 0 /\ r <= issued
      <4>1. InHand => resp.hand.id > 0
        BY ItemIds DEF TypeOK, InHand
      <4> QED BY <4>1 DEF PipelineOrdered, BehindSpoken, Hand
    <3>4. \A r \in Queued : r > 0 /\ r <= issued
      BY <3>2, <3>3, QueuedForm
    <3> QED BY <3>1, <3>4
  <2>2. IsFiniteSet(1 .. issued)
    <3>1. issued \in Nat
      BY OutputAssumption DEF TypeOK
    <3> QED BY <3>1, FS_Interval
  <2> QED BY <2>1, <2>2, FS_Subset
<1>3. f \in [DOMAIN respQ -> Queued]
  BY QueuedForm, IdsOf
<1>4. ASSUME NEW i \in DOMAIN respQ, NEW j \in DOMAIN respQ, i # j
      PROVE  f[i] # f[j]
  <2>1. i < j \/ j < i
    BY <1>1, <1>4
  <2>2. respQ[i].id \in Int /\ respQ[j].id \in Int
    BY <1>1, ItemIds
  <2> QED BY <2>1, <2>2 DEF PipelineOrdered, TextOrdered
<1>5. f \in Injection(DOMAIN respQ, Queued)
  <2> HIDE DEF f
  <2> QED BY <1>3, <1>4 DEF Injection, IsInjective
<1>6. Cardinality(DOMAIN respQ) <= Cardinality(Queued)
  <2> HIDE DEF f
  <2> QED BY <1>2, <1>5, FS_Injection
<1>7. Cardinality(DOMAIN respQ) = Len(respQ)
  BY <1>1, FS_Interval
<1>8. Cardinality(Queued) \in Nat
  BY <1>2, FS_CardinalityType
<1>9. Len(respQ) <= Cardinality(Queued)
  BY <1>6, <1>7, Zenon
<1> HIDE DEF f
<1> QED BY <1>1, <1>8, <1>9, OutputAssumption DEF QueueFull

LEMMA DeliveryStep ==
  TypeOK /\ PipelineOrdered /\ [Next]_vars => [Delivery!Next]_(Delivery!dvars)
<1> SUFFICES ASSUME TypeOK, PipelineOrdered, [Next]_vars
             PROVE  [Delivery!Next]_(Delivery!dvars)
  OBVIOUS
<1> USE DEF audio, responses, session
<1>0. PipelineOrdered'
  BY OrderedStep
<1>a. ASSUME UNCHANGED <<agentQ, resp, respQ, spoken, issued, bargeIns>>
      PROVE  [Delivery!Next]_(Delivery!dvars)
  BY <1>a, HandKept, NoStep, QueuedForm
<1>1. CASE EnqueueModerator
  BY <1>1, <1>a DEF EnqueueModerator
<1>2. CASE EnqueueAgentAudio
  <2> DEFINE x == [speaker |-> "agent", id |-> 0, gen |-> gen]
  <2>1. x \in Item /\ x.id = 0
    BY ItemFacts DEF TypeOK
  <2>2. agentQ' = Append(agentQ, x) /\ UNCHANGED <<resp, respQ, spoken, issued, bargeIns>>
    BY <1>2 DEF EnqueueAgentAudio
  <2> HIDE DEF x
  <2>3. Ids(agentQ') = Ids(agentQ) \cup {0}
    BY <2>1, <2>2, IdsAppend, PipelineTypes
  <2>4. Positive(agentQ') = Positive(agentQ)
    BY <2>3 DEF Positive
  <2> QED BY <2>2, <2>4, HandKept, NoStep, QueuedForm
<1>3. CASE EnqueueResponse(gen)
  <2> DEFINE r == [id |-> issued + 1, gen |-> gen]
             kept == IF QueueFull THEN Tail(respQ) ELSE respQ
  <2>1. r \in Response /\ r.id = issued + 1
    <3>1. issued + 1 \in 1 .. MaxResponses
      BY <1>3, OutputAssumption DEF EnqueueResponse, TypeOK
    <3> QED BY <3>1 DEF TypeOK, Response
  <2>2. /\ respQ' = Append(kept, r) /\ issued' = issued + 1
        /\ UNCHANGED <<agentQ, resp, spoken, bargeIns>>
    BY <1>3 DEF EnqueueResponse
  <2>3. /\ Ids(kept) \subseteq Ids(respQ) /\ kept \in Seq(Response)
        /\ IF QueueFull THEN Ids(respQ) = {Head(respQ).id} \cup Ids(kept)
                        ELSE Ids(respQ) = Ids(kept)
    <3>1. CASE QueueFull
      <4>1. respQ # <<>>
        BY <3>1, OutputAssumption, PipelineTypes DEF QueueFull
      <4>2. Ids(respQ) = {Head(respQ).id} \cup Ids(Tail(respQ)) /\ Tail(respQ) \in Seq(Response)
        BY <4>1, IdsTail, PipelineTypes
      <4> QED BY <3>1, <4>2
    <3> QED BY <3>1, PipelineTypes
  <2> HIDE DEF r, kept
  <2>4. Ids(respQ') = Ids(kept) \cup {issued + 1}
    BY <2>1, <2>2, <2>3, IdsAppend
  <2>5. issued + 1 \in Queued' /\ Queued' \subseteq Queued \cup {issued + 1}
    BY <2>2, <2>3, <2>4, HandKept, QueuedForm
  <2>6. /\ \A x, y \in Queued \ Queued' : x = y
        /\ Queued \ Queued' # {} => QueueFull
    BY <2>2, <2>3, <2>4, HandKept, QueuedForm
  <2> QED BY <2>2, <2>5, <2>6, FullQueue, SubmitStep
<1>4. ASSUME NEW r \in 1 .. MaxResponses, TtsDone(r) \/ TtsFail(r)
      PROVE  [Delivery!Next]_(Delivery!dvars)
  BY <1>4, <1>a DEF TtsDone, TtsFail
<1>5. CASE Drain
  <2>1. CASE DrainWake
    BY <1>0, <2>1, TakeNextDelivers DEF DrainWake
  <2>2. CASE DrainAnnounced \/ SendFrame \/ FinishAgent \/ DrainIdle
    BY <2>2, <1>a DEF DrainAnnounced, SendFrame, FinishAgent, DrainIdle
  <2>3. CASE FinishModerator
    BY <1>0, <2>3, TakeNextDelivers DEF FinishModerator
  <2>4. CASE DrainAgentDone
    BY <1>0, <2>4, TakeNextDelivers DEF DrainAgentDone
  <2> QED BY <1>5, <2>1, <2>2, <2>3, <2>4 DEF Drain
<1>6. CASE RespondLoop
  <2>0. UNCHANGED <<spoken, issued, bargeIns>>
    BY <1>6 DEF RespondLoop, ResponseWake, ResponseResume, ResponseCancelled
  <2>1. CASE ResponseWake
    <3>1. CASE Serve
      <4>1. Hand = {}
        BY <2>1 DEF ResponseWake, Hand, InHand
      <4> QED BY <2>0, <3>1, <4>1, ServeDelivers, DropStep
    <3>2. CASE UNCHANGED <<respQ, tts, resp, agentQ, drainSet>>
      BY <2>0, <3>2, <1>a
    <3> QED BY <2>1, <3>1, <3>2 DEF ResponseWake
  <2>2. CASE ResponseResume
    <3>1. resp.hand \in Response /\ Hand = {resp.hand.id} /\ InHand
      BY <2>2 DEF ResponseResume, TypeOK, Hand, InHand
    <3>2. CASE respQ' = PutBack(resp.hand) /\ resp' = Waiting /\ agentQ' = agentQ
      <4>1. Ids(respQ') = {resp.hand.id} \cup Ids(respQ)
        BY <3>1, <3>2, IdsCons, PipelineTypes DEF PutBack
      <4> QED BY <2>0, <3>1, <3>2, <4>1, HandEmpty, NoStep, QueuedForm
    <3>3. CASE PlayResponse(resp.hand) /\ resp' = Waiting /\ respQ' = respQ
      BY <2>0, <3>1, <3>3, HandEmpty, NoStep, PlayKeeps, QueuedForm
    <3>4. CASE Serve /\ tts[resp.hand.id] = "none"
      <4>1. Hand \subseteq Excused
        BY <3>1, <3>4, QueuedForm DEF Excused
      <4> QED BY <2>0, <3>4, <4>1, ServeDelivers, DropStep
    <3> QED BY <2>2, <3>2, <3>3, <3>4 DEF ResponseResume
  <2>3. CASE ResponseCancelled
    <3>0. Hand = {}
      BY <2>3 DEF ResponseCancelled, Hand, InHand
    <3>1. CASE Serve
      BY <2>0, <3>0, <3>1, ServeDelivers, DropStep
    <3>2. CASE resp' = Waiting /\ UNCHANGED <<respQ, tts, agentQ, drainSet>>
      BY <2>0, <3>0, <3>2, HandEmpty, NoStep, QueuedForm
    <3> QED BY <2>3, <3>1, <3>2 DEF ResponseCancelled
  <2> QED BY <1>6, <2>1, <2>2, <2>3 DEF RespondLoop
<1>7. CASE BargeIn
  <2>1. /\ agentQ' = KeptByFlush(agentQ, gen') /\ respQ' = <<>>
        /\ UNCHANGED <<resp, spoken, issued>> /\ bargeIns' = bargeIns + 1
    BY <1>7 DEF BargeIn
  <2>2. \A g : Ids(KeptByFlush(agentQ, g)) \subseteq Ids(agentQ)
    BY IdsKept, PipelineTypes
  <2>3. Positive(agentQ') \subseteq Positive(agentQ)
    BY <2>1, <2>2 DEF Positive
  <2> QED BY <2>1, <2>3, HandKept, IdsOf, InterruptStep, QueuedForm
<1>8. CASE Disconnect
  BY <1>8, <1>a DEF Disconnect
<1>9. CASE Stop
  <2>1. CASE StopDrain
    BY <2>1, <1>a DEF StopDrain
  <2>2. CASE StopResponse
    <3>1. CASE resp' = resp
      BY <2>2, <3>1, <1>a DEF StopResponse
    <3>2. CASE resp' # resp
      <4>1. resp'.pc # "tts" /\ UNCHANGED <<agentQ, respQ, spoken, issued, bargeIns>>
        <5>1. resp' \in {[pc |-> "stopped", hand |-> NoResponse],
                         [pc |-> "cancelled", hand |-> NoResponse]}
          BY <2>2, <3>2 DEF StopResponse, Waiting
        <5> QED BY <2>2, <5>1 DEF StopResponse
      <4>2. Hand' = {}
        BY <4>1 DEF Hand, InHand
      <4>3. Queued \subseteq Queued' \cup Hand /\ Queued' \subseteq Queued
        BY <4>1, <4>2, QueuedForm
      <4>4. Queued \subseteq Excused
        BY <2>2 DEF StopResponse, Excused
      <4> QED BY <4>1, <4>3, <4>4, DropStep
    <3> QED BY <3>1, <3>2
  <2>3. CASE StopEnd
    <3>1. respQ' = <<>> /\ UNCHANGED <<resp, agentQ, spoken, issued, bargeIns>>
      BY <2>3 DEF StopEnd
    <3>2. Queued \subseteq Excused
      BY <2>3 DEF StopEnd, Excused
    <3> QED BY <3>1, <3>2, HandKept, IdsOf, DropStep, QueuedForm
  <2> QED BY <1>9, <2>1, <2>2, <2>3 DEF Stop
<1>10. CASE UNCHANGED vars
  BY <1>10, <1>a DEF vars
<1> QED BY <1>1, <1>2, <1>3, <1>4, <1>5, <1>6, <1>7, <1>8, <1>9, <1>10 DEF Next

LEMMA DeliveryInit == Init => Delivery!Init
<1> SUFFICES ASSUME Init PROVE Delivery!Init
  OBVIOUS
<1>1. Hand = {}
  BY DEF Init, Hand, InHand
<1>2. Ids(respQ) = {} /\ Positive(agentQ) = {}
  BY IdsOf DEF Init, Positive
<1>3. Queued = {}
  BY <1>1, <1>2, QueuedForm
<1>4. Excused = {}
  BY <1>3 DEF Excused
<1> QED BY <1>3, <1>4 DEF Init, Delivery!Init

(* The controller delivers responses as ResponseDelivery promises: each is *)
(* spoken at most once, none after a later one, and none is lost but to a  *)
(* barge-in, to a failed synthesis or to a full queue, whatever the        *)
(* interleaving (output_controller.py:164-428).                            *)
THEOREM ResponsesDelivered == Spec => DeliversResponses
<1>1. Init => Delivery!Init
  BY DeliveryInit
<1>2. TypeOK /\ PipelineOrdered /\ [Next]_vars => [Delivery!Next]_(Delivery!dvars)
  BY DeliveryStep
<1> QED BY <1>1, <1>2, TypeCorrect, ResponsesOrdered, PTL
        DEF Spec, DeliversResponses, Delivery!Spec
=============================================================================
