----------------------- MODULE OutputControllerProofs -----------------------
(* Theorems about OutputController, for every value of its constants.      *)
EXTENDS OutputController, SelectionProofs, SequenceTheorems, TLAPS

-----------------------------------------------------------------------------
(* Facts about the operators.                                              *)

LEMMA GenFacts ==
  /\ Gen \subseteq Nat
  /\ 0 \in Gen
  /\ \A g \in Gen : NextGen(g) \in Gen
  /\ \A g \in Gen : ~IsStale(g, g)
  BY GenModAssumption DEF Gen, NextGen, IsStale, Age

LEMMA ItemFacts ==
  /\ NoItem \in Item
  /\ NoResponse = [id |-> 0, gen |-> 0]
  /\ \A g \in Gen : [speaker |-> "moderator", id |-> 0, gen |-> g] \in Item
  /\ \A g \in Gen : [speaker |-> "agent", id |-> 0, gen |-> g] \in Item
  /\ \A r \in Response : AgentItem(r) \in Item
  BY OutputAssumption, GenFacts DEF Item, NoItem, NoResponse, Response, AgentItem

(* Cancelling TTS tasks ends running ones and touches no others.           *)
LEMMA CancelFacts ==
  ASSUME NEW ids, TypeOK
  PROVE  /\ CancelTts(ids) \in [1 .. MaxResponses -> {"absent", "running", "pcm", "none"}]
         /\ \A r \in 1 .. MaxResponses :
              /\ CancelTts(ids)[r] = "running" <=> tts[r] = "running" /\ r \notin ids
              /\ CancelTts(ids)[r] # tts[r] => r \in ids
  BY DEF CancelTts, TypeOK

(* A flush keeps a sub-sequence.                                           *)
LEMMA FlushFacts ==
  ASSUME NEW q \in Seq(Item), NEW g \in Gen
  PROVE  /\ KeptByFlush(q, g) \in Seq(Item)
         /\ (\A i \in DOMAIN q : q[i].gen < g) => KeptByFlush(q, g) = <<>>
<1> DEFINE S == {i \in DOMAIN q : q[i].gen >= g}
<1>1. S \in SUBSET (DOMAIN q)
  OBVIOUS
<1>2. Select(q, S) \in Seq(Item) /\ (S = {} => Select(q, S) = <<>>)
  BY <1>1, SelectProperties
<1>3. ASSUME \A i \in DOMAIN q : q[i].gen < g
      PROVE  S = {}
  <2>1. g \in Nat
    BY GenFacts
  <2>2. ASSUME NEW i \in DOMAIN q
        PROVE  q[i].gen \in Nat
    <3>1. q[i] \in Item
      OBVIOUS
    <3> QED BY <3>1, GenFacts DEF Item
  <2> QED BY <1>3, <2>1, <2>2
<1> QED BY <1>2, <1>3 DEF KeptByFlush

-----------------------------------------------------------------------------
(* Type correctness.                                                       *)

PcDrain == {"wait", "announce", "send", "agent_done", "idle", "stopped"}
PcIdle == {"wait", "cancelled", "stopped"}
DrainType == [pc : PcDrain, item : Item, sent : 0 .. Frames]
RespType == [pc : {"tts"}, hand : Response] \cup [pc : PcIdle, hand : {NoResponse}]
TtsType == [1 .. MaxResponses -> {"absent", "running", "pcm", "none"}]
States == {"listening", "moderator_speaking", "agent_speaking"}

LEMMA TakeNextType ==
  ASSUME TypeOK, TakeNext
  PROVE  /\ state' \in States
         /\ modQ' \in Seq(Item) /\ agentQ' \in Seq(Item)
         /\ drain' \in DrainType
         /\ spoken' \in 0 .. MaxResponses
<1>0. 0 \in 0 .. Frames /\ 1 \in 0 .. Frames
  BY OutputAssumption
<1>1. CASE modQ # <<>>
  <2>1. Head(modQ) \in Item /\ Tail(modQ) \in Seq(Item)
    BY <1>1 DEF TypeOK
  <2>2. /\ state' = "moderator_speaking" /\ modQ' = Tail(modQ) /\ agentQ' = agentQ
        /\ drain' = [pc |-> "send", item |-> Head(modQ), sent |-> 1]
        /\ spoken' = spoken
    BY <1>1 DEF TakeNext, StartSending, Suspend
  <2> QED BY <1>0, <2>1, <2>2 DEF TypeOK, DrainType, PcDrain, States
<1>2. CASE modQ = <<>> /\ agentQ # <<>>
  <2>1. Head(agentQ) \in Item /\ Tail(agentQ) \in Seq(Item)
    BY <1>2 DEF TypeOK
  <2>2. Head(agentQ).id \in 0 .. MaxResponses
    BY <2>1 DEF Item
  <2>3. /\ state' = "agent_speaking" /\ modQ' = modQ /\ agentQ' = Tail(agentQ)
        /\ drain' = [pc |-> "announce", item |-> Head(agentQ), sent |-> 0]
        /\ spoken' \in {Head(agentQ).id, spoken}
    BY <1>2 DEF TakeNext, Suspend
  <2> QED BY <1>0, <2>1, <2>2, <2>3 DEF TypeOK, DrainType, PcDrain, States
<1>3. CASE modQ = <<>> /\ agentQ = <<>>
  <2>1. /\ state' = "listening" /\ modQ' = modQ /\ agentQ' = agentQ
        /\ spoken' = spoken
        /\ drain' \in {[pc |-> pc, item |-> NoItem, sent |-> 0] : pc \in {"idle", "wait"}}
    BY <1>3 DEF TakeNext, Suspend
  <2> QED BY <1>0, <2>1, ItemFacts DEF TypeOK, DrainType, PcDrain, States
<1> QED BY <1>1, <1>2, <1>3

LEMMA ServeType ==
  ASSUME TypeOK, Serve
  PROVE  /\ respQ' \in Seq(Response)
         /\ agentQ' \in Seq(Item)
         /\ tts' \in TtsType
         /\ resp' \in RespType
<1>1. CASE /\ respQ' = <<>>
           /\ tts' = CancelTts(Ids(respQ))
           /\ resp' = Waiting
           /\ UNCHANGED <<agentQ, drainSet>>
  BY <1>1, CancelFacts DEF TypeOK, Waiting, TtsType, RespType, PcIdle
<1>2. ASSUME NEW n \in DOMAIN respQ,
             respQ' = SubSeq(respQ, n + 1, Len(respQ)),
             tts' = CancelTts({respQ[i].id : i \in 1 .. n - 1}),
             \/ /\ PlayResponse(respQ[n])
                /\ resp' = Waiting
             \/ /\ resp' = [pc |-> "tts", hand |-> respQ[n]]
                /\ UNCHANGED <<agentQ, drainSet>>
      PROVE  /\ respQ' \in Seq(Response)
             /\ agentQ' \in Seq(Item)
             /\ tts' \in TtsType
             /\ resp' \in RespType
  <2>1. respQ[n] \in Response /\ n \in 1 .. Len(respQ)
    BY DEF TypeOK
  <2>2. respQ' \in Seq(Response)
    <3>1. \A i \in n + 1 .. Len(respQ) : respQ[i] \in Response
      BY <2>1 DEF TypeOK
    <3> QED BY <1>2, <2>1, <3>1, SubSeqProperties
  <2>3. AgentItem(respQ[n]) \in Item
    BY <2>1, ItemFacts
  <2>4. agentQ' \in Seq(Item)
    <3>1. agentQ' \in {agentQ, Append(agentQ, AgentItem(respQ[n]))}
      BY <1>2 DEF PlayResponse
    <3>2. agentQ \in Seq(Item)
      BY DEF TypeOK
    <3> QED BY <2>3, <3>1, <3>2, AppendProperties
  <2>5. resp' \in RespType
    BY <1>2, <2>1 DEF Waiting, RespType, PcIdle
  <2> QED BY <1>2, <2>2, <2>4, <2>5, CancelFacts DEF TtsType
<1> QED BY <1>1, <1>2 DEF Serve

(* The conjuncts of the type invariant, booleans apart.                    *)
Booleans ==
  /\ drainSet \in BOOLEAN /\ flushed \in BOOLEAN
  /\ respSet \in BOOLEAN /\ connected \in BOOLEAN

Data ==
  /\ state \in States
  /\ modQ \in Seq(Item) /\ agentQ \in Seq(Item)
  /\ drain \in DrainType
  /\ respQ \in Seq(Response)
  /\ resp \in RespType
  /\ tts \in TtsType
  /\ issued \in 0 .. MaxResponses /\ chunks \in 0 .. MaxChunks
  /\ spoken \in 0 .. MaxResponses
  /\ gen \in Gen /\ bargeIns \in 0 .. MaxBargeIns
  /\ stop \in {"running", "drain", "response", "stopped"}

LEMMA TypeParts == TypeOK <=> Booleans /\ Data
  BY DEF TypeOK, Booleans, Data, States, DrainType, RespType, TtsType, PcDrain, PcIdle

LEMMA BooleansInit == Init => Booleans
  BY DEF Init, Booleans

LEMMA DataInit == Init => Data
<1> SUFFICES ASSUME Init PROVE Data
  OBVIOUS
<1>1. drain \in DrainType /\ resp \in RespType
  BY ItemFacts, OutputAssumption DEF Init, DrainType, RespType, PcDrain, PcIdle
<1>2. gen \in Gen
  BY GenFacts DEF Init
<1> QED BY <1>1, <1>2, OutputAssumption DEF Init, Data, States, TtsType

LEMMA BooleansStep == Booleans /\ [Next]_vars => Booleans'
<1> SUFFICES ASSUME Booleans, [Next]_vars PROVE Booleans'
  OBVIOUS
<1> USE DEF Booleans, audio, responses, session
<1>1. CASE EnqueueModerator
  BY <1>1, Zenon DEF EnqueueModerator
<1>2. CASE EnqueueAgentAudio
  BY <1>2, Zenon DEF EnqueueAgentAudio
<1>3. CASE EnqueueResponse(gen)
  BY <1>3, Zenon DEF EnqueueResponse
<1>4. ASSUME NEW r \in 1 .. MaxResponses, TtsDone(r) \/ TtsFail(r) PROVE Booleans'
  BY <1>4, Zenon DEF TtsDone, TtsFail
<1>5. ASSUME TakeNext PROVE flushed' \in BOOLEAN
  BY <1>5, Zenon DEF TakeNext, StartSending
<1>6. CASE Drain
  <2>1. CASE DrainWake
    BY <1>5, <2>1, Zenon DEF DrainWake
  <2>2. CASE DrainAnnounced
    BY <2>2, Zenon DEF DrainAnnounced, StartSending
  <2>3. CASE SendFrame
    BY <2>3, Zenon DEF SendFrame
  <2>4. CASE FinishModerator
    BY <1>5, <2>4, Zenon DEF FinishModerator, TakeNext
  <2>5. CASE FinishAgent
    BY <2>5, Zenon DEF FinishAgent
  <2>6. CASE DrainAgentDone
    BY <1>5, <2>6, Zenon DEF DrainAgentDone, TakeNext
  <2>7. CASE DrainIdle
    BY <2>7, Zenon DEF DrainIdle
  <2> QED BY <1>6, <2>1, <2>2, <2>3, <2>4, <2>5, <2>6, <2>7 DEF Drain
<1>7. ASSUME Serve PROVE drainSet' \in BOOLEAN
  BY <1>7, Zenon DEF Serve, PlayResponse
<1>8. CASE RespondLoop
  <2>1. CASE ResponseWake
    BY <1>7, <2>1, Zenon DEF ResponseWake
  <2>2. CASE ResponseResume
    BY <1>7, <2>2, Zenon DEF ResponseResume, PlayResponse
  <2>3. CASE ResponseCancelled
    BY <1>7, <2>3, Zenon DEF ResponseCancelled
  <2> QED BY <1>8, <2>1, <2>2, <2>3 DEF RespondLoop
<1>9. CASE BargeIn
  BY <1>9, Zenon DEF BargeIn
<1>10. CASE Disconnect
  BY <1>10, Zenon DEF Disconnect
<1>11. CASE Stop
  BY <1>11, Zenon DEF Stop, StopDrain, StopResponse, StopEnd
<1>12. CASE UNCHANGED vars
  BY <1>12, Zenon DEF vars
<1> QED BY <1>1, <1>2, <1>3, <1>4, <1>6, <1>8, <1>9, <1>10, <1>11, <1>12 DEF Next

LEMMA DataStep == TypeOK /\ [Next]_vars => Data'
<1> SUFFICES ASSUME TypeOK, Data, [Next]_vars PROVE Data'
  BY TypeParts
<1> USE DEF audio, responses, session
<1>1. CASE EnqueueModerator
  <2> DEFINE x == [speaker |-> "moderator", id |-> 0, gen |-> gen]
  <2>1. x \in Item
    BY ItemFacts DEF Data
  <2>2. modQ' = Append(modQ, x)
    BY <1>1 DEF EnqueueModerator
  <2>3. modQ' \in Seq(Item)
    <3> HIDE DEF x
    <3> QED BY <2>1, <2>2, AppendProperties DEF Data
  <2>4. chunks' \in 0 .. MaxChunks
    BY <1>1, OutputAssumption DEF EnqueueModerator, Data
  <2> QED BY <1>1, <2>3, <2>4 DEF EnqueueModerator, Data
<1>2. CASE EnqueueAgentAudio
  <2> DEFINE x == [speaker |-> "agent", id |-> 0, gen |-> gen]
  <2>1. x \in Item
    BY ItemFacts DEF Data
  <2>2. agentQ' = Append(agentQ, x)
    BY <1>2 DEF EnqueueAgentAudio
  <2>3. agentQ' \in Seq(Item)
    <3> HIDE DEF x
    <3> QED BY <2>1, <2>2, AppendProperties DEF Data
  <2>4. chunks' \in 0 .. MaxChunks
    BY <1>2, OutputAssumption DEF EnqueueAgentAudio, Data
  <2> QED BY <1>2, <2>3, <2>4 DEF EnqueueAgentAudio, Data
<1>3. CASE EnqueueResponse(gen)
  <2> DEFINE kept == IF QueueFull THEN Tail(respQ) ELSE respQ
             dropped == IF QueueFull THEN {Head(respQ).id} ELSE {}
  <2>1. issued + 1 \in 1 .. MaxResponses
    BY <1>3, OutputAssumption DEF EnqueueResponse, Data
  <2>2. kept \in Seq(Response)
    BY OutputAssumption DEF Data, QueueFull
  <2>3. [id |-> issued + 1, gen |-> gen] \in Response
    BY <2>1 DEF Data, Response
  <2>4. respQ' = Append(kept, [id |-> issued + 1, gen |-> gen])
    BY <1>3 DEF EnqueueResponse
  <2>5. respQ' \in Seq(Response)
    <3> HIDE DEF kept
    <3> QED BY <2>2, <2>3, <2>4, AppendProperties
  <2>6. tts' \in TtsType
    <3>1. CancelTts(dropped) \in TtsType
      BY CancelFacts DEF TtsType
    <3>2. tts' = [CancelTts(dropped) EXCEPT ![issued + 1] = "running"]
      BY <1>3 DEF EnqueueResponse
    <3> HIDE DEF dropped
    <3> QED BY <3>1, <3>2 DEF TtsType
  <2> QED BY <1>3, <2>1, <2>5, <2>6 DEF EnqueueResponse, Data
<1>4. ASSUME NEW r \in 1 .. MaxResponses, TtsDone(r) \/ TtsFail(r) PROVE Data'
  BY <1>4 DEF TtsDone, TtsFail, Data, TtsType
<1>5. ASSUME NEW pc \in PcDrain, NEW item \in Item, NEW sent \in 0 .. Frames
      PROVE  [pc |-> pc, item |-> item, sent |-> sent] \in DrainType
  BY DEF DrainType
<1>6. CASE Drain
  <2>0. /\ drain.item \in Item /\ drain.sent \in 0 .. Frames
        /\ 0 \in 0 .. Frames /\ 1 \in 0 .. Frames
    BY OutputAssumption DEF Data, DrainType
  <2>1. CASE DrainWake
    BY <2>1, TakeNextType DEF DrainWake, Data
  <2>2. CASE DrainAnnounced
    <3>1. drain' \in DrainType
      BY <2>0, <2>2, <1>5 DEF DrainAnnounced, StartSending, Suspend, PcDrain
    <3> QED BY <2>2, <3>1 DEF DrainAnnounced, Data
  <2>3. CASE SendFrame
    <3>1. drain.sent + 1 \in 0 .. Frames
      BY <2>0, <2>3, OutputAssumption DEF SendFrame, MoreToSend
    <3>2. drain' \in DrainType
      BY <2>0, <2>3, <3>1, <1>5 DEF SendFrame, Suspend, PcDrain
    <3> QED BY <2>3, <3>2 DEF SendFrame, Data
  <2>4. CASE FinishModerator
    BY <2>4, TakeNextType DEF FinishModerator, Data
  <2>5. CASE FinishAgent
    <3>1. drain' \in DrainType
      BY <2>0, <2>5, <1>5 DEF FinishAgent, Suspend, PcDrain
    <3> QED BY <2>5, <3>1 DEF FinishAgent, Data
  <2>6. CASE DrainAgentDone
    BY <2>6, TakeNextType DEF DrainAgentDone, Data
  <2>7. CASE DrainIdle
    <3>1. drain' \in DrainType
      BY <2>0, <2>7, <1>5, ItemFacts DEF DrainIdle, Suspend, PcDrain
    <3> QED BY <2>7, <3>1 DEF DrainIdle, Data
  <2> QED BY <1>6, <2>1, <2>2, <2>3, <2>4, <2>5, <2>6, <2>7 DEF Drain
<1>8. CASE RespondLoop
  <2>0. Waiting \in RespType
    BY DEF Waiting, RespType, PcIdle
  <2>1. CASE ResponseWake
    BY <2>1, ServeType DEF ResponseWake, Data
  <2>2. CASE ResponseResume
    <3>1. resp.hand \in Response
      BY <2>2 DEF ResponseResume, Data, RespType, PcIdle
    <3>2. CASE respQ' = PutBack(resp.hand) /\ resp' = Waiting /\ UNCHANGED <<tts, agentQ, drainSet>>
      <4>1. respQ' \in Seq(Response)
        BY <3>1, <3>2 DEF PutBack, Data
      <4> QED BY <2>0, <2>2, <3>2, <4>1 DEF ResponseResume, Data
    <3>3. CASE PlayResponse(resp.hand) /\ resp' = Waiting /\ UNCHANGED <<respQ, tts>>
      <4>1. AgentItem(resp.hand) \in Item
        BY <3>1, ItemFacts
      <4>2. agentQ' \in Seq(Item)
        BY <3>3, <4>1, AppendProperties DEF PlayResponse, Data
      <4> QED BY <2>0, <2>2, <3>3, <4>2 DEF ResponseResume, Data
    <3>4. CASE Serve
      BY <2>2, <3>4, ServeType DEF ResponseResume, Data
    <3> QED BY <2>2, <3>2, <3>3, <3>4 DEF ResponseResume
  <2>3. CASE ResponseCancelled
    BY <2>0, <2>3, ServeType DEF ResponseCancelled, Data
  <2> QED BY <1>8, <2>1, <2>2, <2>3 DEF RespondLoop
<1>9. CASE BargeIn
  <2>1. gen' \in Gen
    BY <1>9, GenFacts DEF BargeIn, Data
  <2>2. modQ' \in Seq(Item) /\ agentQ' \in Seq(Item)
    BY <1>9, <2>1, FlushFacts DEF BargeIn, Data
  <2>3. bargeIns' \in 0 .. MaxBargeIns
    BY <1>9, OutputAssumption DEF BargeIn, Data
  <2>4. tts' \in TtsType
    BY <1>9, CancelFacts DEF BargeIn, TtsType
  <2> QED BY <1>9, <2>1, <2>2, <2>3, <2>4 DEF BargeIn, Data, States
<1>10. CASE Disconnect
  BY <1>10 DEF Disconnect, Data
<1>11. CASE Stop
  <2>1. CASE StopDrain
    BY <2>1, <1>5, ItemFacts, OutputAssumption DEF StopDrain, Suspend, PcDrain, Data
  <2>2. CASE StopResponse
    <3>1. tts' \in TtsType
      BY <2>2, CancelFacts DEF StopResponse, TtsType
    <3>2. resp' \in RespType
      BY <2>2 DEF StopResponse, Waiting, RespType, PcIdle, Data
    <3> QED BY <2>2, <3>1, <3>2 DEF StopResponse, Data
  <2>3. CASE StopEnd
    <3>1. tts' \in TtsType
      BY <2>3, CancelFacts DEF StopEnd, TtsType
    <3> QED BY <2>3, <3>1 DEF StopEnd, Data
  <2> QED BY <1>11, <2>1, <2>2, <2>3 DEF Stop
<1>12. CASE UNCHANGED vars
  BY <1>12 DEF vars, Data
<1> QED BY <1>1, <1>2, <1>3, <1>4, <1>6, <1>8, <1>9, <1>10, <1>11, <1>12 DEF Next

(* Every variable keeps its type, whatever the order in which the tasks of *)
(* the event loop run.                                                     *)
THEOREM TypeCorrect == Spec => []TypeOK
<1>1. Init => TypeOK
  BY BooleansInit, DataInit, TypeParts
<1>2. TypeOK /\ [Next]_vars => TypeOK'
  <2>1. TypeOK' <=> Booleans' /\ Data'
    BY DEF TypeOK, Booleans, Data, States, DrainType, RespType, TtsType, PcDrain, PcIdle
  <2> QED BY BooleansStep, DataStep, TypeParts, <2>1
<1> QED BY <1>1, <1>2, PTL DEF Spec

-----------------------------------------------------------------------------
(* The text backlog and its TTS tasks.                                     *)

LEMMA ServeBacklog ==
  ASSUME TypeOK, BacklogBounded, Serve
  PROVE  BacklogBounded'
<1>1. Len(respQ) \in Nat /\ ResponseQueueMax \in Nat
  BY OutputAssumption DEF TypeOK
<1>2. CASE respQ' = <<>>
  BY <1>1, <1>2 DEF BacklogBounded
<1>3. ASSUME NEW n \in DOMAIN respQ, respQ' = SubSeq(respQ, n + 1, Len(respQ))
      PROVE  BacklogBounded'
  <2>1. n \in 1 .. Len(respQ) /\ respQ \in Seq(Response)
    BY DEF TypeOK
  <2>2. Len(respQ') = Len(respQ) - n
    BY <1>3, <2>1, SubSeqProperties
  <2> QED BY <1>1, <2>1, <2>2 DEF BacklogBounded
<1> QED BY <1>2, <1>3 DEF Serve

LEMMA BacklogStep == TypeOK /\ BacklogBounded /\ [Next]_vars => BacklogBounded'
<1> SUFFICES ASSUME TypeOK, BacklogBounded, [Next]_vars PROVE BacklogBounded'
  OBVIOUS
<1> USE DEF audio, responses, session
<1>a. respQ \in Seq(Response) /\ Len(respQ) \in Nat /\ ResponseQueueMax \in Nat \ {0}
  BY OutputAssumption DEF TypeOK
<1>b. ASSUME UNCHANGED <<respQ, resp>> PROVE BacklogBounded'
  BY <1>b DEF BacklogBounded, InHand
<1>1. CASE EnqueueModerator \/ EnqueueAgentAudio \/ Drain \/ Disconnect
  BY <1>1, <1>b
  DEF EnqueueModerator, EnqueueAgentAudio, Disconnect, Drain, DrainWake, DrainAnnounced,
      SendFrame, FinishModerator, FinishAgent, DrainAgentDone, DrainIdle
<1>2. CASE EnqueueResponse(gen)
  <2> DEFINE r == [id |-> issued + 1, gen |-> gen]
             kept == IF QueueFull THEN Tail(respQ) ELSE respQ
  <2>1. respQ' = Append(kept, r) /\ resp' = resp
    BY <1>2 DEF EnqueueResponse
  <2>2. kept \in Seq(Response) /\ (QueueFull => Len(kept) = Len(respQ) - 1)
    BY <1>a DEF QueueFull
  <2>3. ~QueueFull => kept = respQ
    OBVIOUS
  <2> HIDE DEF r, kept
  <2>4. Len(respQ') = Len(kept) + 1
    BY <2>1, <2>2
  <2>5. CASE QueueFull
    <3>1. Len(respQ') = Len(respQ)
      BY <1>a, <2>2, <2>4, <2>5
    <3> QED BY <2>1, <3>1 DEF BacklogBounded, InHand
  <2>6. CASE ~QueueFull
    <3>1. Len(respQ') <= ResponseQueueMax
      BY <1>a, <2>3, <2>4, <2>6 DEF QueueFull
    <3>2. Len(respQ') \in Nat
      BY <1>a, <2>3, <2>4, <2>6
    <3> QED BY <1>a, <3>1, <3>2 DEF BacklogBounded
  <2> QED BY <2>5, <2>6
<1>3. ASSUME NEW r \in 1 .. MaxResponses, TtsDone(r) \/ TtsFail(r) PROVE BacklogBounded'
  BY <1>3, <1>b DEF TtsDone, TtsFail
<1>4. CASE ResponseWake
  BY <1>4, <1>b, ServeBacklog DEF ResponseWake
<1>5. CASE ResponseResume
  <2>1. InHand
    BY <1>5 DEF ResponseResume, InHand
  <2>2. resp' = Waiting => ~InHand'
    BY DEF Waiting, InHand
  <2>3. CASE respQ' = PutBack(resp.hand) /\ resp' = Waiting
    <3>1. Len(respQ') = Len(respQ) + 1
      BY <1>a, <2>3 DEF PutBack
    <3> QED BY <1>a, <2>1, <2>2, <2>3, <3>1 DEF BacklogBounded
  <2>4. CASE resp' = Waiting /\ respQ' = respQ
    BY <1>a, <2>1, <2>2, <2>4 DEF BacklogBounded
  <2> QED BY <1>5, <2>3, <2>4, ServeBacklog DEF ResponseResume
<1>6. CASE ResponseCancelled
  <2>1. resp' = Waiting /\ respQ' = respQ => BacklogBounded'
    BY <1>a DEF BacklogBounded, Waiting, InHand
  <2> QED BY <1>6, <2>1, ServeBacklog DEF ResponseCancelled
<1>7. CASE BargeIn
  BY <1>7, <1>a DEF BargeIn, BacklogBounded, InHand
<1>8. CASE Stop
  <2>1. CASE StopDrain
    BY <2>1, <1>b DEF StopDrain
  <2>2. CASE StopResponse
    <3>1. respQ' = respQ /\ (resp' = resp \/ ~InHand')
      BY <2>2 DEF StopResponse, InHand, Waiting
    <3> QED BY <1>a, <1>b, <3>1 DEF BacklogBounded
  <2>3. CASE StopEnd
    BY <1>a, <2>3 DEF StopEnd, BacklogBounded, InHand
  <2> QED BY <1>8, <2>1, <2>2, <2>3 DEF Stop
<1>9. CASE UNCHANGED vars
  BY <1>9, <1>b DEF vars
<1> QED
  BY <1>1, <1>2, <1>3, <1>4, <1>5, <1>6, <1>7, <1>8, <1>9 DEF Next, RespondLoop

(* The queue of responses exceeds its limit by one at most, by a response  *)
(* that is put back (output_controller.py:183, 395).                       *)
THEOREM BacklogStaysBounded == Spec => []BacklogBounded
<1>1. Init => BacklogBounded
  BY OutputAssumption DEF Init, BacklogBounded, InHand
<1>2. TypeOK /\ BacklogBounded /\ [Next]_vars => BacklogBounded'
  BY BacklogStep
<1> QED BY <1>1, <1>2, TypeCorrect, PTL DEF Spec

(* A served queue leaves no TTS task behind: what is dropped is cancelled. *)
LEMMA ServeOrphans ==
  ASSUME TypeOK, NoOrphanTts, Serve, InHand => tts[resp.hand.id] # "running"
  PROVE  NoOrphanTts'
<1> SUFFICES ASSUME NEW r \in 1 .. MaxResponses, tts'[r] = "running"
             PROVE  r \in Unserved'
  BY DEF NoOrphanTts
<1>0. respQ \in Seq(Response)
  BY DEF TypeOK
<1>1. ASSUME tts[r] = "running"
      PROVE  \E i \in DOMAIN respQ : respQ[i].id = r
  BY <1>1 DEF NoOrphanTts, Unserved, Ids
<1>2. CASE respQ' = <<>> /\ tts' = CancelTts(Ids(respQ))
  <2>1. tts[r] = "running" /\ r \notin Ids(respQ)
    BY <1>2, CancelFacts
  <2> QED BY <1>1, <2>1 DEF Ids
<1>3. ASSUME NEW n \in DOMAIN respQ,
             respQ' = SubSeq(respQ, n + 1, Len(respQ)),
             tts' = CancelTts({respQ[i].id : i \in 1 .. n - 1}),
             \/ tts[respQ[n].id] = "pcm"
             \/ resp' = [pc |-> "tts", hand |-> respQ[n]]
      PROVE  r \in Unserved'
  <2>1. tts[r] = "running" /\ r \notin {respQ[i].id : i \in 1 .. n - 1}
    BY <1>3, CancelFacts
  <2>2. PICK i \in DOMAIN respQ : respQ[i].id = r
    BY <1>1, <2>1
  <2>3. i \in Nat /\ n \in Nat /\ i >= n /\ i <= Len(respQ) /\ 1 <= n
    BY <1>0, <2>1, <2>2
  <2>4. CASE i = n
    BY <1>3, <2>1, <2>2, <2>4 DEF Unserved, InHand
  <2>5. CASE i # n
    <3>1. i - n \in 1 .. Len(respQ) - n
      BY <1>0, <2>3, <2>5
    <3>2. Len(respQ') = Len(respQ) - n /\ respQ'[i - n] = respQ[i]
      <4>1. i - n \in 1 .. Len(respQ) - (n + 1) + 1
        BY <1>0, <2>3, <3>1
      <4>2. \A k \in n + 1 .. Len(respQ) : respQ[k] \in Response
        BY <1>0, <2>3
      <4> DEFINE rest == SubSeq(respQ, n + 1, Len(respQ))
      <4>3. rest = [k \in 1 .. Len(respQ) - n |-> respQ[n + k]]
        BY <1>0, <2>3
      <4>4. Len(rest) = Len(respQ) - n
        BY <1>0, <2>3, <4>3
      <4>5. rest[i - n] = respQ[n + (i - n)]
        <5> HIDE DEF rest
        <5> QED BY <3>1, <4>3
      <4>6. n + (i - n) = i
        BY <2>3
      <4>7. respQ' = rest
        BY <1>3
      <4> QED BY <4>4, <4>5, <4>6, <4>7
    <3>3. i - n \in DOMAIN respQ'
      BY <1>0, <1>3, <3>1, <3>2, SubSeqProperties
    <3>4. respQ'[i - n].id = r
      BY <2>2, <3>2
    <3>5. r \in Ids(respQ')
      BY <3>3, <3>4 DEF Ids
    <3> QED BY <3>5 DEF Unserved
  <2> QED BY <2>4, <2>5
<1> QED BY <1>2, <1>3 DEF Serve

LEMMA OrphanStep == TypeOK /\ NoOrphanTts /\ [Next]_vars => NoOrphanTts'
<1> SUFFICES ASSUME TypeOK, NoOrphanTts, [Next]_vars PROVE NoOrphanTts'
  OBVIOUS
<1> USE DEF audio, responses, session
<1>a. respQ \in Seq(Response) /\ tts \in TtsType
  BY DEF TypeOK, TtsType
<1>b. ASSUME UNCHANGED <<respQ, resp>>,
             \A r \in 1 .. MaxResponses : tts'[r] = "running" => tts[r] = "running"
      PROVE  NoOrphanTts'
  BY <1>b DEF NoOrphanTts, Unserved, InHand
<1>c. ASSUME ~InHand, NEW r \in 1 .. MaxResponses, tts[r] = "running"
      PROVE  r \in Ids(respQ)
  BY <1>c DEF NoOrphanTts, Unserved
<1>1. CASE EnqueueModerator \/ EnqueueAgentAudio \/ Drain \/ Disconnect
  BY <1>1, <1>b
  DEF EnqueueModerator, EnqueueAgentAudio, Disconnect, Drain, DrainWake, DrainAnnounced,
      SendFrame, FinishModerator, FinishAgent, DrainAgentDone, DrainIdle
<1>2. CASE EnqueueResponse(gen)
  <2> SUFFICES ASSUME NEW r \in 1 .. MaxResponses, tts'[r] = "running"
               PROVE  r \in Unserved'
    BY DEF NoOrphanTts
  <2> DEFINE new == [id |-> issued + 1, gen |-> gen]
             kept == IF QueueFull THEN Tail(respQ) ELSE respQ
             dropped == IF QueueFull THEN {Head(respQ).id} ELSE {}
  <2>1. /\ respQ' = Append(kept, new) /\ resp' = resp
        /\ tts' = [CancelTts(dropped) EXCEPT ![issued + 1] = "running"]
    BY <1>2 DEF EnqueueResponse
  <2>2. kept \in Seq(Response) /\ (QueueFull => respQ # <<>>)
    BY <1>a, OutputAssumption DEF QueueFull
  <2>3. new.id = issued + 1
    OBVIOUS
  <2>4. \A i \in DOMAIN respQ : respQ[i].id \in dropped \/ \E j \in DOMAIN kept : kept[j] = respQ[i]
    <3>1. CASE ~QueueFull
      BY <3>1
    <3>2. CASE QueueFull
      <4> SUFFICES ASSUME NEW i \in DOMAIN respQ, i # 1
                   PROVE  \E j \in DOMAIN kept : kept[j] = respQ[i]
        BY <1>a, <2>2, <3>2
      <4>1. i - 1 \in DOMAIN Tail(respQ) /\ Tail(respQ)[i - 1] = respQ[i]
        BY <1>a, <2>2, <3>2
      <4> QED BY <3>2, <4>1
    <3> QED BY <3>1, <3>2
  <2>5. /\ Len(kept) + 1 \in DOMAIN respQ' /\ respQ'[Len(kept) + 1] = new
        /\ \A j \in DOMAIN kept : j \in DOMAIN respQ' /\ respQ'[j] = kept[j]
    <3> HIDE DEF kept, new
    <3> QED BY <2>1, <2>2, AppendProperties
  <2>6. CASE r = issued + 1
    BY <2>3, <2>5, <2>6 DEF Unserved, Ids
  <2>7. CASE r # issued + 1
    <3>1. tts[r] = "running" /\ r \notin dropped
      <4> HIDE DEF dropped
      <4>1. tts'[r] = CancelTts(dropped)[r]
        BY <2>1, <2>7, CancelFacts
      <4> QED BY <4>1, CancelFacts
    <3>2. r \in Unserved
      BY <3>1 DEF NoOrphanTts
    <3>3. CASE r \in Ids(respQ)
      <4>1. PICK i \in DOMAIN respQ : respQ[i].id = r
        BY <3>3 DEF Ids
      <4>2. PICK j \in DOMAIN kept : kept[j] = respQ[i]
        BY <2>4, <3>1, <4>1
      <4>3. j \in DOMAIN respQ' /\ respQ'[j].id = r
        BY <2>5, <4>1, <4>2
      <4> QED BY <4>3 DEF Unserved, Ids
    <3>4. CASE r \notin Ids(respQ)
      BY <2>1, <3>2, <3>4 DEF Unserved, InHand
    <3> QED BY <3>3, <3>4
  <2> QED BY <2>6, <2>7
<1>3. ASSUME NEW r \in 1 .. MaxResponses, TtsDone(r) \/ TtsFail(r) PROVE NoOrphanTts'
  <2>1. /\ UNCHANGED <<respQ, resp>>
        /\ \/ tts' = [tts EXCEPT ![r] = "pcm"]
           \/ tts' = [tts EXCEPT ![r] = "none"]
    BY <1>3 DEF TtsDone, TtsFail
  <2>2. \A q \in 1 .. MaxResponses : tts'[q] = "running" => tts[q] = "running"
    BY <1>a, <2>1 DEF TtsType
  <2> QED BY <1>b, <2>1, <2>2
<1>4. CASE ResponseWake
  <2>1. ~InHand
    BY <1>4 DEF ResponseWake, InHand
  <2> QED BY <1>4, <1>b, <2>1, ServeOrphans DEF ResponseWake
<1>5. CASE ResponseResume
  <2>1. InHand /\ tts[resp.hand.id] # "running"
    BY <1>5 DEF ResponseResume, InHand
  <2>2. CASE respQ' = PutBack(resp.hand) /\ tts' = tts
    <3>1. \A i \in DOMAIN respQ : i + 1 \in DOMAIN respQ' /\ respQ'[i + 1] = respQ[i]
      BY <1>a, <2>2 DEF PutBack
    <3>2. Ids(respQ) \subseteq Ids(respQ')
      BY <3>1 DEF Ids
    <3> QED BY <2>1, <2>2, <3>2 DEF NoOrphanTts, Unserved
  <2>3. CASE respQ' = respQ /\ tts' = tts
    BY <2>1, <2>3 DEF NoOrphanTts, Unserved
  <2> QED BY <1>5, <2>1, <2>2, <2>3, ServeOrphans DEF ResponseResume
<1>6. CASE ResponseCancelled
  <2>1. ~InHand
    BY <1>6 DEF ResponseCancelled, InHand
  <2>2. CASE respQ' = respQ /\ tts' = tts
    BY <1>c, <2>1, <2>2 DEF NoOrphanTts, Unserved
  <2> QED BY <1>6, <2>1, <2>2, ServeOrphans DEF ResponseCancelled
<1>7. CASE BargeIn
  <2>1. tts' = CancelTts(Ids(respQ)) /\ respQ' = <<>> /\ resp' = resp
    BY <1>7 DEF BargeIn
  <2>2. ASSUME NEW r \in 1 .. MaxResponses, tts'[r] = "running" PROVE r \in Unserved'
    <3>1. tts[r] = "running" /\ r \notin Ids(respQ)
      BY <2>1, <2>2, CancelFacts
    <3> QED BY <2>1, <3>1 DEF NoOrphanTts, Unserved, InHand
  <2> QED BY <2>2 DEF NoOrphanTts
<1>8. CASE Stop
  <2>1. CASE StopDrain
    BY <2>1, <1>b DEF StopDrain
  <2>2. CASE StopResponse
    <3>1. respQ' = respQ /\ tts' = CancelTts({resp.hand.id})
      BY <2>2 DEF StopResponse
    <3>2. ASSUME NEW r \in 1 .. MaxResponses, tts'[r] = "running" PROVE r \in Ids(respQ)
      <4>1. tts[r] = "running" /\ r \notin {resp.hand.id}
        BY <3>1, <3>2, CancelFacts
      <4> QED BY <4>1 DEF NoOrphanTts, Unserved
    <3> QED BY <3>1, <3>2 DEF NoOrphanTts, Unserved
  <2>3. CASE StopEnd
    <3>1. tts' = CancelTts(Ids(respQ)) /\ ~InHand
      BY <2>3 DEF StopEnd, InHand
    <3>2. \A r \in 1 .. MaxResponses : tts'[r] # "running"
      BY <1>c, <3>1, CancelFacts
    <3> QED BY <3>2 DEF NoOrphanTts
  <2> QED BY <1>8, <2>1, <2>2, <2>3 DEF Stop
<1>9. CASE UNCHANGED vars
  BY <1>9, <1>b DEF vars
<1> QED
  BY <1>1, <1>2, <1>3, <1>4, <1>5, <1>6, <1>7, <1>8, <1>9 DEF Next, RespondLoop

(* Overflow, flush, discard and stop() leave no TTS task running for a     *)
(* response nobody will play (output_controller.py:185).                   *)
THEOREM NoTtsIsOrphaned == Spec => []NoOrphanTts
<1>1. Init => NoOrphanTts
  BY DEF Init, NoOrphanTts
<1>2. TypeOK /\ NoOrphanTts /\ [Next]_vars => NoOrphanTts'
  BY OrphanStep
<1> QED BY <1>1, <1>2, TypeCorrect, PTL DEF Spec

-----------------------------------------------------------------------------
(* The moderator's turn.                                                   *)

By(speaker) == {x \in Item : x.speaker = speaker}

Speakers ==
  /\ modQ \in Seq(By("moderator")) /\ agentQ \in Seq(By("agent"))
  /\ drain.pc = "announce" => drain.item.speaker = "agent"

(* While moderator audio goes out undisturbed the state says so.           *)
Turn ==
  drain.pc = "send" /\ drain.item.speaker = "moderator" /\ ~flushed
    => state = "moderator_speaking"

LEMMA TakeNextTurn ==
  ASSUME Speakers, TakeNext
  PROVE  Speakers' /\ Turn'
<1>1. CASE modQ # <<>>
  <2>1. /\ state' = "moderator_speaking" /\ modQ' = Tail(modQ) /\ agentQ' = agentQ
        /\ drain' = [pc |-> "send", item |-> Head(modQ), sent |-> 1]
    BY <1>1 DEF TakeNext, StartSending, Suspend
  <2>2. Tail(modQ) \in Seq(By("moderator"))
    BY <1>1 DEF Speakers
  <2> QED BY <2>1, <2>2 DEF Speakers, Turn
<1>2. CASE modQ = <<>> /\ agentQ # <<>>
  <2>1. /\ modQ' = modQ /\ agentQ' = Tail(agentQ)
        /\ drain' = [pc |-> "announce", item |-> Head(agentQ), sent |-> 0]
    BY <1>2 DEF TakeNext, Suspend
  <2>2. Head(agentQ) \in By("agent") /\ Tail(agentQ) \in Seq(By("agent"))
    BY <1>2 DEF Speakers
  <2> QED BY <2>1, <2>2 DEF Speakers, Turn, By
<1>3. CASE modQ = <<>> /\ agentQ = <<>>
  <2>1. /\ modQ' = modQ /\ agentQ' = agentQ
        /\ drain' \in {[pc |-> pc, item |-> NoItem, sent |-> 0] : pc \in {"idle", "wait"}}
    BY <1>3 DEF TakeNext, Suspend
  <2> QED BY <2>1 DEF Speakers, Turn
<1> QED BY <1>1, <1>2, <1>3

LEMMA PlayTurn ==
  ASSUME TypeOK, Speakers, NEW r \in Response, agentQ' = Append(agentQ, AgentItem(r))
  PROVE  agentQ' \in Seq(By("agent"))
<1>1. AgentItem(r) \in By("agent")
  BY ItemFacts DEF By, AgentItem
<1> QED BY <1>1, AppendProperties DEF Speakers

LEMMA ServeTurn ==
  ASSUME TypeOK, Speakers, Serve
  PROVE  agentQ' \in Seq(By("agent"))
<1>1. CASE agentQ' = agentQ
  BY <1>1 DEF Speakers
<1>2. ASSUME NEW n \in DOMAIN respQ, PlayResponse(respQ[n])
      PROVE  agentQ' \in Seq(By("agent"))
  <2>1. respQ[n] \in Response
    BY DEF TypeOK
  <2> QED BY <1>2, <2>1, PlayTurn DEF PlayResponse
<1> QED BY <1>1, <1>2 DEF Serve

LEMMA TurnStep == TypeOK /\ Speakers /\ Turn /\ [Next]_vars => Speakers' /\ Turn'
<1> SUFFICES ASSUME TypeOK, Speakers, Turn, [Next]_vars PROVE Speakers' /\ Turn'
  OBVIOUS
<1> USE DEF audio, responses, session
<1>0. gen \in Gen
  BY DEF TypeOK
<1>a. ASSUME UNCHANGED <<state, flushed, drain>>,
             modQ' \in Seq(By("moderator")), agentQ' \in Seq(By("agent"))
      PROVE  Speakers' /\ Turn'
  <2>1. Speakers'
    BY <1>a DEF Speakers
  <2>2. Turn'
    BY <1>a, Zenon DEF Turn
  <2> QED BY <2>1, <2>2
<1>b. modQ \in Seq(By("moderator")) /\ agentQ \in Seq(By("agent"))
  BY DEF Speakers
<1>1. CASE EnqueueModerator
  <2> DEFINE x == [speaker |-> "moderator", id |-> 0, gen |-> gen]
  <2>1. x \in By("moderator") /\ modQ' = Append(modQ, x)
    BY <1>0, <1>1, ItemFacts DEF By, EnqueueModerator
  <2> HIDE DEF x
  <2> QED BY <1>1, <1>a, <1>b, <2>1, AppendProperties DEF EnqueueModerator
<1>2. CASE EnqueueAgentAudio
  <2> DEFINE x == [speaker |-> "agent", id |-> 0, gen |-> gen]
  <2>1. x \in By("agent") /\ agentQ' = Append(agentQ, x)
    BY <1>0, <1>2, ItemFacts DEF By, EnqueueAgentAudio
  <2> HIDE DEF x
  <2> QED BY <1>2, <1>a, <1>b, <2>1, AppendProperties DEF EnqueueAgentAudio
<1>3. CASE EnqueueResponse(gen) \/ Disconnect \/ \E r \in 1 .. MaxResponses : TtsDone(r) \/ TtsFail(r)
  BY <1>3, <1>a, <1>b DEF EnqueueResponse, Disconnect, TtsDone, TtsFail
<1>4. CASE DrainWake \/ FinishModerator \/ DrainAgentDone
  BY <1>4, TakeNextTurn DEF DrainWake, FinishModerator, DrainAgentDone
<1>5. CASE DrainAnnounced
  <2>1. drain' = [pc |-> "send", item |-> drain.item, sent |-> 1] /\ drain.item.speaker = "agent"
    BY <1>5 DEF DrainAnnounced, StartSending, Suspend, Speakers
  <2> QED BY <1>5, <2>1 DEF DrainAnnounced, Speakers, Turn
<1>6. CASE SendFrame
  <2>1. /\ drain.pc = "send" /\ drain'.pc = "send" /\ drain'.item = drain.item
        /\ UNCHANGED <<modQ, agentQ, state>> /\ flushed' = flushed
    BY <1>6 DEF SendFrame, Suspend
  <2>2. Turn'
    BY <2>1, Zenon DEF Turn
  <2> QED BY <2>1, <2>2 DEF Speakers
<1>7. CASE FinishAgent \/ DrainIdle \/ StopDrain
  <2>1. drain'.pc \in {"agent_done", "wait", "stopped"} /\ UNCHANGED <<modQ, agentQ>>
    BY <1>7 DEF FinishAgent, DrainIdle, StopDrain, Suspend
  <2> QED BY <2>1 DEF Speakers, Turn
<1>8. CASE ResponseWake \/ ResponseCancelled
  <2>1. UNCHANGED <<state, flushed, drain>> /\ modQ' = modQ /\ (agentQ' = agentQ \/ Serve)
    BY <1>8 DEF ResponseWake, ResponseCancelled
  <2> QED BY <1>a, <1>b, <2>1, ServeTurn
<1>9. CASE ResponseResume
  <2>1. UNCHANGED <<state, flushed, drain>> /\ modQ' = modQ
    BY <1>9 DEF ResponseResume
  <2>2. agentQ' = agentQ \/ Serve \/ PlayResponse(resp.hand)
    BY <1>9 DEF ResponseResume
  <2>3. resp.hand \in Response
    BY <1>9 DEF ResponseResume, TypeOK
  <2> QED BY <1>a, <1>b, <2>1, <2>2, <2>3, ServeTurn, PlayTurn DEF PlayResponse
<1>10. CASE BargeIn
  <2>1. ASSUME NEW T, NEW q \in Seq(T), NEW g PROVE KeptByFlush(q, g) \in Seq(T)
    <3>1. {i \in DOMAIN q : q[i].gen >= g} \in SUBSET (DOMAIN q)
      OBVIOUS
    <3> QED BY <3>1, SelectProperties DEF KeptByFlush
  <2>2. modQ' \in Seq(By("moderator")) /\ agentQ' \in Seq(By("agent")) /\ drain' = drain
    BY <1>10, <1>b, <2>1 DEF BargeIn
  <2>3. Turn'
    <3>1. flushed'
      BY <1>10, Zenon DEF BargeIn
    <3> QED BY <3>1, Zenon DEF Turn
  <2> QED BY <2>2, <2>3 DEF Speakers
<1>11. CASE StopResponse \/ StopEnd
  BY <1>11, <1>a, <1>b DEF StopResponse, StopEnd
<1>12. CASE UNCHANGED vars
  BY <1>12, <1>a, <1>b DEF vars
<1> QED
  BY <1>1, <1>2, <1>3, <1>4, <1>5, <1>6, <1>7, <1>8, <1>9, <1>10, <1>11, <1>12
  DEF Next, Drain, RespondLoop, Stop

(* Audio of a response joins the queue only in the listening state.        *)
LEMMA PlayedWhenIdle ==
  TypeOK /\ Speakers /\ [Next]_vars /\ Len(agentQ') > Len(agentQ) /\ chunks' = chunks
    => state = "listening"
<1> SUFFICES ASSUME TypeOK, Speakers, [Next]_vars, Len(agentQ') > Len(agentQ), chunks' = chunks
             PROVE  state = "listening"
  OBVIOUS
<1> USE DEF audio, responses, session
<1>0. agentQ \in Seq(Item) /\ Len(agentQ) \in Nat /\ chunks \in Nat /\ chunks' # chunks + 1
  BY OutputAssumption DEF TypeOK
<1>1. agentQ' # agentQ
  BY <1>0
<1>2. ~TakeNext
  <2>1. SUFFICES ASSUME TakeNext PROVE FALSE
    OBVIOUS
  <2>2. agentQ # <<>> /\ agentQ' = Tail(agentQ)
    BY <1>1, <2>1 DEF TakeNext
  <2> QED BY <1>0, <2>2
<1>3. ~BargeIn
  <2>1. SUFFICES ASSUME BargeIn PROVE FALSE
    OBVIOUS
  <2> DEFINE S == {i \in DOMAIN agentQ : agentQ[i].gen >= gen'}
  <2>2. agentQ' = Select(agentQ, S) /\ S \in SUBSET (DOMAIN agentQ)
    BY <2>1 DEF BargeIn, KeptByFlush
  <2> HIDE DEF S
  <2>3. DOMAIN agentQ' = 1 .. Cardinality(S) /\ agentQ' \in Seq(Item)
    BY <1>0, <2>2, SelectProperties
  <2>4. Cardinality(S) <= Len(agentQ) /\ Cardinality(S) \in Nat
    <3>1. DOMAIN agentQ = 1 .. Len(agentQ)
      BY <1>0
    <3>2. IsFiniteSet(1 .. Len(agentQ)) /\ Cardinality(1 .. Len(agentQ)) = Len(agentQ)
      <4> DEFINE m == Len(agentQ)
      <4>1. m \in Int /\ 1 \in Int /\ m >= 0
        BY <1>0
      <4> HIDE DEF m
      <4>2. IsFiniteSet(1 .. m) /\ Cardinality(1 .. m) = IF 1 > m THEN 0 ELSE m - 1 + 1
        BY <4>1, FS_Interval
      <4>3. Cardinality(1 .. m) = m
        BY <4>1, <4>2
      <4> QED BY <4>2, <4>3 DEF m
    <3>3. S \subseteq 1 .. Len(agentQ)
      BY <2>2, <3>1
    <3>4. IsFiniteSet(S) /\ Cardinality(S) <= Cardinality(1 .. Len(agentQ))
      BY <3>2, <3>3, FS_Subset
    <3> QED BY <3>2, <3>4, FS_CardinalityType
  <2>5. Len(agentQ') = Cardinality(S)
    BY <2>3, <2>4
  <2> QED BY <1>0, <2>4, <2>5
<1>4. ~EnqueueModerator /\ ~EnqueueAgentAudio
  BY <1>0 DEF EnqueueModerator, EnqueueAgentAudio
<1>5. RespondLoop => state = "listening"
  BY <1>1 DEF RespondLoop, ResponseWake, ResponseResume, ResponseCancelled, Idle, StillIdle
<1> QED
  BY <1>1, <1>2, <1>3, <1>4, <1>5
  DEF Next, EnqueueResponse, TtsDone, TtsFail, Drain, DrainWake, DrainAnnounced, SendFrame,
      FinishModerator, FinishAgent, DrainAgentDone, DrainIdle, Disconnect, Stop, StopDrain,
      StopResponse, StopEnd, vars

(* A response whose TTS outlasts the idle state is not played over the     *)
(* moderator (output_controller.py:389-396).                               *)
THEOREM NeverTalksOver == Spec => NoTalkOver
<1>1. Init => Speakers /\ Turn
  BY DEF Init, Speakers, Turn
<1>2. TypeOK /\ Speakers /\ Turn /\ [Next]_vars => Speakers' /\ Turn'
  BY TurnStep
<1>3. TypeOK /\ Speakers /\ Turn /\ [Next]_vars
        => [Len(agentQ') > Len(agentQ) /\ chunks' = chunks
             => ~(drain.pc = "send" /\ drain.item.speaker = "moderator" /\ ~flushed)]_vars
  <2> SUFFICES ASSUME TypeOK, Turn, Speakers, [Next]_vars,
                      Len(agentQ') > Len(agentQ), chunks' = chunks
               PROVE  ~(drain.pc = "send" /\ drain.item.speaker = "moderator" /\ ~flushed)
    OBVIOUS
  <2>1. state # "moderator_speaking"
    BY PlayedWhenIdle
  <2> QED BY <2>1, Zenon DEF Turn
<1> QED BY <1>1, <1>2, <1>3, TypeCorrect, PTL DEF Spec, NoTalkOver
=============================================================================
