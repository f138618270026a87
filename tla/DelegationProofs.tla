--------------------------- MODULE DelegationProofs ---------------------------
(* Theorems about Delegation, for every registry, depth and number of runs. *)
EXTENDS Delegation, TLAPS

(* A run that exists belongs to an agent of the registry.                  *)
Born ==
  \A r \in Runs :
    /\ pc[r] # "none" => r <= made /\ agent[r] \in Agents
    /\ r > made => pc[r] = "none"

TypeInv == TypeOK /\ Born

(* What the tool finds is a chain, whichever run entered it.               *)
LEMMA FoundType ==
  ASSUME TypeOK, NEW a \in Agents
  PROVE  Found(a) \in Seq(Agents) /\ Len(Found(a)) <= MaxDepth
<1>1. CASE registered[a] = NoChain
  BY <1>1, DelegationAssumption DEF Found
<1>2. CASE registered[a] # NoChain
  BY <1>2 DEF Found, TypeOK
<1> QED BY <1>1, <1>2

(* Sending a task adds one run and leaves the others as they are.          *)
LEMMA SendAdds ==
  ASSUME TypeInv, NEW a \in Agents, NEW p \in 0..MaxRuns,
         NEW ch \in Seq(Agents), Len(ch) <= MaxDepth, NEW ln \in Seq(Agents),
         Send(a, p, ch, ln), mode' = mode, abandoned' = abandoned,
         registered' = registered, doubtful' \subseteq doubtful \cup {made'}
  PROVE  /\ TypeInv'
         /\ made' \in Runs /\ made' = made + 1 /\ pc[made'] = "none"
         /\ agent'[made'] = a /\ parent'[made'] = p /\ chain'[made'] = ch
         /\ line'[made'] = ln /\ pc'[made'] = "sent"
         /\ \A r \in Runs : r # made' =>
              /\ agent'[r] = agent[r] /\ parent'[r] = parent[r]
              /\ chain'[r] = chain[r] /\ line'[r] = line[r] /\ pc'[r] = pc[r]
<1>1. made' \in Runs /\ made' = made + 1 /\ pc[made'] = "none"
  BY DelegationAssumption DEF Send, TypeInv, TypeOK, Born, Runs
<1>2. \A r \in Runs : r # made' =>
        /\ agent'[r] = agent[r] /\ parent'[r] = parent[r]
        /\ chain'[r] = chain[r] /\ line'[r] = line[r] /\ pc'[r] = pc[r]
  BY <1>1 DEF Send
<1>3. agent'[made'] = a /\ parent'[made'] = p /\ pc'[made'] = "sent"
  BY <1>1 DEF Send, TypeInv, TypeOK
<1>4. chain' = [chain EXCEPT ![made'] = ch] /\ line' = [line EXCEPT ![made'] = ln]
  BY <1>1 DEF Send
<1>5. TypeOK'
  <2>1. /\ made' \in 0..MaxRuns
        /\ agent' \in [Runs -> Agents \cup {NoAgent}]
        /\ parent' \in [Runs -> 0..MaxRuns]
        /\ pc' \in [Runs -> {"none", "sent", "running", "closing", "ended"}]
        /\ chain' \in [Runs -> Seq(Agents)] /\ line' \in [Runs -> Seq(Agents)]
        /\ doubtful' \subseteq Runs
    BY <1>1 DEF Send, TypeInv, TypeOK, Runs
  <2>2. \A r \in Runs : Len(chain'[r]) <= MaxDepth
    BY <1>2, <1>4 DEF TypeInv, TypeOK
  <2> QED BY <2>1, <2>2 DEF TypeInv, TypeOK
<1> QED BY <1>1, <1>2, <1>3, <1>4, <1>5 DEF TypeInv, Born, TypeOK

(* A dispatch and an allowed question are the two ways to send a task.     *)
LEMMA DispatchAndAsk ==
  ASSUME TypeInv
  PROVE  /\ \A a \in Agents : Dispatch(a) =>
              <<>> \in Seq(Agents) /\ Len(<<>>) <= MaxDepth
         /\ \A r \in Runs, t \in Agents : Ask(r, t) =>
              /\ agent[r] \in Agents /\ r \in 0..MaxRuns
              /\ Found(agent[r]) \in Seq(Agents)
              /\ Extended(Found(agent[r]), agent[r]) \in Seq(Agents)
              /\ Len(Extended(Found(agent[r]), agent[r])) <= MaxDepth
              /\ Append(line[r], agent[r]) \in Seq(Agents)
<1>1. <<>> \in Seq(Agents) /\ Len(<<>>) <= MaxDepth
  BY DelegationAssumption
<1>2. ASSUME NEW r \in Runs, NEW t \in Agents, Ask(r, t)
      PROVE  /\ agent[r] \in Agents /\ r \in 0..MaxRuns
             /\ Found(agent[r]) \in Seq(Agents)
             /\ Extended(Found(agent[r]), agent[r]) \in Seq(Agents)
             /\ Len(Extended(Found(agent[r]), agent[r])) <= MaxDepth
             /\ Append(line[r], agent[r]) \in Seq(Agents)
  <2>1. agent[r] \in Agents /\ r \in 0..MaxRuns
    BY <1>2 DEF Ask, MayAsk, TypeInv, Born, Runs
  <2>2. Found(agent[r]) \in Seq(Agents)
    BY <2>1, FoundType DEF TypeInv
  <2>3. Len(Found(agent[r])) < MaxDepth
    BY <1>2 DEF Ask, Allowed
  <2>4. Append(line[r], agent[r]) \in Seq(Agents)
    BY <2>1 DEF TypeInv, TypeOK
  <2> QED BY <2>1, <2>2, <2>3, <2>4, DelegationAssumption DEF Extended
<1> QED BY <1>1, <1>2

(* Every step keeps the types.                                             *)
LEMMA TypeStep == TypeInv /\ [Next]_vars => TypeInv'
<1> SUFFICES ASSUME TypeInv, [Next]_vars PROVE TypeInv'
  OBVIOUS
<1>1. CASE UNCHANGED vars
  BY <1>1 DEF vars, TypeInv, TypeOK, Born
<1>2. ASSUME NEW a \in Agents, Dispatch(a) PROVE TypeInv'
  <2>1. <<>> \in Seq(Agents) /\ Len(<<>>) <= MaxDepth /\ 0 \in 0..MaxRuns
    BY <1>2, DispatchAndAsk, DelegationAssumption
  <2> QED BY <1>2, <2>1, SendAdds DEF Dispatch
<1>3. ASSUME NEW r \in Runs, NEW t \in Agents, Ask(r, t) PROVE TypeInv'
  BY <1>3, DispatchAndAsk, SendAdds DEF Ask
<1>4. ASSUME NEW r \in Runs, Fail(r) \/ Finish(r) PROVE TypeInv'
  BY <1>4 DEF Fail, Finish, TypeInv, TypeOK, Born
<1>5. ASSUME NEW r \in Runs, Execute(r) PROVE TypeInv'
  BY <1>5 DEF Execute, Sharing, TypeInv, TypeOK, Born
<1>6. ASSUME NEW r \in Runs, Close(r) PROVE TypeInv'
  BY <1>6 DEF Close, Unregister, TypeInv, TypeOK, Born
<1>7. ASSUME NEW r \in Runs, Abandon(r) PROVE TypeInv'
  BY <1>7 DEF Abandon, TypeInv, TypeOK, Born
<1> QED BY <1>1, <1>2, <1>3, <1>4, <1>5, <1>6, <1>7 DEF Next

(* The initial state has the types.                                        *)
LEMMA TypeInit == Init => TypeInv
<1> SUFFICES ASSUME Init PROVE TypeInv
  OBVIOUS
<1>1. <<>> \in Seq(Agents) /\ Len(<<>>) = 0
  OBVIOUS
<1> QED BY <1>1, DelegationAssumption DEF Init, TypeInv, TypeOK, Born, Runs

(* The types, and the limit on every chain whatever runs overlap.          *)
THEOREM TypeCorrect == Spec => []TypeOK
<1>1. TypeInv => TypeOK
  BY DEF TypeInv
<1> QED BY TypeInit, TypeStep, <1>1, PTL DEF Spec

-----------------------------------------------------------------------------
(* No entry of the dictionary outlives its run: a new run changes none, a  *)
(* run enters its own, and whoever removes one removes it for good.        *)
LEMMA StaleStep == TypeInv /\ NoStaleChain /\ [Next]_vars => NoStaleChain'
<1> DEFINE There(r, a) == agent[r] = a /\ AtWork(r)
                          /\ registered[a] = chain[r]
<1> SUFFICES ASSUME TypeInv, NoStaleChain, [Next]_vars,
                    NEW a \in Agents, registered'[a] # NoChain
             PROVE  \E r \in Runs : There(r, a)'
  BY DEF NoStaleChain
<1>0. registered[a] # NoChain => \E r \in Runs : There(r, a)
  BY DEF NoStaleChain
<1>1. CASE UNCHANGED vars
  BY <1>0, <1>1 DEF vars, AtWork
<1>2. ASSUME NEW b \in Agents, Dispatch(b) PROVE \E r \in Runs : There(r, a)'
  <2>1. <<>> \in Seq(Agents) /\ Len(<<>>) <= MaxDepth /\ 0 \in 0..MaxRuns
    BY <1>2, DispatchAndAsk, DelegationAssumption
  <2>2. Send(b, 0, <<>>, <<>>) /\ mode' = mode /\ abandoned' = abandoned
        /\ registered' = registered /\ doubtful' = doubtful
    BY <1>2 DEF Dispatch
  <2>3. /\ pc[made'] = "none"
        /\ \A r \in Runs : r # made' =>
             agent'[r] = agent[r] /\ chain'[r] = chain[r] /\ pc'[r] = pc[r]
    BY <2>1, <2>2, SendAdds
  <2>4. registered'[a] = registered[a] /\ \A r \in Runs : There(r, a) => r # made'
    BY <2>2, <2>3 DEF AtWork
  <2> QED BY <1>0, <2>2, <2>3, <2>4 DEF AtWork
<1>3. ASSUME NEW s \in Runs, NEW t \in Agents, Ask(s, t)
      PROVE  \E r \in Runs : There(r, a)'
  <2>1. Send(t, s, Extended(Found(agent[s]), agent[s]), Append(line[s], agent[s]))
        /\ mode' = mode /\ abandoned' = abandoned /\ registered' = registered
        /\ doubtful' \subseteq doubtful \cup {made'}
    BY <1>3 DEF Ask
  <2>2. /\ pc[made'] = "none"
        /\ \A r \in Runs : r # made' =>
             agent'[r] = agent[r] /\ chain'[r] = chain[r] /\ pc'[r] = pc[r]
    BY <1>3, <2>1, DispatchAndAsk, SendAdds
  <2>3. registered'[a] = registered[a] /\ \A r \in Runs : There(r, a) => r # made'
    BY <2>1, <2>2 DEF AtWork
  <2> QED BY <1>0, <2>1, <2>2, <2>3 DEF AtWork
<1>4. ASSUME NEW s \in Runs, Fail(s) \/ Finish(s)
      PROVE  \E r \in Runs : There(r, a)'
  BY <1>0, <1>4 DEF AtWork, Fail, Finish, TypeInv, TypeOK
<1>5. ASSUME NEW s \in Runs, Execute(s) PROVE \E r \in Runs : There(r, a)'
  <2>1. CASE agent[s] = a
    <3>1. There(s, a)'
      BY <1>5, <2>1 DEF AtWork, Execute, TypeInv, TypeOK
    <3> QED BY <3>1
  <2>2. CASE agent[s] # a
    BY <1>0, <1>5, <2>2 DEF AtWork, Execute, TypeInv, TypeOK
  <2> QED BY <2>1, <2>2
<1>6. ASSUME NEW s \in Runs, Close(s) PROVE \E r \in Runs : There(r, a)'
  <2>1. agent[s] # a
    BY <1>6 DEF AtWork, Close, Unregister, TypeInv, TypeOK
  <2> QED BY <1>0, <1>6, <2>1 DEF AtWork, Close, Unregister, TypeInv, TypeOK
<1>7. ASSUME NEW s \in Runs, Abandon(s) PROVE \E r \in Runs : There(r, a)'
  BY <1>0, <1>7 DEF AtWork, Abandon
<1> QED BY <1>1, <1>2, <1>3, <1>4, <1>5, <1>6, <1>7 DEF Next

(* The tool of a later run never finds a chain an earlier run has left,    *)
(* whatever runs overlap and however they end.                             *)
THEOREM NoChainIsStale == Spec => []NoStaleChain
<1>1. Init => NoStaleChain
  BY DEF Init, NoStaleChain
<1> QED BY <1>1, TypeInit, TypeStep, StaleStep, PTL DEF Spec

-----------------------------------------------------------------------------
(* When runs only nest.  The active runs form a stack: a run that has a    *)
(* deeper one is in the middle of a question, and is on the deeper one's   *)
(* chain at the place its depth gives it.                                  *)
Faithful == \A r \in Runs : chain[r] = line[r] /\ ~Contains(chain[r], agent[r])

Entered == \A r \in Runs :
  pc[r] \in {"running", "closing"} => registered[agent[r]] = chain[r]

Parents == \A r \in Runs : parent[r] # 0 =>
  /\ parent[r] \in Runs /\ pc[parent[r]] # "none"
  /\ Len(chain[r]) = Len(chain[parent[r]]) + 1

Above(r, s) ==
  /\ Len(chain[r]) # Len(chain[s])
  /\ Len(chain[r]) < Len(chain[s]) =>
       chain[s][Len(chain[r]) + 1] = agent[r] /\ pc[r] = "running" /\ Outstanding(r)

Stack == \A r, s \in Runs : Active(r) /\ Active(s) /\ r # s => Above(r, s)

NestInv == doubtful = {} /\ abandoned = {} /\ Faithful /\ Entered /\ Parents /\ Stack

(* No two active runs are of one agent, so that each has its own entry.    *)
LEMMA OneRunPerAgent ==
  ASSUME TypeInv, Faithful, Stack, NEW r \in Runs, NEW s \in Runs,
         Active(r), Active(s), r # s
  PROVE  agent[r] # agent[s]
<1>1. /\ chain[r] \in Seq(Agents) /\ chain[s] \in Seq(Agents)
      /\ Len(chain[r]) \in Nat /\ Len(chain[s]) \in Nat
  BY DEF TypeInv, TypeOK
<1>2. Above(r, s) /\ Above(s, r)
  BY DEF Stack
<1>3. CASE Len(chain[r]) < Len(chain[s])
  <2>1. Len(chain[r]) + 1 \in 1..Len(chain[s]) /\ chain[s][Len(chain[r]) + 1] = agent[r]
    BY <1>1, <1>2, <1>3 DEF Above
  <2> QED BY <2>1 DEF Faithful, Contains
<1>4. CASE Len(chain[s]) < Len(chain[r])
  <2>1. Len(chain[s]) + 1 \in 1..Len(chain[r]) /\ chain[r][Len(chain[s]) + 1] = agent[s]
    BY <1>1, <1>2, <1>4 DEF Above
  <2> QED BY <2>1 DEF Faithful, Contains
<1> QED BY <1>1, <1>2, <1>3, <1>4 DEF Above

(* An agent on an extended chain was on it or has just been added.         *)
LEMMA OnAppended ==
  ASSUME NEW ch \in Seq(Agents), NEW a \in Agents
  PROVE  /\ Append(ch, a) \in Seq(Agents) /\ Len(Append(ch, a)) = Len(ch) + 1
         /\ Append(ch, a)[Len(ch) + 1] = a
         /\ \A i \in 1..Len(ch) : Append(ch, a)[i] = ch[i]
         /\ \A t : Contains(Append(ch, a), t) => Contains(ch, t) \/ t = a
<1>1. /\ Append(ch, a) \in Seq(Agents) /\ Len(Append(ch, a)) = Len(ch) + 1
      /\ Append(ch, a)[Len(ch) + 1] = a
      /\ \A i \in 1..Len(ch) : Append(ch, a)[i] = ch[i]
  OBVIOUS
<1>2. ASSUME NEW t, Contains(Append(ch, a), t)
      PROVE  Contains(ch, t) \/ t = a
  <2> DEFINE up == Append(ch, a)
  <2>1. PICK i \in 1..Len(up) : up[i] = t
    BY <1>2 DEF Contains
  <2> HIDE DEF up
  <2>2. Len(up) = Len(ch) + 1 /\ up[Len(ch) + 1] = a /\ \A k \in 1..Len(ch) : up[k] = ch[k]
    BY <1>1 DEF up
  <2>3. i \in 1..Len(ch) \/ i = Len(ch) + 1
    BY <2>1, <2>2
  <2>4. CASE i \in 1..Len(ch)
    <3>1. ch[i] = t
      BY <2>1, <2>2, <2>4
    <3> QED BY <2>4, <3>1 DEF Contains
  <2>5. CASE i = Len(ch) + 1
    BY <2>1, <2>2, <2>5
  <2> QED BY <2>3, <2>4, <2>5
<1> QED BY <1>1, <1>2

(* A run that has no deeper one goes on, or ends: the stack stays one.     *)
LEMMA StackKept ==
  ASSUME TypeInv, NestInv, NEW r \in Runs, Active(r),
         ~(pc[r] = "running" /\ Outstanding(r)),
         NEW x \in {"running", "closing", "ended"}, pc' = [pc EXCEPT ![r] = x],
         agent' = agent, parent' = parent, chain' = chain, abandoned' = abandoned
  PROVE  Stack'
<1> SUFFICES ASSUME NEW p \in Runs, NEW q \in Runs, Active(p)', Active(q)', p # q
             PROVE  Above(p, q)'
  BY DEF Stack
<1>1. Active(p) /\ Active(q) /\ \A c \in Runs : c # r => pc'[c] = pc[c]
  BY DEF Active, TypeInv, TypeOK
<1>2. Above(p, q)
  BY <1>1 DEF NestInv, Stack
<1>3. ASSUME Len(chain[p]) < Len(chain[q])
      PROVE  chain[q][Len(chain[p]) + 1] = agent[p] /\ pc'[p] = "running" /\ Outstanding(p)'
  <2>1. chain[q][Len(chain[p]) + 1] = agent[p] /\ pc[p] = "running" /\ Outstanding(p)
    BY <1>2, <1>3 DEF Above
  <2>2. p # r /\ pc'[p] = "running"
    BY <1>1, <2>1
  <2>3. PICK c \in Runs : parent[c] = p /\ Active(c) /\ c \notin abandoned
    BY <2>1 DEF Outstanding
  <2>4. CASE Active(c)'
    BY <2>1, <2>2, <2>3, <2>4 DEF Outstanding
  <2>5. CASE ~Active(c)'
    <3>1. c = r /\ q # r
      BY <1>1, <2>3, <2>5 DEF Active
    <3>2. Len(chain[r]) = Len(chain[p]) + 1
      BY <2>3, <3>1, DelegationAssumption DEF NestInv, Parents, Runs
    <3>3. Above(r, q)
      BY <1>1, <3>1 DEF NestInv, Stack
    <3>4. Len(chain[r]) \in Nat /\ Len(chain[p]) \in Nat /\ Len(chain[q]) \in Nat
      BY DEF TypeInv, TypeOK
    <3>5. Len(chain[r]) < Len(chain[q])
      BY <1>3, <3>2, <3>3, <3>4 DEF Above
    <3> QED BY <3>3, <3>5 DEF Above
  <2> QED BY <2>4, <2>5
<1> QED BY <1>2, <1>3 DEF Above

(* The four steps of a run itself.                                         *)
LEMMA NestRun ==
  ASSUME TypeInv, NestInv, Nested, NEW r \in Runs,
         Fail(r) \/ Execute(r) \/ Finish(r) \/ Close(r)
  PROVE  NestInv'
<1> DEFINE same == /\ agent' = agent /\ parent' = parent /\ chain' = chain
                   /\ line' = line /\ abandoned' = abandoned
<1>1. PICK x \in {"running", "closing", "ended"} : pc' = [pc EXCEPT ![r] = x]
  BY DEF Fail, Execute, Finish, Close
<1>2. same /\ Active(r) /\ ~(pc[r] = "running" /\ Outstanding(r))
  BY DEF Fail, Execute, Finish, Close, Active
<1>3. Stack'
  BY <1>1, <1>2, StackKept
<1>4. \A q \in Runs : q # r => pc'[q] = pc[q]
  BY <1>1 DEF TypeInv, TypeOK
<1>5. Entered'
  <2>1. CASE Fail(r) \/ Finish(r)
    BY <2>1 DEF Fail, Finish, NestInv, Entered, TypeInv, TypeOK
  <2>2. CASE Execute(r) \/ Close(r)
    <3> SUFFICES ASSUME NEW q \in Runs, pc'[q] \in {"running", "closing"}
                 PROVE  registered'[agent[q]] = chain[q]
      BY <1>2 DEF Entered
    <3>1. CASE q = r
      <4>1. agent[r] \in Agents
        BY <1>2 DEF TypeInv, Born, Active
      <4>2. ~Close(r)
        BY <3>1 DEF Close, TypeInv, TypeOK
      <4> QED BY <2>2, <3>1, <4>1, <4>2 DEF Execute, TypeInv, TypeOK
    <3>2. CASE q # r
      <4>1. Active(q) /\ pc[q] \in {"running", "closing"}
        BY <1>4, <3>2 DEF Active
      <4>2. agent[q] # agent[r]
        BY <1>2, <3>2, <4>1, OneRunPerAgent DEF NestInv
      <4>3. registered[agent[q]] = chain[q] /\ agent[q] \in Agents
        BY <4>1 DEF NestInv, Entered, TypeInv, Born
      <4> QED BY <2>2, <4>2, <4>3 DEF Execute, Close, Unregister, TypeInv, TypeOK
    <3> QED BY <3>1, <3>2
  <2> QED BY <2>1, <2>2
<1>6. Faithful'
  BY <1>2 DEF NestInv, Faithful, Contains
<1>7. Parents'
  BY <1>1, <1>2, <1>4 DEF NestInv, Parents
<1>8. doubtful' = {}
  <2>1. Execute(r) => Sharing(r) = {}
    BY <1>2, OneRunPerAgent DEF Execute, Sharing, AtWork, Active, NestInv
  <2> QED BY <2>1 DEF Fail, Execute, Finish, Close, NestInv
<1> QED BY <1>2, <1>3, <1>5, <1>6, <1>7, <1>8 DEF NestInv

(* A dispatch finds no active run.                                         *)
LEMMA NestDispatch ==
  ASSUME TypeInv, NestInv, Nested, NEW a \in Agents, Dispatch(a)
  PROVE  NestInv'
<1>1. <<>> \in Seq(Agents) /\ Len(<<>>) = 0 /\ Len(<<>>) <= MaxDepth /\ 0 \in 0..MaxRuns
  BY DispatchAndAsk, DelegationAssumption
<1>2. /\ Send(a, 0, <<>>, <<>>) /\ mode' = mode /\ abandoned' = abandoned
      /\ registered' = registered /\ doubtful' = doubtful /\ \A r \in Runs : ~Active(r)
  BY DEF Dispatch
<1>3. PICK c \in Runs :
      /\ pc[c] = "none" /\ agent'[c] = a /\ parent'[c] = 0
      /\ chain'[c] = <<>> /\ line'[c] = <<>> /\ pc'[c] = "sent"
      /\ \A r \in Runs : r # c =>
           /\ agent'[r] = agent[r] /\ parent'[r] = parent[r]
           /\ chain'[r] = chain[r] /\ line'[r] = line[r] /\ pc'[r] = pc[r]
  <2>1. /\ made' \in Runs /\ pc[made'] = "none" /\ agent'[made'] = a /\ parent'[made'] = 0
        /\ chain'[made'] = <<>> /\ line'[made'] = <<>> /\ pc'[made'] = "sent"
        /\ \A r \in Runs : r # made' =>
             /\ agent'[r] = agent[r] /\ parent'[r] = parent[r]
             /\ chain'[r] = chain[r] /\ line'[r] = line[r] /\ pc'[r] = pc[r]
    BY <1>1, <1>2, SendAdds
  <2> QED BY <2>1, Zenon
<1>4. \A r \in Runs : Active(r)' => r = c
  BY <1>2, <1>3 DEF Active
<1>5. Stack'
  BY <1>4 DEF Stack
<1>6. Faithful'
  BY <1>1, <1>3 DEF NestInv, Faithful, Contains
<1>7. Entered'
  BY <1>2, <1>3 DEF NestInv, Entered
<1>8. Parents'
  <2> SUFFICES ASSUME NEW q \in Runs, parent'[q] # 0
               PROVE  /\ parent'[q] \in Runs /\ pc'[parent'[q]] # "none"
                      /\ Len(chain'[q]) = Len(chain'[parent'[q]]) + 1
    BY DEF Parents
  <2>1. q # c /\ parent'[q] = parent[q] /\ chain'[q] = chain[q]
    BY <1>3
  <2>2. /\ parent[q] \in Runs /\ pc[parent[q]] # "none"
        /\ Len(chain[q]) = Len(chain[parent[q]]) + 1
    BY <2>1 DEF NestInv, Parents
  <2> QED BY <1>3, <2>1, <2>2
<1> QED BY <1>2, <1>5, <1>6, <1>7, <1>8 DEF NestInv

(* A question is asked by the deepest run, which finds its own chain.      *)
LEMMA NestAsk ==
  ASSUME TypeInv, NestInv, Nested, NEW r \in Runs, NEW t \in Agents, Ask(r, t)
  PROVE  NestInv'
<1> DEFINE a == agent[r]
           ch == chain[r]
           up == Append(ch, a)
<1>1. /\ a \in Agents /\ ch \in Seq(Agents) /\ Len(ch) \in Nat /\ r \in 0..MaxRuns
      /\ pc[r] = "running" /\ ~Outstanding(r) /\ line[r] = ch
  BY DispatchAndAsk DEF Ask, MayAsk, TypeInv, TypeOK, NestInv, Faithful
<1>2. registered[a] = ch /\ Found(a) = ch
  BY <1>1, DelegationAssumption DEF NestInv, Entered, Found
<1>3. /\ up \in Seq(Agents) /\ Len(up) = Len(ch) + 1 /\ up[Len(ch) + 1] = a
      /\ \A i \in 1..Len(ch) : up[i] = ch[i]
      /\ \A u : Contains(up, u) => Contains(ch, u) \/ u = a
  BY <1>1, OnAppended
<1>4. /\ Send(t, r, up, up) /\ mode' = mode /\ abandoned' = abandoned
      /\ registered' = registered /\ t # a /\ ~Contains(ch, t) /\ Len(up) <= MaxDepth
      /\ doubtful' = doubtful /\ doubtful = {}
  BY <1>1, <1>2, DispatchAndAsk DEF Ask, Extended, Allowed, NestInv
<1>5. PICK c \in Runs :
      /\ pc[c] = "none" /\ agent'[c] = t /\ parent'[c] = r
      /\ chain'[c] = up /\ line'[c] = up /\ pc'[c] = "sent"
      /\ \A q \in Runs : q # c =>
           /\ agent'[q] = agent[q] /\ parent'[q] = parent[q]
           /\ chain'[q] = chain[q] /\ line'[q] = line[q] /\ pc'[q] = pc[q]
  <2>1. /\ made' \in Runs /\ pc[made'] = "none" /\ agent'[made'] = t /\ parent'[made'] = r
        /\ chain'[made'] = up /\ line'[made'] = up /\ pc'[made'] = "sent"
        /\ \A q \in Runs : q # made' =>
             /\ agent'[q] = agent[q] /\ parent'[q] = parent[q]
             /\ chain'[q] = chain[q] /\ line'[q] = line[q] /\ pc'[q] = pc[q]
    BY <1>1, <1>3, <1>4, SendAdds
  <2> QED BY <2>1, Zenon
<1>6. r # c
  BY <1>1, <1>5
<1> HIDE DEF a, up
<1>7. Faithful'
  <2>1. ~Contains(up, t)
    BY <1>3, <1>4
  <2>2. ASSUME NEW q \in Runs
        PROVE  chain'[q] = line'[q] /\ ~Contains(chain'[q], agent'[q])
    BY <1>5, <2>1 DEF NestInv, Faithful
  <2> QED BY <2>2 DEF Faithful, Contains
<1>8. Entered'
  BY <1>4, <1>5 DEF NestInv, Entered
<1>9. Parents'
  <2> SUFFICES ASSUME NEW q \in Runs, parent'[q] # 0
               PROVE  /\ parent'[q] \in Runs /\ pc'[parent'[q]] # "none"
                      /\ Len(chain'[q]) = Len(chain'[parent'[q]]) + 1
    BY DEF Parents
  <2>1. CASE q = c
    BY <1>1, <1>3, <1>5, <1>6, <2>1
  <2>2. CASE q # c
    <3>1. parent'[q] = parent[q] /\ chain'[q] = chain[q]
      BY <1>5, <2>2
    <3>2. /\ parent[q] \in Runs /\ pc[parent[q]] # "none"
          /\ Len(chain[q]) = Len(chain[parent[q]]) + 1
      BY <3>1 DEF NestInv, Parents
    <3> QED BY <1>5, <3>1, <3>2
  <2> QED BY <2>1, <2>2
<1>10. Active(r) /\ Active(c)' /\ ~Active(c) /\ (\A q \in Runs : q # c => (Active(q)' <=> Active(q)))
  BY <1>1, <1>5 DEF Active
<1>11. Outstanding(r)' /\ \A q \in Runs : Outstanding(q) => Outstanding(q)'
  <2>1. abandoned' = {}
    BY <1>4 DEF NestInv
  <2>2. Outstanding(r)'
    BY <1>5, <1>10, <2>1 DEF Outstanding
  <2>3. ASSUME NEW q \in Runs, Outstanding(q) PROVE Outstanding(q)'
    <3>1. PICK d \in Runs : parent[d] = q /\ Active(d)
      BY <2>3 DEF Outstanding
    <3>2. d # c /\ parent'[d] = q /\ Active(d)'
      BY <1>5, <1>10, <3>1
    <3> QED BY <2>1, <3>2 DEF Outstanding
  <2> QED BY <2>2, <2>3
<1>12. ASSUME NEW q \in Runs, Active(q), q # r
       PROVE  Len(chain[q]) \in Nat /\ Len(chain[q]) < Len(ch) /\ Above(q, r)
  <2>1. Above(q, r) /\ Above(r, q) /\ Len(chain[q]) \in Nat
    BY <1>10, <1>12 DEF NestInv, Stack, TypeInv, TypeOK
  <2> QED BY <1>1, <2>1 DEF Above
<1>13. ASSUME NEW p \in Runs, NEW q \in Runs, Active(p)', Active(q)', p # q
       PROVE  Above(p, q)'
  <2>1. CASE p # c /\ q # c
    <3>1. Above(p, q)
      BY <1>10, <1>13, <2>1 DEF NestInv, Stack
    <3> QED BY <1>5, <1>11, <2>1, <3>1 DEF Above
  <2>2. CASE q = c /\ p = r
    BY <1>1, <1>3, <1>5, <1>6, <1>11, <2>2 DEF Above, a
  <2>3. CASE q = c /\ p # r
    <3>1. p # c /\ Active(p)
      BY <1>10, <1>13, <2>3
    <3>2. Len(chain[p]) \in Nat /\ Len(chain[p]) < Len(ch) /\ Above(p, r)
      BY <1>12, <2>3, <3>1
    <3>3. ch[Len(chain[p]) + 1] = agent[p] /\ pc[p] = "running" /\ Outstanding(p)
      BY <3>2 DEF Above
    <3>4. up[Len(chain[p]) + 1] = agent[p] /\ Len(chain[p]) < Len(up)
      <4>1. Len(chain[p]) + 1 \in 1..Len(ch)
        BY <1>1, <3>2
      <4> QED BY <1>1, <1>3, <3>2, <3>3, <4>1
    <3>5. /\ chain'[p] = chain[p] /\ agent'[p] = agent[p] /\ pc'[p] = "running"
          /\ chain'[q] = up
      BY <1>5, <2>3, <3>1, <3>3
    <3>6. Outstanding(p)'
      BY <1>11, <3>3
    <3>7. Len(chain'[p]) < Len(chain'[q]) /\ Len(up) \in Nat
      BY <1>1, <1>3, <3>4, <3>5
    <3> QED BY <3>2, <3>4, <3>5, <3>6, <3>7 DEF Above
  <2>4. CASE p = c
    <3>1. q # c /\ Active(q)
      BY <1>10, <1>13, <2>4
    <3>2. Len(chain[q]) \in Nat /\ Len(chain[q]) < Len(up)
      BY <1>1, <1>3, <1>12, <3>1
    <3> QED BY <1>1, <1>3, <1>5, <2>4, <3>1, <3>2 DEF Above
  <2> QED BY <2>1, <2>2, <2>3, <2>4
<1> QED BY <1>4, <1>7, <1>8, <1>9, <1>13 DEF NestInv, Stack

(* In the nested environment the invariant holds from the start.           *)
LEMMA NestStep == TypeInv /\ (Nested => NestInv) /\ [Next]_vars => (Nested => NestInv)'
<1> SUFFICES ASSUME TypeInv, Nested => NestInv, [Next]_vars, Nested'
             PROVE  NestInv'
  OBVIOUS
<1>1. mode' = mode /\ Nested /\ NestInv
  BY DEF Next, vars, Dispatch, Ask, Fail, Execute, Finish, Close, Abandon, Nested
<1>2. CASE UNCHANGED vars
  BY <1>1, <1>2 DEF vars, NestInv, Faithful, Entered, Parents, Stack, Above, Active,
                    Outstanding, Contains
<1>3. ASSUME NEW r \in Runs PROVE ~Abandon(r)
  BY <1>1 DEF Abandon
<1> QED BY <1>1, <1>2, <1>3, NestDispatch, NestAsk, NestRun DEF Next

(* Nothing runs at first.                                                  *)
LEMMA NestInit == Init => (Nested => NestInv)
<1> SUFFICES ASSUME Init PROVE NestInv
  OBVIOUS
<1>1. Len(<<>>) = 0 /\ \A x : ~Contains(<<>>, x)
  BY DEF Contains
<1>2. \A r \in Runs : ~Active(r) /\ chain[r] = <<>> /\ line[r] = <<>> /\ parent[r] = 0
                      /\ pc[r] = "none"
  BY DEF Init, Active
<1>3. doubtful = {} /\ abandoned = {}
  BY DEF Init
<1> QED BY <1>1, <1>2, <1>3 DEF NestInv, Faithful, Entered, Parents, Stack

-----------------------------------------------------------------------------
(* Whatever runs overlap.  Two runs of one agent at a time are doubtful,   *)
(* any other finds its own chain in the entry, and a run that is not was   *)
(* given its true chain.                                                   *)
Alone ==
  \A r, s \in Runs :
    AtWork(r) /\ AtWork(s) /\ agent[r] = agent[s] /\ r # s => r \in doubtful

Finds == \A r \in Runs \ doubtful : AtWork(r) => registered[agent[r]] = chain[r]

Guarded == \A r \in Runs \ doubtful : chain[r] = line[r] /\ ~Contains(chain[r], agent[r])

OverlapInv == Alone /\ Finds /\ Guarded

(* A dispatched run has nobody above it.                                   *)
LEMMA OverlapDispatch ==
  ASSUME TypeInv, OverlapInv, NEW a \in Agents, Dispatch(a)
  PROVE  OverlapInv'
<1>1. <<>> \in Seq(Agents) /\ Len(<<>>) = 0 /\ Len(<<>>) <= MaxDepth /\ 0 \in 0..MaxRuns
  BY DispatchAndAsk, DelegationAssumption
<1>2. /\ Send(a, 0, <<>>, <<>>) /\ mode' = mode /\ abandoned' = abandoned
      /\ registered' = registered /\ doubtful' = doubtful
  BY DEF Dispatch
<1>3. PICK c \in Runs :
      /\ chain'[c] = <<>> /\ line'[c] = <<>> /\ pc'[c] = "sent"
      /\ \A r \in Runs : r # c =>
           /\ agent'[r] = agent[r] /\ chain'[r] = chain[r] /\ line'[r] = line[r]
           /\ pc'[r] = pc[r]
  <2>1. /\ made' \in Runs /\ chain'[made'] = <<>> /\ line'[made'] = <<>> /\ pc'[made'] = "sent"
        /\ \A r \in Runs : r # made' =>
             /\ agent'[r] = agent[r] /\ chain'[r] = chain[r] /\ line'[r] = line[r]
             /\ pc'[r] = pc[r]
    BY <1>1, <1>2, SendAdds
  <2> QED BY <2>1, Zenon
<1>4. \A r \in Runs : AtWork(r)' => r # c /\ AtWork(r)
  BY <1>3 DEF AtWork
<1>5. Alone' /\ Finds'
  BY <1>2, <1>3, <1>4 DEF OverlapInv, Alone, Finds
<1>6. Guarded'
  BY <1>1, <1>2, <1>3 DEF OverlapInv, Guarded, Contains
<1> QED BY <1>5, <1>6 DEF OverlapInv

(* A run that is not doubtful asks with its own chain.                     *)
LEMMA OverlapAsk ==
  ASSUME TypeInv, OverlapInv, NEW r \in Runs, NEW t \in Agents, Ask(r, t)
  PROVE  OverlapInv'
<1> DEFINE a == agent[r]
           ch == Extended(Found(a), a)
           up == Append(line[r], a)
<1>1. /\ a \in Agents /\ r \in 0..MaxRuns /\ AtWork(r) /\ chain[r] \in Seq(Agents)
      /\ Found(a) \in Seq(Agents) /\ t # a /\ ~Contains(Found(a), t)
      /\ ch \in Seq(Agents) /\ Len(ch) <= MaxDepth /\ up \in Seq(Agents)
  BY DispatchAndAsk DEF Ask, MayAsk, Allowed, AtWork, TypeInv, TypeOK
<1>2. /\ Send(t, r, ch, up) /\ mode' = mode /\ abandoned' = abandoned
      /\ registered' = registered /\ doubtful' \subseteq doubtful \cup {made'}
      /\ doubtful \subseteq doubtful' /\ (r \in doubtful => made' \in doubtful')
  BY DEF Ask
<1>3. r \notin doubtful => ch = up /\ ~Contains(ch, t)
  <2> SUFFICES ASSUME r \notin doubtful PROVE ch = up /\ ~Contains(ch, t)
    OBVIOUS
  <2>1. registered[a] = chain[r] /\ chain[r] = line[r]
    BY <1>1 DEF OverlapInv, Finds, Guarded
  <2>2. Found(a) = line[r]
    BY <1>1, <2>1, DelegationAssumption DEF Found
  <2>3. ch = Append(Found(a), a) /\ ch = up
    BY <2>2 DEF Extended
  <2> DEFINE f == Found(a)
  <2>4. f \in Seq(Agents) /\ a \in Agents
    BY <1>1
  <2> HIDE DEF f, a
  <2>5. \A u : Contains(Append(f, a), u) => Contains(f, u) \/ u = a
    BY <2>4, OnAppended
  <2>6. Contains(ch, t) => Contains(f, t) \/ t = a
    BY <2>3, <2>5 DEF f
  <2> QED BY <1>1, <2>3, <2>6 DEF f
<1> HIDE DEF ch, up
<1>4. PICK c \in Runs :
      /\ agent'[c] = t /\ chain'[c] = ch /\ line'[c] = up /\ pc'[c] = "sent"
      /\ doubtful' \subseteq doubtful \cup {c} /\ (r \in doubtful => c \in doubtful')
      /\ \A q \in Runs : q # c =>
           /\ agent'[q] = agent[q] /\ chain'[q] = chain[q] /\ line'[q] = line[q]
           /\ pc'[q] = pc[q]
  <2>1. /\ made' \in Runs /\ agent'[made'] = t /\ chain'[made'] = ch /\ line'[made'] = up
        /\ pc'[made'] = "sent"
        /\ \A q \in Runs : q # made' =>
             /\ agent'[q] = agent[q] /\ chain'[q] = chain[q] /\ line'[q] = line[q]
             /\ pc'[q] = pc[q]
    BY <1>1, <1>2, SendAdds
  <2> QED BY <1>2, <2>1, Zenon
<1>5. \A q \in Runs : AtWork(q)' => q # c /\ AtWork(q)
  BY <1>4 DEF AtWork
<1>6. Alone' /\ Finds'
  BY <1>2, <1>4, <1>5 DEF OverlapInv, Alone, Finds
<1>7. Guarded'
  <2> SUFFICES ASSUME NEW q \in Runs \ doubtful'
               PROVE  chain'[q] = line'[q] /\ ~Contains(chain'[q], agent'[q])
    BY DEF Guarded, Contains
  <2>1. CASE q = c
    BY <1>3, <1>4, <2>1
  <2>2. CASE q # c
    BY <1>2, <1>4, <2>2 DEF OverlapInv, Guarded
  <2> QED BY <2>1, <2>2
<1> QED BY <1>6, <1>7 DEF OverlapInv

(* A run that enters its chain makes those it finds at work doubtful, and  *)
(* itself; one that ends takes away its own entry, or that of a doubtful   *)
(* run.                                                                    *)
LEMMA OverlapRun ==
  ASSUME TypeInv, OverlapInv, NEW r \in Runs,
         Fail(r) \/ Execute(r) \/ Finish(r) \/ Close(r)
  PROVE  OverlapInv'
<1>1. /\ agent' = agent /\ chain' = chain /\ line' = line
      /\ doubtful \subseteq doubtful'
      /\ \A q \in Runs : q # r => pc'[q] = pc[q]
      /\ agent[r] \in Agents
  BY DEF Fail, Execute, Finish, Close, TypeInv, TypeOK, Born
<1>2. Guarded'
  BY <1>1 DEF OverlapInv, Guarded, Contains
<1>3. CASE Fail(r) \/ Finish(r)
  <2>1. doubtful' = doubtful /\ registered' = registered
        /\ \A q \in Runs : AtWork(q)' => AtWork(q)
    BY <1>1, <1>3 DEF Fail, Finish, AtWork, TypeInv, TypeOK
  <2>2. Alone' /\ Finds'
    BY <1>1, <2>1 DEF OverlapInv, Alone, Finds
  <2> QED BY <1>2, <2>2 DEF OverlapInv
<1>4. CASE Execute(r)
  <2>1. /\ \A q \in Runs : AtWork(q)' /\ q # r => AtWork(q)
        /\ \A q \in Runs : AtWork(q) /\ agent[q] = agent[r] =>
             q \in doubtful' /\ r \in doubtful'
        /\ ~AtWork(r)
        /\ registered'[agent[r]] = chain[r]
        /\ \A a \in Agents : a # agent[r] => registered'[a] = registered[a]
    BY <1>1, <1>4 DEF Execute, Sharing, AtWork, TypeInv, TypeOK
  <2>2. Alone'
    BY <1>1, <2>1 DEF OverlapInv, Alone
  <2>3. Finds'
    <3> SUFFICES ASSUME NEW q \in Runs \ doubtful', AtWork(q)'
                 PROVE  registered'[agent[q]] = chain[q]
      BY <1>1 DEF Finds
    <3>1. CASE q = r
      BY <2>1, <3>1
    <3>2. CASE q # r
      <4>1. AtWork(q) /\ agent[q] # agent[r] /\ agent[q] \in Agents
        BY <2>1, <3>2 DEF TypeInv, Born, AtWork
      <4> QED BY <1>1, <2>1, <4>1 DEF OverlapInv, Finds
    <3> QED BY <3>1, <3>2
  <2> QED BY <1>2, <2>2, <2>3 DEF OverlapInv
<1>5. CASE Close(r)
  <2>1. /\ \A q \in Runs : AtWork(q)' => q # r /\ AtWork(q)
        /\ doubtful' = doubtful /\ AtWork(r)
        /\ \A a \in Agents : a # agent[r] => registered'[a] = registered[a]
    BY <1>1, <1>5 DEF Close, Unregister, AtWork, TypeInv, TypeOK
  <2>2. Alone'
    BY <1>1, <2>1 DEF OverlapInv, Alone
  <2>3. ASSUME NEW q \in Runs \ doubtful', AtWork(q)'
        PROVE  registered'[agent[q]] = chain[q]
    <3>1. q # r /\ AtWork(q) /\ agent[q] \in Agents
      BY <2>1, <2>3 DEF TypeInv, Born, AtWork
    <3>2. agent[q] # agent[r]
      BY <2>1, <2>3, <3>1 DEF OverlapInv, Alone
    <3> QED BY <2>1, <2>3, <3>1, <3>2 DEF OverlapInv, Finds
  <2>4. Finds'
    BY <1>1, <2>3 DEF Finds
  <2> QED BY <1>2, <2>2, <2>4 DEF OverlapInv
<1> QED BY <1>3, <1>4, <1>5

(* Every step keeps it.                                                    *)
LEMMA OverlapStep == TypeInv /\ OverlapInv /\ [Next]_vars => OverlapInv'
<1> SUFFICES ASSUME TypeInv, OverlapInv, [Next]_vars PROVE OverlapInv'
  OBVIOUS
<1>1. CASE UNCHANGED vars
  BY <1>1 DEF vars, OverlapInv, Alone, Finds, Guarded, AtWork, Contains
<1>2. ASSUME NEW r \in Runs, Abandon(r) PROVE OverlapInv'
  BY <1>2 DEF Abandon, OverlapInv, Alone, Finds, Guarded, AtWork, Contains
<1> QED BY <1>1, <1>2, OverlapDispatch, OverlapAsk, OverlapRun DEF Next

(* Nothing runs at first, and nobody is above anyone.                      *)
LEMMA OverlapInit == Init => OverlapInv
<1> SUFFICES ASSUME Init PROVE OverlapInv
  OBVIOUS
<1>1. Len(<<>>) = 0 /\ \A x : ~Contains(<<>>, x)
  BY DEF Contains
<1>2. \A r \in Runs : ~AtWork(r) /\ chain[r] = <<>> /\ line[r] = <<>>
  BY DEF Init, AtWork
<1> QED BY <1>1, <1>2 DEF OverlapInv, Alone, Finds, Guarded

(* Whatever overlaps, a run is given the agents that are really above it,  *)
(* unless it was asked by way of a run that shared its entry with another  *)
(* of its agent; and while runs only nest, none does.                      *)
THEOREM ChainsAreLineages == Spec => []ChainIsLineage
<1>1. OverlapInv /\ (Nested => NestInv) => ChainIsLineage
  BY DEF OverlapInv, Guarded, NestInv, ChainIsLineage
<1> QED BY <1>1, TypeInit, TypeStep, NestInit, NestStep, OverlapInit, OverlapStep, PTL DEF Spec

(* With the same exception no agent is asked for its own work, and         *)
(* questions do not nest deeper than the limit.                            *)
THEOREM NoCycles == Spec => []NoCycle
<1>1. TypeInv /\ OverlapInv => NoCycle
  <2> SUFFICES ASSUME TypeInv, OverlapInv, NEW r \in Runs \ doubtful PROVE ~Astray(r)
    BY DEF NoCycle
  <2>1. line[r] = chain[r] /\ ~Contains(chain[r], agent[r]) /\ chain[r] \in Seq(Agents)
    BY DEF OverlapInv, Guarded, TypeInv, TypeOK
  <2>2. Len(line[r]) <= MaxDepth /\ Len(line[r]) \in Nat
    BY <2>1 DEF TypeInv, TypeOK
  <2> QED BY <2>1, <2>2, DelegationAssumption DEF Astray
<1> QED BY <1>1, TypeInit, TypeStep, OverlapInit, OverlapStep, PTL DEF Spec

(* With the same exception only what has to be blocked is blocked.         *)
THEOREM GuardsAreExact == Spec => []GuardIsExact
<1>1. TypeInv /\ OverlapInv => GuardIsExact
  <2> SUFFICES ASSUME TypeInv, OverlapInv, NEW r \in Runs \ doubtful, NEW t \in Agents,
                      Blocked(r, t)
               PROVE  t = agent[r] \/ Contains(line[r], t) \/ Len(line[r]) >= MaxDepth
    BY DEF GuardIsExact
  <2>1. AtWork(r) /\ ~Allowed(agent[r], t, Found(agent[r]))
    BY DEF Blocked, MayAsk, AtWork
  <2>2. registered[agent[r]] = chain[r] /\ chain[r] = line[r] /\ chain[r] \in Seq(Agents)
    BY <2>1 DEF OverlapInv, Finds, Guarded, TypeInv, TypeOK
  <2>3. Found(agent[r]) = line[r]
    BY <2>2, DelegationAssumption DEF Found
  <2> QED BY <2>1, <2>2, <2>3, DelegationAssumption DEF Allowed
<1> QED BY <1>1, TypeInit, TypeStep, OverlapInit, OverlapStep, PTL DEF Spec
=============================================================================
