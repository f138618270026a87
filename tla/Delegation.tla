------------------------------ MODULE Delegation ------------------------------
(***************************************************************************)
(* Agents that ask other agents: the A2A server of each agent runs         *)
(* SDKAgentRunner.run, whose ask_agent tool checks the delegation chain    *)
(* and sends a task to another agent's server.                             *)
(*                                                                         *)
(* The chain of a run is kept by the name of its agent, in one dictionary  *)
(* of the process (_active_delegation_chains).  Whether that dictionary is *)
(* still right when a tool reads it depends on which runs overlap.         *)
(***************************************************************************)
EXTENDS Naturals, Sequences, SequencesExt

CONSTANTS
  Agents,          \* the registry; each has an A2A server
  NoAgent, NoChain, \* None
  MaxDepth,        \* A2A_MAX_DELEGATION_DEPTH
  MaxRuns          \* bound: runs created

ASSUME DelegationAssumption ==
  /\ MaxDepth \in Nat /\ MaxRuns \in Nat
  /\ NoAgent \notin Agents /\ NoChain \notin Seq(Agents)

Runs == 1..MaxRuns

(* The environment, chosen once: may runs overlap other than by nesting?   *)
(* They do when two agents are dispatched at a time, by one conversation   *)
(* or by two, when a run asks two questions at a time, and when whoever    *)
(* waits for a run gives up and the run goes on.                           *)
VARIABLES
  mode,
  made,            \* number of runs so far
  agent, parent,   \* of each run; a run that was dispatched has parent 0
  chain,           \* the delegation_chain it was given
  line,            \* history: the agents that really are above it
  pc,              \* where it is
  abandoned,       \* nobody waits for it any more
  registered,      \* _active_delegation_chains
  doubtful         \* history: runs that shared their agent's entry with another
                   \* one, or were asked by such a run

vars == <<mode, made, agent, parent, chain, line, pc, abandoned, registered, doubtful>>

Init ==
  /\ mode \in {"nested", "free"}
  /\ made = 0
  /\ agent = [r \in Runs |-> NoAgent] /\ parent = [r \in Runs |-> 0]
  /\ chain = [r \in Runs |-> <<>>] /\ line = [r \in Runs |-> <<>>]
  /\ pc = [r \in Runs |-> "none"]
  /\ abandoned = {}
  /\ registered = [a \in Agents |-> NoChain] /\ doubtful = {}

Nested == mode = "nested"

Active(r) == pc[r] \in {"sent", "running", "closing"}

(* Between its entry in the dictionary and the removal of an entry.        *)
AtWork(r) == pc[r] \in {"running", "closing"}

(* An ask_agent call of the run awaits send_task_to_agent.                 *)
Outstanding(r) ==
  \E c \in Runs : parent[c] = r /\ Active(c) /\ c \notin abandoned

(* send_task_to_agent: a task for the agent's server is on its way.        *)
Send(a, p, ch, ln) ==
  LET c == made + 1 IN
  /\ made < MaxRuns
  /\ made' = c
  /\ agent' = [agent EXCEPT ![c] = a]
  /\ parent' = [parent EXCEPT ![c] = p]
  /\ chain' = [chain EXCEPT ![c] = ch]
  /\ line' = [line EXCEPT ![c] = ln]
  /\ pc' = [pc EXCEPT ![c] = "sent"]

(* An agent is dispatched, or resumed, for a conversation: no chain in the *)
(* metadata.                                                               *)
Dispatch(a) ==
  /\ ~Nested \/ \A r \in Runs : ~Active(r)
  /\ Send(a, 0, <<>>, <<>>)
  /\ UNCHANGED <<mode, abandoned, registered, doubtful>>

(* The request fails before the agent runs.                                *)
Fail(r) ==
  /\ pc[r] = "sent"
  /\ pc' = [pc EXCEPT ![r] = "ended"]
  /\ UNCHANGED <<mode, made, agent, parent, chain, line, abandoned, registered, doubtful>>

(* The runs whose entry it takes.                                          *)
Sharing(r) == {q \in Runs : AtWork(q) /\ agent[q] = agent[r]}

(* execute, and run up to the first message of the agent.                  *)
Execute(r) ==
  /\ pc[r] = "sent"
  /\ pc' = [pc EXCEPT ![r] = "running"]
  /\ registered' = [registered EXCEPT ![agent[r]] = chain[r]]
  /\ doubtful' = IF Sharing(r) = {} THEN doubtful ELSE doubtful \cup Sharing(r) \cup {r}
  /\ UNCHANGED <<mode, made, agent, parent, chain, line, abandoned>>

-----------------------------------------------------------------------------
(* ask_agent                                                               *)

(* Faulty variants: no look at the chain, and the depth off by one.        *)
AllowedCyclic(a, t, ch) == t # a /\ Len(ch) < MaxDepth
AllowedLate(a, t, ch) == t # a /\ ~Contains(ch, t) /\ Len(ch) <= MaxDepth

(* check_delegation_allowed                                                *)
Allowed(a, t, ch) == t # a /\ ~Contains(ch, t) /\ Len(ch) < MaxDepth

(* Faulty variant: the asking agent is put in front.                       *)
ExtendedFirst(ch, a) == <<a>> \o ch

Extended(ch, a) == Append(ch, a)

(* What the tool of an agent finds in the dictionary, [] by default.       *)
Found(a) == IF registered[a] = NoChain THEN <<>> ELSE registered[a]

MayAsk(r) == pc[r] = "running" /\ (~Nested \/ ~Outstanding(r))

Ask(r, t) ==
  /\ MayAsk(r) /\ Allowed(agent[r], t, Found(agent[r]))
  /\ Send(t, r, Extended(Found(agent[r]), agent[r]), Append(line[r], agent[r]))
  /\ doubtful' = IF r \in doubtful THEN doubtful \cup {made'} ELSE doubtful
  /\ UNCHANGED <<mode, abandoned, registered>>

(* The tool answers delegation_blocked, which changes nothing.             *)
Blocked(r, t) == MayAsk(r) /\ ~Allowed(agent[r], t, Found(agent[r]))

-----------------------------------------------------------------------------
(* The agent's messages end, or the run is interrupted, and gen.aclose()   *)
(* is awaited.  It is taken to return: should closing the messages raise,  *)
(* the entry would stay, until the next run of the agent replaces it.      *)
Finish(r) ==
  /\ pc[r] = "running"
  /\ ~Nested \/ ~Outstanding(r)
  /\ pc' = [pc EXCEPT ![r] = "closing"]
  /\ UNCHANGED <<mode, made, agent, parent, chain, line, abandoned, registered, doubtful>>

(* Faulty variant: the entry stays.                                        *)
UnregisterNot(a) == UNCHANGED registered

Unregister(a) == registered' = [registered EXCEPT ![a] = NoChain]

(* The entry of the agent's name is removed, whosever it is, and the       *)
(* answer sent.                                                            *)
Close(r) ==
  /\ pc[r] = "closing"
  /\ pc' = [pc EXCEPT ![r] = "ended"]
  /\ Unregister(agent[r])
  /\ UNCHANGED <<mode, made, agent, parent, chain, line, abandoned, doubtful>>

(* The wait for a run times out, or is cancelled.  Whether the server then *)
(* stops the run is not up to this code.                                   *)
Abandon(r) ==
  /\ ~Nested /\ Active(r) /\ r \notin abandoned
  /\ abandoned' = abandoned \cup {r}
  /\ UNCHANGED <<mode, made, agent, parent, chain, line, pc, registered, doubtful>>

-----------------------------------------------------------------------------
Next ==
  \/ \E a \in Agents : Dispatch(a)
  \/ \E r \in Runs :
       \/ Fail(r) \/ Execute(r) \/ Finish(r) \/ Close(r) \/ Abandon(r)
       \/ \E t \in Agents : Ask(r, t)

Spec == Init /\ [][Next]_vars

-----------------------------------------------------------------------------
(* Properties.                                                             *)

TypeOK ==
  /\ mode \in {"nested", "free"}
  /\ made \in 0..MaxRuns
  /\ agent \in [Runs -> Agents \cup {NoAgent}]
  /\ parent \in [Runs -> 0..MaxRuns]
  /\ chain \in [Runs -> Seq(Agents)] /\ line \in [Runs -> Seq(Agents)]
  /\ \A r \in Runs : Len(chain[r]) <= MaxDepth
  /\ pc \in [Runs -> {"none", "sent", "running", "closing", "ended"}]
  /\ abandoned \subseteq Runs
  /\ registered \in [Agents -> Seq(Agents) \cup {NoChain}]
  /\ \A a \in Agents : registered[a] # NoChain => Len(registered[a]) <= MaxDepth
  /\ doubtful \subseteq Runs

(* A run is given the agents that are really above it, the first of them   *)
(* the one whose callback carries its texts (executor.py:47), whatever     *)
(* overlaps, unless it was asked by a run that had by then shared its      *)
(* entry, or came by way of one; and none does while runs only nest.  So   *)
(* the dictionary with one entry per name does where the name is enough.   *)
ChainIsLineage ==
  /\ Nested => doubtful = {}
  /\ \A r \in Runs \ doubtful : chain[r] = line[r]

(* The run has itself above it, or too many.                               *)
Astray(r) == Contains(line[r], agent[r]) \/ Len(line[r]) > MaxDepth

(* "cycle and depth guards": no agent works on a question that comes from  *)
(* its own work, and questions do not nest deeper than the limit, with     *)
(* that one exception: of two runs that share an entry one replaces that   *)
(* of the other, or takes it away, and the guard sees the wrong chain.     *)
NoCycle == \A r \in Runs \ doubtful : ~Astray(r)

(* Nor is a question blocked that could be asked, with the same exception. *)
GuardIsExact ==
  \A r \in Runs \ doubtful, t \in Agents : Blocked(r, t) =>
    t = agent[r] \/ Contains(line[r], t) \/ Len(line[r]) >= MaxDepth

(* An entry of the dictionary is that of a run which is there, overlapping *)
(* or not: the tool of a later run does not find what an earlier one left, *)
(* however that one ended.                                                 *)
NoStaleChain ==
  \A a \in Agents : registered[a] # NoChain =>
    \E r \in Runs :
      agent[r] = a /\ AtWork(r) /\ registered[a] = chain[r]
=============================================================================
