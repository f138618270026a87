----------------------------- MODULE AgentWork -----------------------------
(***************************************************************************)
(* What the agent task manager promises about agent sessions, and no more: *)
(* a session is worked on by one run at a time and a run works once; only  *)
(* the run that works for a session settles its state, and has no more     *)
(* part in it then; at most Permits runs keep an agent busy.               *)
(*                                                                         *)
(* A run may keep its permit longer than its work (the fallback phrase     *)
(* after a timeout) or give it back earlier (the answer is rephrased), and *)
(* a run that is cancelled may leave without a word.                       *)
(***************************************************************************)
EXTENDS Naturals, FiniteSets

CONSTANTS Sessions, Runs, SessOf, Permits

VARIABLES begun,     \* runs so far
          working,   \* those that still work for their session
          holding,   \* those that have a permit
          state      \* the state of a session

wvars == <<begun, working, holding, state>>

Outcomes == {"idle", "cancelled", "timeout"}

Init ==
  /\ begun = {} /\ working = {} /\ holding = {}
  /\ state = [s \in Sessions |-> "none"]

Busy(s) == \E r \in working : SessOf[r] = s

Take(r) ==
  /\ r \notin begun /\ ~Busy(SessOf[r])
  /\ begun' = begun \cup {r} /\ working' = working \cup {r}
  /\ state' = [state EXCEPT ![SessOf[r]] = "active"]
  /\ UNCHANGED holding

Enter(r) ==
  /\ r \in working \ holding /\ Cardinality(holding) < Permits
  /\ holding' = holding \cup {r}
  /\ UNCHANGED <<begun, working, state>>

Leave(r) ==
  /\ r \in holding
  /\ holding' = holding \ {r}
  /\ UNCHANGED <<begun, working, state>>

(* The end of the work; the permit is given back with it, or was before,   *)
(* or is kept.                                                             *)
Quit(r) ==
  /\ r \in working
  /\ working' = working \ {r}
  /\ holding' \in {holding, holding \ {r}}
  /\ UNCHANGED begun

Settle(r) ==
  /\ Quit(r)
  /\ \E o \in Outcomes : state' = [state EXCEPT ![SessOf[r]] = o]

Abandon(r) == Quit(r) /\ UNCHANGED state

Next ==
  \E r \in Runs : Take(r) \/ Enter(r) \/ Leave(r) \/ Settle(r) \/ Abandon(r)

Spec == Init /\ [][Next]_wvars
=============================================================================
