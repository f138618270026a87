------------------------------ MODULE MCAgents ------------------------------
(* Instances of AgentTasks for TLC.                                         *)
EXTENDS AgentTasks, TLC

CONSTANTS c1, c2, s1, s2, r1, r2, r3, ellen

(* Two sessions of one conversation, or one in each of two.                 *)
OneConv == (s1 :> c1) @@ (s2 :> c1)
TwoConvs == (s1 :> c1) @@ (s2 :> c2)

SameAgent == (s1 :> ellen) @@ (s2 :> ellen)

(* The first session is run twice, the second once.                         *)
ThreeRuns == (r1 :> s1) @@ (r2 :> s1) @@ (r3 :> s2)
TwoRuns == (r1 :> s1) @@ (r2 :> s2)
=============================================================================
