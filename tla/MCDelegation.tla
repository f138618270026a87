----------------------------- MODULE MCDelegation -----------------------------
(* Delegation for TLC: agents differ in nothing but their names.            *)
EXTENDS Delegation

Symmetry == Permutations(Agents)
=============================================================================
