----------------------------- MODULE Selection -----------------------------
(***************************************************************************)
(* The subsequence of a sequence at a given set of positions: what a list  *)
(* comprehension with a condition keeps.  It is written without recursion, *)
(* so that facts about it can be proved (SelectionProofs).                 *)
(***************************************************************************)
EXTENDS Integers, Sequences, FiniteSets

(* How many positions in S are at most i.                                  *)
Rank(S, i) == Cardinality({j \in S : j <= i})

(* The k-th smallest position in S.                                        *)
Nth(S, k) == CHOOSE i \in S : Rank(S, i) = k

Select(q, S) == [k \in 1 .. Cardinality(S) |-> q[Nth(S, k)]]
=============================================================================
