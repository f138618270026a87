-------------------------- MODULE SelectionProofs --------------------------
(* What Select returns, for every sequence and every set of positions.     *)
EXTENDS Selection, FiniteSetTheorems, TLAPS

(* Ranks of different positions differ, and lie between 1 and the number   *)
(* of positions.                                                           *)
LEMMA RankInjective ==
  ASSUME NEW S, IsFiniteSet(S), S \subseteq Nat
  PROVE  /\ \A i \in S : Rank(S, i) \in 1 .. Cardinality(S)
         /\ \A i, j \in S : i < j => Rank(S, i) < Rank(S, j)
<1> DEFINE upto(i) == {j \in S : j <= i}
<1>1. \A i : /\ IsFiniteSet(upto(i))
             /\ Cardinality(upto(i)) \in Nat
             /\ Cardinality(upto(i)) <= Cardinality(S)
  BY FS_Subset, FS_CardinalityType
<1>2. ASSUME NEW i \in S
      PROVE  Cardinality(upto(i)) >= 1
  <2>1. i \in upto(i)
    BY S \subseteq Nat
  <2>2. Cardinality(upto(i)) # 0
    BY <1>1, <2>1, FS_EmptySet
  <2> QED BY <1>1, <2>2
<1>3. ASSUME NEW i \in S, NEW j \in S, i < j
      PROVE  Cardinality(upto(i)) < Cardinality(upto(j))
  <2>1. upto(i) \in SUBSET upto(j)
    <3>1. \A x \in S : x \in Nat
      BY S \subseteq Nat
    <3>2. ASSUME NEW x \in S, x <= i
          PROVE  x <= j
      BY <1>3, <3>1, <3>2
    <3> QED BY <3>2
  <2>2. j \in upto(j) /\ j \notin upto(i)
    BY <1>3, S \subseteq Nat
  <2>3. /\ Cardinality(upto(i)) <= Cardinality(upto(j))
        /\ Cardinality(upto(i)) # Cardinality(upto(j))
    <3> HIDE DEF upto
    <3> QED BY <1>1, <2>1, <2>2, FS_Subset
  <2> QED
    <3> HIDE DEF upto
    <3> QED BY <1>1, <2>3
<1>4. Cardinality(S) \in Nat
  BY FS_CardinalityType
<1>5. \A i \in S : Cardinality(upto(i)) \in 1 .. Cardinality(S)
  <2> HIDE DEF upto
  <2> QED BY <1>1, <1>2, <1>4
<1> QED BY <1>3, <1>5 DEF Rank

(* Every rank up to the number of positions is taken.                      *)
LEMMA NthSelects ==
  ASSUME NEW S, IsFiniteSet(S), S \subseteq Nat, NEW k \in 1 .. Cardinality(S)
  PROVE  Nth(S, k) \in S /\ Rank(S, Nth(S, k)) = k
<1> DEFINE T == 1 .. Cardinality(S)
           f == [i \in S |-> Rank(S, i)]
<1>1. Cardinality(S) \in Nat
  BY FS_CardinalityType
<1>2. IsFiniteSet(T) /\ Cardinality(T) = Cardinality(S)
  BY <1>1, FS_Interval
<1>3. f \in Injection(S, T)
  <2>0. /\ \A i \in S : Rank(S, i) \in 1 .. Cardinality(S)
        /\ \A i, j \in S : i < j => Rank(S, i) < Rank(S, j)
    BY RankInjective
  <2>1. f \in [S -> T]
    BY <2>0
  <2>2. ASSUME NEW i \in S, NEW j \in S, i # j
        PROVE  f[i] # f[j]
    <3>1. i < j \/ j < i
      BY <2>2, S \subseteq Nat
    <3>2. Rank(S, i) \in Int /\ Rank(S, j) \in Int
      BY <2>0, <1>1
    <3>3. Rank(S, i) # Rank(S, j)
      BY <2>0, <3>1, <3>2
    <3> QED BY <3>3
  <2> QED
    <3> HIDE DEF f, T
    <3> QED BY <2>1, <2>2 DEF Injection, IsInjective
<1>4. f \in Surjection(S, T)
  <2> HIDE DEF f, T
  <2> QED BY <1>2, <1>3, FS_Injection
<1>5. \E i \in S : Rank(S, i) = k
  BY <1>4 DEF Surjection
<1> QED BY <1>5 DEF Nth

(* Select keeps exactly as many elements as there are positions, each from *)
(* one of them, in the order they had.                                     *)
LEMMA SelectProperties ==
  ASSUME NEW T, NEW q \in Seq(T), NEW S \in SUBSET (DOMAIN q)
  PROVE  /\ Select(q, S) \in Seq(T)
         /\ DOMAIN Select(q, S) = 1 .. Cardinality(S)
         /\ \A k \in DOMAIN Select(q, S) :
              Nth(S, k) \in S /\ Select(q, S)[k] = q[Nth(S, k)]
         /\ \A k, l \in DOMAIN Select(q, S) : k < l => Nth(S, k) < Nth(S, l)
         /\ S = {} => Select(q, S) = <<>>
<1>1. IsFiniteSet(S) /\ S \subseteq Nat /\ Cardinality(S) \in Nat
  <2>1. DOMAIN q = 1 .. Len(q) /\ Len(q) \in Nat
    OBVIOUS
  <2>2. IsFiniteSet(1 .. Len(q))
    BY <2>1, FS_Interval
  <2>3. IsFiniteSet(S)
    BY <2>1, <2>2, FS_Subset
  <2> QED BY <2>1, <2>3, FS_CardinalityType
<1>2. \A k \in 1 .. Cardinality(S) : Nth(S, k) \in S /\ Rank(S, Nth(S, k)) = k
  BY <1>1, NthSelects
<1>3. \A k \in 1 .. Cardinality(S) : q[Nth(S, k)] \in T
  BY <1>2
<1>4. Select(q, S) \in Seq(T) /\ DOMAIN Select(q, S) = 1 .. Cardinality(S)
  BY <1>1, <1>3 DEF Select
<1>5. ASSUME NEW k \in 1 .. Cardinality(S), NEW l \in 1 .. Cardinality(S), k < l
      PROVE  Nth(S, k) < Nth(S, l)
  <2>1. Nth(S, k) \in Nat /\ Nth(S, l) \in Nat
    BY <1>1, <1>2
  <2>2. CASE Nth(S, l) = Nth(S, k)
    BY <1>2, <1>5, <2>2
  <2>3. CASE Nth(S, l) < Nth(S, k)
    <3>1. Rank(S, Nth(S, l)) < Rank(S, Nth(S, k))
      BY <1>1, <1>2, <2>3, RankInjective
    <3> QED BY <1>2, <1>5, <3>1
  <2> QED BY <2>1, <2>2, <2>3
<1>6. S = {} => Select(q, S) = <<>>
  <2> SUFFICES ASSUME S = {} PROVE Len(Select(q, S)) = 0
    BY <1>4
  <2> QED BY <1>4, FS_EmptySet
<1> QED BY <1>2, <1>4, <1>5, <1>6 DEF Select
(* And nothing that is selected is missing.                                *)
LEMMA SelectCovers ==
  ASSUME NEW T, NEW q \in Seq(T), NEW S \in SUBSET (DOMAIN q), NEW i \in S
  PROVE  \E k \in DOMAIN Select(q, S) : Nth(S, k) = i /\ Select(q, S)[k] = q[i]
<1>1. IsFiniteSet(S) /\ S \subseteq Nat /\ Cardinality(S) \in Nat
  <2>1. DOMAIN q = 1 .. Len(q) /\ Len(q) \in Nat
    OBVIOUS
  <2>2. IsFiniteSet(1 .. Len(q))
    BY <2>1, FS_Interval
  <2>3. IsFiniteSet(S)
    BY <2>1, <2>2, FS_Subset
  <2> QED BY <2>1, <2>3, FS_CardinalityType
<1>2. /\ \A j \in S : Rank(S, j) \in 1 .. Cardinality(S)
      /\ \A j, l \in S : j < l => Rank(S, j) < Rank(S, l)
  BY <1>1, RankInjective
<1> DEFINE k == Rank(S, i)
<1>3. k \in 1 .. Cardinality(S)
  BY <1>2
<1>4. Nth(S, k) \in S /\ Rank(S, Nth(S, k)) = k
  BY <1>1, <1>3, NthSelects
<1>5. Nth(S, k) = i
  <2>1. Nth(S, k) \in Nat /\ i \in Nat
    BY <1>1, <1>4
  <2>2. ~(Nth(S, k) < i) /\ ~(i < Nth(S, k))
    BY <1>1, <1>2, <1>3, <1>4
  <2> QED BY <2>1, <2>2
<1>6. k \in DOMAIN Select(q, S) /\ Select(q, S)[k] = q[Nth(S, k)]
  BY <1>3, SelectProperties
<1> QED BY <1>5, <1>6
=============================================================================
