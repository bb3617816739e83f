--------------------------- MODULE SelectionProofs ---------------------------
(***************************************************************************)
(* What filtering a sequence keeps, for every sequence and every set: the  *)
(* members of the set and no others, each as often as it was there, in the *)
(* order they had.                                                         *)
(***************************************************************************)
EXTENDS Selection, FiniteSetTheorems, SequenceTheorems, TLAPS

(* Positions of a sequence are finitely many.                               *)
LEMMA PositionsFinite ==
  ASSUME NEW n \in Nat, NEW I \in SUBSET (1..n)
  PROVE  /\ IsFiniteSet(I) /\ Cardinality(I) \in Nat /\ Cardinality(I) <= n
         /\ Cardinality(I) = n => I = 1..n
<1>1. IsFiniteSet(1..n) /\ Cardinality(1..n) = n
  <2>1. IsFiniteSet(1..n) /\ Cardinality(1..n) = IF 1 > n THEN 0 ELSE n - 1 + 1 BY FS_Interval
  <2> QED BY <2>1
<1>2. IsFiniteSet(I) /\ Cardinality(I) <= n /\ (Cardinality(I) = n => I = 1..n) BY <1>1, FS_Subset
<1> QED BY <1>2, FS_CardinalityType

(* The rank of a position grows with it and counts up to the last.          *)
LEMMA RankGrows ==
  ASSUME NEW n \in Nat, NEW I \in SUBSET (1..n)
  PROVE  /\ \A j \in I : Rank(I, j) \in 1..Cardinality(I)
         /\ \A j, k \in I : j < k => Rank(I, j) < Rank(I, k)
<1>1. ASSUME NEW j \in I PROVE Rank(I, j) \in 1..Cardinality(I)
  <2> DEFINE B == {k \in I : k <= j}
  <2>1. B \in SUBSET I /\ j \in B OBVIOUS
  <2>2. IsFiniteSet(I) /\ Cardinality(I) \in Nat BY PositionsFinite
  <2>3. IsFiniteSet(B) /\ Cardinality(B) <= Cardinality(I) BY <2>1, <2>2, FS_Subset
  <2>4. Cardinality(B) \in Nat /\ Cardinality(B) # 0
    <3>1. B # {} BY <2>1
    <3> QED BY <2>3, <3>1, FS_EmptySet, FS_CardinalityType
  <2> QED BY <2>2, <2>3, <2>4 DEF Rank
<1>2. ASSUME NEW j \in I, NEW k \in I, j < k PROVE Rank(I, j) < Rank(I, k)
  <2> DEFINE B == {x \in I : x <= j}
             C == {x \in I : x <= k}
  <2>0. \A x \in I : x \in Int OBVIOUS
  <2>1. B \in SUBSET C /\ k \in C /\ k \notin B
    <3>1. ASSUME NEW x \in B PROVE x \in C BY <1>2, <2>0, <3>1
    <3>2. k \in C /\ k \notin B BY <1>2, <2>0
    <3> QED BY <3>1, <3>2
  <2>2. IsFiniteSet(C)
    <3>1. C \in SUBSET I OBVIOUS
    <3> QED BY <3>1, PositionsFinite, FS_Subset
  <2>3. IsFiniteSet(B) /\ Cardinality(B) <= Cardinality(C) /\ (Cardinality(C) = Cardinality(B) => C = B)
    BY <2>1, <2>2, FS_Subset
  <2>4. C # B BY <2>1
  <2>5. Cardinality(B) \in Nat /\ Cardinality(C) \in Nat BY <2>2, <2>3, FS_CardinalityType
  <2> QED BY <2>3, <2>4, <2>5 DEF Rank
<1> QED BY <1>1, <1>2

(* So every number up to the last is the rank of a position.                *)
LEMMA NthIsThere ==
  ASSUME NEW n \in Nat, NEW I \in SUBSET (1..n)
  PROVE  /\ \A m \in 1..Cardinality(I) : Nth(I, m) \in I /\ Rank(I, Nth(I, m)) = m
         /\ \A j \in I : Nth(I, Rank(I, j)) = j
<1> DEFINE c == Cardinality(I)
           f == [j \in I |-> Rank(I, j)]
<1>1. c \in Nat /\ IsFiniteSet(I) BY PositionsFinite
<1>2. IsFiniteSet(1..c) /\ Cardinality(1..c) = c
  <2>1. IsFiniteSet(1..c) /\ Cardinality(1..c) = IF 1 > c THEN 0 ELSE c - 1 + 1 BY <1>1, FS_Interval
  <2> QED BY <1>1, <2>1
<1>3. f \in [I -> 1..c] BY RankGrows
<1>4. ASSUME NEW j \in I, NEW k \in I, f[j] = f[k] PROVE j = k
  <2>1. j \in Nat /\ k \in Nat OBVIOUS
  <2>2. Rank(I, j) = Rank(I, k) BY <1>4
  <2>3. Rank(I, j) \in Int /\ Rank(I, k) \in Int
    <3>1. Rank(I, j) \in 1..c BY RankGrows
    <3> HIDE DEF c
    <3> QED BY <2>2, <3>1
  <2>4. (j < k => Rank(I, j) < Rank(I, k)) /\ (k < j => Rank(I, k) < Rank(I, j)) BY RankGrows
  <2> QED BY <2>1, <2>2, <2>3, <2>4
<1> HIDE DEF f, c
<1>5. f \in Injection(I, 1..c) BY <1>3, <1>4 DEF Injection, IsInjective
<1>6. f \in Surjection(I, 1..c)
  <2>1. Cardinality(I) = Cardinality(1..c) BY <1>2 DEF c
  <2> QED BY <1>2, <1>5, <2>1, FS_Injection
<1>7. \A m \in 1..c : \E j \in I : Rank(I, j) = m BY <1>6 DEF Surjection, f
<1>8. \A m \in 1..c : Nth(I, m) \in I /\ Rank(I, Nth(I, m)) = m BY <1>7 DEF Nth
<1>9. ASSUME NEW j \in I PROVE Nth(I, Rank(I, j)) = j
  <2>1. Rank(I, j) \in 1..c BY RankGrows DEF c
  <2> QED BY <1>4, <1>8, <2>1 DEF f
<1> QED BY <1>8, <1>9 DEF c

LEMMA NthGrows ==
  ASSUME NEW n \in Nat, NEW I \in SUBSET (1..n),
         NEW l \in 1..Cardinality(I), NEW m \in 1..Cardinality(I), l < m
  PROVE  Nth(I, l) < Nth(I, m)
<1>0. Cardinality(I) \in Nat BY PositionsFinite
<1>1. /\ Nth(I, l) \in I /\ Rank(I, Nth(I, l)) = l
      /\ Nth(I, m) \in I /\ Rank(I, Nth(I, m)) = m
  BY NthIsThere
<1>2. \A j \in I : j \in Int OBVIOUS
<1>3. Nth(I, m) < Nth(I, l) => m < l
  <2> DEFINE j == Nth(I, m)
             k == Nth(I, l)
  <2>1. j \in I /\ k \in I /\ Rank(I, j) = m /\ Rank(I, k) = l BY <1>1
  <2> HIDE DEF j, k
  <2>2. j < k => Rank(I, j) < Rank(I, k) BY <2>1, RankGrows
  <2> QED BY <2>1, <2>2 DEF j, k
<1>4. Nth(I, l) = Nth(I, m) => l = m BY <1>1
<1>5. \A i \in 1..Cardinality(I) : i \in Int OBVIOUS
<1>6. ~(m < l) /\ l # m BY <1>5
<1>7. ~(Nth(I, m) < Nth(I, l)) /\ Nth(I, l) # Nth(I, m) BY <1>3, <1>4, <1>6
<1>8. Nth(I, l) \in Int /\ Nth(I, m) \in Int BY <1>1, <1>2
<1> QED BY <1>7, <1>8
-----------------------------------------------------------------------------
(* Filtering.                                                               *)

(* The kept positions, as a map from the new ones.                          *)
LEMMA OnlyPositions ==
  ASSUME NEW S, NEW s \in Seq(S), NEW K
  PROVE  /\ Where(s, K) \in SUBSET (1..Len(s)) /\ Len(s) \in Nat
         /\ Only(s, K) \in Seq(S) /\ Only(s, K) \in Seq(K)
         /\ Len(Only(s, K)) = Cardinality(Where(s, K))
         /\ DOMAIN Only(s, K) = 1..Cardinality(Where(s, K))
         /\ \A m \in DOMAIN Only(s, K) :
              Nth(Where(s, K), m) \in Where(s, K) /\ Only(s, K)[m] = s[Nth(Where(s, K), m)]
<1> DEFINE I == Where(s, K)
<1>1. I \in SUBSET (1..Len(s)) /\ Len(s) \in Nat BY DEF Where
<1>2. \A i \in I : s[i] \in K /\ s[i] \in S BY <1>1 DEF Where
<1> HIDE DEF I
<1>3. Cardinality(I) \in Nat BY <1>1, PositionsFinite
<1>4. \A m \in 1..Cardinality(I) : Nth(I, m) \in I BY <1>1, NthIsThere
<1>5. Only(s, K) = [m \in 1..Cardinality(I) |-> s[Nth(I, m)]]
  <2>1. {At(u, Where(u, L)) : u \in {s}, L \in {K}} = {At(s, Where(s, K))} OBVIOUS
  <2>2. Only(s, K) = At(s, Where(s, K)) BY <2>1 DEF Only
  <2> QED BY <2>2 DEF At, I
<1>6. Only(s, K) \in [1..Cardinality(I) -> S] /\ Only(s, K) \in [1..Cardinality(I) -> K]
  BY <1>2, <1>4, <1>5
<1>7. Only(s, K) \in Seq(S) /\ Only(s, K) \in Seq(K) BY <1>3, <1>6
<1>8. DOMAIN Only(s, K) = 1..Cardinality(I) BY <1>5
<1>9. Len(Only(s, K)) = Cardinality(I) BY <1>3, <1>7, <1>8, LenProperties
<1> QED BY <1>1, <1>4, <1>5, <1>7, <1>8, <1>9 DEF I

(* Filtering yields a sequence of the members in the set, no longer than    *)
(* before.                                                                  *)
LEMMA OnlyIsSeq ==
  ASSUME NEW S, NEW s \in Seq(S), NEW K
  PROVE  Only(s, K) \in Seq(S) /\ Only(s, K) \in Seq(K) /\ Len(Only(s, K)) <= Len(s)
<1>1. Cardinality(Where(s, K)) <= Len(s) BY OnlyPositions, PositionsFinite
<1> QED BY <1>1, OnlyPositions

(* Filtering keeps exactly the members in the set.                          *)
LEMMA OnlyKeeps ==
  ASSUME NEW S, NEW s \in Seq(S), NEW K
  PROVE  \A x : (\E m \in DOMAIN Only(s, K) : Only(s, K)[m] = x) <=> x \in K /\ \E i \in DOMAIN s : s[i] = x
<1> DEFINE I == Where(s, K)
<1>0. I \in SUBSET (1..Len(s)) /\ Len(s) \in Nat BY OnlyPositions
<1>1. ASSUME NEW m \in DOMAIN Only(s, K)
      PROVE  Only(s, K)[m] \in K /\ \E i \in DOMAIN s : s[i] = Only(s, K)[m]
  <2>1. Nth(I, m) \in I /\ Only(s, K)[m] = s[Nth(I, m)] BY OnlyPositions
  <2> QED BY <2>1 DEF Where
<1>2. ASSUME NEW i \in DOMAIN s, s[i] \in K PROVE \E m \in DOMAIN Only(s, K) : Only(s, K)[m] = s[i]
  <2>1. i \in I BY <1>2 DEF Where
  <2> HIDE DEF I
  <2>2. Rank(I, i) \in 1..Cardinality(I) /\ Nth(I, Rank(I, i)) = i BY <1>0, <2>1, RankGrows, NthIsThere
  <2> USE DEF I
  <2>3. Rank(I, i) \in DOMAIN Only(s, K) BY <2>2, OnlyPositions
  <2> QED BY <2>2, <2>3, OnlyPositions
<1> QED BY <1>1, <1>2

(* The same, of the sets of members.                                        *)
Members(s) == {s[i] : i \in DOMAIN s}

LEMMA OnlyMembers ==
  ASSUME NEW S, NEW s \in Seq(S), NEW K
  PROVE  Members(Only(s, K)) = Members(s) \cap K
<1> DEFINE t == Only(s, K)
<1>1. \A x : (\E m \in DOMAIN t : t[m] = x) <=> x \in K /\ \E i \in DOMAIN s : s[i] = x BY OnlyKeeps
<1> HIDE DEF t
<1>2. \A x, u : x \in Members(u) <=> \E i \in DOMAIN u : u[i] = x BY DEF Members
<1>3. \A x : x \in Members(t) <=> x \in Members(s) \cap K BY <1>1, <1>2
<1>4. Members(t) = Members(s) \cap K BY <1>3
<1> QED BY <1>4 DEF t

(* Filtering keeps the order: where two members stood is where they came    *)
(* from, in the same order.                                                 *)
LEMMA OnlyOrdered ==
  ASSUME NEW S, NEW s \in Seq(S), NEW K, NEW l \in DOMAIN Only(s, K), NEW m \in DOMAIN Only(s, K), l < m
  PROVE  \E p, q \in DOMAIN s : p < q /\ s[p] = Only(s, K)[l] /\ s[q] = Only(s, K)[m]
<1> DEFINE I == Where(s, K)
<1>1. I \in SUBSET (1..Len(s)) /\ Len(s) \in Nat /\ DOMAIN Only(s, K) = 1..Cardinality(I) BY OnlyPositions
<1>2. Nth(I, l) < Nth(I, m)
  <2> HIDE DEF I
  <2> QED BY <1>1, NthGrows
<1>3. Nth(I, l) \in DOMAIN s /\ Nth(I, m) \in DOMAIN s BY OnlyPositions DEF Where
<1>4. \A i \in DOMAIN Only(s, K) : Only(s, K)[i] = s[Nth(I, i)] BY OnlyPositions
<1> QED BY <1>2, <1>3, <1>4

Distinct(s) == \A i, j \in DOMAIN s : i # j => s[i] # s[j]

(* Filtering repeats nothing.                                               *)
LEMMA OnlyDistinct ==
  ASSUME NEW S, NEW s \in Seq(S), NEW K, Distinct(s)
  PROVE  Distinct(Only(s, K))
<1> SUFFICES ASSUME NEW l \in DOMAIN Only(s, K), NEW m \in DOMAIN Only(s, K), l < m
             PROVE  Only(s, K)[l] # Only(s, K)[m]
  <2>1. \A i \in DOMAIN Only(s, K) : i \in Int BY OnlyPositions
  <2> QED BY <2>1 DEF Distinct
<1>1. PICK p \in DOMAIN s, q \in DOMAIN s : p < q /\ s[p] = Only(s, K)[l] /\ s[q] = Only(s, K)[m]
  BY OnlyOrdered
<1>2. p # q BY <1>1
<1> QED BY <1>1, <1>2 DEF Distinct
=============================================================================
