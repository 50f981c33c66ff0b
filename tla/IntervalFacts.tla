--------------------------- MODULE IntervalFacts ----------------------------
(***************************************************************************)
(* Facts about sets of natural numbers and finite sets that the proofs     *)
(* about windows and quorums use.                                          *)
(***************************************************************************)
EXTENDS Sequences, FiniteSetTheorems, WellFoundedInduction, TLAPS

\* The order of the natural numbers, as a set of pairs.
LEMMA NatOrder == IsWellFoundedOn({p \in Nat \X Nat : p[1] < p[2]}, Nat)
  BY NatLessThanWellFounded, Zenon DEF OpToRel

\* A set of naturals that is not empty has a least element.
LEMMA LeastNatural ==
  ASSUME NEW T \in SUBSET Nat, T # {}
  PROVE  \E m \in T : \A k \in T : m <= k
  <1> DEFINE R == {p \in Nat \X Nat : p[1] < p[2]}
  <1>1. IsWellFoundedOn(R, Nat)
    BY NatOrder, Zenon
  <1>2. PICK m \in T : \A k \in T : ~ (<<k, m>> \in R)
    BY <1>1, WFMin, Zenon
  <1>3. ASSUME NEW k \in T PROVE m <= k
    <2>1. k \in Nat /\ m \in Nat
      OBVIOUS
    <2>2. ~ (<<k, m>> \in R)
      BY <1>2
    <2>3. ~ (k < m)
      BY <2>1, <2>2
    <2> QED
      BY <2>1, <2>3
  <1> QED
    BY <1>3

\* A bounded set of naturals that is not empty has a greatest element.
LEMMA GreatestNatural ==
  ASSUME NEW n \in Nat, NEW T \in SUBSET (1 .. n), T # {}
  PROVE  \E m \in T : \A k \in T : k <= m
  <1> DEFINE U == {n - k : k \in T}
  <1>0. ASSUME NEW k \in T PROVE n - k \in Nat
    OBVIOUS
  <1>1. U \in SUBSET Nat /\ U # {}
    BY <1>0
  <1>2. PICK d \in U : \A e \in U : d <= e
    BY <1>1, LeastNatural
  <1>3. PICK m \in T : d = n - m
    OBVIOUS
  <1>4. ASSUME NEW k \in T PROVE k <= m
    <2>1. n - m <= n - k
      BY <1>2, <1>3
    <2> QED
      BY <2>1
  <1> QED
    BY <1>4

\* The number of an initial part of an interval says how far it reaches.
LEMMA InitialPart ==
  ASSUME NEW u \in Nat, NEW n \in Nat, NEW kept \in SUBSET (u .. n),
         \A i \in kept, j \in (u .. n) \ kept : i < j
  PROVE  /\ Cardinality(kept) \in Nat
         /\ kept = u .. (u + Cardinality(kept) - 1)
  <1>0. IsFiniteSet(u .. n)
    BY FS_Interval
  <1>1. IsFiniteSet(kept)
    BY <1>0, FS_Subset
  <1>2. Cardinality(kept) \in Nat
    BY <1>1, FS_CardinalityType
  <1>3. CASE kept = {}
    <2>1. Cardinality(kept) = 0
      BY <1>3, FS_EmptySet
    <2> QED
      BY <1>3, <2>1
  <1>4. CASE kept # {} /\ kept = u .. n
    <2>1. Cardinality(u .. n) = IF u > n THEN 0 ELSE n - u + 1
      BY FS_Interval
    <2> QED
      BY <1>2, <1>4, <2>1
  <1>5. CASE kept # {} /\ kept # u .. n
    <2>0. PICK a \in u .. n : a \notin kept
      BY <1>5, Zenon
    <2>1. (u .. n) \ kept # {} /\ (u .. n) \ kept \in SUBSET Nat
      BY <2>0
    <2>2. PICK b \in (u .. n) \ kept : \A j \in (u .. n) \ kept : b <= j
      BY <2>1, LeastNatural
    <2>3. \A i \in u .. n : i \in kept <=> i < b
      BY <2>2
    <2>4. kept = u .. (b - 1)
      <3>1. \A i \in kept : i \in u .. (b - 1)
        BY <2>3
      <3>2. \A i \in u .. (b - 1) : i \in kept
        BY <2>3
      <3> QED
        BY <3>1, <3>2, Zenon
    <2>5. Cardinality(u .. (b - 1)) = IF u > b - 1 THEN 0 ELSE b - 1 - u + 1
      BY FS_Interval
    <2> QED
      BY <1>5, <2>4, <2>5
  <1> QED
    BY <1>3, <1>4, <1>5

\* Where the elements of a concatenation come from.
LEMMA Concatenated ==
  ASSUME NEW S, NEW s \in Seq(S), NEW t \in Seq(S)
  PROVE  /\ s \o t \in Seq(S)
         /\ Len(s \o t) = Len(s) + Len(t)
         /\ \A k \in 1 .. Len(s) + Len(t) :
               (s \o t)[k] = IF k <= Len(s) THEN s[k] ELSE t[k - Len(s)]
  OBVIOUS

\* A function on an initial interval is a sequence of that length.
LEMMA IntervalSequence ==
  ASSUME NEW S, NEW m \in Nat, NEW s \in [1 .. m -> S]
  PROVE  s \in Seq(S) /\ Len(s) = m
  OBVIOUS

\* Of two disjoint sets of members, one has no quorum.
LEMMA NoDisjointQuorums ==
  ASSUME NEW M, IsFiniteSet(M), NEW q \in Nat, 2 * q > Cardinality(M),
         NEW A \in SUBSET M, NEW B \in SUBSET M, A \cap B = {}, Cardinality(A) >= q
  PROVE  Cardinality(B) < q
  <1>1. IsFiniteSet(A) /\ IsFiniteSet(B) /\ IsFiniteSet(A \cup B)
    BY FS_Subset, FS_Union
  <1>2. Cardinality(A \cup B) <= Cardinality(M)
    BY FS_Subset
  <1>3. Cardinality(A \cap B) = 0
    BY FS_EmptySet
  <1>4. Cardinality(A \cup B) = Cardinality(A) + Cardinality(B) - Cardinality(A \cap B)
    BY <1>1, FS_Union
  <1>5. /\ Cardinality(A) \in Nat /\ Cardinality(B) \in Nat /\ Cardinality(A \cup B) \in Nat
        /\ Cardinality(M) \in Nat
    BY <1>1, FS_CardinalityType
  <1> QED
    BY <1>2, <1>3, <1>4, <1>5

\* A larger set of members of a finite set is no smaller.
LEMMA MoreMembers ==
  ASSUME NEW M, IsFiniteSet(M), NEW A \in SUBSET M, NEW B \in SUBSET A
  PROVE  /\ Cardinality(A) \in Nat /\ Cardinality(B) \in Nat
         /\ Cardinality(B) <= Cardinality(A)
  <1>1. IsFiniteSet(A) /\ IsFiniteSet(B)
    BY FS_Subset
  <1> QED
    BY <1>1, FS_Subset, FS_CardinalityType
=============================================================================
