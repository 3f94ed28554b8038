------------------------------- MODULE Lemmas -------------------------------
(***************************************************************************)
(* Lemmas that the proofs of several components rest on: numbers and       *)
(* cardinalities, what the operators of Rings do for records of any kind,  *)
(* what those of Selections pick out of a sequence, and sums.              *)
(***************************************************************************)
EXTENDS SequencesExt, Rings, Selections, Sums,
        SequenceTheorems, FiniteSetTheorems, WellFoundedInduction, TLAPS

(* A non-empty set of naturals has a least member. *)
LEMMA LeastNatural ==
  ASSUME NEW S, S \subseteq Nat, S # {}
  PROVE  \E m \in S : \A n \in S : m <= n
<1>1. PICK m \in S : \A n \in S : <<n, m>> \notin OpToRel(<, Nat)
  BY NatLessThanWellFounded, WFMin, Zenon
<1>2. \A n \in S : ~(n < m)
  BY <1>1, Zenon DEF OpToRel
<1>3. \A n \in S : m <= n
  BY <1>2
<1> QED BY <1>3

(* What pruning does to one ring: it pops exactly the leading records that *)
(* are older than the cutoff.                                              *)
LEMMA PruneOneSpec ==
  ASSUME NEW S, \A r \in S : r.ts \in Int,
         NEW lg \in Seq(S), NEW h \in Nat, h <= Len(lg), NEW cutoff \in Int
  PROVE  /\ PruneOne(lg, h, cutoff) \in h .. Len(lg)
         /\ DropsTo(lg, h, cutoff, PruneOne(lg, h, cutoff))
<1> DEFINE T == {n \in h .. Len(lg) : n = Len(lg) \/ lg[n + 1].ts >= cutoff}
<1>0. Len(lg) \in Nat
  BY LenProperties
<1>1. T \in SUBSET Nat /\ Len(lg) \in T
  BY <1>0
<1>2. PICK m \in T : \A k \in T : m <= k
  BY <1>1, LeastNatural
<1>3. DropsTo(lg, h, cutoff, m)
  <2>1. ASSUME NEW i \in h + 1 .. m PROVE lg[i].ts < cutoff
    <3>1. i - 1 \in h .. Len(lg) /\ i - 1 < m /\ m \in h .. Len(lg)
      BY <1>0, <1>2
    <3>a. ~(m <= i - 1)
      BY <3>1, <1>0
    <3>2. i - 1 \notin T
      <4> HIDE DEF T
      <4> QED BY <1>2, <3>a
    <3>3. ~(lg[(i - 1) + 1].ts >= cutoff) /\ (i - 1) + 1 = i
      BY <3>1, <3>2, <1>0
    <3>4. i \in 1 .. Len(lg)
      BY <3>1, <1>0
    <3>5. lg[i] \in S
      BY <3>4, ElementOfSeq
    <3> QED BY <3>3, <3>5
  <2>2. m < Len(lg) => lg[m + 1].ts >= cutoff
    BY <1>2
  <2> QED BY <2>1, <2>2 DEF DropsTo
<1>4. m \in h .. Len(lg)
  BY <1>2
<1> QED BY <1>3, <1>4 DEF PruneOne

(* A record pushed on a ring: what was there stays where it was.           *)
LEMMA PushSpec ==
  ASSUME NEW S, NEW lg \in Seq(S), NEW r \in S
  PROVE  /\ Append(lg, r) \in Seq(S) /\ Len(Append(lg, r)) = Len(lg) + 1
         /\ Len(lg) \in Nat
         /\ \A i \in 1 .. Len(lg) : Append(lg, r)[i] = lg[i] /\ lg[i] \in S
         /\ Append(lg, r)[Len(lg) + 1] = r
  BY AppendProperties, LenProperties, ElementOfSeq

(* A function on 0 .. n may be defined by its value at 0 and a step. *)
Steps(f, n, S, b, step) == /\ f \in [0 .. n -> S]
                           /\ f[0] = b /\ \A i \in 1 .. n : f[i] = step[i][f[i - 1]]

LEMMA Recursion ==
  ASSUME NEW n \in Nat, NEW S, NEW b \in S, NEW step \in [1 .. n -> [S -> S]]
  PROVE  \E f : Steps(f, n, S, b, step)
<1> DEFINE Good(m, f) == /\ f \in [0 .. m -> S]
                         /\ f[0] = b /\ \A i \in 1 .. m : f[i] = step[i][f[i - 1]]
           Bad == {m \in 0 .. n : ~ \E f : Good(m, f)}
<1>1. Good(0, [i \in 0 .. 0 |-> b])
  OBVIOUS
<1>2. ASSUME NEW m \in 1 .. n, NEW f, Good(m - 1, f)
      PROVE  Good(m, [i \in 0 .. m |-> IF i = m THEN step[m][f[m - 1]] ELSE f[i]])
  <2> DEFINE g == [i \in 0 .. m |-> IF i = m THEN step[m][f[m - 1]] ELSE f[i]]
  <2>1. m \in Nat /\ 0 # m /\ m - 1 \in 0 .. m - 1 /\ m - 1 # m /\ m - 1 \in 0 .. m /\ m \in 0 .. m /\ 0 \in 0 .. m
    OBVIOUS
  <2>2. f \in [0 .. m - 1 -> S] /\ f[0] = b /\ \A i \in 1 .. m - 1 : f[i] = step[i][f[i - 1]]
    BY <1>2
  <2>3. f[m - 1] \in S
    BY <2>1, <2>2
  <2>4. step[m][f[m - 1]] \in S
    BY <2>3
  <2>5. \A i \in 0 .. m : i # m => i \in 0 .. m - 1 /\ f[i] \in S
    BY <2>2
  <2>6. g \in [0 .. m -> S]
    BY <2>4, <2>5
  <2>7. g[0] = b
    BY <2>1, <2>2
  <2>8. ASSUME NEW i \in 1 .. m
        PROVE  g[i] = step[i][g[i - 1]]
    <3>1. i - 1 \in 0 .. m /\ i - 1 # m /\ i \in 0 .. m
      OBVIOUS
    <3>2. g[i - 1] = f[i - 1]
      BY <3>1
    <3>3. CASE i = m
      BY <3>1, <3>2, <3>3
    <3>4. CASE i # m
      <4>1. i \in 1 .. m - 1
        BY <3>4
      <4> QED BY <3>1, <3>2, <3>4, <4>1, <2>2
    <3> QED BY <3>3, <3>4
  <2> QED BY <2>6, <2>7, <2>8
<1> HIDE DEF Good
<1>3. Bad = {}
  <2> SUFFICES ASSUME Bad # {} PROVE FALSE
    OBVIOUS
  <2>1. Bad \subseteq Nat
    OBVIOUS
  <2>2. PICK m \in Bad : \A k \in Bad : m <= k
    BY <2>1, LeastNatural
  <2>3. m # 0
    BY <1>1, <2>2
  <2>4. m \in 1 .. n /\ m - 1 \in 0 .. n /\ ~(m <= m - 1)
    BY <2>2, <2>3
  <2>5. PICK f : Good(m - 1, f)
    BY <2>2, <2>4
  <2>6. \E f2 : Good(m, f2)
    BY <2>4, <2>5, <1>2
  <2> QED BY <2>2, <2>6
<1>4. PICK f : Good(n, f)
  <2>1. n \in 0 .. n
    OBVIOUS
  <2>2. n \notin Bad
    <3> HIDE DEF Bad
    <3> QED BY <1>3
  <2> QED BY <2>1, <2>2
<1> QED BY <1>4 DEF Good, Steps

(* The members of a finite set of numbers, in order: Nth numbers them from *)
(* the least to the greatest.                                              *)
LEMMA NthInOrder ==
  ASSUME NEW I, I \subseteq Int, IsFiniteSet(I)
  PROVE  /\ Cardinality(I) \in Nat
         /\ \A n \in 1 .. Cardinality(I) : Nth(I, n) \in I
         /\ \A n, m \in 1 .. Cardinality(I) : n < m => Nth(I, n) < Nth(I, m)
         /\ \A k \in I : \E n \in 1 .. Cardinality(I) : Nth(I, n) = k
         /\ \A n \in 1 .. Cardinality(I) : Cardinality({j \in I : j <= Nth(I, n)}) = n
<1> DEFINE Upto(k) == {j \in I : j <= k}
           Rank == [k \in I |-> Cardinality(Upto(k))]
           N == Cardinality(I)
<1>1. N \in Nat
  BY FS_CardinalityType
<1>2. ASSUME NEW k \in I
      PROVE  IsFiniteSet(Upto(k)) /\ Cardinality(Upto(k)) \in 1 .. N
  <2>1. Upto(k) \in SUBSET I /\ k \in Upto(k)
    OBVIOUS
  <2>2. IsFiniteSet(Upto(k)) /\ Cardinality(Upto(k)) <= N
    BY <2>1, FS_Subset
  <2>3. Cardinality(Upto(k)) \in Nat /\ Cardinality(Upto(k)) # 0
    BY <2>1, <2>2, FS_CardinalityType, FS_EmptySet
  <2> QED BY <1>1, <2>2, <2>3
<1>3. ASSUME NEW k \in I, NEW l \in I, k < l
      PROVE  Cardinality(Upto(k)) < Cardinality(Upto(l))
  <2>0. k \in Int /\ l \in Int /\ k < l
    BY <1>3
  <2>1. Upto(k) \in SUBSET Upto(l) /\ l \in Upto(l) /\ l \notin Upto(k)
    <3>1. \A j \in I : j <= k => j <= l
      <4>1. TAKE j \in I
      <4>2. j \in Int
        OBVIOUS
      <4> QED BY <4>2, <2>0
    <3>2. l <= l /\ ~(l <= k)
      BY <2>0
    <3> QED BY <3>1, <3>2
  <2>2. IsFiniteSet(Upto(l)) /\ Cardinality(Upto(l)) \in 1 .. N /\ Cardinality(Upto(k)) \in 1 .. N
    BY <1>2
  <2>3. Cardinality(Upto(k)) <= Cardinality(Upto(l)) /\ Cardinality(Upto(l)) # Cardinality(Upto(k))
    <3> HIDE DEF Upto
    <3> QED BY <2>1, <2>2, FS_Subset
  <2> HIDE DEF Upto
  <2> QED BY <2>2, <2>3, <1>1
<1>4. Rank \in [I -> 1 .. N]
  BY <1>2
<1>5. \A k, l \in I : k < l => Rank[k] < Rank[l]
  <2>1. TAKE k, l \in I
  <2>2. HAVE k < l
  <2>3. Cardinality(Upto(k)) < Cardinality(Upto(l))
    BY <2>2, <1>3
  <2>4. Rank[k] = Cardinality(Upto(k)) /\ Rank[l] = Cardinality(Upto(l))
    <3> HIDE DEF Upto
    <3> QED OBVIOUS
  <2> QED BY <2>3, <2>4
<1> HIDE DEF Rank
<1>6. Rank \in Surjection(I, 1 .. N)
  <2>1. \A k, l \in I : Rank[k] = Rank[l] => k = l
    <3>1. TAKE k \in I
    <3>2. TAKE l \in I
    <3>3. Rank[k] \in Int /\ Rank[l] \in Int /\ k \in Int /\ l \in Int
      BY <1>4, <1>1
    <3> QED BY <1>5, <3>3
  <2>2. Rank \in Injection(I, 1 .. N)
    BY <1>4, <2>1 DEF Injection, IsInjective
  <2>3. IsFiniteSet(1 .. N) /\ Cardinality(1 .. N) = N
    BY <1>1, FS_Interval
  <2> QED BY <2>2, <2>3, FS_Injection
<1>7. ASSUME NEW n \in 1 .. N
      PROVE  Nth(I, n) \in I /\ Rank[Nth(I, n)] = n
  <2>1. PICK k \in I : Rank[k] = n
    BY <1>6 DEF Surjection
  <2>2. Cardinality({j \in I : j <= k}) = n
    BY <2>1 DEF Rank
  <2>3. Nth(I, n) \in I /\ Cardinality({j \in I : j <= Nth(I, n)}) = n
    BY <2>2 DEF Nth
  <2> QED BY <2>3 DEF Rank
<1>8. ASSUME NEW n \in 1 .. N, NEW m \in 1 .. N, n < m
      PROVE  Nth(I, n) < Nth(I, m)
  <2>1. PICK k \in I : k = Nth(I, n) /\ Rank[k] = n
    BY <1>7
  <2>2. PICK l \in I : l = Nth(I, m) /\ Rank[l] = m
    BY <1>7
  <2>3. k \in Int /\ l \in Int /\ ~(Rank[l] < Rank[k]) /\ Rank[k] # Rank[l]
    BY <1>8, <2>1, <2>2
  <2>4. k < l
    BY <2>3, <1>5
  <2> QED BY <2>1, <2>2, <2>4
<1>9. ASSUME NEW k \in I
      PROVE  \E n \in 1 .. N : Nth(I, n) = k
  <2>1. Rank[k] \in 1 .. N
    BY <1>4
  <2>2. Nth(I, Rank[k]) \in I /\ Rank[Nth(I, Rank[k])] = Rank[k]
    BY <2>1, <1>7
  <2>3. Nth(I, Rank[k]) = k
    <3>1. PICK l \in I : l = Nth(I, Rank[k]) /\ Rank[l] = Rank[k]
      BY <2>2
    <3>2. k \in Int /\ l \in Int /\ Rank[l] \in Int
      BY <3>1, <2>1, <1>1
    <3>3. ~(k < l) /\ ~(l < k)
      BY <3>1, <3>2, <1>5
    <3> QED BY <3>1, <3>2, <3>3
  <2> QED BY <2>1, <2>3
<1>10. \A n \in 1 .. N : Cardinality({j \in I : j <= Nth(I, n)}) = n
  BY <1>7 DEF Rank
<1> QED BY <1>1, <1>7, <1>8, <1>9, <1>10

(* A finite set of numbers has a least and a greatest member. *)
LEMMA Extremes ==
  ASSUME NEW I, I \subseteq Int, IsFiniteSet(I), I # {}
  PROVE  /\ \E x \in I : \A y \in I : x <= y
         /\ \E x \in I : \A y \in I : y <= x
<1> DEFINE N == Cardinality(I)
<1>1. /\ N \in Nat
      /\ \A n \in 1 .. N : Nth(I, n) \in I
      /\ \A n, m \in 1 .. N : n < m => Nth(I, n) < Nth(I, m)
      /\ \A k \in I : \E n \in 1 .. N : Nth(I, n) = k
  BY NthInOrder
<1> HIDE DEF N
<1>2. 1 \in 1 .. N /\ N \in 1 .. N
  <2>1. PICK k \in I : TRUE
    OBVIOUS
  <2>2. PICK n \in 1 .. N : Nth(I, n) = k
    BY <1>1
  <2> QED BY <1>1, <2>2
<1>3. \A y \in I : Nth(I, 1) <= y /\ y <= Nth(I, N)
  <2>1. TAKE y \in I
  <2>2. PICK n \in 1 .. N : Nth(I, n) = y
    BY <1>1
  <2>3. Nth(I, 1) \in Int /\ Nth(I, N) \in Int /\ y \in Int
    BY <1>1, <1>2
  <2>4. (n = 1 \/ 1 < n) /\ (n = N \/ n < N)
    BY <1>1
  <2> QED BY <1>1, <1>2, <2>2, <2>3, <2>4
<1> QED BY <1>1, <1>2, <1>3

(* Least and greatest members, as the community modules' Min and Max. *)
LEMMA MinIs ==
  ASSUME NEW I, I \subseteq Int, NEW x \in I, \A y \in I : x <= y
  PROVE  Min(I) = x
<1>1. Min(I) \in I /\ \A y \in I : Min(I) <= y
  BY DEF Min
<1>2. Min(I) <= x /\ x <= Min(I)
  BY <1>1
<1>3. Min(I) \in Int /\ x \in Int
  BY <1>1
<1> QED BY <1>2, <1>3

LEMMA MaxIsGreatest ==
  ASSUME NEW I, I \subseteq Int, IsFiniteSet(I), I # {}
  PROVE  Max(I) \in I /\ \A y \in I : y <= Max(I)
<1>1. \E x \in I : \A y \in I : y <= x
  BY Extremes
<1> QED BY <1>1 DEF Max

LEMMA ImageFinite ==
  ASSUME NEW S, IsFiniteSet(S), NEW f \in [S -> Int]
  PROVE  {f[s] : s \in S} \subseteq Int /\ IsFiniteSet({f[s] : s \in S})
<1>1. IsFiniteSet({f[s] : s \in S})
  <2>1. f \in Surjection(S, {f[s] : s \in S})
    BY DEF Surjection
  <2> QED BY <2>1, FS_Surjection
<1> QED BY <1>1

(* What is picked out of a sequence: every position picked, once, in order. *)
Picks(h, q, I, p) ==
  /\ h \in [1 .. Len(p) -> I]
  /\ \A n, m \in 1 .. Len(p) : n < m => h[n] < h[m]
  /\ \A i \in I : \E n \in 1 .. Len(p) : h[n] = i
  /\ \A n \in 1 .. Len(p) : p[n] = q[h[n]]

LEMMA AtPicks ==
  ASSUME NEW S, NEW q \in Seq(S), NEW I, I \subseteq 1 .. Len(q)
  PROVE  /\ At(q, I) \in Seq(S) /\ Len(At(q, I)) \in Nat
         /\ \E h : Picks(h, q, I, At(q, I))
<1> DEFINE N == Cardinality(I)
<1>1. Len(q) \in Nat /\ \A i \in 1 .. Len(q) : q[i] \in S
  BY LenProperties, ElementOfSeq
<1>2. IsFiniteSet(I) /\ I \subseteq Int
  <2>1. I \in SUBSET (1 .. Len(q)) /\ IsFiniteSet(1 .. Len(q))
    BY <1>1, FS_Interval
  <2>2. IsFiniteSet(I)
    BY <2>1, FS_Subset
  <2> QED BY <2>2, <1>1
<1>3. /\ N \in Nat
      /\ \A n \in 1 .. N : Nth(I, n) \in I
      /\ \A n, m \in 1 .. N : n < m => Nth(I, n) < Nth(I, m)
      /\ \A k \in I : \E n \in 1 .. N : Nth(I, n) = k
  BY <1>2, NthInOrder
<1> DEFINE h == [n \in 1 .. N |-> Nth(I, n)]
<1> HIDE DEF N
<1>4. At(q, I) = [n \in 1 .. N |-> q[h[n]]]
  BY DEF At, N
<1>5. h \in [1 .. N -> I]
  BY <1>3
<1>6. /\ \A n, m \in 1 .. N : n < m => h[n] < h[m]
      /\ \A i \in I : \E n \in 1 .. N : h[n] = i
  BY <1>3
<1> HIDE DEF h
<1>7. At(q, I) \in [1 .. N -> S]
  BY <1>1, <1>4, <1>5
<1>8. At(q, I) \in Seq(S) /\ Len(At(q, I)) = N
  BY <1>3, <1>7
<1>9. \A n \in 1 .. N : At(q, I)[n] = q[h[n]]
  BY <1>4
<1>10. Picks(h, q, I, At(q, I))
  BY <1>5, <1>6, <1>8, <1>9 DEF Picks
<1> QED BY <1>3, <1>8, <1>10

(* An interval of positions is a piece of the sequence. *)
LEMMA NthOfInterval ==
  ASSUME NEW a \in Int, NEW b \in Int, a <= b, NEW n \in 1 .. b - a
  PROVE  Nth(a + 1 .. b, n) = a + n
<1> DEFINE I == a + 1 .. b
<1>1. ASSUME NEW k \in I
      PROVE  Cardinality({j \in I : j <= k}) = k - a
  <2>1. {j \in I : j <= k} = a + 1 .. k
    OBVIOUS
  <2>2. k \in Int /\ a + 1 \in Int /\ ~(a + 1 > k) /\ k - (a + 1) + 1 = k - a
    OBVIOUS
  <2>3. Cardinality(a + 1 .. k) = k - (a + 1) + 1
    BY <2>2, FS_Interval
  <2> QED BY <2>1, <2>2, <2>3
<1>2. a + n \in I
  OBVIOUS
<1>5. Cardinality({j \in I : j <= a + n}) = n
  <2>1. (a + n) - a = n
    OBVIOUS
  <2> HIDE DEF I
  <2> QED BY <1>1, <1>2, <2>1
<1>3. Nth(I, n) \in I /\ Cardinality({j \in I : j <= Nth(I, n)}) = n
  <2> HIDE DEF I
  <2> QED BY <1>2, <1>5 DEF Nth
<1>4. Nth(I, n) - a = n
  <2> HIDE DEF I
  <2> QED BY <1>1, <1>3
<1> QED BY <1>3, <1>4

(* A sequence is what is picked of a first part of its positions, then the *)
(* rest.                                                                   *)
LEMMA SplitAt ==
  ASSUME NEW S, NEW q \in Seq(S), NEW k \in 0 .. Len(q)
  PROVE  /\ At(q, 1 .. k) = SubSeq(q, 1, k)
         /\ At(q, k + 1 .. Len(q)) = SubSeq(q, k + 1, Len(q))
         /\ At(q, 1 .. k) \o At(q, k + 1 .. Len(q)) = q
<1>1. Len(q) \in Nat /\ \A i \in 1 .. Len(q) : q[i] \in S
  BY LenProperties, ElementOfSeq
<1>2. ASSUME NEW a \in 0 .. Len(q), NEW b \in a .. Len(q)
      PROVE  At(q, a + 1 .. b) = SubSeq(q, a + 1, b)
  <2>1. Cardinality(a + 1 .. b) = b - a
    <3>1. a + 1 \in Int /\ b \in Int
      BY <1>1
    <3>2. Cardinality(a + 1 .. b) = IF a + 1 > b THEN 0 ELSE b - (a + 1) + 1
      BY <3>1, FS_Interval
    <3> QED BY <1>1, <3>2
  <2>2. \A n \in 1 .. b - a : Nth(a + 1 .. b, n) = a + n
    BY <1>1, NthOfInterval
  <2>3. At(q, a + 1 .. b) = [n \in 1 .. b - a |-> q[a + n]]
    BY <2>1, <2>2 DEF At
  <2>4. SubSeq(q, a + 1, b) = [n \in 1 .. b - a |-> q[a + n]]
    <3>1. /\ SubSeq(q, a + 1, b) \in Seq(S)
          /\ Len(SubSeq(q, a + 1, b)) = b - a
          /\ \A i \in 1 .. b - a : SubSeq(q, a + 1, b)[i] = q[a + i]
      <4>1. \A i \in a + 1 .. b : q[i] \in S
        BY <1>1
      <4>2. a + 1 \in Int /\ b \in Int
        BY <1>1
      <4> QED BY <1>1, <4>1, <4>2, SubSeqProperties
    <3>2. [n \in 1 .. b - a |-> q[a + n]] \in Seq(S) /\ Len([n \in 1 .. b - a |-> q[a + n]]) = b - a
      <4>1. [n \in 1 .. b - a |-> q[a + n]] \in [1 .. b - a -> S] /\ b - a \in Nat
        BY <1>1
      <4> QED BY <4>1
    <3> QED BY <3>1, <3>2, SeqEqual
  <2> QED BY <2>3, <2>4
<1>3. At(q, 1 .. k) = SubSeq(q, 1, k)
  <2>1. 0 + 1 = 1 /\ 0 \in 0 .. Len(q) /\ k \in 0 .. Len(q)
    BY <1>1
  <2> QED BY <1>2, <2>1
<1>4. At(q, k + 1 .. Len(q)) = SubSeq(q, k + 1, Len(q))
  <2>1. Len(q) \in k .. Len(q)
    BY <1>1
  <2> QED BY <1>2, <2>1
<1>5. SubSeq(q, 1, k) \o SubSeq(q, k + 1, Len(q)) = q
  <2>1. SubSeq(q, 1, k) \o SubSeq(q, k + 1, Len(q)) = SubSeq(q, 1, Len(q))
    <3>1. 1 \in 1 .. Len(q) + 1 /\ k \in 1 - 1 .. Len(q) /\ Len(q) \in k .. Len(q)
      BY <1>1
    <3> QED BY <3>1, ConcatAdjacentSubSeq
  <2> QED BY <2>1, SubSeqFull
<1> QED BY <1>3, <1>4, <1>5

(* A number is the n-th of a set when n of them are not greater. *)
LEMMA NthIs ==
  ASSUME NEW I, I \subseteq Int, IsFiniteSet(I), NEW k \in I, NEW n,
         Cardinality({j \in I : j <= k}) = n
  PROVE  Nth(I, n) = k
<1>1. Nth(I, n) \in I /\ Cardinality({j \in I : j <= Nth(I, n)}) = n
  BY DEF Nth
<1>2. PICK l \in I : l = Nth(I, n)
  BY <1>1
<1>3. \A x, y \in I : x < y => Cardinality({j \in I : j <= x}) # Cardinality({j \in I : j <= y})
  <2>1. TAKE x, y \in I
  <2>2. HAVE x < y
  <2> DEFINE X == {j \in I : j <= x}
             Y == {j \in I : j <= y}
  <2>3. x \in Int /\ y \in Int
    OBVIOUS
  <2>4. X \in SUBSET Y /\ y \in Y /\ y \notin X
    <3>1. \A j \in I : j <= x => j <= y
      <4>1. TAKE j \in I
      <4>2. j \in Int
        OBVIOUS
      <4> QED BY <4>2, <2>2, <2>3
    <3>2. y <= y /\ ~(y <= x)
      BY <2>2, <2>3
    <3> QED BY <3>1, <3>2
  <2>5. Y \in SUBSET I
    OBVIOUS
  <2> HIDE DEF X, Y
  <2>6. IsFiniteSet(Y)
    BY <2>5, FS_Subset
  <2>7. Cardinality(X) # Cardinality(Y)
    BY <2>4, <2>6, FS_Subset
  <2> QED BY <2>7 DEF X, Y
<1>4. ~(l < k) /\ ~(k < l)
  BY <1>1, <1>2, <1>3
<1>5. l \in Int /\ k \in Int
  BY <1>2
<1> QED BY <1>2, <1>4, <1>5

(* One more, above them all: the others keep their numbers. *)
LEMMA NthOfMore ==
  ASSUME NEW I, I \subseteq Int, IsFiniteSet(I), NEW m \in Int, \A i \in I : i < m
  PROVE  /\ Cardinality(I) \in Nat /\ Cardinality(I \cup {m}) = Cardinality(I) + 1
         /\ \A k \in 1 .. Cardinality(I) : Nth(I \cup {m}, k) = Nth(I, k)
         /\ Nth(I \cup {m}, Cardinality(I) + 1) = m
<1> DEFINE J == I \cup {m}
           c == Cardinality(I)
<1>1. m \notin I
  OBVIOUS
<1>2. c \in Nat /\ IsFiniteSet(J) /\ Cardinality(J) = c + 1
  BY <1>1, FS_AddElement, FS_CardinalityType
<1>3. \A i \in I : {j \in J : j <= i} = {j \in I : j <= i}
  <2>1. TAKE i \in I
  <2>2. i \in Int /\ i < m
    OBVIOUS
  <2> QED BY <2>2
<1>4. {j \in J : j <= m} = J
  <2>1. \A j \in J : j <= m
    OBVIOUS
  <2> QED BY <2>1
<1>5. ASSUME NEW k \in 1 .. c
      PROVE  Nth(J, k) = Nth(I, k)
  <2>1. PICK i \in I : i = Nth(I, k) /\ Cardinality({j \in I : j <= i}) = k
    BY NthInOrder
  <2>2. i \in J /\ J \subseteq Int /\ Cardinality({j \in J : j <= i}) = k
    BY <2>1, <1>3
  <2> HIDE DEF J
  <2>3. Nth(J, k) = i
    BY <2>2, <1>2, NthIs
  <2> QED BY <2>1, <2>3
<1>6. Nth(J, c + 1) = m
  <2>1. m \in J /\ J \subseteq Int
    OBVIOUS
  <2> HIDE DEF J
  <2> QED BY <2>1, <1>2, <1>4, NthIs
<1> QED BY <1>2, <1>5, <1>6

LEMMA AtAppend ==
  ASSUME NEW S, NEW q \in Seq(S), NEW e \in S, NEW I, I \subseteq 1 .. Len(q)
  PROVE  /\ At(Append(q, e), I) = At(q, I)
         /\ At(Append(q, e), I \cup {Len(q) + 1}) = Append(At(q, I), e)
         /\ At(q, I) \in Seq(S) /\ Len(At(q, I)) = Cardinality(I) /\ Cardinality(I) \in Nat
<1> DEFINE c == Cardinality(I)
           m == Len(q) + 1
           r == Append(q, e)
<1>1. Len(q) \in Nat /\ (\A i \in 1 .. Len(q) : r[i] = q[i] /\ q[i] \in S) /\ r[m] = e
  BY AppendProperties, LenProperties, ElementOfSeq
<1>2. IsFiniteSet(I) /\ I \subseteq Int /\ m \in Int /\ \A i \in I : i < m
  <2>1. I \in SUBSET (1 .. Len(q)) /\ IsFiniteSet(1 .. Len(q))
    BY <1>1, FS_Interval
  <2>2. IsFiniteSet(I)
    BY <2>1, FS_Subset
  <2>3. I \subseteq Int /\ m \in Int
    BY <1>1
  <2>4. \A i \in I : i < m
    <3>1. TAKE i \in I
    <3>2. i \in 1 .. Len(q)
      OBVIOUS
    <3> QED BY <3>2, <1>1
  <2> QED BY <2>2, <2>3, <2>4
<1> HIDE DEF m, r
<1>3. /\ c \in Nat /\ Cardinality(I \cup {m}) = c + 1
      /\ \A k \in 1 .. c : Nth(I \cup {m}, k) = Nth(I, k)
      /\ Nth(I \cup {m}, c + 1) = m
  BY <1>2, NthOfMore
<1>4. \A k \in 1 .. c : Nth(I, k) \in I
  BY <1>2, NthInOrder
<1> HIDE DEF c
<1>5. At(q, I) = [k \in 1 .. c |-> q[Nth(I, k)]]
  BY DEF At, c
<1>6. At(r, I) = [k \in 1 .. c |-> r[Nth(I, k)]]
  BY DEF At, c
<1>7. At(r, I \cup {m}) = [k \in 1 .. c + 1 |-> r[Nth(I \cup {m}, k)]]
  BY <1>3 DEF At
<1>8. \A k \in 1 .. c : r[Nth(I, k)] = q[Nth(I, k)] /\ q[Nth(I, k)] \in S
  BY <1>1, <1>4
<1>9. At(r, I) = At(q, I)
  BY <1>5, <1>6, <1>8
<1>10. At(q, I) \in [1 .. c -> S]
  BY <1>5, <1>8
<1>11. At(q, I) \in Seq(S) /\ Len(At(q, I)) = c
  BY <1>3, <1>10
<1>12. At(r, I \cup {m}) = Append(At(q, I), e)
  <2>1. /\ Append(At(q, I), e) \in Seq(S) /\ Len(Append(At(q, I), e)) = c + 1
        /\ \A k \in 1 .. c : Append(At(q, I), e)[k] = At(q, I)[k]
        /\ Append(At(q, I), e)[c + 1] = e
    BY <1>11, AppendProperties
  <2>2. \A k \in 1 .. c : At(r, I \cup {m})[k] = At(q, I)[k]
    <3>1. TAKE k \in 1 .. c
    <3>2. k \in 1 .. c + 1
      BY <1>3
    <3> QED BY <3>2, <1>3, <1>5, <1>7, <1>8
  <2>3. At(r, I \cup {m})[c + 1] = e
    <3>1. c + 1 \in 1 .. c + 1
      BY <1>3
    <3> QED BY <3>1, <1>1, <1>3, <1>7
  <2>4. \A k \in 1 .. c + 1 : k \in 1 .. c \/ k = c + 1
    BY <1>3
  <2>5. At(r, I \cup {m}) \in [1 .. c + 1 -> S]
    <3>1. \A k \in 1 .. c + 1 : At(r, I \cup {m})[k] \in S
      BY <2>2, <2>3, <2>4, <1>10
    <3> QED BY <3>1, <1>7
  <2>6. At(r, I \cup {m}) \in Seq(S) /\ Len(At(r, I \cup {m})) = c + 1
    <3>1. PICK n \in Nat : n = c + 1
      BY <1>3
    <3>2. PICK p : p = At(r, I \cup {m})
      OBVIOUS
    <3>3. p \in [1 .. n -> S]
      BY <2>5, <3>1, <3>2
    <3>4. p \in Seq(S) /\ Len(p) = n
      BY <3>1, <3>3
    <3> QED BY <3>1, <3>2, <3>4
  <2> QED BY <2>1, <2>2, <2>3, <2>4, <2>6, SeqEqual
<1> QED BY <1>3, <1>9, <1>11, <1>12 DEF c, m, r

LEMMA MembersAre ==
  ASSUME NEW S, NEW q \in Seq(S)
  PROVE  /\ ToSet(q) = {q[i] : i \in 1 .. Len(q)} /\ ToSet(q) \subseteq S /\ IsFiniteSet(ToSet(q))
         /\ Len(q) \in Nat
<1>1. DOMAIN q = 1 .. Len(q) /\ Len(q) \in Nat /\ \A i \in 1 .. Len(q) : q[i] \in S
  BY LenProperties, ElementOfSeq
<1>2. ToSet(q) = {q[i] : i \in 1 .. Len(q)}
  BY <1>1 DEF ToSet
<1>3. IsFiniteSet(1 .. Len(q))
  BY <1>1, FS_Interval
<1>4. q \in Surjection(1 .. Len(q), ToSet(q))
  <2>1. q \in [1 .. Len(q) -> ToSet(q)]
    BY <1>2, LenProperties
  <2> QED BY <1>2, <2>1 DEF Surjection
<1>5. IsFiniteSet(ToSet(q))
  BY <1>3, <1>4, FS_Surjection
<1> QED BY <1>1, <1>2, <1>5

LEMMA MembersOfConcat ==
  ASSUME NEW S, NEW q \in Seq(S), NEW r \in Seq(S)
  PROVE  q \o r \in Seq(S) /\ ToSet(q \o r) = ToSet(q) \cup ToSet(r)
<1>1. /\ q \o r \in Seq(S) /\ Len(q \o r) = Len(q) + Len(r)
      /\ \A i \in 1 .. Len(q) + Len(r) : (q \o r)[i] = IF i <= Len(q) THEN q[i] ELSE r[i - Len(q)]
  BY ConcatProperties
<1>2. Len(q) \in Nat /\ Len(r) \in Nat
  BY LenProperties
<1>3. /\ ToSet(q) = {q[i] : i \in 1 .. Len(q)} /\ ToSet(r) = {r[i] : i \in 1 .. Len(r)}
      /\ ToSet(q \o r) = {(q \o r)[i] : i \in 1 .. Len(q) + Len(r)}
  BY <1>1, MembersAre
<1>4. ASSUME NEW i \in 1 .. Len(q) + Len(r)
      PROVE  (q \o r)[i] \in ToSet(q) \cup ToSet(r)
  <2>1. CASE i <= Len(q)
    BY <1>1, <1>2, <1>3, <2>1
  <2>2. CASE ~(i <= Len(q))
    <3>1. i - Len(q) \in 1 .. Len(r)
      BY <1>2, <2>2
    <3> QED BY <1>1, <1>3, <2>2, <3>1
  <2> QED BY <2>1, <2>2
<1>5. ASSUME NEW i \in 1 .. Len(q)
      PROVE  q[i] \in ToSet(q \o r)
  <2>1. i \in 1 .. Len(q) + Len(r) /\ i <= Len(q)
    BY <1>2
  <2> QED BY <1>1, <1>3, <2>1
<1>6. ASSUME NEW i \in 1 .. Len(r)
      PROVE  r[i] \in ToSet(q \o r)
  <2>1. Len(q) + i \in 1 .. Len(q) + Len(r) /\ ~(Len(q) + i <= Len(q)) /\ (Len(q) + i) - Len(q) = i
    BY <1>2
  <2> QED BY <1>1, <1>3, <2>1
<1>7. ToSet(q \o r) \subseteq ToSet(q) \cup ToSet(r)
  BY <1>3, <1>4
<1>8. ToSet(q) \subseteq ToSet(q \o r)
  BY <1>3, <1>5
<1>9. ToSet(r) \subseteq ToSet(q \o r)
  BY <1>3, <1>6
<1> QED BY <1>1, <1>7, <1>8, <1>9

LEMMA MembersOfAppend ==
  ASSUME NEW S, NEW q \in Seq(S), NEW e \in S
  PROVE  Append(q, e) \in Seq(S) /\ ToSet(Append(q, e)) = ToSet(q) \cup {e}
<1>1. /\ Append(q, e) \in Seq(S) /\ Len(Append(q, e)) = Len(q) + 1 /\ Len(q) \in Nat
      /\ \A i \in 1 .. Len(q) : Append(q, e)[i] = q[i]
      /\ Append(q, e)[Len(q) + 1] = e
  BY AppendProperties, LenProperties
<1>2. /\ ToSet(q) = {q[i] : i \in 1 .. Len(q)}
      /\ ToSet(Append(q, e)) = {Append(q, e)[i] : i \in 1 .. Len(q) + 1}
  BY <1>1, MembersAre
<1>3. \A i \in 1 .. Len(q) + 1 : i \in 1 .. Len(q) \/ i = Len(q) + 1
  BY <1>1
<1>4. (\A i \in 1 .. Len(q) : i \in 1 .. Len(q) + 1) /\ Len(q) + 1 \in 1 .. Len(q) + 1
  BY <1>1
<1> QED BY <1>1, <1>2, <1>3, <1>4

LEMMA MembersOfTail ==
  ASSUME NEW S, NEW q \in Seq(S), q # <<>>
  PROVE  Tail(q) \in Seq(S) /\ Head(q) \in S /\ ToSet(q) = {Head(q)} \cup ToSet(Tail(q))
         /\ Head(q) = q[1] /\ 1 \in 1 .. Len(q)
         /\ Len(Tail(q)) = Len(q) - 1 /\ \A i \in 1 .. Len(Tail(q)) : Tail(q)[i] = q[i + 1]
<1>1. /\ Head(q) \in S /\ Tail(q) \in Seq(S) /\ Len(Tail(q)) = Len(q) - 1
      /\ \A i \in 1 .. Len(Tail(q)) : Tail(q)[i] = q[i + 1]
  BY HeadTailProperties
<1>2. Len(q) \in Nat \ {0} /\ Head(q) = q[1]
  BY EmptySeq
<1>3. /\ ToSet(q) = {q[i] : i \in 1 .. Len(q)}
      /\ ToSet(Tail(q)) = {Tail(q)[i] : i \in 1 .. Len(q) - 1}
  BY <1>1, MembersAre
<1>4. \A i \in 1 .. Len(q) : i = 1 \/ (i - 1 \in 1 .. Len(q) - 1 /\ (i - 1) + 1 = i)
  BY <1>2
<1>5. 1 \in 1 .. Len(q) /\ \A i \in 1 .. Len(q) - 1 : i + 1 \in 1 .. Len(q)
  BY <1>2
<1>6. \A s \in ToSet(q) : s = q[1] \/ s \in ToSet(Tail(q))
  <2>1. ASSUME NEW i \in 1 .. Len(q), i # 1
        PROVE  q[i] \in ToSet(Tail(q))
    <3>1. i - 1 \in 1 .. Len(q) - 1 /\ (i - 1) + 1 = i
      BY <1>4, <2>1
    <3>2. Tail(q)[i - 1] = q[i]
      BY <1>1, <3>1
    <3> QED BY <1>3, <3>1, <3>2
  <2> QED BY <1>3, <2>1
<1>7. \A s \in ToSet(Tail(q)) : s \in ToSet(q)
  BY <1>1, <1>3, <1>5
<1>8. q[1] \in ToSet(q)
  BY <1>3, <1>5
<1> QED BY <1>1, <1>2, <1>5, <1>6, <1>7, <1>8

LEMMA MembersAt ==
  ASSUME NEW S, NEW q \in Seq(S), NEW I, I \subseteq DOMAIN q
  PROVE  At(q, I) \in Seq(S) /\ ToSet(At(q, I)) = {q[i] : i \in I}
<1>1. I \subseteq 1 .. Len(q)
  BY LenProperties
<1>2. At(q, I) \in Seq(S) /\ Len(At(q, I)) \in Nat
  BY <1>1, AtPicks
<1>3. PICK h : Picks(h, q, I, At(q, I))
  BY <1>1, AtPicks
<1>4. ToSet(At(q, I)) = {At(q, I)[n] : n \in 1 .. Len(At(q, I))}
  BY <1>2, MembersAre
<1>5. \A n \in 1 .. Len(At(q, I)) : At(q, I)[n] = q[h[n]] /\ h[n] \in I
  BY <1>3 DEF Picks
<1>6. \A i \in I : \E n \in 1 .. Len(At(q, I)) : At(q, I)[n] = q[i]
  BY <1>3 DEF Picks
<1> QED BY <1>2, <1>4, <1>5, <1>6

-----------------------------------------------------------------------------
(* Induction on the numbers up to n, for a set of them. *)
LEMMA UpTo ==
  ASSUME NEW n \in Nat, NEW P, 0 \in P, \A i \in 1 .. n : i - 1 \in P => i \in P
  PROVE  \A i \in 0 .. n : i \in P
<1> DEFINE Bad == {i \in 0 .. n : i \notin P}
<1> SUFFICES ASSUME Bad # {} PROVE FALSE
  OBVIOUS
<1>1. Bad \subseteq Nat
  OBVIOUS
<1>2. PICK m \in Bad : \A k \in Bad : m <= k
  <2> HIDE DEF Bad
  <2> QED BY <1>1, LeastNatural
<1>3. m \in 1 .. n /\ m \notin P /\ m - 1 \in 0 .. n /\ ~(m <= m - 1)
  BY <1>2
<1>4. m - 1 \notin Bad
  <2> HIDE DEF Bad
  <2> QED BY <1>2, <1>3
<1> QED BY <1>3, <1>4

(* Induction on the subsets of a finite set, for a set of them. *)
LEMMA OneTaken ==
  ASSUME NEW S, IsFiniteSet(S), NEW x \in S
  PROVE  /\ IsFiniteSet(S \ {x}) /\ S \ {x} \in SUBSET S
         /\ Cardinality(S) \in Nat /\ Cardinality(S \ {x}) = Cardinality(S) - 1
         /\ Cardinality(S) >= 1
<1>1. IsFiniteSet(S \ {x}) /\ Cardinality(S \ {x}) = Cardinality(S) - 1
  BY FS_RemoveElement
<1>2. Cardinality(S) \in Nat /\ Cardinality(S \ {x}) \in Nat
  BY <1>1, FS_CardinalityType
<1> QED BY <1>1, <1>2

LEMMA SubsetInduction ==
  ASSUME NEW S, IsFiniteSet(S), NEW P,
         \A T \in SUBSET S : (\A x \in T : T \ {x} \in P) => T \in P
  PROVE  \A T \in SUBSET S : T \in P
<1> DEFINE Bad == {T \in SUBSET S : T \notin P}
           Sizes == {Cardinality(T) : T \in Bad}
<1> SUFFICES ASSUME Bad # {} PROVE FALSE
  OBVIOUS
<1>0. \A T \in SUBSET S : IsFiniteSet(T) /\ Cardinality(T) \in Nat
  BY FS_Subset, FS_CardinalityType
<1>1. Sizes \subseteq Nat /\ Sizes # {}
  BY <1>0
<1>2. PICK m \in Sizes : \A k \in Sizes : m <= k
  <2> HIDE DEF Sizes
  <2> QED BY <1>1, LeastNatural
<1>3. PICK T \in SUBSET S : T \notin P /\ Cardinality(T) = m
  BY <1>2
<1>4. PICK x \in T : T \ {x} \notin P
  BY <1>3
<1>5. T \ {x} \in Bad
  BY <1>4
<1>6. Cardinality(T \ {x}) = m - 1 /\ m \in Nat
  BY <1>0, <1>3, OneTaken
<1>7. m - 1 \in Sizes
  BY <1>5, <1>6
<1>8. m <= m - 1
  <2> HIDE DEF Sizes
  <2> QED BY <1>2, <1>7
<1> QED BY <1>6, <1>8

(* A function on the subsets of S may be defined by its value at {} and a  *)
(* step that takes one member out.                                         *)
Peels(g, S, base, pick, step) ==
  g = [T \in SUBSET S |-> IF T = {} THEN base ELSE step[pick[T]][g[T \ {pick[T]}]]]

Chooses(pick, S) == \A T \in SUBSET S : T # {} => pick[T] \in T

LEMMA SetRecursion ==
  ASSUME NEW S, IsFiniteSet(S), NEW V, NEW base \in V, NEW step \in [S -> [V -> V]],
         NEW pick, Chooses(pick, S)
  PROVE  \E g \in [SUBSET S -> V] : Peels(g, S, base, pick, step)
<1> DEFINE F == [SUBSET S -> V]
           Next(i, g) == [T \in SUBSET S |-> IF Cardinality(T) = i
                                             THEN step[pick[T]][g[T \ {pick[T]}]] ELSE g[T]]
<1>a. PICK n : n = Cardinality(S)
  OBVIOUS
<1>b. PICK b : b = [T \in SUBSET S |-> base]
  OBVIOUS
<1>c. PICK nexts : nexts = [i \in 1 .. n |-> [g \in F |-> Next(i, g)]]
  OBVIOUS
<1>0. n \in Nat /\ \A T \in SUBSET S : Cardinality(T) \in 0 .. n
  BY <1>a, FS_Subset, FS_CardinalityType
<1>1. \A T \in SUBSET S : T # {} => /\ pick[T] \in T /\ T \ {pick[T]} \in SUBSET S
                                    /\ Cardinality(T) \in 1 .. n
                                    /\ Cardinality(T \ {pick[T]}) = Cardinality(T) - 1
  <2> SUFFICES ASSUME NEW T \in SUBSET S, T # {}
               PROVE  /\ pick[T] \in T /\ T \ {pick[T]} \in SUBSET S
                      /\ Cardinality(T) \in 1 .. n
                      /\ Cardinality(T \ {pick[T]}) = Cardinality(T) - 1
    OBVIOUS
  <2>1. PICK x \in T : x = pick[T]
    BY DEF Chooses
  <2>2. IsFiniteSet(T)
    BY FS_Subset
  <2>3. Cardinality(T) \in Nat /\ Cardinality(T) >= 1 /\ Cardinality(T \ {x}) = Cardinality(T) - 1
    BY <2>2, OneTaken
  <2>4. Cardinality(T) \in 0 .. n
    BY <1>0
  <2>5. Cardinality(T) \in 1 .. n
    BY <2>3, <2>4, <1>0
  <2> QED BY <2>1, <2>3, <2>5
<1>2. ASSUME NEW i \in 1 .. n, NEW g \in F
      PROVE  Next(i, g) \in F
  <2>1. ASSUME NEW T \in SUBSET S, Cardinality(T) = i
        PROVE  step[pick[T]][g[T \ {pick[T]}]] \in V
    <3>1. Cardinality({}) = 0 /\ i # 0
      BY FS_EmptySet, <1>0
    <3>2. T # {}
      BY <2>1, <3>1
    <3>3. PICK x \in S : x = pick[T] /\ T \ {x} \in SUBSET S
      BY <3>2, <1>1
    <3>4. g[T \ {x}] \in V
      BY <3>3
    <3>5. step[x][g[T \ {x}]] \in V
      BY <3>4
    <3> QED BY <3>3, <3>5
  <2> QED BY <2>1
<1>3. b \in F /\ nexts \in [1 .. n -> [F -> F]]
  <2>1. b \in F
    BY <1>b
  <2> HIDE DEF F, Next
  <2> QED BY <2>1, <1>2, <1>c
<1>4. PICK h : Steps(h, n, F, b, nexts)
  <2> HIDE DEF F
  <2> QED BY <1>0, <1>3, Recursion
<1>5. h \in [0 .. n -> F] /\ h[0] = b /\ \A i \in 1 .. n : h[i] = Next(i, h[i - 1])
  <2>1. h \in [0 .. n -> F] /\ h[0] = b /\ \A i \in 1 .. n : h[i] = nexts[i][h[i - 1]]
    BY <1>4, Zenon DEF Steps
  <2>2. \A i \in 1 .. n : h[i - 1] \in F
    <3> HIDE DEF F
    <3> QED BY <2>1, <1>0
  <2>3. \A i \in 1 .. n : nexts[i][h[i - 1]] = Next(i, h[i - 1])
    <3> HIDE DEF F, Next
    <3> QED BY <2>2, <1>c
  <2> QED BY <2>1, <2>3
<1>6. \A i \in 1 .. n : \A T \in SUBSET S :
        h[i][T] = IF Cardinality(T) = i THEN step[pick[T]][h[i - 1][T \ {pick[T]}]] ELSE h[i - 1][T]
  BY <1>5
<1> HIDE DEF Next
(* A set keeps the value it got. *)
<1>7. ASSUME NEW T \in SUBSET S, NEW c, c = Cardinality(T)
      PROVE  \A i \in 0 .. n : i >= c => h[i][T] = h[c][T]
  <2> DEFINE P == {i \in 0 .. n : i >= c => h[i][T] = h[c][T]}
  <2>0. c \in 0 .. n
    BY <1>0, <1>7
  <2>1. 0 \in P
    BY <2>0, <1>0
  <2>2. \A i \in 1 .. n : i - 1 \in P => i \in P
    <3>1. TAKE i \in 1 .. n
    <3>2. HAVE i - 1 \in P
    <3>3. CASE i > c
      <4>1. Cardinality(T) # i
        BY <3>3, <1>7, <2>0, <1>0
      <4>2. h[i][T] = h[i - 1][T]
        BY <4>1, <1>6
      <4> QED BY <4>2, <3>2, <3>3, <2>0, <1>0
    <3>4. CASE ~(i > c)
      BY <3>4, <2>0, <1>0
    <3> QED BY <3>3, <3>4
  <2>3. \A i \in 0 .. n : i \in P
    <3> HIDE DEF P
    <3> QED BY <2>1, <2>2, <1>0, UpTo
  <2> QED BY <2>3
<1> DEFINE g == [T \in SUBSET S |-> h[n][T]]
<1>8. g \in [SUBSET S -> V]
  <2>1. h[n] \in F
    <3> HIDE DEF F
    <3> QED BY <1>5, <1>0
  <2> QED BY <2>1
<1>9. ASSUME NEW T \in SUBSET S
      PROVE  g[T] = IF T = {} THEN base ELSE step[pick[T]][g[T \ {pick[T]}]]
  <2>1. CASE T = {}
    <3>1. Cardinality(T) = 0 /\ n \in 0 .. n /\ n >= 0
      BY <2>1, FS_EmptySet, <1>0
    <3>2. h[n][T] = h[0][T]
      BY <3>1, <1>7
    <3> QED BY <3>2, <2>1, <1>5, <1>b
  <2>2. CASE T # {}
    <3>1. PICK x : x = pick[T]
      OBVIOUS
    <3>2. PICK c : c = Cardinality(T)
      OBVIOUS
    <3>3. T \ {x} \in SUBSET S /\ c \in 1 .. n /\ Cardinality(T \ {x}) = c - 1 /\ n >= c /\ n >= c - 1
          /\ n \in 0 .. n /\ c - 1 \in 0 .. n
      <4>1. T \ {x} \in SUBSET S /\ c \in 1 .. n /\ Cardinality(T \ {x}) = c - 1
        BY <2>2, <1>1, <3>1, <3>2
      <4>2. n \in 0 .. n /\ c - 1 \in 0 .. n /\ n >= c /\ n >= c - 1
        BY <4>1, <1>0
      <4> QED BY <4>1, <4>2
    <3>4. h[n][T] = h[c][T]
      BY <3>2, <3>3, <1>7
    <3>5. h[n][T \ {x}] = h[c - 1][T \ {x}]
      BY <3>3, <1>7
    <3>6. h[c][T] = step[x][h[c - 1][T \ {x}]]
      BY <1>6, <3>1, <3>2, <3>3
    <3> QED BY <3>1, <3>3, <3>4, <3>5, <3>6, <2>2
  <2> QED BY <2>1, <2>2
<1>10. Peels(g, S, base, pick, step)
  <2>1. g = [T \in SUBSET S |-> g[T]]
    OBVIOUS
  <2> HIDE DEF g
  <2> QED BY <1>9, <2>1 DEF Peels
<1> HIDE DEF g
<1> QED BY <1>8, <1>10

-----------------------------------------------------------------------------
(* Sums.  A sum by parts: one member, and the sum of the rest. *)
SomeOf(T) == CHOOSE y \in T : TRUE
SumsUp(S, f, g) == g = [T \in SUBSET S |-> IF T = {} THEN 0 ELSE f[SomeOf(T)] + g[T \ {SomeOf(T)}]]

LEMMA SumsExist ==
  ASSUME NEW S, IsFiniteSet(S), NEW f, \A x \in S : f[x] \in Int
  PROVE  \E g \in [SUBSET S -> Int] : SumsUp(S, f, g)
<1>1. PICK pick : pick = [T \in SUBSET S |-> SomeOf(T)]
  OBVIOUS
<1>2. \A T \in SUBSET S : pick[T] = SomeOf(T) /\ (T # {} => pick[T] \in T)
  BY <1>1 DEF SomeOf
<1>3. PICK step : step = [x \in S |-> [v \in Int |-> f[x] + v]]
  OBVIOUS
<1>4. step \in [S -> [Int -> Int]]
  BY <1>3
<1>5. PICK g \in [SUBSET S -> Int] : Peels(g, S, 0, pick, step)
  <2>1. Chooses(pick, S)
    BY <1>2 DEF Chooses
  <2>2. 0 \in Int
    OBVIOUS
  <2> QED BY <1>4, <2>1, <2>2, SetRecursion
<1>6. \A T \in SUBSET S : g[T] = IF T = {} THEN 0 ELSE step[pick[T]][g[T \ {pick[T]}]]
  BY <1>5 DEF Peels
<1>7. \A T \in SUBSET S : g[T] = IF T = {} THEN 0 ELSE f[SomeOf(T)] + g[T \ {SomeOf(T)}]
  <2> SUFFICES ASSUME NEW T \in SUBSET S, T # {} PROVE g[T] = f[SomeOf(T)] + g[T \ {SomeOf(T)}]
    BY <1>6
  <2>1. PICK x \in S : x = SomeOf(T) /\ x = pick[T] /\ T \ {x} \in SUBSET S
    BY <1>2
  <2>2. g[T \ {x}] \in Int
    BY <2>1
  <2>3. g[T] = step[x][g[T \ {x}]]
    BY <1>6, <2>1
  <2> QED BY <1>3, <2>1, <2>2, <2>3
<1>8. g = [T \in SUBSET S |-> g[T]]
  OBVIOUS
<1> QED BY <1>7, <1>8 DEF SumsUp

LEMMA SumIs ==
  ASSUME NEW S, IsFiniteSet(S), NEW f, \A x \in S : f[x] \in Int
  PROVE  \E g \in [SUBSET S -> Int] : SumsUp(S, f, g) /\ SumOver(S, f) = g[S]
<1>1. SumOver(S, f) = (CHOOSE g : SumsUp(S, f, g))[S]
  BY DEF SumOver, SumsUp, SomeOf
<1>2. PICK g0 \in [SUBSET S -> Int] : SumsUp(S, f, g0)
  BY SumsExist
<1>3. PICK g : g = CHOOSE g1 : SumsUp(S, f, g1)
  OBVIOUS
<1>4. SumsUp(S, f, g)
  BY <1>2, <1>3
<1>5. \A T \in SUBSET S : g[T] = g0[T]
  <2> DEFINE P == {T \in SUBSET S : g[T] = g0[T]}
  <2>1. \A T \in SUBSET S : (\A x \in T : T \ {x} \in P) => T \in P
    <3>1. TAKE T \in SUBSET S
    <3>2. HAVE \A x \in T : T \ {x} \in P
    <3>3. CASE T = {}
      BY <3>3, <1>2, <1>4 DEF SumsUp
    <3>4. CASE T # {}
      <4>1. SomeOf(T) \in T
        BY <3>4 DEF SomeOf
      <4>2. g[T \ {SomeOf(T)}] = g0[T \ {SomeOf(T)}]
        BY <4>1, <3>2
      <4>3. g[T] = f[SomeOf(T)] + g[T \ {SomeOf(T)}]
        BY <3>4, <1>4 DEF SumsUp
      <4>4. g0[T] = f[SomeOf(T)] + g0[T \ {SomeOf(T)}]
        BY <3>4, <1>2 DEF SumsUp
      <4> QED BY <4>2, <4>3, <4>4
    <3> QED BY <3>3, <3>4
  <2>2. \A T \in SUBSET S : T \in P
    <3> HIDE DEF P
    <3> QED BY <2>1, SubsetInduction
  <2> QED BY <2>2
<1>6. g = [T \in SUBSET S |-> g[T]]
  BY <1>4 DEF SumsUp
<1>7. g \in [SUBSET S -> Int]
  BY <1>5, <1>6
<1> QED BY <1>1, <1>3, <1>4, <1>7

(* What is the sum of a part of S, as S sees it. *)
LEMMA SumWithin ==
  ASSUME NEW S, IsFiniteSet(S), NEW f, \A x \in S : f[x] \in Int, NEW g, SumsUp(S, f, g)
  PROVE  \A T \in SUBSET S : g[T] = SumOver(T, f)
<1>1. TAKE T \in SUBSET S
<1>2. IsFiniteSet(T) /\ \A x \in T : f[x] \in Int
  BY FS_Subset
<1>3. PICK h \in [SUBSET T -> Int] : SumsUp(T, f, h) /\ SumOver(T, f) = h[T]
  BY <1>2, SumIs
<1> DEFINE P == {U \in SUBSET T : g[U] = h[U]}
<1>4. \A U \in SUBSET T : (\A x \in U : U \ {x} \in P) => U \in P
  <2>1. TAKE U \in SUBSET T
  <2>2. HAVE \A x \in U : U \ {x} \in P
  <2>3. U \in SUBSET S
    OBVIOUS
  <2>4. CASE U = {}
    BY <2>3, <2>4, <1>3 DEF SumsUp
  <2>5. CASE U # {}
    <3>1. SomeOf(U) \in U
      BY <2>5 DEF SomeOf
    <3>2. g[U \ {SomeOf(U)}] = h[U \ {SomeOf(U)}]
      BY <3>1, <2>2
    <3>3. g[U] = f[SomeOf(U)] + g[U \ {SomeOf(U)}]
      BY <2>3, <2>5 DEF SumsUp
    <3>4. h[U] = f[SomeOf(U)] + h[U \ {SomeOf(U)}]
      BY <2>5, <1>3 DEF SumsUp
    <3> QED BY <3>2, <3>3, <3>4
  <2> QED BY <2>4, <2>5
<1>5. \A U \in SUBSET T : U \in P
  <2> HIDE DEF P
  <2> QED BY <1>2, <1>4, SubsetInduction
<1> QED BY <1>3, <1>5

(* Any member may be the one that is taken out first. *)
LEMMA SumTakes ==
  ASSUME NEW S, IsFiniteSet(S), NEW f, \A x \in S : f[x] \in Int
  PROVE  /\ SumOver(S, f) \in Int
         /\ S = {} => SumOver(S, f) = 0
         /\ \A x \in S : SumOver(S, f) = f[x] + SumOver(S \ {x}, f)
<1>1. PICK g \in [SUBSET S -> Int] : SumsUp(S, f, g) /\ SumOver(S, f) = g[S]
  BY SumIs
<1>2. \A T \in SUBSET S : g[T] = SumOver(T, f)
  BY <1>1, SumWithin
<1>3. \A T \in SUBSET S : g[T] \in Int /\ (T = {} => g[T] = 0)
                          /\ (T # {} => g[T] = f[SomeOf(T)] + g[T \ {SomeOf(T)}])
  BY <1>1 DEF SumsUp
<1> DEFINE P == {T \in SUBSET S : \A x \in T : g[T] = f[x] + g[T \ {x}]}
<1>4. \A T \in SUBSET S : (\A x \in T : T \ {x} \in P) => T \in P
  <2>1. TAKE T \in SUBSET S
  <2>2. HAVE \A x \in T : T \ {x} \in P
  <2>3. ASSUME NEW x \in T
        PROVE  g[T] = f[x] + g[T \ {x}]
    <3>1. PICK y : y = SomeOf(T)
      OBVIOUS
    <3>2. y \in T /\ g[T] = f[y] + g[T \ {y}]
      BY <3>1, <1>3 DEF SomeOf
    <3>3. CASE x = y
      BY <3>2, <3>3
    <3>4. CASE x # y
      <4>1. g[T \ {y}] = f[x] + g[(T \ {y}) \ {x}]
        BY <2>2, <3>2, <3>4
      <4>2. g[T \ {x}] = f[y] + g[(T \ {x}) \ {y}]
        BY <2>2, <3>2, <3>4
      <4>3. (T \ {y}) \ {x} = (T \ {x}) \ {y} /\ (T \ {x}) \ {y} \in SUBSET S
        OBVIOUS
      <4>4. g[(T \ {x}) \ {y}] \in Int /\ f[x] \in Int /\ f[y] \in Int
        BY <4>3, <1>3, <3>2
      <4>5. g[T] = f[y] + (f[x] + g[(T \ {x}) \ {y}])
        BY <3>2, <4>1, <4>3
      <4>6. PICK r : r = g[(T \ {x}) \ {y}]
        OBVIOUS
      <4> QED BY <4>2, <4>4, <4>5, <4>6
    <3> QED BY <3>3, <3>4
  <2> QED BY <2>3
<1>5. \A T \in SUBSET S : T \in P
  <2> HIDE DEF P
  <2> QED BY <1>4, SubsetInduction
<1>6. ASSUME NEW x \in S
      PROVE  SumOver(S, f) = f[x] + SumOver(S \ {x}, f)
  <2>1. S \in SUBSET S /\ S \ {x} \in SUBSET S
    OBVIOUS
  <2> QED BY <2>1, <1>1, <1>2, <1>5
<1>7. S \in SUBSET S
  OBVIOUS
<1> QED BY <1>1, <1>3, <1>6, <1>7

LEMMA SumSame ==
  ASSUME NEW S, IsFiniteSet(S), NEW f, \A x \in S : f[x] \in Int,
         NEW g, \A x \in S : g[x] = f[x]
  PROVE  SumOver(S, g) = SumOver(S, f)
<1> DEFINE P == {T \in SUBSET S : SumOver(T, g) = SumOver(T, f)}
<1>1. \A T \in SUBSET S : (\A x \in T : T \ {x} \in P) => T \in P
  <2>1. TAKE T \in SUBSET S
  <2>2. HAVE \A x \in T : T \ {x} \in P
  <2>3. IsFiniteSet(T) /\ (\A x \in T : f[x] \in Int) /\ (\A x \in T : g[x] \in Int)
    BY FS_Subset
  <2>4. CASE T = {}
    BY <2>3, <2>4, SumTakes
  <2>5. CASE T # {}
    <3>1. PICK x \in T : TRUE
      BY <2>5
    <3>2. SumOver(T, f) = f[x] + SumOver(T \ {x}, f)
      BY <2>3, SumTakes
    <3>3. SumOver(T, g) = g[x] + SumOver(T \ {x}, g)
      BY <2>3, SumTakes
    <3>4. SumOver(T \ {x}, g) = SumOver(T \ {x}, f)
      BY <2>2
    <3> QED BY <3>2, <3>3, <3>4
  <2> QED BY <2>4, <2>5
<1>2. \A T \in SUBSET S : T \in P
  <2> HIDE DEF P
  <2> QED BY <1>1, SubsetInduction
<1> QED BY <1>2

LEMMA SumNat ==
  ASSUME NEW S, IsFiniteSet(S), NEW f, \A x \in S : f[x] \in Nat
  PROVE  SumOver(S, f) \in Nat /\ \A x \in S : f[x] <= SumOver(S, f)
<1> DEFINE P == {T \in SUBSET S : SumOver(T, f) \in Nat}
<1>1. \A T \in SUBSET S : (\A x \in T : T \ {x} \in P) => T \in P
  <2>1. TAKE T \in SUBSET S
  <2>2. HAVE \A x \in T : T \ {x} \in P
  <2>3. IsFiniteSet(T) /\ (\A x \in T : f[x] \in Int)
    BY FS_Subset
  <2>4. CASE T = {}
    BY <2>3, <2>4, SumTakes
  <2>5. CASE T # {}
    <3>1. PICK x \in T : TRUE
      BY <2>5
    <3>2. SumOver(T, f) = f[x] + SumOver(T \ {x}, f)
      BY <2>3, SumTakes
    <3>3. SumOver(T \ {x}, f) \in Nat /\ f[x] \in Nat
      BY <2>2
    <3> QED BY <3>2, <3>3
  <2> QED BY <2>4, <2>5
<1>2. \A T \in SUBSET S : T \in P
  <2> HIDE DEF P
  <2> QED BY <1>1, SubsetInduction
<1>3. ASSUME NEW x \in S
      PROVE  f[x] <= SumOver(S, f)
  <2>1. SumOver(S \ {x}, f) \in Nat /\ f[x] \in Nat
    BY <1>2
  <2>2. \A y \in S : f[y] \in Int
    OBVIOUS
  <2>3. SumOver(S, f) = f[x] + SumOver(S \ {x}, f)
    BY <2>2, SumTakes
  <2> QED BY <2>1, <2>3
<1> QED BY <1>2, <1>3

(* One member more. *)
LEMMA SumExtra ==
  ASSUME NEW S, IsFiniteSet(S), NEW x, x \notin S,
         NEW f, \A y \in S \cup {x} : f[y] \in Int
  PROVE  /\ IsFiniteSet(S \cup {x}) /\ SumOver(S, f) \in Int
         /\ SumOver(S \cup {x}, f) = SumOver(S, f) + f[x]
<1> DEFINE T == S \cup {x}
<1>1. IsFiniteSet(T) /\ x \in T /\ T \ {x} = S
  BY FS_AddElement
<1>2. \A y \in T : f[y] \in Int
  OBVIOUS
<1> HIDE DEF T
<1>3. SumOver(T, f) = f[x] + SumOver(T \ {x}, f)
  BY <1>1, <1>2, SumTakes
<1>4. SumOver(S, f) \in Int /\ f[x] \in Int
  BY SumTakes
<1>5. SumOver(T, f) = SumOver(S, f) + f[x]
  <2>1. SumOver(T \ {x}, f) = SumOver(S, f)
    BY <1>1, Zenon
  <2> QED BY <2>1, <1>3, <1>4
<1> QED BY <1>1, <1>4, <1>5 DEF T

(* One member changed. *)
LEMMA SumMoved ==
  ASSUME NEW S, IsFiniteSet(S), NEW x \in S,
         NEW f, \A y \in S : f[y] \in Int,
         NEW g, \A y \in S \ {x} : g[y] = f[y], g[x] \in Int
  PROVE  /\ SumOver(S, f) \in Int
         /\ SumOver(S, g) = SumOver(S, f) + (g[x] - f[x])
<1>1. \A y \in S : g[y] \in Int
  OBVIOUS
<1>2. IsFiniteSet(S \ {x}) /\ \A y \in S \ {x} : f[y] \in Int
  BY OneTaken
<1>3. SumOver(S \ {x}, g) = SumOver(S \ {x}, f) /\ SumOver(S \ {x}, f) \in Int
  BY <1>2, SumSame, SumTakes
<1>4. SumOver(S, f) = f[x] + SumOver(S \ {x}, f)
  BY SumTakes
<1>5. SumOver(S, g) = g[x] + SumOver(S \ {x}, g)
  BY <1>1, SumTakes
<1>6. f[x] \in Int
  OBVIOUS
<1> QED BY <1>3, <1>4, <1>5, <1>6

(* A part, and the rest. *)
LEMMA SumParts ==
  ASSUME NEW S, IsFiniteSet(S), NEW R, R \subseteq S, NEW f, \A x \in S : f[x] \in Int
  PROVE  /\ SumOver(R, f) \in Int /\ SumOver(S \ R, f) \in Int
         /\ SumOver(S, f) = SumOver(R, f) + SumOver(S \ R, f)
<1> DEFINE P == {T \in SUBSET S : R \subseteq T => SumOver(T, f) = SumOver(R, f) + SumOver(T \ R, f)}
<1>0. \A T \in SUBSET S : IsFiniteSet(T) /\ (\A x \in T : f[x] \in Int) /\ SumOver(T, f) \in Int
  <2>1. TAKE T \in SUBSET S
  <2>2. IsFiniteSet(T) /\ \A x \in T : f[x] \in Int
    BY FS_Subset
  <2> QED BY <2>2, SumTakes
<1>1. \A T \in SUBSET S : (\A x \in T : T \ {x} \in P) => T \in P
  <2>1. TAKE T \in SUBSET S
  <2>2. HAVE \A x \in T : T \ {x} \in P
  <2>3. SUFFICES ASSUME R \subseteq T PROVE SumOver(T, f) = SumOver(R, f) + SumOver(T \ R, f)
    OBVIOUS
  <2>4. T \ R \in SUBSET S /\ R \in SUBSET S
    OBVIOUS
  <2>5. CASE T \ R = {}
    <3>1. T = R
      BY <2>3, <2>5
    <3>2. SumOver(T \ R, f) = 0
      BY <2>4, <2>5, <1>0, SumTakes
    <3> QED BY <3>1, <3>2, <2>4, <1>0
  <2>6. CASE T \ R # {}
    <3>1. PICK x \in T \ R : TRUE
      BY <2>6
    <3>2. SumOver(T, f) = f[x] + SumOver(T \ {x}, f)
      BY <1>0, SumTakes
    <3>3. SumOver(T \ R, f) = f[x] + SumOver((T \ R) \ {x}, f)
      BY <2>4, <1>0, SumTakes
    <3>4. (T \ {x}) \ R = (T \ R) \ {x} /\ R \subseteq T \ {x} /\ (T \ R) \ {x} \in SUBSET S
      BY <2>3
    <3>5. SumOver(T \ {x}, f) = SumOver(R, f) + SumOver((T \ R) \ {x}, f)
      BY <2>2, <3>4
    <3>6. SumOver(R, f) \in Int /\ SumOver((T \ R) \ {x}, f) \in Int /\ f[x] \in Int
      BY <2>4, <3>4, <1>0
    <3> QED BY <3>2, <3>3, <3>5, <3>6
  <2> QED BY <2>5, <2>6
<1>2. \A T \in SUBSET S : T \in P
  <2> HIDE DEF P
  <2> QED BY <1>1, SubsetInduction
<1>3. S \in P
  <2> HIDE DEF P
  <2> QED BY <1>2
<1>4. R \in SUBSET S /\ S \ R \in SUBSET S
  OBVIOUS
<1> QED BY <1>0, <1>3, <1>4

(* Nothing added up is nothing. *)
LEMMA SumZero ==
  ASSUME NEW S, IsFiniteSet(S), NEW f, \A x \in S : f[x] = 0
  PROVE  SumOver(S, f) = 0
<1> DEFINE P == {T \in SUBSET S : SumOver(T, f) = 0}
<1>1. \A T \in SUBSET S : (\A x \in T : T \ {x} \in P) => T \in P
  <2>1. TAKE T \in SUBSET S
  <2>2. HAVE \A x \in T : T \ {x} \in P
  <2>3. IsFiniteSet(T) /\ \A x \in T : f[x] \in Int
    BY FS_Subset
  <2>4. CASE T = {}
    BY <2>3, <2>4, SumTakes
  <2>5. CASE T # {}
    <3>1. PICK x \in T : TRUE
      BY <2>5
    <3>2. SumOver(T, f) = f[x] + SumOver(T \ {x}, f)
      BY <2>3, SumTakes
    <3>3. SumOver(T \ {x}, f) = 0 /\ f[x] = 0
      BY <2>2
    <3> QED BY <3>2, <3>3
  <2> QED BY <2>4, <2>5
<1> HIDE DEF P
<1>2. S \in P
  BY <1>1, SubsetInduction
<1> QED BY <1>2 DEF P

(* A sum of the sizes of sets that have nothing in common. *)
LEMMA SumOfParts ==
  ASSUME NEW S, IsFiniteSet(S), NEW U, IsFiniteSet(U), NEW part \in [S -> SUBSET U],
         \A x, y \in S : x # y => part[x] \cap part[y] = {},
         NEW f, \A x \in S : f[x] = Cardinality(part[x])
  PROVE  /\ SumOver(S, f) = Cardinality(UNION {part[x] : x \in S})
         /\ UNION {part[x] : x \in S} \subseteq U
<1> DEFINE all(T) == UNION {part[x] : x \in T}
           P == {T \in SUBSET S : SumOver(T, f) = Cardinality(all(T))}
<1>1. \A x \in S : IsFiniteSet(part[x]) /\ Cardinality(part[x]) \in Nat /\ f[x] \in Int
  BY FS_Subset, FS_CardinalityType
<1>2. \A T \in SUBSET S : IsFiniteSet(T) /\ all(T) \subseteq U /\ IsFiniteSet(all(T)) /\ Cardinality(all(T)) \in Nat
  <2> SUFFICES ASSUME NEW T \in SUBSET S
               PROVE  IsFiniteSet(T) /\ all(T) \subseteq U /\ IsFiniteSet(all(T)) /\ Cardinality(all(T)) \in Nat
    OBVIOUS
  <2>1. IsFiniteSet(T)
    BY FS_Subset
  <2>2. all(T) \subseteq U
    OBVIOUS
  <2> HIDE DEF all
  <2> QED BY <2>1, <2>2, FS_Subset, FS_CardinalityType
<1>3. ASSUME NEW T \in SUBSET S, \A x \in T : T \ {x} \in P PROVE T \in P
  <2>1. CASE T = {}
    <3>1. all(T) = {}
      BY <2>1
    <3>2. SumOver(T, f) = 0
      BY <1>2, <2>1, SumTakes
    <3> QED BY <3>1, <3>2, FS_EmptySet
  <2>2. CASE T # {}
    <3>1. PICK x \in T : TRUE
      BY <2>2
    <3>2. T \ {x} \in SUBSET S /\ SumOver(T \ {x}, f) = Cardinality(all(T \ {x}))
      BY <1>3, <3>1
    <3>3. SumOver(T, f) = f[x] + SumOver(T \ {x}, f)
      <4>1. IsFiniteSet(T) /\ \A y \in T : f[y] \in Int
        BY <1>1, <1>2
      <4> QED BY <3>1, <4>1, SumTakes
    <3>4. all(T) = part[x] \cup all(T \ {x})
      BY <3>1
    <3>5. part[x] \cap all(T \ {x}) = {}
      BY <3>1
    <3>6. Cardinality(part[x] \cup all(T \ {x})) = Cardinality(part[x]) + Cardinality(all(T \ {x}))
      <4>1. PICK A, B : A = part[x] /\ B = all(T \ {x})
        OBVIOUS
      <4>2. IsFiniteSet(A) /\ IsFiniteSet(B) /\ Cardinality(A) \in Nat /\ Cardinality(B) \in Nat
        <5>1. x \in S
          BY <3>1
        <5> HIDE DEF all
        <5> QED BY <1>1, <1>2, <3>2, <4>1, <5>1
      <4>3. Cardinality(A \cup B) = Cardinality(A) + Cardinality(B) - Cardinality(A \cap B)
        BY <4>2, FS_Union
      <4>4. A \cap B = {} /\ Cardinality({}) = 0
        BY <3>5, <4>1, FS_EmptySet
      <4>5. Cardinality(A \cap B) = 0
        BY <4>4
      <4>6. Cardinality(A \cup B) = Cardinality(A) + Cardinality(B)
        BY <4>2, <4>3, <4>5
      <4> HIDE DEF all
      <4> QED BY <4>1, <4>6
    <3> HIDE DEF all
    <3> QED BY <3>1, <3>2, <3>3, <3>4, <3>6
  <2> QED BY <2>1, <2>2
<1>4. \A T \in SUBSET S : T \in P
  <2> HIDE DEF P
  <2> QED BY <1>3, SubsetInduction
<1> QED BY <1>2, <1>4

(* Sums of scaled members are in the order their members are in. *)
LEMMA SumScaled ==
  ASSUME NEW S, IsFiniteSet(S), NEW f, NEW g, \A x \in S : f[x] \in Nat /\ g[x] \in Nat,
         NEW k \in Nat, NEW l \in Nat, \A x \in S : f[x] * k <= g[x] * l
  PROVE  SumOver(S, f) * k <= SumOver(S, g) * l
<1> DEFINE P == {T \in SUBSET S : SumOver(T, f) * k <= SumOver(T, g) * l}
<1>1. ASSUME NEW T \in SUBSET S, \A x \in T : T \ {x} \in P PROVE T \in P
  <2>1. IsFiniteSet(T)
    BY FS_Subset
  <2>2. \A x \in T : f[x] \in Int /\ g[x] \in Int
    OBVIOUS
  <2>3. CASE T = {}
    <3>1. SumOver(T, f) = 0 /\ SumOver(T, g) = 0
      BY <2>1, <2>3, SumZero
    <3> QED BY <2>3, <3>1
  <2>4. ASSUME NEW x \in T PROVE T \in P
    <3>1. SumOver(T, f) = f[x] + SumOver(T \ {x}, f) /\ SumOver(T, g) = g[x] + SumOver(T \ {x}, g)
      BY <2>1, <2>2, SumTakes
    <3>2. IsFiniteSet(T \ {x}) /\ T \ {x} \in SUBSET S
      BY <2>1, FS_Subset
    <3>3. SumOver(T \ {x}, f) \in Nat /\ SumOver(T \ {x}, g) \in Nat
      BY <3>2, SumNat
    <3>4. SumOver(T \ {x}, f) * k <= SumOver(T \ {x}, g) * l
      BY <1>1
    <3>5. PICK a \in Nat, b \in Nat, m \in Nat, n \in Nat :
            /\ a = f[x] /\ b = g[x] /\ m = SumOver(T \ {x}, f) /\ n = SumOver(T \ {x}, g)
      BY <3>3
    <3>6. a * k <= b * l /\ m * k <= n * l /\ a * k \in Nat /\ b * l \in Nat /\ m * k \in Nat /\ n * l \in Nat
      BY <3>4, <3>5
    <3>7. (a + m) * k = a * k + m * k /\ (b + n) * l = b * l + n * l
      OBVIOUS
    <3> QED BY <3>1, <3>5, <3>6, <3>7
  <2> QED BY <2>3, <2>4
<1>2. \A T \in SUBSET S : T \in P
  <2> HIDE DEF P
  <2> QED BY <1>1, SubsetInduction
<1> QED BY <1>2
=============================================================================
