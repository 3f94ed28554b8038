--------------------------- MODULE AnalyzerProofs ---------------------------
(***************************************************************************)
(* Proofs about Analyzer, for any probes, intervals, limits and bounds:    *)
(* stalls are conserved, flagged moments keep their place, a clean answer  *)
(* contradicts no interruption, the two views of one event are not filed   *)
(* apart, and every step is one that IncidentLog allows.                   *)
(***************************************************************************)
EXTENDS MCStop, Lemmas

(* What a probe reports. *)
Report == {s \in Stall : s.start < s.end /\ s.kind = Kind(s.cpu)}

LEMMA ReportIs ==
  ASSUME NEW s \in Report
  PROVE  /\ s.start \in Nat /\ s.end \in Nat /\ s.start < s.end
         /\ s.kind \in Kinds /\ s.kind = Kind(s.cpu) /\ s.cpu \in Probes /\ s.minor \in BOOLEAN
  BY DEF Report, Stall

LEMMA GapIs == Gap \in Nat
  BY AnalyzerAssumption

-----------------------------------------------------------------------------
(* Clusters, of any reports P.                                             *)

ClustersOf(P) == {Cluster(P, x) : x \in Starts(P)}

LEMMA ClustersAre == ASSUME NEW kind PROVE Clusters(kind) = ClustersOf(OfKind(kind))
  BY DEF Clusters, ClustersOf

(* C begins at x, holds together, and everything else of P is over before  *)
(* it begins or begins after it is over.                                   *)
Holds(C, x) ==
  /\ \E s \in C : s.start = x
  /\ \A s \in C : s.start >= x
  /\ \A s \in C : s.start > x => \E u \in C : u.start < s.start /\ u.end + Gap >= s.start

Alone(P, C, x) ==
  \A u \in P \ C : (u.start < x /\ u.end + Gap < x) \/ (\A s \in C : s.end + Gap < u.start)

LEMMA StartsAre ==
  ASSUME NEW P, P \subseteq Report, NEW x \in Starts(P)
  PROVE  /\ x \in Nat /\ \E u \in P : u.start = x
         /\ \A u \in P : u.start < x => u.end + Gap < x
  BY ReportIs DEF Starts, Leads

LEMMA ClusterHolds ==
  ASSUME NEW P, P \subseteq Report, NEW x \in Starts(P)
  PROVE  /\ Cluster(P, x) \subseteq P
         /\ Holds(Cluster(P, x), x)
         /\ Alone(P, Cluster(P, x), x)
<1> DEFINE C == Cluster(P, x)
<1>0. x \in Nat /\ Gap \in Nat
  BY StartsAre, GapIs
<1>1. C \subseteq P
  BY DEF Cluster
<1>2. \E s \in C : s.start = x
  <2>1. PICK u \in P : u.start = x
    BY StartsAre
  <2> QED BY <2>1, <1>0 DEF Cluster
<1>3. \A s \in C : s.start >= x
  BY DEF Cluster
<1>4. ASSUME NEW u \in P \ C
      PROVE  (u.start < x /\ u.end + Gap < x) \/ (\A s \in C : s.end + Gap < u.start)
  <2>1. u.start \in Nat /\ u.end \in Nat
    BY ReportIs
  <2>2. CASE u.start < x
    BY <2>2, StartsAre
  <2>3. CASE ~(u.start < x)
    <3>1. PICK y \in Starts(P) : y > x /\ ~(u.start < y)
      BY <2>1, <2>3, <1>0 DEF Cluster
    <3>2. y \in Nat /\ \A s \in P : s.start < y => s.end + Gap < y
      BY StartsAre
    <3>3. ASSUME NEW s \in C
          PROVE  s.end + Gap < u.start
      <4>1. s.start < y /\ s \in P
        BY <3>1 DEF Cluster
      <4>2. s.end + Gap < y /\ s.end \in Nat
        BY <4>1, <3>2, ReportIs
      <4> QED BY <4>2, <3>1, <3>2, <2>1, <1>0
    <3> QED BY <3>3
  <2> QED BY <2>2, <2>3
<1>5. ASSUME NEW s \in C, s.start > x
      PROVE  \E u \in C : u.start < s.start /\ u.end + Gap >= s.start
  <2>1. s \in P /\ s.start \in Nat /\ s.end \in Nat /\ s.start < s.end
    BY <1>1, ReportIs
  <2>2. s.start \notin Starts(P)
    <3>1. \A y \in Starts(P) : y > x => s.start < y
      BY DEF Cluster
    <3> QED BY <3>1, <1>5, <2>1
  <2>3. PICK u \in P : u.start < s.start /\ ~(u.end + Gap < s.start)
    BY <2>1, <2>2 DEF Starts, Leads
  <2>4. u.start \in Nat /\ u.end \in Nat
    BY ReportIs
  <2>5. u \in C
    <3> SUFFICES ASSUME u \notin C PROVE FALSE
      OBVIOUS
    <3>1. (u.start < x /\ u.end + Gap < x) \/ s.end + Gap < u.start
      BY <1>4
    <3> HIDE DEF C
    <3> QED BY <3>1, <2>1, <2>3, <2>4, <1>0, <1>5
  <2> HIDE DEF C
  <2> QED BY <2>3, <2>4, <2>5, <2>1, <1>0
<1> HIDE DEF C
<1> QED BY <1>1, <1>2, <1>3, <1>4, <1>5 DEF Holds, Alone, C

(* ...and there is no other such set. *)
LEMMA HoldsCluster ==
  ASSUME NEW P, P \subseteq Report, NEW C, C \subseteq P, NEW x, Holds(C, x), Alone(P, C, x)
  PROVE  x \in Starts(P) /\ C = Cluster(P, x)
<1>0. PICK f \in C : f.start = x
  BY DEF Holds
<1>1. x \in Nat /\ Gap \in Nat /\ f \in P /\ f.end \in Nat /\ x < f.end
  BY <1>0, ReportIs, GapIs
<1>2. x \in Starts(P)
  <2>1. ASSUME NEW u \in P, u.start < x
        PROVE  u.end + Gap < x
    <3>1. u.start \in Nat /\ u.end \in Nat
      BY ReportIs
    <3>2. u \notin C
      BY <2>1, <3>1, <1>1 DEF Holds
    <3>3. (u.start < x /\ u.end + Gap < x) \/ f.end + Gap < u.start
      BY <3>2 DEF Alone
    <3> QED BY <3>1, <3>3, <2>1, <1>1
  <2> QED BY <2>1, <1>0, <1>1 DEF Starts, Leads
<1>3. ASSUME NEW s \in C
      PROVE  s \in Cluster(P, x)
  <2>0. s.start \in Nat /\ s.end \in Nat /\ s.start < s.end /\ s.start >= x
    BY ReportIs DEF Holds
  <2>1. ASSUME NEW y \in Starts(P), y > x
        PROVE  s.start < y
    <3> SUFFICES ASSUME s.start >= y PROVE FALSE
      BY <2>0, StartsAre
    <3>1. y \in Nat /\ \A u \in P : u.start < y => u.end + Gap < y
      BY StartsAre
    <3>2. PICK v \in P : v.start = y
      BY StartsAre
    <3>3. CASE v \in C
      <4>1. PICK u \in C : u.start < y /\ u.end + Gap >= y
        BY <3>2, <3>3, <2>1 DEF Holds
      <4>2. u.end + Gap < y /\ u.end \in Nat
        BY <4>1, <3>1, ReportIs
      <4> QED BY <4>1, <4>2, <3>1, <1>1
    <3>4. CASE v \notin C
      <4>1. (y < x /\ v.end + Gap < x) \/ s.end + Gap < y
        BY <3>2, <3>4 DEF Alone
      <4> QED BY <4>1, <3>1, <2>0, <1>1, <2>1
    <3> QED BY <3>3, <3>4
  <2> QED BY <2>0, <2>1 DEF Cluster
<1>4. ASSUME NEW s \in Cluster(P, x)
      PROVE  s \in C
  <2> SUFFICES ASSUME s \notin C PROVE FALSE
    OBVIOUS
  <2>0. s \in P /\ s.start >= x /\ \A y \in Starts(P) : y > x => s.start < y
    BY DEF Cluster
  <2>1. s.start \in Nat /\ s.end \in Nat /\ s.start < s.end
    BY <2>0, ReportIs
  <2> DEFINE Later == {u \in P \ C : (\A c \in C : c.end + Gap < u.start) /\ u.start <= s.start}
             Z == {u.start : u \in Later}
  <2>2. s \in Later
    <3>1. (s.start < x /\ s.end + Gap < x) \/ (\A c \in C : c.end + Gap < s.start)
      BY <2>0 DEF Alone
    <3> QED BY <3>1, <2>0, <2>1, <1>1
  <2>3. Z \subseteq Nat /\ Z # {}
    BY <2>2, ReportIs
  <2>4. PICK z \in Z : \A w \in Z : z <= w
    BY <2>3, LeastNatural
  <2>5. PICK v \in Later : v.start = z
    BY <2>4
  <2>6. z \in Nat /\ z <= s.start /\ f.end + Gap < z /\ v \in P
    BY <2>3, <2>5
  <2>7. ASSUME NEW w \in P, w.start < z
        PROVE  w.end + Gap < z
    <3>1. w.start \in Nat /\ w.end \in Nat
      BY ReportIs
    <3>2. CASE w \in C
      BY <3>2, <2>5
    <3>3. CASE w \notin C
      <4>1. CASE w.start < x /\ w.end + Gap < x
        BY <4>1, <3>1, <2>6, <1>1
      <4>2. CASE \A c \in C : c.end + Gap < w.start
        <5>1. w.start <= s.start
          BY <2>7, <2>6, <3>1, <2>1
        <5>2. w.start \in Z
          BY <3>3, <4>2, <5>1
        <5>3. z <= w.start
          <6> HIDE DEF Z
          <6> QED BY <2>4, <5>2
        <5> QED BY <5>3, <2>7, <3>1, <2>6
      <4> QED BY <3>3, <4>1, <4>2 DEF Alone
    <3> QED BY <3>2, <3>3
  <2>8. z \in Starts(P)
    BY <2>5, <2>6, <2>7 DEF Starts, Leads
  <2>9. z > x
    BY <2>6, <1>1
  <2> HIDE DEF Z, Later
  <2> QED BY <2>0, <2>1, <2>6, <2>8, <2>9
<1> QED BY <1>2, <1>3, <1>4

(* Everything is in a cluster, and in only one. *)
LEMMA ClustersCover ==
  ASSUME NEW P, P \subseteq Report
  PROVE  \A s \in P : \E x \in Starts(P) : s \in Cluster(P, x)
<1>1. TAKE s \in P
<1>2. s.start \in Nat
  BY ReportIs
<1> DEFINE Z == {u.start : u \in P}
           B == {x \in Starts(P) : x <= s.start}
<1>3. PICK z \in Z : \A w \in Z : z <= w
  <2>1. Z \subseteq Nat /\ Z # {}
    BY <1>1, ReportIs
  <2> HIDE DEF Z
  <2> QED BY <2>1, LeastNatural
<1>4. z \in B
  <2>1. PICK u \in P : u.start = z
    BY <1>3
  <2>2. z \in Nat /\ z <= s.start
    BY <1>3, <2>1, ReportIs
  <2>3. \A v \in P : ~(v.start < z)
    <3>1. TAKE v \in P
    <3>2. v.start \in Nat /\ z <= v.start
      BY <1>3, ReportIs
    <3> QED BY <3>2, <2>2
  <2> QED BY <2>1, <2>2, <2>3 DEF Starts, Leads
<1>5. B \subseteq Int /\ IsFiniteSet(B)
  <2>1. B \in SUBSET (0 .. s.start)
    BY <1>2, StartsAre
  <2>2. IsFiniteSet(0 .. s.start)
    BY <1>2, FS_Interval
  <2> HIDE DEF B
  <2>3. IsFiniteSet(B)
    BY <2>1, <2>2, FS_Subset
  <2> QED BY <2>1, <2>3, <1>2
<1>6. PICK x \in B : \A y \in B : y <= x
  <2> HIDE DEF B
  <2> QED BY <1>4, <1>5, Extremes
<1>7. x \in Starts(P) /\ x <= s.start /\ x \in Nat
  BY <1>6, StartsAre
<1>8. ASSUME NEW y \in Starts(P), y > x
      PROVE  s.start < y
  <2>1. y \in Nat
    BY StartsAre
  <2>2. y \notin B
    <3> HIDE DEF B
    <3> QED BY <1>6, <1>7, <1>8, <2>1
  <2> QED BY <2>1, <2>2, <1>2
<1>9. s \in Cluster(P, x)
  BY <1>1, <1>2, <1>7, <1>8 DEF Cluster
<1> QED BY <1>7, <1>9

LEMMA ClustersApart ==
  ASSUME NEW P, P \subseteq Report, NEW x \in Starts(P), NEW y \in Starts(P),
         NEW s \in Cluster(P, x), s \in Cluster(P, y)
  PROVE  x = y
<1>1. x \in Nat /\ y \in Nat /\ s \in P /\ s.start \in Nat
  BY StartsAre, ReportIs DEF Cluster
<1>2. ~(x < y) /\ ~(y < x)
  BY <1>1 DEF Cluster
<1> QED BY <1>1, <1>2

(* The span of some reports. *)
LEMMA SpanIs ==
  ASSUME NEW C, C \subseteq Report, C # {}, IsFiniteSet(C)
  PROVE  /\ span_of(C).start \in Nat /\ span_of(C).end \in Nat
         /\ \E s \in C : s.start = span_of(C).start
         /\ \E s \in C : s.end = span_of(C).end
         /\ \A s \in C : span_of(C).start <= s.start /\ s.end <= span_of(C).end
<1> DEFINE B == {s.start : s \in C}
           E == {s.end : s \in C}
<1>1. span_of(C).start = Min(B) /\ span_of(C).end = Max(E)
  BY DEF span_of
<1>2. \A s \in C : s.start \in Nat /\ s.end \in Nat
  BY ReportIs
<1>3. PICK b \in B : \A y \in B : b <= y
  <2>1. B \subseteq Nat /\ B # {}
    BY <1>2
  <2> HIDE DEF B
  <2> QED BY <2>1, LeastNatural
<1>4. Min(B) = b
  <2>1. B \subseteq Int
    BY <1>2
  <2> HIDE DEF B
  <2> QED BY <2>1, <1>3, MinIs
<1>5. Max(E) \in E /\ \A y \in E : y <= Max(E)
  <2> DEFINE f == [s \in C |-> s.end]
  <2>1. f \in [C -> Int]
    BY <1>2
  <2>2. E = {f[s] : s \in C}
    OBVIOUS
  <2> HIDE DEF f
  <2>3. E \subseteq Int /\ IsFiniteSet(E)
    BY <2>1, <2>2, ImageFinite
  <2>4. E # {}
    OBVIOUS
  <2> HIDE DEF E
  <2> QED BY <2>3, <2>4, MaxIsGreatest
<1>6. (\E s \in C : s.start = b) /\ b \in Nat
  BY <1>2, <1>3
<1>7. (\E s \in C : s.end = Max(E)) /\ Max(E) \in Nat
  <2>1. PICK s \in C : s.end = Max(E)
    BY <1>5
  <2> HIDE DEF E
  <2> QED BY <2>1, <1>2
<1>8. \A s \in C : b <= s.start /\ s.end <= Max(E)
  BY <1>3, <1>5
<1> HIDE DEF B, E
<1> QED BY <1>1, <1>4, <1>6, <1>7, <1>8

LEMMA ClusterSpan ==
  ASSUME NEW P, P \subseteq Report, IsFiniteSet(P), NEW x \in Starts(P)
  PROVE  /\ IsFiniteSet(Cluster(P, x)) /\ Cluster(P, x) # {} /\ Cluster(P, x) \subseteq Report
         /\ span_of(Cluster(P, x)).start = x
<1> DEFINE C == Cluster(P, x)
<1>1. C \subseteq P /\ Holds(C, x)
  BY ClusterHolds
<1> HIDE DEF C
<1>2. IsFiniteSet(C) /\ C # {} /\ C \subseteq Report
  BY <1>1, FS_Subset DEF Holds
<1>3. /\ span_of(C).start \in Nat
      /\ \E s \in C : s.start = span_of(C).start
      /\ \A s \in C : span_of(C).start <= s.start
  BY <1>2, SpanIs
<1>4. x \in Nat
  BY StartsAre
<1>5. (\E s \in C : s.start = x) /\ \A s \in C : s.start >= x
  BY <1>1 DEF Holds
<1>6. span_of(C).start = x
  BY <1>3, <1>4, <1>5
<1> QED BY <1>2, <1>6 DEF C

(* New reports do not change what is a cluster without them. *)
LEMMA ClusterBefore ==
  ASSUME NEW P, NEW Q, P \subseteq Report, P \subseteq Q, Q \subseteq Report,
         NEW x \in Starts(Q), Cluster(Q, x) \subseteq P
  PROVE  x \in Starts(P) /\ Cluster(P, x) = Cluster(Q, x)
<1>1. Holds(Cluster(Q, x), x) /\ Alone(Q, Cluster(Q, x), x)
  BY ClusterHolds
<1>2. Alone(P, Cluster(Q, x), x)
  BY <1>1, Zenon DEF Alone
<1> QED BY <1>1, <1>2, HoldsCluster

(* Nor does it matter that whole clusters have been taken away. *)
LEMMA ClusterRemains ==
  ASSUME NEW P, P \subseteq Report, NEW R \in SUBSET Starts(P), NEW Q,
         Q = P \ UNION {Cluster(P, r) : r \in R}, NEW x \in Starts(Q)
  PROVE  x \in Starts(P) /\ Cluster(P, x) = Cluster(Q, x)
<1> DEFINE C == Cluster(Q, x)
<1>1. Q \subseteq P /\ Q \subseteq Report
  OBVIOUS
<1>2. C \subseteq Q /\ Holds(C, x) /\ Alone(Q, C, x)
  BY <1>1, ClusterHolds
<1> HIDE DEF C
<1>3. ASSUME NEW u \in P \ C
      PROVE  (u.start < x /\ u.end + Gap < x) \/ (\A s \in C : s.end + Gap < u.start)
  <2>1. CASE u \in Q
    BY <1>2, <2>1 DEF Alone
  <2>2. CASE u \notin Q
    <3>1. PICK r \in R : u \in Cluster(P, r)
      BY <2>2
    <3>2. r \in Starts(P)
      OBVIOUS
    <3>3. /\ r \in Nat /\ x \in Nat /\ Gap \in Nat
          /\ u.start \in Nat /\ u.end \in Nat /\ u.start < u.end
      <4>1. x \in Nat
        BY <1>1, StartsAre
      <4>2. r \in Nat
        BY <3>2, StartsAre
      <4>3. u.start \in Nat /\ u.end \in Nat /\ u.start < u.end
        BY ReportIs
      <4> QED BY <4>1, <4>2, <4>3, GapIs
    <3>4. r <= u.start
      BY <3>1, <3>3 DEF Cluster
    <3>5. ASSUME NEW s \in C
          PROVE  s.end + Gap < r \/ u.end + Gap < s.start
      <4>1. s \in P /\ s \notin Cluster(P, r) /\ s.start \in Nat /\ s.end \in Nat
        BY <1>1, <1>2, ReportIs
      <4>2. PICK q \in Starts(P) : s \in Cluster(P, q)
        BY <4>1, ClustersCover
      <4>3. q \in Nat /\ q # r
        BY <4>1, <4>2, StartsAre
      <4>4. CASE q < r
        <5>1. s.start < r
          BY <3>2, <4>2, <4>4, <4>3, <3>3 DEF Cluster
        <5> QED BY <5>1, <4>1, <3>2, StartsAre
      <4>5. CASE r < q
        <5>1. u.start < q /\ q <= s.start
          BY <3>1, <4>2, <4>5, <4>3, <3>3, <4>1 DEF Cluster
        <5>2. u.end + Gap < q
          BY <5>1, <4>2, StartsAre
        <5> QED BY <5>1, <5>2, <4>1, <4>3, <3>3
      <4> QED BY <4>3, <4>4, <4>5, <3>3
    <3>6. CASE \A s \in C : s.end + Gap < r
      <4>1. \A s \in C : s.end + Gap < u.start
        <5>1. TAKE s \in C
        <5>2. s.end \in Nat /\ s.end + Gap < r
          BY <3>6, <1>1, <1>2, ReportIs
        <5> QED BY <5>2, <3>3, <3>4
      <4> QED BY <4>1
    <3>7. CASE \E s \in C : ~(s.end + Gap < r)
      <4> DEFINE After == {s \in C : u.end + Gap < s.start}
                 Z == {s.start : s \in After}
      <4>1. Z # {} /\ Z \subseteq Nat
        BY <3>5, <3>7, <1>1, <1>2, ReportIs
      <4>2. PICK z \in Z : \A w \in Z : z <= w
        <5> HIDE DEF Z
        <5> QED BY <4>1, LeastNatural
      <4>3. PICK s \in C : s.start = z /\ u.end + Gap < z
        BY <4>2
      <4>4. s.start \in Nat /\ z \in Nat
        BY <4>1, <4>3
      <4>5. ~(z > x)
        <5> SUFFICES ASSUME z > x PROVE FALSE
          OBVIOUS
        <5>1. PICK v \in C : v.start < z /\ v.end + Gap >= z
          BY <4>3, <1>2 DEF Holds
        <5>2. v.start \in Nat /\ v.end \in Nat
          BY <1>1, <1>2, ReportIs
        <5>3. v \notin After
          <6> SUFFICES ASSUME v \in After PROVE FALSE
            OBVIOUS
          <6>1. z <= v.start
            BY <4>2
          <6> QED BY <6>1, <5>1, <5>2, <4>4
        <5>4. v.end + Gap < r
          BY <5>3, <3>5
        <5> QED BY <5>1, <5>2, <5>4, <4>3, <4>4, <3>3, <3>4
      <4>6. u.end + Gap < x /\ u.start < x
        <5>1. s.start >= x
          BY <1>2 DEF Holds
        <5> HIDE DEF Z, After
        <5> QED BY <5>1, <4>3, <4>4, <4>5, <3>3
      <4> QED BY <4>6
    <3> QED BY <3>6, <3>7
  <2> QED BY <2>1, <2>2
<1>4. C \subseteq P /\ Alone(P, C, x)
  BY <1>1, <1>2, <1>3 DEF Alone
<1>5. x \in Starts(P) /\ C = Cluster(P, x)
  BY <1>2, <1>4, HoldsCluster
<1> QED BY <1>5 DEF C

LEMMA StartsFinite ==
  ASSUME NEW P, P \subseteq Report, IsFiniteSet(P)
  PROVE  IsFiniteSet(Starts(P)) /\ Starts(P) \subseteq Int
<1> DEFINE S == {s \in P : Leads(P, s.start)}
           f == [s \in S |-> s.start]
<1>1. S \in SUBSET P
  OBVIOUS
<1>2. IsFiniteSet(S)
  BY <1>1, FS_Subset
<1>3. f \in [S -> Int]
  BY <1>1, ReportIs
<1>4. Starts(P) = {f[s] : s \in S}
  BY DEF Starts
<1> HIDE DEF f, S
<1> QED BY <1>2, <1>3, <1>4, ImageFinite

(* Clusters put in order. *)
LEMMA InOrder ==
  ASSUME NEW P, P \subseteq Report, IsFiniteSet(P), NEW S, S \subseteq ClustersOf(P)
  PROVE  /\ ByStart(S) \in Seq(S)
         /\ \A c \in S : \E n \in 1 .. Len(ByStart(S)) : ByStart(S)[n] = c
         /\ \A n, m \in 1 .. Len(ByStart(S)) :
              n < m => span_of(ByStart(S)[n]).start < span_of(ByStart(S)[m]).start
<1> DEFINE at(c) == span_of(c).start
           X == {span_of(c).start : c \in S}
           f == [c \in S |-> at(c)]
           N == Cardinality(S)
<1>1. \A c \in S : at(c) \in Starts(P) /\ c = Cluster(P, at(c))
  BY ClusterSpan DEF ClustersOf
<1>2. IsFiniteSet(X) /\ X \subseteq Int
  <2>1. X \in SUBSET Starts(P)
    BY <1>1
  <2> QED BY <2>1, StartsFinite, FS_Subset
<1>3. f \in Injection(S, X) /\ f \in Surjection(S, X)
  BY <1>1 DEF Injection, Surjection, IsInjective
<1>4. Cardinality(X) = N
  BY <1>2, <1>3, FS_Injection
<1>5. /\ N \in Nat
      /\ \A n \in 1 .. N : Nth(X, n) \in X
      /\ \A n, m \in 1 .. N : n < m => Nth(X, n) < Nth(X, m)
      /\ \A k \in X : \E n \in 1 .. N : Nth(X, n) = k
  <2> HIDE DEF X, N
  <2> QED BY <1>2, <1>4, NthInOrder
<1>6. ByStart(S) = [n \in 1 .. N |-> CHOOSE c \in S : at(c) = Nth(X, n)]
  BY DEF ByStart
<1>7. \A n \in 1 .. N : ByStart(S)[n] \in S /\ at(ByStart(S)[n]) = Nth(X, n)
  <2>1. TAKE n \in 1 .. N
  <2>2. PICK c \in S : at(c) = Nth(X, n)
    BY <1>5
  <2> HIDE DEF at, X, N
  <2> QED BY <1>6, <2>2
<1>8. ByStart(S) \in [1 .. N -> S]
  <2> HIDE DEF at, X, N
  <2> QED BY <1>6, <1>7
<1>9. ByStart(S) \in Seq(S) /\ Len(ByStart(S)) = N
  <2> HIDE DEF N
  <2> QED BY <1>8, <1>5
<1>10. \A c \in S : \E n \in 1 .. N : ByStart(S)[n] = c
  <2>1. TAKE c \in S
  <2>2. PICK n \in 1 .. N : Nth(X, n) = at(c)
    BY <1>5
  <2>3. at(ByStart(S)[n]) = at(c) /\ ByStart(S)[n] \in S
    BY <1>7, <2>2
  <2>4. ByStart(S)[n] = c
    <3> HIDE DEF at
    <3> QED BY <2>3, <1>1
  <2> QED BY <2>4
<1>11. \A n, m \in 1 .. N : n < m => at(ByStart(S)[n]) < at(ByStart(S)[m])
  <2> HIDE DEF at, X, N
  <2> QED BY <1>5, <1>7
<1> QED BY <1>9, <1>10, <1>11

-----------------------------------------------------------------------------
(* Groups.                                                                 *)

(* The scheduler clusters left over after each kernel cluster. *)
LEMMA LeftIs ==
  ASSUME NEW ks, Len(ks) \in Nat
  PROVE  /\ LeftAfter(ks)[0] = Clusters("Scheduler")
         /\ \A i \in 1 .. Len(ks) :
              LeftAfter(ks)[i] = LeftAfter(ks)[i - 1] \ Takes(ks[i], LeftAfter(ks)[i - 1])
<1>a. PICK n : n = Len(ks)
  OBVIOUS
<1>b. PICK b : b = Clusters("Scheduler")
  OBVIOUS
<1>c. PICK S : S = SUBSET b
  OBVIOUS
<1>d. PICK step : step = [i \in 1 .. n |-> [left \in S |-> left \ Takes(ks[i], left)]]
  OBVIOUS
<1>1. n \in Nat /\ b \in S /\ step \in [1 .. n -> [S -> S]]
  BY <1>a, <1>c, <1>d
<1>2. PICK f : f \in [0 .. n -> S] /\ f[0] = b /\ \A i \in 1 .. n : f[i] = step[i][f[i - 1]]
  <2>1. \E f : Steps(f, n, S, b, step)
    BY <1>1, Recursion
  <2> QED BY <2>1 DEF Steps
<1> DEFINE Eqn(g) == g = [i \in 0 .. n |-> IF i = 0 THEN b ELSE g[i - 1] \ Takes(ks[i], g[i - 1])]
<1>3. Eqn(f)
  <2>1. ASSUME NEW i \in 0 .. n
        PROVE  f[i] = IF i = 0 THEN b ELSE f[i - 1] \ Takes(ks[i], f[i - 1])
    <3>1. CASE i = 0
      BY <3>1, <1>2
    <3>2. CASE i # 0
      <4>1. i \in 1 .. n /\ i - 1 \in 0 .. n
        BY <3>2, <1>1
      <4>2. f[i - 1] \in S
        BY <4>1, <1>2
      <4>3. step[i][f[i - 1]] = f[i - 1] \ Takes(ks[i], f[i - 1])
        BY <4>1, <4>2, <1>d
      <4> QED BY <4>1, <4>3, <3>2, <1>2
    <3> QED BY <3>1, <3>2
  <2> QED BY <2>1, <1>2
<1>4. LeftAfter(ks) = CHOOSE g : Eqn(g)
  BY <1>a, <1>b DEF LeftAfter
<1>5. Eqn(LeftAfter(ks))
  <2> HIDE DEF Eqn
  <2> QED BY <1>3, <1>4
<1>6. LeftAfter(ks)[0] = b
  BY <1>1, <1>5
<1>7. ASSUME NEW i \in 1 .. n
      PROVE  LeftAfter(ks)[i] = LeftAfter(ks)[i - 1] \ Takes(ks[i], LeftAfter(ks)[i - 1])
  <2>1. i \in 0 .. n /\ i # 0
    BY <1>1
  <2> QED BY <2>1, <1>5
<1> QED BY <1>a, <1>b, <1>6, <1>7

PendingOK == pending \subseteq Report /\ IsFiniteSet(pending)

LEMMA KindsOK ==
  ASSUME PendingOK, NEW kind
  PROVE  /\ OfKind(kind) \subseteq Report /\ OfKind(kind) \subseteq pending
         /\ IsFiniteSet(OfKind(kind)) /\ \A s \in OfKind(kind) : s.kind = kind
<1>1. OfKind(kind) \in SUBSET pending /\ \A s \in OfKind(kind) : s.kind = kind
  BY DEF OfKind
<1>2. IsFiniteSet(OfKind(kind))
  BY <1>1, FS_Subset DEF PendingOK
<1> QED BY <1>1, <1>2 DEF PendingOK

(* A cluster waiting to be filed. *)
LEMMA WaitingCluster ==
  ASSUME PendingOK, NEW kind, NEW c \in Clusters(kind)
  PROVE  /\ c \subseteq pending /\ c \subseteq Report /\ c # {} /\ IsFiniteSet(c)
         /\ \A s \in c : s.kind = kind
         /\ \E x \in Starts(OfKind(kind)) : c = Cluster(OfKind(kind), x) /\ span_of(c).start = x
         /\ span_of(c).start \in Nat /\ span_of(c).end \in Nat
         /\ \E s \in c : s.start = span_of(c).start
<1>1. PICK x \in Starts(OfKind(kind)) : c = Cluster(OfKind(kind), x)
  BY DEF Clusters
<1>2. OfKind(kind) \subseteq Report /\ OfKind(kind) \subseteq pending
      /\ IsFiniteSet(OfKind(kind)) /\ \A s \in OfKind(kind) : s.kind = kind
  BY KindsOK
<1>3. c \subseteq OfKind(kind)
  BY <1>1 DEF Cluster
<1>4. IsFiniteSet(c) /\ c # {} /\ c \subseteq Report /\ span_of(c).start = x
  BY <1>1, <1>2, ClusterSpan
<1>5. span_of(c).start \in Nat /\ span_of(c).end \in Nat /\ \E s \in c : s.start = span_of(c).start
  BY <1>4, SpanIs
<1> QED BY <1>1, <1>2, <1>3, <1>4, <1>5

LEMMA WaitingApart ==
  ASSUME PendingOK, NEW kind, NEW c \in Clusters(kind), NEW d \in Clusters(kind), c # d
  PROVE  c \cap d = {} /\ span_of(c).start # span_of(d).start
<1>1. PICK x \in Starts(OfKind(kind)) : c = Cluster(OfKind(kind), x) /\ span_of(c).start = x
  BY WaitingCluster
<1>2. PICK y \in Starts(OfKind(kind)) : d = Cluster(OfKind(kind), y) /\ span_of(d).start = y
  BY WaitingCluster
<1>3. x # y
  BY <1>1, <1>2
<1>4. OfKind(kind) \subseteq Report
  BY KindsOK
<1> QED BY <1>1, <1>2, <1>3, <1>4, ClustersApart

(* Reports of two kinds are two reports. *)
LEMMA KindsApart ==
  ASSUME PendingOK, NEW c \in Clusters("Kernel"), NEW d \in Clusters("Scheduler")
  PROVE  c \cap d = {}
<1>1. (\A s \in c : s.kind = "Kernel") /\ \A s \in d : s.kind = "Scheduler"
  BY WaitingCluster
<1> QED BY <1>1

LEMMA LeftShrinks ==
  ASSUME NEW ks, Len(ks) \in Nat, NEW i \in 0 .. Len(ks), NEW j \in i .. Len(ks)
  PROVE  LeftAfter(ks)[j] \subseteq LeftAfter(ks)[i]
<1> DEFINE left == LeftAfter(ks)
           Bad == {k \in i .. Len(ks) : ~(left[k] \subseteq left[i])}
<1>1. \A k \in 1 .. Len(ks) : left[k] \subseteq left[k - 1]
  BY LeftIs
<1> HIDE DEF left
<1>2. Bad = {}
  <2> SUFFICES ASSUME Bad # {} PROVE FALSE
    OBVIOUS
  <2>1. Bad \subseteq Nat
    OBVIOUS
  <2>2. PICK m \in Bad : \A k \in Bad : m <= k
    <3> HIDE DEF Bad
    <3> QED BY <2>1, LeastNatural
  <2>3. m \in i .. Len(ks) /\ m # i /\ ~(left[m] \subseteq left[i])
    BY <2>2
  <2>4. m - 1 \in i .. Len(ks) /\ m \in 1 .. Len(ks) /\ ~(m <= m - 1)
    BY <2>3
  <2>5. m - 1 \notin Bad
    <3> HIDE DEF Bad
    <3> QED BY <2>2, <2>4
  <2>6. left[m - 1] \subseteq left[i]
    BY <2>4, <2>5
  <2> QED BY <1>1, <2>3, <2>4, <2>6
<1> QED BY <1>2 DEF left

(* A kernel cluster takes one scheduler cluster, its twin, if there is any. *)
LEMMA TakesOne ==
  ASSUME PendingOK, NEW left, left \subseteq Clusters("Scheduler"), NEW k
  PROVE  /\ \A c \in Takes(k, left) : c \in left /\ is_twin(span_of(k), span_of(c))
         /\ \A c, d \in Takes(k, left) : c = d
         /\ \A c \in left : is_twin(span_of(k), span_of(c)) => Takes(k, left) # {}
<1> DEFINE twins == {c \in left : is_twin(span_of(k), span_of(c))}
           Z == {span_of(c).start : c \in twins}
<1>1. Takes(k, left) = {c \in twins : \A d \in twins : span_of(c).start <= span_of(d).start}
  BY DEF Takes
<1>2. \A c \in twins : c \in Clusters("Scheduler") /\ span_of(c).start \in Nat
  BY WaitingCluster
<1>3. ASSUME NEW c \in Takes(k, left), NEW d \in Takes(k, left)
      PROVE  c = d
  <2>1. /\ c \in twins /\ d \in twins
        /\ span_of(c).start <= span_of(d).start /\ span_of(d).start <= span_of(c).start
    BY <1>1
  <2>2. span_of(c).start = span_of(d).start
    <3> HIDE DEF twins
    <3> QED BY <1>2, <2>1
  <2> HIDE DEF twins
  <2> QED BY <1>2, <2>1, <2>2, WaitingApart
<1>4. ASSUME NEW c \in twins
      PROVE  Takes(k, left) # {}
  <2>1. Z \subseteq Nat /\ Z # {}
    <3> HIDE DEF twins
    <3> QED BY <1>2
  <2>2. PICK z \in Z : \A w \in Z : z <= w
    <3> HIDE DEF Z
    <3> QED BY <2>1, LeastNatural
  <2>3. PICK d \in twins : span_of(d).start = z
    BY <2>2
  <2>4. \A e \in twins : span_of(d).start <= span_of(e).start
    BY <2>2, <2>3
  <2> HIDE DEF twins, Z
  <2> QED BY <1>1, <2>3, <2>4
<1>5. \A c \in Takes(k, left) : c \in left /\ is_twin(span_of(k), span_of(c))
  BY <1>1
<1> QED BY <1>3, <1>4, <1>5

(* Who took a cluster that is no longer left. *)
LEMMA TakenBy ==
  ASSUME NEW ks, Len(ks) \in Nat, NEW i \in 0 .. Len(ks),
         NEW d \in Clusters("Scheduler"), d \notin LeftAfter(ks)[i]
  PROVE  \E j \in 1 .. i : d \in Takes(ks[j], LeftAfter(ks)[j - 1])
<1> DEFINE left == LeftAfter(ks)
           Gone == {k \in 0 .. i : d \notin left[k]}
<1>1. left[0] = Clusters("Scheduler")
      /\ \A k \in 1 .. Len(ks) : left[k] = left[k - 1] \ Takes(ks[k], left[k - 1])
  BY LeftIs
<1>2. d \notin left[i]
  OBVIOUS
<1> HIDE DEF left
<1>3. PICK m \in Gone : \A k \in Gone : m <= k
  <2>1. Gone \subseteq Nat /\ i \in Gone
    BY <1>2
  <2> HIDE DEF Gone
  <2> QED BY <2>1, LeastNatural
<1>4. m \in 0 .. i /\ m # 0 /\ d \notin left[m]
  BY <1>1, <1>3
<1>5. m \in 1 .. i /\ m - 1 \in 0 .. i /\ ~(m <= m - 1) /\ m \in 1 .. Len(ks)
  BY <1>4
<1>6. d \in left[m - 1]
  <2>1. m - 1 \notin Gone
    <3> HIDE DEF Gone
    <3> QED BY <1>3, <1>5
  <2> QED BY <2>1, <1>5
<1>7. d \in Takes(ks[m], left[m - 1])
  BY <1>1, <1>4, <1>5, <1>6
<1> QED BY <1>5, <1>7 DEF left

Group == [kernel : SUBSET pending, sched : SUBSET pending]

Of(g) == g.kernel \cup g.sched

(* How the groups come about: the kernel clusters in order, each with what *)
(* it took, and then the scheduler clusters that nobody took.              *)
GroupsAre(ks, left, rest) ==
  /\ ks \in Seq(Clusters("Kernel")) /\ rest \in Seq(left[Len(ks)])
  /\ left = LeftAfter(ks) /\ left[Len(ks)] \subseteq Clusters("Scheduler")
  /\ \A c \in Clusters("Kernel") : \E n \in 1 .. Len(ks) : ks[n] = c
  /\ \A c \in left[Len(ks)] : \E n \in 1 .. Len(rest) : rest[n] = c
  /\ \A n, m \in 1 .. Len(ks) : n # m => ks[n] # ks[m]
  /\ \A n, m \in 1 .. Len(rest) : n # m => rest[n] # rest[m]
  /\ Groups \in Seq(Group) /\ Len(Groups) = Len(ks) + Len(rest)
  /\ \A i \in 1 .. Len(ks) : /\ Groups[i].kernel = ks[i]
                             /\ Groups[i].sched = UNION Takes(ks[i], left[i - 1])
  /\ \A i \in 1 .. Len(rest) : /\ Groups[Len(ks) + i].kernel = {}
                               /\ Groups[Len(ks) + i].sched = rest[i]

LEMMA GroupsSpec ==
  ASSUME PendingOK
  PROVE  \E ks, left, rest : GroupsAre(ks, left, rest)
<1> DEFINE KC == Clusters("Kernel")
           SC == Clusters("Scheduler")
<1>1. PICK ks : ks = ByStart(KC)
  OBVIOUS
<1>2. PICK left : left = LeftAfter(ks)
  OBVIOUS
<1>3. PICK rest : rest = ByStart(left[Len(ks)])
  OBVIOUS
<1>4. KC = ClustersOf(OfKind("Kernel")) /\ SC = ClustersOf(OfKind("Scheduler"))
  BY ClustersAre
<1> HIDE DEF KC, SC
<1>5. /\ ks \in Seq(KC)
      /\ \A c \in KC : \E n \in 1 .. Len(ks) : ks[n] = c
      /\ \A n, m \in 1 .. Len(ks) : n < m => span_of(ks[n]).start < span_of(ks[m]).start
  <2>1. OfKind("Kernel") \subseteq Report /\ IsFiniteSet(OfKind("Kernel"))
    BY KindsOK
  <2>2. KC \subseteq ClustersOf(OfKind("Kernel"))
    BY <1>4
  <2> QED BY <1>1, <2>1, <2>2, InOrder
<1>6. Len(ks) \in Nat /\ \A i \in 1 .. Len(ks) : ks[i] \in KC
  BY <1>5, LenProperties, ElementOfSeq
<1>7. \A i \in 0 .. Len(ks) : left[i] \subseteq SC
  <2>1. TAKE i \in 0 .. Len(ks)
  <2>2. 0 \in 0 .. Len(ks) /\ i \in 0 .. Len(ks)
    BY <1>6
  <2>3. left[i] \subseteq left[0] /\ left[0] = SC
    BY <1>2, <1>6, <2>2, LeftShrinks, LeftIs DEF SC
  <2> QED BY <2>3
<1>8. Len(ks) \in 0 .. Len(ks)
  BY <1>6
<1>9. /\ rest \in Seq(left[Len(ks)])
      /\ \A c \in left[Len(ks)] : \E n \in 1 .. Len(rest) : rest[n] = c
      /\ \A n, m \in 1 .. Len(rest) : n < m => span_of(rest[n]).start < span_of(rest[m]).start
  <2>1. OfKind("Scheduler") \subseteq Report /\ IsFiniteSet(OfKind("Scheduler"))
    BY KindsOK
  <2>2. left[Len(ks)] \subseteq ClustersOf(OfKind("Scheduler"))
    BY <1>4, <1>7, <1>8
  <2> QED BY <1>3, <2>1, <2>2, InOrder
<1>10. Len(rest) \in Nat /\ \A i \in 1 .. Len(rest) : rest[i] \in SC
  BY <1>7, <1>8, <1>9, LenProperties, ElementOfSeq
<1>11. \A n, m \in 1 .. Len(ks) : n # m => ks[n] # ks[m]
  <2>1. TAKE n, m \in 1 .. Len(ks)
  <2>2. HAVE n # m
  <2>3. n < m \/ m < n
    BY <2>2, <1>6
  <2>4. span_of(ks[n]).start \in Nat /\ span_of(ks[m]).start \in Nat
    BY <1>6, WaitingCluster DEF KC
  <2>5. span_of(ks[n]).start # span_of(ks[m]).start
    BY <1>5, <2>3, <2>4
  <2> QED BY <2>5
<1>12. \A n, m \in 1 .. Len(rest) : n # m => rest[n] # rest[m]
  <2>1. TAKE n, m \in 1 .. Len(rest)
  <2>2. HAVE n # m
  <2>3. n < m \/ m < n
    BY <2>2, <1>10
  <2>4. span_of(rest[n]).start \in Nat /\ span_of(rest[m]).start \in Nat
    BY <1>10, WaitingCluster DEF SC
  <2>5. span_of(rest[n]).start # span_of(rest[m]).start
    BY <1>9, <2>3, <2>4
  <2> QED BY <2>5
<1>13. \A i \in 1 .. Len(ks) : ks[i] \subseteq pending /\ UNION Takes(ks[i], left[i - 1]) \subseteq pending
  <2>1. TAKE i \in 1 .. Len(ks)
  <2>2. i - 1 \in 0 .. Len(ks)
    BY <1>6
  <2>3. \A c \in Takes(ks[i], left[i - 1]) : c \in SC
    BY <2>2, <1>7 DEF Takes
  <2>4. \A c \in SC : c \subseteq pending
    BY WaitingCluster DEF SC
  <2>5. ks[i] \subseteq pending
    BY <1>6, WaitingCluster DEF KC
  <2> QED BY <2>3, <2>4, <2>5
<1>14. \A i \in 1 .. Len(rest) : rest[i] \subseteq pending
  BY <1>10, WaitingCluster DEF SC
<1> DEFINE A == [i \in 1 .. Len(ks) |-> [kernel |-> ks[i], sched |-> UNION Takes(ks[i], left[i - 1])]]
           B == [i \in 1 .. Len(rest) |-> [kernel |-> {}, sched |-> rest[i]]]
<1>15. A \in Seq(Group) /\ Len(A) = Len(ks)
  <2>1. \A i \in 1 .. Len(ks) : A[i] \in Group
    BY <1>13 DEF Group
  <2>2. A \in [1 .. Len(ks) -> Group]
    BY <2>1
  <2> HIDE DEF A
  <2> QED BY <1>6, <2>2
<1>16. B \in Seq(Group) /\ Len(B) = Len(rest)
  <2>1. \A i \in 1 .. Len(rest) : B[i] \in Group
    BY <1>14 DEF Group
  <2>2. B \in [1 .. Len(rest) -> Group]
    BY <2>1
  <2> HIDE DEF B
  <2> QED BY <1>10, <2>2
<1>17. Groups = A \o B
  <2>1. DOMAIN ks = 1 .. Len(ks) /\ DOMAIN rest = 1 .. Len(rest)
    BY <1>5, <1>9, LenProperties
  <2> QED BY <2>1, <1>1, <1>2, <1>3 DEF Groups, KC
<1>18. /\ Groups \in Seq(Group)
       /\ Len(Groups) = Len(ks) + Len(rest)
       /\ \A i \in 1 .. Len(ks) + Len(rest) : Groups[i] = IF i <= Len(ks) THEN A[i] ELSE B[i - Len(ks)]
  <2> HIDE DEF A, B
  <2>1. /\ A \o B \in Seq(Group)
        /\ Len(A \o B) = Len(A) + Len(B)
        /\ \A i \in 1 .. Len(A) + Len(B) : (A \o B)[i] = IF i <= Len(A) THEN A[i] ELSE B[i - Len(A)]
    BY <1>15, <1>16, ConcatProperties
  <2> QED BY <1>15, <1>16, <1>17, <2>1
<1>19. \A i \in 1 .. Len(ks) : Groups[i] = A[i]
  <2> HIDE DEF A, B
  <2> QED BY <1>6, <1>10, <1>18
<1>20. \A i \in 1 .. Len(rest) : Groups[Len(ks) + i] = B[i]
  <2>1. TAKE i \in 1 .. Len(rest)
  <2>2. Len(ks) + i \in 1 .. Len(ks) + Len(rest) /\ ~(Len(ks) + i <= Len(ks)) /\ (Len(ks) + i) - Len(ks) = i
    BY <1>6, <1>10
  <2> HIDE DEF A, B
  <2> QED BY <2>2, <1>18
<1>21. \A i \in 1 .. Len(ks) : /\ Groups[i].kernel = ks[i]
                               /\ Groups[i].sched = UNION Takes(ks[i], left[i - 1])
  <2>1. TAKE i \in 1 .. Len(ks)
  <2>2. A[i] = [kernel |-> ks[i], sched |-> UNION Takes(ks[i], left[i - 1])]
    OBVIOUS
  <2> HIDE DEF A
  <2> QED BY <2>2, <1>19
<1>22. \A i \in 1 .. Len(rest) : /\ Groups[Len(ks) + i].kernel = {}
                                 /\ Groups[Len(ks) + i].sched = rest[i]
  <2>1. TAKE i \in 1 .. Len(rest)
  <2>2. B[i] = [kernel |-> {}, sched |-> rest[i]]
    OBVIOUS
  <2> HIDE DEF B
  <2> QED BY <2>2, <1>20
<1>23. GroupsAre(ks, left, rest)
  <2> HIDE DEF A, B
  <2> QED BY <1>2, <1>5, <1>7, <1>8, <1>9, <1>11, <1>12, <1>18, <1>21, <1>22 DEF GroupsAre, KC, SC
<1> QED BY <1>23

(* What a group takes up: clusters, at least one. *)
KernelGroup(g, k, took) ==
  /\ g.kernel = k /\ k \in Clusters("Kernel")
  /\ \/ g.sched = {} /\ took = {}
     \/ g.sched \in Clusters("Scheduler") /\ took = {g.sched}

SchedGroup(g, d, left) == g.kernel = {} /\ g.sched = d /\ d \in left /\ d \in Clusters("Scheduler")

LEMMA GroupParts ==
  ASSUME PendingOK, NEW ks, NEW left, NEW rest, GroupsAre(ks, left, rest),
         NEW i \in 1 .. Len(Groups)
  PROVE  /\ i \in 1 .. Len(ks) => KernelGroup(Groups[i], ks[i], Takes(ks[i], left[i - 1]))
         /\ i \notin 1 .. Len(ks) =>
              /\ i - Len(ks) \in 1 .. Len(rest)
              /\ SchedGroup(Groups[i], rest[i - Len(ks)], left[Len(ks)])
<1>1. /\ Len(ks) \in Nat /\ Len(rest) \in Nat
      /\ \A j \in 1 .. Len(ks) : ks[j] \in Clusters("Kernel")
      /\ \A j \in 1 .. Len(rest) : rest[j] \in left[Len(ks)]
  BY LenProperties, ElementOfSeq DEF GroupsAre
<1>2. CASE i \in 1 .. Len(ks)
  <2>1. i - 1 \in 0 .. Len(ks) /\ 0 \in 0 .. Len(ks)
    BY <1>1, <1>2
  <2>2. left[i - 1] \subseteq Clusters("Scheduler")
    <3>1. LeftAfter(ks)[i - 1] \subseteq LeftAfter(ks)[0]
      BY <1>1, <2>1, LeftShrinks
    <3>2. left = LeftAfter(ks)
      BY DEF GroupsAre
    <3> QED BY <3>1, <3>2, <1>1, LeftIs
  <2>3. /\ \A c \in Takes(ks[i], left[i - 1]) : c \in Clusters("Scheduler")
        /\ \A c, d \in Takes(ks[i], left[i - 1]) : c = d
    BY <2>2, TakesOne
  <2>4. Groups[i].kernel = ks[i] /\ Groups[i].sched = UNION Takes(ks[i], left[i - 1])
    BY <1>2 DEF GroupsAre
  <2>5. CASE Takes(ks[i], left[i - 1]) = {}
    BY <2>4, <2>5, <1>1, <1>2 DEF KernelGroup
  <2>6. CASE \E c : c \in Takes(ks[i], left[i - 1])
    <3>1. PICK c \in Takes(ks[i], left[i - 1]) : TRUE
      BY <2>6
    <3>2. Takes(ks[i], left[i - 1]) = {c}
      BY <2>3
    <3> QED BY ZenonT(30), <2>3, <2>4, <3>1, <3>2, <1>1, <1>2 DEF KernelGroup
  <2> QED BY <2>5, <2>6, <1>2
<1>3. CASE i \notin 1 .. Len(ks)
  <2>1. Len(Groups) = Len(ks) + Len(rest)
    BY DEF GroupsAre
  <2>2. i - Len(ks) \in 1 .. Len(rest) /\ i = Len(ks) + (i - Len(ks))
    BY <1>1, <1>3, <2>1
  <2>3. left[Len(ks)] \subseteq Clusters("Scheduler")
    BY DEF GroupsAre
  <2>4. Groups[i].kernel = {} /\ Groups[i].sched = rest[i - Len(ks)]
    BY <2>2 DEF GroupsAre
  <2>5. SchedGroup(Groups[i], rest[i - Len(ks)], left[Len(ks)])
    BY <1>1, <2>2, <2>3, <2>4 DEF SchedGroup
  <2> QED BY <1>3, <2>2, <2>5
<1> QED BY <1>2, <1>3

(* A cluster is never empty. *)
LEMMA NotEmpty == ASSUME PendingOK PROVE \A kind : {} \notin Clusters(kind)
  BY WaitingCluster

(* No two groups share anything. *)
LEMMA SchedsApart ==
  ASSUME PendingOK, NEW ks, NEW left, NEW rest, GroupsAre(ks, left, rest),
         NEW i \in 1 .. Len(Groups), NEW j \in 1 .. Len(Groups), i < j,
         Groups[i].sched # {}, Groups[j].sched # {}
  PROVE  Groups[i].sched # Groups[j].sched
<1>1. /\ Len(ks) \in Nat /\ Len(rest) \in Nat /\ left = LeftAfter(ks)
      /\ \A n, m \in 1 .. Len(rest) : n # m => rest[n] # rest[m]
  BY LenProperties DEF GroupsAre
<1>2. CASE i \in 1 .. Len(ks)
  <2>1. Takes(ks[i], left[i - 1]) = {Groups[i].sched}
    <3>1. KernelGroup(Groups[i], ks[i], Takes(ks[i], left[i - 1]))
      BY <1>2, GroupParts
    <3> QED BY <3>1 DEF KernelGroup
  <2>2. left[i] = left[i - 1] \ Takes(ks[i], left[i - 1])
    BY <1>1, <1>2, LeftIs
  <2>3. Groups[i].sched \notin left[i]
    BY <2>1, <2>2
  <2>4. CASE j \in 1 .. Len(ks)
    <3>1. Takes(ks[j], left[j - 1]) = {Groups[j].sched}
      <4>1. KernelGroup(Groups[j], ks[j], Takes(ks[j], left[j - 1]))
        BY <2>4, GroupParts
      <4> QED BY <4>1 DEF KernelGroup
    <3>2. i \in 0 .. Len(ks) /\ j - 1 \in i .. Len(ks)
      BY <1>1, <1>2, <2>4
    <3>3. left[j - 1] \subseteq left[i]
      BY <1>1, <3>2, LeftShrinks
    <3>4. Groups[j].sched \in left[j - 1]
      BY <3>1 DEF Takes
    <3> QED BY <2>3, <3>3, <3>4
  <2>5. CASE j \notin 1 .. Len(ks)
    <3>1. Groups[j].sched \in left[Len(ks)]
      <4>1. SchedGroup(Groups[j], rest[j - Len(ks)], left[Len(ks)])
        BY <2>5, GroupParts
      <4> QED BY <4>1 DEF SchedGroup
    <3>2. i \in 0 .. Len(ks) /\ Len(ks) \in i .. Len(ks)
      BY <1>1, <1>2
    <3>3. left[Len(ks)] \subseteq left[i]
      BY <1>1, <3>2, LeftShrinks
    <3> QED BY <2>3, <3>1, <3>3
  <2> QED BY <2>4, <2>5
<1>3. CASE i \notin 1 .. Len(ks)
  <2>1. j \notin 1 .. Len(ks)
    BY <1>1, <1>3
  <2>2. /\ i - Len(ks) \in 1 .. Len(rest) /\ SchedGroup(Groups[i], rest[i - Len(ks)], left[Len(ks)])
        /\ j - Len(ks) \in 1 .. Len(rest) /\ SchedGroup(Groups[j], rest[j - Len(ks)], left[Len(ks)])
    BY <1>3, <2>1, GroupParts
  <2>3. i - Len(ks) # j - Len(ks)
    BY <1>1
  <2>4. rest[i - Len(ks)] # rest[j - Len(ks)]
    BY <1>1, <2>2, <2>3
  <2> QED BY <2>2, <2>4 DEF SchedGroup
<1> QED BY <1>2, <1>3

LEMMA GroupIs ==
  ASSUME PendingOK, NEW i \in 1 .. Len(Groups)
  PROVE  /\ Groups[i] \in Group /\ Len(Groups) \in Nat /\ Groups \in Seq(Group)
         /\ Groups[i].kernel # {} => Groups[i].kernel \in Clusters("Kernel")
         /\ Groups[i].sched # {} => Groups[i].sched \in Clusters("Scheduler")
         /\ Of(Groups[i]) # {}
<1>1. PICK ks, left, rest : GroupsAre(ks, left, rest)
  BY GroupsSpec
<1>2. Groups \in Seq(Group)
  BY <1>1 DEF GroupsAre
<1>3. Groups[i] \in Group /\ Len(Groups) \in Nat
  BY <1>2, LenProperties, ElementOfSeq
<1>4. \/ /\ Groups[i].kernel \in Clusters("Kernel")
         /\ Groups[i].sched = {} \/ Groups[i].sched \in Clusters("Scheduler")
      \/ Groups[i].kernel = {} /\ Groups[i].sched \in Clusters("Scheduler")
  <2>1. CASE \E k, took : KernelGroup(Groups[i], k, took)
    BY <2>1 DEF KernelGroup
  <2>2. CASE \E d, l : SchedGroup(Groups[i], d, l)
    BY <2>2 DEF SchedGroup
  <2> QED BY <1>1, <2>1, <2>2, GroupParts
<1>5. \A kind : \A c \in Clusters(kind) : c # {}
  BY WaitingCluster
<1> QED BY <1>2, <1>3, <1>4, <1>5 DEF Of

LEMMA GroupsApart ==
  ASSUME PendingOK, NEW i \in 1 .. Len(Groups), NEW j \in 1 .. Len(Groups), i # j
  PROVE  Of(Groups[i]) \cap Of(Groups[j]) = {}
<1>1. PICK ks, left, rest : GroupsAre(ks, left, rest)
  BY GroupsSpec
<1>2. Len(Groups) \in Nat
  BY GroupIs
<1>3. /\ Groups[i].kernel # {} => Groups[i].kernel \in Clusters("Kernel")
      /\ Groups[i].sched # {} => Groups[i].sched \in Clusters("Scheduler")
      /\ Groups[j].kernel # {} => Groups[j].kernel \in Clusters("Kernel")
      /\ Groups[j].sched # {} => Groups[j].sched \in Clusters("Scheduler")
  BY GroupIs
<1>4. Groups[i].kernel \cap Groups[j].sched = {} /\ Groups[i].sched \cap Groups[j].kernel = {}
  <2>1. \A c \in Clusters("Kernel"), d \in Clusters("Scheduler") : c \cap d = {}
    BY KindsApart
  <2> QED BY <1>3, <2>1
<1>5. Groups[i].sched \cap Groups[j].sched = {}
  <2> SUFFICES ASSUME Groups[i].sched # {}, Groups[j].sched # {} PROVE Groups[i].sched \cap Groups[j].sched = {}
    OBVIOUS
  <2>1. i < j \/ j < i
    BY <1>2
  <2>2. Groups[i].sched # Groups[j].sched
    BY <1>1, <2>1, SchedsApart
  <2> QED BY <1>3, <2>2, WaitingApart
<1>6. Groups[i].kernel \cap Groups[j].kernel = {}
  <2> SUFFICES ASSUME Groups[i].kernel # {}, Groups[j].kernel # {}
               PROVE  Groups[i].kernel \cap Groups[j].kernel = {}
    OBVIOUS
  <2>1. i \in 1 .. Len(ks) /\ Groups[i].kernel = ks[i]
    <3>1. i \in 1 .. Len(ks)
      BY <1>1, GroupParts DEF SchedGroup
    <3> QED BY <3>1, <1>1 DEF GroupsAre
  <2>2. j \in 1 .. Len(ks) /\ Groups[j].kernel = ks[j]
    <3>1. j \in 1 .. Len(ks)
      BY <1>1, GroupParts DEF SchedGroup
    <3> QED BY <3>1, <1>1 DEF GroupsAre
  <2>3. Groups[i].kernel # Groups[j].kernel
    BY <1>1, <2>1, <2>2 DEF GroupsAre
  <2> QED BY <1>3, <2>3, WaitingApart
<1> QED BY <1>4, <1>5, <1>6 DEF Of

(* Two reports that began near each other did so either way round. *)
LEMMA ApartSame ==
  ASSUME NEW a \in Nat, NEW b \in Nat
  PROVE  Apart(a, b) = Apart(b, a)
  BY DEF Apart

(* A view goes alone only when its twin has been paired elsewhere. *)
LEMMA LoneKernel ==
  ASSUME PendingOK, NEW i \in 1 .. Len(Groups), Groups[i].sched = {},
         NEW d \in Clusters("Scheduler"), is_twin(span_of(Groups[i].kernel), span_of(d))
  PROVE  \E u \in pending \ (Groups[i].kernel \cup d) : Apart(u.start, span_of(d).start) <= Slack
<1>1. PICK ks, left, rest : GroupsAre(ks, left, rest)
  BY GroupsSpec
<1>2. /\ Len(ks) \in Nat /\ left = LeftAfter(ks)
      /\ \A j \in 1 .. Len(ks) : ks[j] \in Clusters("Kernel")
      /\ \A n, m \in 1 .. Len(ks) : n # m => ks[n] # ks[m]
  BY <1>1, LenProperties, ElementOfSeq DEF GroupsAre
<1>3. i \in 1 .. Len(ks) /\ Groups[i].kernel = ks[i] /\ Takes(ks[i], left[i - 1]) = {}
  <2>1. i \in 1 .. Len(ks)
    BY ZenonT(30), <1>1, NotEmpty, GroupParts DEF SchedGroup
  <2>2. KernelGroup(Groups[i], ks[i], Takes(ks[i], left[i - 1]))
    BY <1>1, <2>1, GroupParts
  <2> QED BY <2>1, <2>2, NotEmpty DEF KernelGroup
<1>4. i - 1 \in 0 .. Len(ks)
  BY <1>2, <1>3
<1>5. \A k \in 0 .. Len(ks) : left[k] \subseteq Clusters("Scheduler")
  <2>1. TAKE k \in 0 .. Len(ks)
  <2>2. 0 \in 0 .. Len(ks) /\ k \in 0 .. Len(ks)
    BY <1>2
  <2>3. LeftAfter(ks)[k] \subseteq LeftAfter(ks)[0]
    BY <1>2, <2>2, LeftShrinks
  <2> QED BY <1>2, <2>3, LeftIs
<1>6. d \notin left[i - 1]
  BY <1>3, <1>4, <1>5, TakesOne
<1>7. PICK j \in 1 .. i - 1 : d \in Takes(ks[j], left[j - 1])
  BY <1>2, <1>4, <1>6, TakenBy
<1>8. j \in 1 .. Len(ks) /\ j # i /\ j - 1 \in 0 .. Len(ks)
  BY <1>2, <1>3, <1>7
<1>9. is_twin(span_of(ks[j]), span_of(d))
  BY <1>5, <1>7, <1>8, TakesOne
<1>10. PICK u \in ks[j] : u.start = span_of(ks[j]).start
  BY <1>2, <1>8, WaitingCluster
<1>11. u \in pending
  BY <1>2, <1>8, WaitingCluster
<1>12. u \notin ks[i] /\ u \notin d
  <2>1. ks[j] \cap ks[i] = {}
    BY <1>2, <1>3, <1>8, WaitingApart
  <2>2. ks[j] \cap d = {}
    BY <1>2, <1>8, KindsApart
  <2> QED BY <2>1, <2>2
<1> QED BY <1>3, <1>9, <1>10, <1>11, <1>12 DEF is_twin

LEMMA LoneSched ==
  ASSUME PendingOK, NEW i \in 1 .. Len(Groups), Groups[i].kernel = {},
         NEW c \in Clusters("Kernel"), is_twin(span_of(c), span_of(Groups[i].sched))
  PROVE  \E u \in pending \ (c \cup Groups[i].sched) : Apart(u.start, span_of(c).start) <= Slack
<1>1. PICK ks, left, rest : GroupsAre(ks, left, rest)
  BY GroupsSpec
<1>2. /\ Len(ks) \in Nat /\ left = LeftAfter(ks)
      /\ \A j \in 1 .. Len(ks) : ks[j] \in Clusters("Kernel")
      /\ \E n \in 1 .. Len(ks) : ks[n] = c
  BY <1>1, LenProperties, ElementOfSeq DEF GroupsAre
<1>3. PICK m \in 1 .. Len(ks) : ks[m] = c
  BY <1>2
<1>4. PICK d : d = Groups[i].sched
  OBVIOUS
<1>5. d \in left[Len(ks)] /\ d \in Clusters("Scheduler")
  <2>1. ASSUME i \in 1 .. Len(ks) PROVE FALSE
    <3>1. KernelGroup(Groups[i], ks[i], Takes(ks[i], left[i - 1]))
      BY <1>1, <2>1, GroupParts
    <3>2. Groups[i].kernel \in Clusters("Kernel")
      BY <3>1 DEF KernelGroup
    <3> QED BY <3>2, NotEmpty
  <2>2. SchedGroup(Groups[i], rest[i - Len(ks)], left[Len(ks)])
    BY <1>1, <2>1, GroupParts
  <2> QED BY <1>4, <2>2 DEF SchedGroup
<1>6. /\ m - 1 \in 0 .. Len(ks) /\ m \in 0 .. Len(ks) /\ 0 \in 0 .. Len(ks)
      /\ Len(ks) \in m - 1 .. Len(ks) /\ Len(ks) \in m .. Len(ks) /\ m - 1 \in 0 .. Len(ks)
  BY <1>2, <1>3
<1>7. left[Len(ks)] \subseteq left[m - 1] /\ left[Len(ks)] \subseteq left[m]
      /\ left[m - 1] \subseteq Clusters("Scheduler")
  BY <1>2, <1>6, LeftShrinks, LeftIs
<1>8. Takes(c, left[m - 1]) # {}
  BY <1>3, <1>4, <1>5, <1>7, TakesOne
<1>9. PICK e : e \in Takes(c, left[m - 1])
  BY <1>8
<1>10. e \in left[m - 1] /\ is_twin(span_of(c), span_of(e))
  BY <1>7, <1>9, TakesOne
<1>11. e # d
  <2>1. left[m] = left[m - 1] \ Takes(c, left[m - 1])
    BY <1>2, <1>3, LeftIs
  <2> QED BY <2>1, <1>5, <1>7, <1>9
<1>12. e \in Clusters("Scheduler")
  BY <1>7, <1>10
<1>13. PICK u \in e : u.start = span_of(e).start
  BY <1>12, WaitingCluster
<1>14. u \in pending /\ span_of(e).start \in Nat /\ span_of(c).start \in Nat
  BY <1>12, WaitingCluster
<1>15. u \notin c /\ u \notin d
  <2>1. e \cap d = {}
    BY <1>5, <1>11, <1>12, WaitingApart
  <2>2. c \cap e = {}
    BY <1>12, KindsApart
  <2> QED BY <2>1, <2>2
<1>16. Apart(span_of(e).start, span_of(c).start) <= Slack
  BY <1>10, <1>14, ApartSame DEF is_twin
<1> QED BY <1>4, <1>13, <1>14, <1>15, <1>16

-----------------------------------------------------------------------------
(* What is filed.                                                          *)

LEMMA GroupsSeq == ASSUME PendingOK PROVE Groups \in Seq(Group)
<1>1. PICK ks, left, rest : GroupsAre(ks, left, rest)
  BY GroupsSpec
<1> QED BY <1>1 DEF GroupsAre

LEMMA ReadyAre ==
  ASSUME PendingOK, NEW ready, ready = ReadyGroups
  PROVE  /\ ready \in Seq(Group) /\ Len(ready) \in Nat
         /\ \A n \in 1 .. Len(ready) : /\ ready[n] \in Group /\ Ready(ready[n])
                                       /\ \E i \in 1 .. Len(Groups) : ready[n] = Groups[i]
         /\ \A n, m \in 1 .. Len(ready) : n # m => Of(ready[n]) \cap Of(ready[m]) = {}
<1> DEFINE I == {i \in DOMAIN Groups : Ready(Groups[i])}
<1>1. DOMAIN Groups = 1 .. Len(Groups) /\ Groups \in Seq(Group)
  BY GroupsSeq, LenProperties
<1>2. I \subseteq 1 .. Len(Groups) /\ \A i \in I : Ready(Groups[i])
  BY <1>1
<1>3. ready = At(Groups, I)
  BY DEF ReadyGroups
<1> HIDE DEF I
<1>4. ready \in Seq(Group) /\ Len(ready) \in Nat
  <2>1. At(Groups, I) \in Seq(Group) /\ Len(At(Groups, I)) \in Nat
    BY <1>1, <1>2, AtPicks
  <2> QED BY <2>1, <1>3
<1>5. PICK h \in [1 .. Len(ready) -> I] :
         /\ \A n, m \in 1 .. Len(ready) : n < m => h[n] < h[m]
         /\ \A n \in 1 .. Len(ready) : ready[n] = Groups[h[n]]
  <2>1. \E h : Picks(h, Groups, I, At(Groups, I))
    BY <1>1, <1>2, AtPicks
  <2> QED BY <2>1, <1>3 DEF Picks
<1>6. \A n \in 1 .. Len(ready) : h[n] \in 1 .. Len(Groups) /\ ready[n] = Groups[h[n]] /\ Ready(ready[n])
  BY <1>2, <1>5
<1>7. ASSUME NEW n \in 1 .. Len(ready), NEW m \in 1 .. Len(ready), n # m
      PROVE  Of(ready[n]) \cap Of(ready[m]) = {}
  <2>1. n < m \/ m < n
    BY <1>4, <1>7
  <2>2. h[n] < h[m] \/ h[m] < h[n]
    BY <1>5, <2>1
  <2>3. Len(Groups) \in Nat
    BY <1>1, LenProperties
  <2>4. h[n] # h[m] /\ h[n] \in 1 .. Len(Groups) /\ h[m] \in 1 .. Len(Groups)
    BY <1>6, <2>2, <2>3
  <2>5. Of(Groups[h[n]]) \cap Of(Groups[h[m]]) = {}
    BY <2>4, GroupsApart
  <2> QED BY <1>6, <2>5
<1>8. \A n \in 1 .. Len(ready) : ready[n] \in Group
  BY <1>4, ElementOfSeq
<1> QED BY <1>4, <1>6, <1>7, <1>8

LEMMA WorstIs ==
  ASSUME NEW g, Of(g) \subseteq Report, Of(g) # {}, IsFiniteSet(Of(g))
  PROVE  Worst(g) \in Nat /\ Worst(g) > 0
<1> DEFINE f == [s \in Of(g) |-> len(s)]
           L == {len(s) : s \in Of(g)}
<1>1. \A s \in Of(g) : len(s) \in Nat /\ len(s) > 0
  BY ReportIs DEF len
<1>2. L = {f[s] : s \in Of(g)} /\ f \in [Of(g) -> Int]
  BY <1>1
<1>3. L # {}
  OBVIOUS
<1>4. L \subseteq Int /\ IsFiniteSet(L)
  <2> HIDE DEF f, L
  <2> QED BY <1>2, ImageFinite
<1>5. Max(L) \in L
  <2> HIDE DEF L
  <2> QED BY <1>3, <1>4, MaxIsGreatest
<1>6. Worst(g) = Max(L)
  BY DEF Worst, Of
<1>7. PICK s \in Of(g) : Max(L) = len(s)
  BY <1>5
<1> HIDE DEF L
<1> QED BY <1>1, <1>6, <1>7

LEMMA MaxOfTwo == ASSUME NEW a \in Int, NEW b \in Int PROVE Max({a, b}) \in Int
<1>1. \E x \in {a, b} : \A y \in {a, b} : x >= y
  <2>1. CASE a >= b
    BY <2>1
  <2>2. CASE ~(a >= b)
    BY <2>2
  <2> QED BY <2>1, <2>2
<1>2. Max({a, b}) \in {a, b}
  BY <1>1 DEF Max
<1> QED BY <1>2

LEMMA AnalyzeIs ==
  ASSUME NEW g, Of(g) \subseteq Report, Of(g) # {}, IsFiniteSet(Of(g)), NEW before \in Int
  PROVE  /\ analyze(g, before) \in Incident /\ analyze(g, before).stalls = Of(g)
         /\ ~analyze(g, before).marked /\ analyze(g, before).dur > 0
         /\ Over(g) \in Int
<1>1. span_of(Of(g)).start \in Nat
  BY SpanIs
<1>2. Worst(g) \in Nat /\ Worst(g) > 0
  BY WorstIs
<1>3. RefLen \in Int /\ RefClear \in Int
  BY AnalyzerAssumption
<1>4. Max({span_of(Of(g)).start - RefLen, before + RefClear}) \in Int
  BY <1>1, <1>3, MaxOfTwo
<1>5. Of(g) \subseteq Stall
  BY DEF Report
<1>6. PICK class \in {"Freeze", "Kernel", "Starvation"} :
        analyze(g, before) =
          [class |-> class, stalls |-> Of(g), start |-> span_of(Of(g)).start, dur |-> Worst(g), marked |-> FALSE,
           ref_from |-> Max({span_of(Of(g)).start - RefLen, before + RefClear}),
           ref_to |-> span_of(Of(g)).start]
  BY Zenon DEF analyze, Of
<1>7. Over(g) \in Int
  BY <1>1, <1>2 DEF Over, Of
<1> QED BY <1>1, <1>2, <1>4, <1>5, <1>6, <1>7 DEF Incident

LEMMA AnalyzedIs ==
  ASSUME PendingOK, incidents \in Seq(Incident), NEW ready, ready = ReadyGroups
  PROVE  /\ Analyzed(ready) \in Seq(Incident) /\ Len(Analyzed(ready)) = Len(ready)
         /\ \A n \in 1 .. Len(ready) : /\ Analyzed(ready)[n].stalls = Of(ready[n])
                                       /\ ~Analyzed(ready)[n].marked /\ Analyzed(ready)[n].dur > 0
<1>1. /\ ready \in Seq(Group) /\ Len(ready) \in Nat
      /\ \A n \in 1 .. Len(ready) : ready[n] \in Group /\ \E i \in 1 .. Len(Groups) : ready[n] = Groups[i]
  BY ReadyAre
<1>2. ASSUME NEW n \in 1 .. Len(ready)
      PROVE  Of(ready[n]) \subseteq Report /\ Of(ready[n]) # {} /\ IsFiniteSet(Of(ready[n]))
  <2>1. Of(ready[n]) # {}
    BY <1>1, GroupIs
  <2>2. Of(ready[n]) \in SUBSET pending
    BY <1>1 DEF Of, Group
  <2>3. IsFiniteSet(Of(ready[n]))
    BY <2>2, FS_Subset DEF PendingOK
  <2> QED BY <2>1, <2>2, <2>3 DEF PendingOK
<1> DEFINE last == IF incidents = <<>> THEN -RefClear ELSE incidents[Len(incidents)].start + incidents[Len(incidents)].dur
           prev(i) == IF i = 1 THEN last ELSE Over(ready[i - 1])
<1>3. last \in Int
  <2>1. CASE incidents = <<>>
    <3>1. RefClear \in Int
      BY AnalyzerAssumption
    <3> QED BY <2>1, <3>1
  <2>2. CASE incidents # <<>>
    <3>1. Len(incidents) \in Nat \ {0}
      BY <2>2, EmptySeq
    <3>2. Len(incidents) \in 1 .. Len(incidents)
      BY <3>1
    <3>3. incidents[Len(incidents)] \in Incident
      BY <3>2, ElementOfSeq
    <3>4. incidents[Len(incidents)].start \in Nat /\ incidents[Len(incidents)].dur \in Nat
      BY <3>3 DEF Incident
    <3> QED BY <2>2, <3>4
  <2> QED BY <2>1, <2>2
<1>4. ASSUME NEW n \in 1 .. Len(ready)
      PROVE  prev(n) \in Int
  <2>1. CASE n = 1
    BY <1>3, <2>1
  <2>2. CASE n # 1
    <3>1. n - 1 \in 1 .. Len(ready)
      BY <1>1, <2>2
    <3>2. Over(ready[n - 1]) \in Int
      <4>1. 0 \in Int
        OBVIOUS
      <4> QED BY <1>2, <3>1, <4>1, AnalyzeIs
    <3> QED BY <2>2, <3>2
  <2> QED BY <2>1, <2>2
<1> HIDE DEF last
<1>5. ASSUME NEW n \in 1 .. Len(ready)
      PROVE  /\ analyze(ready[n], prev(n)) \in Incident
             /\ analyze(ready[n], prev(n)).stalls = Of(ready[n])
             /\ ~analyze(ready[n], prev(n)).marked /\ analyze(ready[n], prev(n)).dur > 0
  <2> HIDE DEF prev
  <2> QED BY <1>2, <1>4, AnalyzeIs
<1>6. Analyzed(ready) = [n \in 1 .. Len(ready) |-> analyze(ready[n], prev(n))]
  <2>1. DOMAIN ready = 1 .. Len(ready)
    BY <1>1, LenProperties
  <2> QED BY <2>1 DEF Analyzed, last
<1> HIDE DEF prev
<1>7. Analyzed(ready) \in [1 .. Len(ready) -> Incident]
  BY <1>5, <1>6
<1>8. Analyzed(ready) \in Seq(Incident) /\ Len(Analyzed(ready)) = Len(ready)
  BY <1>1, <1>7
<1> QED BY <1>5, <1>6, <1>8

LEMMA MarkIncidentIs ==
  ASSUME minor \in Seq(Report), NEW t, Verdict(t) = "blip"
  PROVE  /\ MarkIncident(t) \in Incident /\ MarkIncident(t).stalls \subseteq ToSet(minor)
         /\ MarkIncident(t).stalls # {} /\ MarkIncident(t).marked /\ MarkIncident(t).dur > 0
<1> DEFINE W == in_window(t)
           Longest(s) == \A u \in W : len(s) >= len(u)
<1>1. W \in SUBSET ToSet(minor) /\ W # {}
  BY Zenon DEF Verdict, in_window
<1>2. W \subseteq Report /\ IsFiniteSet(W)
  BY <1>1, MembersAre, FS_Subset
<1> HIDE DEF W
<1>3. \A s \in W : s.start \in Nat /\ s.end \in Nat /\ len(s) \in Nat /\ len(s) > 0 /\ s.start < s.end
  BY <1>2, ReportIs DEF len
<1>4. \E s \in W : Longest(s)
  <2> DEFINE f == [s \in W |-> len(s)]
             L == {f[s] : s \in W}
  <2>1. f \in [W -> Int]
    BY <1>3
  <2>2. L \subseteq Int /\ IsFiniteSet(L) /\ L # {}
    <3>1. L # {}
      BY <1>1
    <3> HIDE DEF f
    <3> QED BY <2>1, <3>1, <1>2, ImageFinite
  <2>3. PICK m \in L : \A l \in L : l <= m
    <3> HIDE DEF L
    <3> QED BY <2>2, Extremes
  <2>4. PICK s \in W : len(s) = m
    BY <2>3
  <2>5. \A u \in W : len(u) <= len(s)
    BY <2>3, <2>4
  <2>6. \A u \in W : len(s) >= len(u)
    BY <2>5, <1>3
  <2> QED BY <2>6
<1>5. PICK w \in W : w = CHOOSE s \in W : Longest(s)
  BY <1>4
<1> DEFINE c == {s \in W : s.start <= w.end + Gap /\ s.end >= w.start - Gap}
           B == {s.start : s \in c}
<1>6. w \in c
  BY <1>3, GapIs
<1>7. Min(B) \in Nat
  <2>1. B \subseteq Nat /\ B # {}
    BY <1>3, <1>6
  <2>2. PICK b \in B : \A y \in B : b <= y
    <3> HIDE DEF B
    <3> QED BY <2>1, LeastNatural
  <2>3. B \subseteq Int
    BY <2>1
  <2>4. Min(B) = b
    <3> HIDE DEF B
    <3> QED BY <2>2, <2>3, MinIs
  <2> HIDE DEF B
  <2> QED BY <2>1, <2>2, <2>4
<1>8. MarkIncident(t) = [class |-> "Kernel", stalls |-> c, start |-> Min(B), dur |-> len(w), marked |-> TRUE,
                         ref_from |-> 0, ref_to |-> 0]
  BY <1>5 DEF MarkIncident, W
<1>9. c \subseteq W /\ c \subseteq Stall
  BY <1>2 DEF Report
<1> HIDE DEF c, B
<1> QED BY <1>1, <1>3, <1>5, <1>6, <1>7, <1>8, <1>9 DEF Incident

Answer == [t : Nat, verdict : {"stall", "clean", "blip"}]

Ripe(all) == {i \in DOMAIN all : MarkIsRipe(all[i])}

(* What the answers change, for the moments in `all`. *)
Answered(all, ans, new) ==
  /\ marks_pending' = At(all, DOMAIN all \ Ripe(all))
  /\ examined' = examined \o ans /\ ans \in Seq(Answer)
  /\ Len(ans) = Len(At(all, Ripe(all)))
  /\ \A i \in 1 .. Len(ans) : /\ ans[i].t = At(all, Ripe(all))[i]
                              /\ ans[i].t \in {all[j] : j \in Ripe(all)}
                              /\ ans[i].verdict = Verdict(ans[i].t)
  /\ incidents' = incidents \o new /\ new \in Seq(Incident)
  /\ \A i \in 1 .. Len(new) : /\ new[i].stalls \subseteq ToSet(minor) /\ new[i].stalls # {}
                              /\ new[i].marked /\ new[i].dur > 0

LEMMA AnswersAre ==
  ASSUME minor \in Seq(Report), NEW all \in Seq(Nat), Answers(all)
  PROVE  \E ans, new : Answered(all, ans, new)
<1>1. PICK asked : asked = At(all, Ripe(all))
  OBVIOUS
<1>2. PICK blips : blips = At(all, {i \in Ripe(all) : Verdict(all[i]) = "blip"})
  OBVIOUS
<1>3. PICK ans : ans = [i \in DOMAIN asked |-> [t |-> asked[i], verdict |-> Verdict(asked[i])]]
  OBVIOUS
<1>4. PICK new : new = [i \in DOMAIN blips |-> MarkIncident(blips[i])]
  OBVIOUS
<1>5. /\ marks_pending' = At(all, DOMAIN all \ Ripe(all))
      /\ examined' = examined \o ans
      /\ incidents' = incidents \o new
  BY <1>1, <1>2, <1>3, <1>4 DEF Answers, Ripe
<1>6. asked \in Seq(Nat) /\ ToSet(asked) = {all[j] : j \in Ripe(all)}
  <2>1. Ripe(all) \subseteq DOMAIN all
    BY DEF Ripe
  <2>2. At(all, Ripe(all)) \in Seq(Nat) /\ ToSet(At(all, Ripe(all))) = {all[j] : j \in Ripe(all)}
    BY <2>1, MembersAt
  <2> QED BY <1>1, <2>2
<1>7. DOMAIN asked = 1 .. Len(asked) /\ Len(asked) \in Nat /\ \A i \in 1 .. Len(asked) : asked[i] \in ToSet(asked) /\ asked[i] \in Nat
  <2>1. ToSet(asked) = {asked[i] : i \in 1 .. Len(asked)}
    BY <1>6, MembersAre
  <2> QED BY <2>1, <1>6, LenProperties, ElementOfSeq
<1>8. \A t : Verdict(t) \in {"stall", "clean", "blip"}
  BY Zenon DEF Verdict
<1>9. /\ ans \in Seq(Answer) /\ Len(ans) = Len(asked)
      /\ \A i \in 1 .. Len(ans) : ans[i].t = asked[i] /\ ans[i].verdict = Verdict(ans[i].t)
  <2>1. \A i \in 1 .. Len(asked) : [t |-> asked[i], verdict |-> Verdict(asked[i])] \in Answer
    BY <1>7, <1>8 DEF Answer
  <2>2. ans \in [1 .. Len(asked) -> Answer]
    BY <1>3, <1>7, <2>1
  <2>3. ans \in Seq(Answer) /\ Len(ans) = Len(asked)
    BY SMTT(30), <1>7, <2>2
  <2>4. \A i \in 1 .. Len(asked) : ans[i] = [t |-> asked[i], verdict |-> Verdict(asked[i])]
    BY <1>3, <1>7
  <2>5. \A i \in 1 .. Len(asked) : ans[i].t = asked[i] /\ ans[i].verdict = Verdict(asked[i])
    <3>1. TAKE i \in 1 .. Len(asked)
    <3>2. PICK v : v = Verdict(asked[i])
      OBVIOUS
    <3>3. ans[i] = [t |-> asked[i], verdict |-> v]
      BY <2>4, <3>2
    <3> QED BY <3>2, <3>3
  <2> QED BY <2>3, <2>5
<1>10. blips \in Seq(Nat) /\ \A i \in 1 .. Len(blips) : Verdict(blips[i]) = "blip"
  <2>1. PICK J : J = {i \in Ripe(all) : Verdict(all[i]) = "blip"}
    OBVIOUS
  <2>2. J \subseteq DOMAIN all
    BY <2>1 DEF Ripe
  <2>3. At(all, J) \in Seq(Nat) /\ ToSet(At(all, J)) = {all[i] : i \in J}
    BY <2>2, MembersAt
  <2>4. blips \in Seq(Nat) /\ ToSet(blips) = {all[i] : i \in J}
    BY <1>2, <2>1, <2>3
  <2>5. ToSet(blips) = {blips[i] : i \in 1 .. Len(blips)}
    BY <2>4, MembersAre
  <2>6. \A v \in ToSet(blips) : Verdict(v) = "blip"
    BY <2>1, <2>4
  <2> QED BY <2>4, <2>5, <2>6
<1>11. /\ new \in Seq(Incident)
       /\ \A i \in 1 .. Len(new) : /\ new[i].stalls \subseteq ToSet(minor) /\ new[i].stalls # {}
                                   /\ new[i].marked /\ new[i].dur > 0
  <2>1. DOMAIN blips = 1 .. Len(blips) /\ Len(blips) \in Nat
    BY <1>10, LenProperties
  <2>2. \A i \in 1 .. Len(blips) :
          /\ MarkIncident(blips[i]) \in Incident /\ MarkIncident(blips[i]).stalls \subseteq ToSet(minor)
          /\ MarkIncident(blips[i]).stalls # {} /\ MarkIncident(blips[i]).marked /\ MarkIncident(blips[i]).dur > 0
    BY <1>10, MarkIncidentIs
  <2>3. \A i \in 1 .. Len(blips) : new[i] = MarkIncident(blips[i])
    BY <1>4, <2>1
  <2>4. new \in [1 .. Len(blips) -> Incident]
    BY <1>4, <2>1, <2>2
  <2>5. new \in Seq(Incident) /\ Len(new) = Len(blips)
    BY <2>1, <2>4
  <2> QED BY <2>2, <2>3, <2>5
<1>12. Answered(all, ans, new)
  BY <1>1, <1>5, <1>6, <1>7, <1>9, <1>11 DEF Answered
<1> QED BY <1>12

-----------------------------------------------------------------------------
(* Types.                                                                  *)

ClockTypes ==
  /\ now \in Nat /\ latest_ts \in 0 .. now /\ tick_now \in 0 .. now /\ stop_at \in 0 .. now
  /\ woke \in [Probes -> Nat] /\ \A p \in Probes : woke[p] <= now

StallTypes ==
  /\ wire \in Seq(Report) /\ rx \in Seq(Report) /\ minor \in Seq(Report)
  /\ drained \subseteq Report /\ IsFiniteSet(drained)
  /\ pending \subseteq drained /\ ToSet(minor) \subseteq drained

IncidentTypes ==
  /\ incidents \in Seq(Incident)
  /\ \A i \in 1 .. Len(incidents) :
       incidents[i].stalls \subseteq drained /\ incidents[i].stalls # {} /\ incidents[i].dur > 0

MarkTypes ==
  /\ MARKS \in Seq(Nat) /\ marks_pending \in Seq(Nat) /\ examined \in Seq(Answer)
  /\ \A t \in ToSet(MARKS) \cup ToSet(marks_pending) : t <= now

StepTypes ==
  /\ pc \in {"idle", "marks", "stalls"} /\ force \in BOOLEAN
  /\ phase \in {"running", "stopping", "flushed", "done"}
  /\ pc # "idle" => phase # "done"

TypeInv == ClockTypes /\ StallTypes /\ IncidentTypes /\ MarkTypes /\ StepTypes

LEMMA TypesPending == TypeInv => PendingOK
<1> SUFFICES ASSUME TypeInv PROVE PendingOK
  OBVIOUS
<1>1. pending \in SUBSET drained /\ IsFiniteSet(drained) /\ pending \subseteq Report
  BY DEF TypeInv, StallTypes
<1> QED BY <1>1, FS_Subset DEF PendingOK

LEMMA InitTypes == Init => TypeInv
<1> SUFFICES ASSUME Init PROVE TypeInv
  OBVIOUS
<1>1. \A S : <<>> \in Seq(S)
  BY EmptySeq
<1>2. ToSet(<<>>) = {}
  BY DEF ToSet
<1>3. IsFiniteSet({})
  BY FS_EmptySet
<1>4. woke \in [Probes -> Nat] /\ \A p \in Probes : woke[p] = 0
  BY DEF Init
<1>5. Len(incidents) = 0
  BY EmptySeq DEF Init
<1>6. \A i \in 1 .. Len(incidents) :
        incidents[i].stalls \subseteq drained /\ incidents[i].stalls # {} /\ incidents[i].dur > 0
  BY <1>5
<1>7. /\ wire \in Seq(Report) /\ rx \in Seq(Report) /\ minor \in Seq(Report) /\ incidents \in Seq(Incident)
      /\ MARKS \in Seq(Nat) /\ marks_pending \in Seq(Nat) /\ examined \in Seq(Answer)
  BY <1>1 DEF Init
<1>8. /\ now = 0 /\ latest_ts = 0 /\ drained = {} /\ pending = {} /\ ToSet(minor) = {}
      /\ ToSet(MARKS) = {} /\ ToSet(marks_pending) = {}
      /\ pc = "idle" /\ tick_now = 0 /\ force = FALSE /\ phase = "running" /\ stop_at = 0
  BY <1>2 DEF Init
<1>9. ClockTypes
  BY <1>4, <1>8 DEF ClockTypes
<1>10. StallTypes
  BY <1>3, <1>7, <1>8 DEF StallTypes
<1>11. IncidentTypes /\ MarkTypes
  BY <1>6, <1>7, <1>8 DEF IncidentTypes, MarkTypes
<1>12. StepTypes
  BY <1>8 DEF StepTypes
<1> QED BY <1>9, <1>10, <1>11, <1>12 DEF TypeInv

(* More incidents. *)
LEMMA MoreIncidents ==
  ASSUME incidents \in Seq(Incident), NEW new \in Seq(Incident), incidents' = incidents \o new
  PROVE  /\ incidents' \in Seq(Incident) /\ Len(incidents') = Len(incidents) + Len(new)
         /\ Len(incidents) \in Nat /\ Len(new) \in Nat
         /\ \A i \in 1 .. Len(incidents) : incidents'[i] = incidents[i]
         /\ \A i \in 1 .. Len(new) : incidents'[Len(incidents) + i] = new[i]
         /\ \A i \in 1 .. Len(incidents') : i \notin 1 .. Len(incidents) =>
              i - Len(incidents) \in 1 .. Len(new) /\ incidents'[i] = new[i - Len(incidents)]
<1>1. /\ incidents' \in Seq(Incident) /\ Len(incidents') = Len(incidents) + Len(new)
      /\ \A i \in 1 .. Len(incidents) + Len(new) :
           incidents'[i] = IF i <= Len(incidents) THEN incidents[i] ELSE new[i - Len(incidents)]
  BY ConcatProperties
<1>2. Len(incidents) \in Nat /\ Len(new) \in Nat
  BY LenProperties
<1>3. \A i \in 1 .. Len(incidents) : incidents'[i] = incidents[i]
  BY <1>1, <1>2
<1>4. ASSUME NEW i \in 1 .. Len(incidents'), i \notin 1 .. Len(incidents)
      PROVE  i - Len(incidents) \in 1 .. Len(new) /\ incidents'[i] = new[i - Len(incidents)]
  <2>1. i \in 1 .. Len(incidents) + Len(new) /\ ~(i <= Len(incidents)) /\ i - Len(incidents) \in 1 .. Len(new)
    BY <1>1, <1>2, <1>4
  <2> QED BY <1>1, <2>1
<1>5. ASSUME NEW i \in 1 .. Len(new)
      PROVE  incidents'[Len(incidents) + i] = new[i]
  <2>1. /\ Len(incidents) + i \in 1 .. Len(incidents) + Len(new) /\ ~(Len(incidents) + i <= Len(incidents))
        /\ (Len(incidents) + i) - Len(incidents) = i
    BY <1>2
  <2> QED BY <1>1, <2>1
<1> QED BY <1>1, <1>2, <1>3, <1>4, <1>5

(* What a late probe reports. *)
Late(p, start) == [kind |-> Kind(p), cpu |-> p, start |-> start, end |-> now, minor |-> Short(p, now - start)]

LEMMA LateIs ==
  ASSUME ClockTypes, NEW p \in Probes, NEW start \in woke[p] .. now, start < now
  PROVE  Late(p, start) \in Report /\ Late(p, start).cpu = p /\ Late(p, start).kind = Kind(p)
         /\ Late(p, start).start = start /\ Late(p, start).end = now
<1>1. start \in Nat /\ now \in Nat
  BY DEF ClockTypes
<1>2. Kind(p) \in Kinds
  BY DEF Kind, Kinds
<1>3. Short(p, now - start) \in BOOLEAN
  BY DEF Short
<1>4. PICK b \in BOOLEAN : b = Short(p, now - start)
  BY <1>3
<1> QED BY <1>1, <1>2, <1>4 DEF Late, Report, Stall

LEMMA AdvanceTypes == ASSUME TypeInv, Advance PROVE TypeInv'
<1>1. now' = now + 1 /\ now \in Nat
  BY DEF Advance, TypeInv, ClockTypes
<1>2. ClockTypes'
  BY <1>1 DEF Advance, TypeInv, ClockTypes, tickVars, runVars, probeVars
<1>3. StallTypes' /\ IncidentTypes' /\ StepTypes'
  BY DEF Advance, TypeInv, StallTypes, IncidentTypes, StepTypes, probeVars, stallVars, tickVars, runVars
<1>4. MarkTypes'
  <2>1. MARKS' = MARKS /\ marks_pending' = marks_pending /\ examined' = examined
    BY DEF Advance, markVars
  <2>2. ToSet(MARKS) \subseteq Nat /\ ToSet(marks_pending) \subseteq Nat
    BY MembersAre DEF TypeInv, MarkTypes
  <2>3. \A t \in ToSet(MARKS) \cup ToSet(marks_pending) : t <= now'
    BY <1>1, <2>2 DEF TypeInv, MarkTypes
  <2> QED BY <2>1, <2>3 DEF TypeInv, MarkTypes
<1> QED BY <1>2, <1>3, <1>4 DEF TypeInv

LEMMA TraceTypes == ASSUME TypeInv, NEW ts \in 1 .. now, Trace(ts) PROVE TypeInv'
<1>1. ClockTypes'
  BY DEF Trace, TypeInv, ClockTypes, tickVars, runVars, probeVars
<1>2. StallTypes' /\ IncidentTypes' /\ StepTypes'
  BY DEF Trace, TypeInv, StallTypes, IncidentTypes, StepTypes, probeVars, stallVars, tickVars, runVars
<1>3. MarkTypes'
  BY DEF Trace, TypeInv, MarkTypes, markVars
<1> QED BY <1>1, <1>2, <1>3 DEF TypeInv

LEMMA MarkNowTypes == ASSUME TypeInv, mark_now PROVE TypeInv'
<1>1. ClockTypes' /\ StallTypes' /\ IncidentTypes' /\ StepTypes'
  BY DEF mark_now, TypeInv, ClockTypes, StallTypes, IncidentTypes, StepTypes, clockVars, probeVars, stallVars, tickVars, runVars
<1>2. MarkTypes'
  <2>1. now \in Nat /\ MARKS \in Seq(Nat)
    BY DEF TypeInv, ClockTypes, MarkTypes
  <2>2. MARKS' = Append(MARKS, now) /\ marks_pending' = marks_pending /\ examined' = examined /\ now' = now
    BY DEF mark_now, markVars, clockVars
  <2>3. MARKS' \in Seq(Nat) /\ ToSet(MARKS') = ToSet(MARKS) \cup {now}
    BY <2>1, <2>2, MembersOfAppend
  <2>4. \A t \in ToSet(MARKS') \cup ToSet(marks_pending') : t <= now'
    BY <2>1, <2>2, <2>3 DEF TypeInv, MarkTypes
  <2>5. marks_pending' \in Seq(Nat) /\ examined' \in Seq(Answer)
    BY <2>2 DEF TypeInv, MarkTypes
  <2> QED BY <2>3, <2>4, <2>5 DEF MarkTypes
<1> QED BY <1>1, <1>2 DEF TypeInv

LEMMA RunIs ==
  ASSUME TypeInv, NEW p \in Probes, NEW start \in woke[p] .. now, run(p, start)
  PROVE  /\ Late(p, start) \in Report /\ Late(p, start).cpu = p /\ Late(p, start).kind = Kind(p)
         /\ Late(p, start).end = now /\ woke[p] < now
         /\ \/ p = NoCpu /\ rx' = Append(rx, Late(p, start)) /\ wire' = wire
            \/ p # NoCpu /\ wire' = Append(wire, Late(p, start)) /\ rx' = rx
         /\ woke' = [woke EXCEPT ![p] = now]
<1>1. start < now /\ ClockTypes
  BY DEF run, TypeInv
<1>2. Late(p, start) \in Report /\ Late(p, start).cpu = p /\ Late(p, start).kind = Kind(p)
      /\ Late(p, start).end = now
  BY <1>1, LateIs
<1>3. woke[p] < now
  BY <1>1 DEF ClockTypes
<1>4. /\ \/ p = NoCpu /\ rx' = Append(rx, Late(p, start)) /\ wire' = wire
         \/ p # NoCpu /\ wire' = Append(wire, Late(p, start)) /\ rx' = rx
      /\ woke' = [woke EXCEPT ![p] = now]
  <2>1. CASE p = NoCpu
    BY <2>1, Zenon DEF run, Late
  <2>2. CASE p # NoCpu
    BY <2>2, Zenon DEF run, Late
  <2> QED BY <2>1, <2>2
<1> QED BY <1>2, <1>3, <1>4

LEMMA RunTypes ==
  ASSUME TypeInv, NEW p \in Probes, NEW start \in woke[p] .. now, run(p, start)
  PROVE  TypeInv'
<1>1. /\ Late(p, start) \in Report
      /\ \/ p = NoCpu /\ rx' = Append(rx, Late(p, start)) /\ wire' = wire
         \/ p # NoCpu /\ wire' = Append(wire, Late(p, start)) /\ rx' = rx
      /\ woke' = [woke EXCEPT ![p] = now]
  BY RunIs
<1>2. ClockTypes'
  BY <1>1 DEF run, TypeInv, ClockTypes, clockVars, tickVars, runVars
<1>3. IncidentTypes' /\ StepTypes'
  BY DEF run, TypeInv, IncidentTypes, StepTypes, stallVars, tickVars, runVars
<1>4. MarkTypes'
  BY DEF run, TypeInv, MarkTypes, markVars, clockVars
<1>5. StallTypes'
  <2>1. rx' \in Seq(Report) /\ wire' \in Seq(Report)
    <3>1. wire \in Seq(Report) /\ rx \in Seq(Report)
      BY DEF TypeInv, StallTypes
    <3>2. Append(wire, Late(p, start)) \in Seq(Report) /\ Append(rx, Late(p, start)) \in Seq(Report)
      BY <1>1, <3>1, MembersOfAppend
    <3> QED BY <1>1, <3>1, <3>2
  <2>2. minor' = minor /\ drained' = drained /\ pending' = pending
    BY DEF run, stallVars
  <2> QED BY <2>1, <2>2 DEF TypeInv, StallTypes
<1> QED BY <1>2, <1>3, <1>4, <1>5 DEF TypeInv

LEMMA ReaderTypes == ASSUME TypeInv, probe_reader PROVE TypeInv'
<1>1. ClockTypes' /\ IncidentTypes' /\ StepTypes'
  BY DEF probe_reader, TypeInv, ClockTypes, IncidentTypes, StepTypes, clockVars, stallVars, tickVars, runVars
<1>2. MarkTypes'
  BY DEF probe_reader, TypeInv, MarkTypes, markVars, clockVars
<1>3. StallTypes'
  <2>1. wire \in Seq(Report) /\ rx \in Seq(Report)
    BY DEF TypeInv, StallTypes
  <2>2. Head(wire) \in Report /\ Tail(wire) \in Seq(Report)
    BY <2>1, MembersOfTail DEF probe_reader
  <2>3. Append(rx, Head(wire)) \in Seq(Report)
    BY <2>1, <2>2, MembersOfAppend
  <2>4. rx' \in Seq(Report) /\ wire' \in Seq(Report)
    BY <2>2, <2>3 DEF probe_reader
  <2>5. minor' = minor /\ drained' = drained /\ pending' = pending
    BY DEF probe_reader, stallVars
  <2> QED BY <2>4, <2>5 DEF TypeInv, StallTypes
<1> QED BY <1>1, <1>2, <1>3 DEF TypeInv

(* A first part of a sequence. *)
LEMMA FirstPart ==
  ASSUME NEW S, NEW q \in Seq(S), NEW n \in 0 .. Len(q)
  PROVE  /\ SubSeq(q, 1, n) \in Seq(S) /\ Len(SubSeq(q, 1, n)) = n
         /\ \A i \in 1 .. n : SubSeq(q, 1, n)[i] = q[i] /\ i \in 1 .. Len(q)
<1>1. Len(q) \in Nat /\ \A i \in 1 .. Len(q) : q[i] \in S
  BY LenProperties, ElementOfSeq
<1>2. \A i \in 1 .. n : q[i] \in S /\ i \in 1 .. Len(q)
  BY <1>1
<1>3. 1 \in Int /\ n \in Int
  OBVIOUS
<1>4. /\ SubSeq(q, 1, n) \in Seq(S)
      /\ Len(SubSeq(q, 1, n)) = IF 1 <= n THEN n - 1 + 1 ELSE 0
      /\ \A i \in 1 .. n - 1 + 1 : SubSeq(q, 1, n)[i] = q[1 + i - 1]
  BY <1>2, <1>3, SubSeqProperties
<1>5. n - 1 + 1 = n /\ \A i \in 1 .. n : 1 + i - 1 = i
  OBVIOUS
<1>6. Len(SubSeq(q, 1, n)) = n
  BY <1>1, <1>4
<1> QED BY <1>2, <1>4, <1>5, <1>6

LEMMA StopTypes == ASSUME TypeInv, Stop PROVE TypeInv'
<1>1. IncidentTypes' /\ ClockTypes'
  BY DEF Stop, TypeInv, ClockTypes, IncidentTypes, clockVars, stallVars, tickVars
<1>2. MarkTypes'
  BY DEF Stop, TypeInv, MarkTypes, markVars, clockVars
<1>3. StallTypes'
  <2>1. wire \in Seq(Report)
    BY DEF TypeInv, StallTypes
  <2>2. PICK n \in 0 .. Len(wire) : wire' = SubSeq(wire, 1, n)
    BY DEF Stop
  <2>3. wire' \in Seq(Report)
    BY <2>1, <2>2, FirstPart
  <2>4. minor' = minor /\ drained' = drained /\ pending' = pending /\ rx' = rx
    BY DEF Stop, stallVars
  <2> QED BY <2>3, <2>4 DEF TypeInv, StallTypes
<1>4. StepTypes'
  BY DEF Stop, TypeInv, StepTypes, tickVars
<1> QED BY <1>1, <1>2, <1>3, <1>4 DEF TypeInv

(* What a tick's first step drains, and what it lets go. *)
LEMMA TickIs ==
  ASSUME TypeInv, NEW f \in BOOLEAN, tick(f)
  PROVE  /\ minor' \in Seq(Report)
         /\ ToSet(minor') \subseteq ToSet(minor) \cup {s \in ToSet(rx) : s.minor}
         /\ \A s \in ToSet(minor) \cup {u \in ToSet(rx) : u.minor} : s \in ToSet(minor') \/ s.end < now - MinorKeep
         /\ pending' = pending \cup {s \in ToSet(rx) : ~s.minor}
         /\ drained' = drained \cup ToSet(rx)
         /\ ToSet(rx) \subseteq Report /\ IsFiniteSet(ToSet(rx))
         /\ rx' = <<>> /\ pc' = "marks" /\ tick_now' = now /\ force' = f
<1>1. minor \in Seq(Report) /\ rx \in Seq(Report)
  BY DEF TypeInv, StallTypes
<1>2. PICK I : I = {i \in DOMAIN rx : rx[i].minor}
  OBVIOUS
<1>3. PICK q : q = minor \o At(rx, I)
  OBVIOUS
<1>4. PICK K : K = {i \in DOMAIN q : \E j \in 1 .. i : q[j].end >= now - MinorKeep}
  OBVIOUS
<1>5. /\ minor' = At(q, K)
      /\ pending' = pending \cup {s \in ToSet(rx) : ~s.minor}
      /\ drained' = drained \cup ToSet(rx)
      /\ rx' = <<>> /\ pc' = "marks" /\ tick_now' = now /\ force' = f
  BY <1>2, <1>3, <1>4 DEF tick, expire_minor
<1>6. At(rx, I) \in Seq(Report) /\ ToSet(At(rx, I)) = {rx[i] : i \in I}
  BY <1>1, <1>2, MembersAt
<1>7. {rx[i] : i \in I} = {s \in ToSet(rx) : s.minor}
  BY <1>2 DEF ToSet
<1>8. q \in Seq(Report) /\ ToSet(q) = ToSet(minor) \cup {s \in ToSet(rx) : s.minor}
  <2>1. minor \o At(rx, I) \in Seq(Report) /\ ToSet(minor \o At(rx, I)) = ToSet(minor) \cup ToSet(At(rx, I))
    BY <1>1, <1>6, MembersOfConcat
  <2> QED BY <1>3, <1>6, <1>7, <2>1
<1>9. At(q, K) \in Seq(Report) /\ ToSet(At(q, K)) = {q[i] : i \in K}
  BY <1>4, <1>8, MembersAt
<1>10. ToSet(minor') \subseteq ToSet(q)
  <2>1. {q[i] : i \in K} \subseteq ToSet(q)
    BY <1>4 DEF ToSet
  <2> QED BY <1>5, <1>9, <2>1
<1>11. ASSUME NEW s \in ToSet(q)
       PROVE  s \in ToSet(minor') \/ s.end < now - MinorKeep
  <2>1. PICK i \in 1 .. Len(q) : s = q[i]
    BY <1>8, MembersAre
  <2>2. DOMAIN q = 1 .. Len(q) /\ Len(q) \in Nat
    BY <1>8, LenProperties
  <2>3. CASE i \in K
    BY <1>5, <1>9, <2>1, <2>3
  <2>4. CASE i \notin K
    <3>1. ~(q[i].end >= now - MinorKeep)
      BY <1>4, <2>2, <2>4
    <3>2. s.end \in Nat /\ now \in Nat /\ MinorKeep \in Nat
      <4>1. s \in Report
        BY <1>8, MembersAre
      <4> QED BY <4>1, ReportIs, AnalyzerAssumption DEF TypeInv, ClockTypes
    <3> QED BY <2>1, <3>1, <3>2
  <2> QED BY <2>3, <2>4
<1>12. ToSet(rx) \subseteq Report /\ IsFiniteSet(ToSet(rx))
  BY <1>1, MembersAre
<1>13. minor' \in Seq(Report)
  BY <1>5, <1>9
<1> QED BY <1>5, <1>8, <1>10, <1>11, <1>12, <1>13

LEMMA TickTypes == ASSUME TypeInv, NEW f \in BOOLEAN, tick(f) PROVE TypeInv'
<1>1. /\ minor' \in Seq(Report)
      /\ ToSet(minor') \subseteq ToSet(minor) \cup {s \in ToSet(rx) : s.minor}
      /\ pending' = pending \cup {s \in ToSet(rx) : ~s.minor}
      /\ drained' = drained \cup ToSet(rx)
      /\ ToSet(rx) \subseteq Report /\ IsFiniteSet(ToSet(rx))
      /\ rx' = <<>> /\ pc' = "marks" /\ tick_now' = now /\ force' = f
  BY TickIs
<1>2. wire' = wire /\ incidents' = incidents /\ now' = now
  BY DEF tick, probeVars, clockVars
<1>3. ClockTypes'
  BY <1>1 DEF tick, TypeInv, ClockTypes, clockVars, probeVars, runVars
<1>4. StallTypes'
  <2>1. IsFiniteSet(drained')
    BY <1>1, FS_Union DEF TypeInv, StallTypes
  <2>2. rx' \in Seq(Report)
    BY <1>1, EmptySeq
  <2>3. drained' \subseteq Report /\ pending' \subseteq drained' /\ ToSet(minor') \subseteq drained'
    BY <1>1 DEF TypeInv, StallTypes
  <2> QED BY <1>1, <1>2, <2>1, <2>2, <2>3 DEF TypeInv, StallTypes
<1>5. IncidentTypes'
  BY <1>1, <1>2 DEF TypeInv, IncidentTypes
<1>6. MarkTypes'
  BY <1>2 DEF tick, TypeInv, MarkTypes, markVars
<1>7. StepTypes'
  BY <1>1 DEF tick, MayTick, TypeInv, StepTypes, runVars
<1> QED BY <1>3, <1>4, <1>5, <1>6, <1>7 DEF TypeInv

(* The flagged moments waiting for an answer, in line. *)
Line == marks_pending \o MARKS

LEMMA LineIs ==
  ASSUME MarkTypes
  PROVE  Line \in Seq(Nat) /\ ToSet(Line) = ToSet(marks_pending) \cup ToSet(MARKS)
  BY MembersOfConcat DEF MarkTypes, Line

LEMMA ProcessIs ==
  ASSUME TypeInv, process_marks
  PROVE  \E ans, new : Answered(Line, ans, new)
<1>1. minor \in Seq(Report) /\ Line \in Seq(Nat)
  BY LineIs DEF TypeInv, StallTypes
<1>2. Answers(Line)
  BY DEF process_marks, Line
<1> QED BY <1>1, <1>2, AnswersAre

LEMMA ProcessTypes == ASSUME TypeInv, process_marks PROVE TypeInv'
<1>1. PICK ans, new : Answered(Line, ans, new)
  BY ProcessIs
<1>2. Line \in Seq(Nat) /\ ToSet(Line) = ToSet(marks_pending) \cup ToSet(MARKS)
  BY LineIs DEF TypeInv
<1>3. ClockTypes' /\ StallTypes'
  BY DEF process_marks, TypeInv, ClockTypes, StallTypes, clockVars, probeVars, stallVars, runVars
<1>4. StepTypes'
  BY DEF process_marks, TypeInv, StepTypes, runVars
<1>5. IncidentTypes'
  <2>1. incidents \in Seq(Incident) /\ new \in Seq(Incident) /\ incidents' = incidents \o new
    BY <1>1 DEF Answered, TypeInv, IncidentTypes
  <2>2. /\ incidents' \in Seq(Incident)
        /\ \A i \in 1 .. Len(incidents) : incidents'[i] = incidents[i]
        /\ \A i \in 1 .. Len(incidents') : i \notin 1 .. Len(incidents) =>
             i - Len(incidents) \in 1 .. Len(new) /\ incidents'[i] = new[i - Len(incidents)]
    BY <2>1, MoreIncidents
  <2>3. ToSet(minor) \subseteq drained /\ drained' = drained
    BY DEF TypeInv, StallTypes, process_marks, stallVars
  <2>4. \A i \in 1 .. Len(new) : new[i].stalls \subseteq drained /\ new[i].stalls # {} /\ new[i].dur > 0
    BY <1>1, <2>3 DEF Answered
  <2>5. \A i \in 1 .. Len(incidents') :
          incidents'[i].stalls \subseteq drained /\ incidents'[i].stalls # {} /\ incidents'[i].dur > 0
    BY <2>2, <2>4 DEF TypeInv, IncidentTypes
  <2> QED BY <2>2, <2>3, <2>5 DEF IncidentTypes
<1>6. MarkTypes'
  <2>1. MARKS' = <<>> /\ now' = now /\ MARKS' \in Seq(Nat) /\ ToSet(MARKS') = {}
    <3>1. MARKS' = <<>> /\ now' = now
      BY DEF process_marks, clockVars
    <3> QED BY <3>1, EmptySeq DEF ToSet
  <2>2. marks_pending' = At(Line, DOMAIN Line \ Ripe(Line))
    BY <1>1 DEF Answered
  <2>3. DOMAIN Line \ Ripe(Line) \subseteq DOMAIN Line
    OBVIOUS
  <2>4. marks_pending' \in Seq(Nat) /\ ToSet(marks_pending') = {Line[i] : i \in DOMAIN Line \ Ripe(Line)}
    BY <1>2, <2>2, <2>3, MembersAt
  <2>5. ToSet(marks_pending') \subseteq ToSet(Line)
    BY <2>4 DEF ToSet
  <2>6. examined' \in Seq(Answer)
    <3>1. examined \in Seq(Answer) /\ ans \in Seq(Answer) /\ examined' = examined \o ans
      BY <1>1 DEF Answered, TypeInv, MarkTypes
    <3> QED BY <3>1, ConcatProperties
  <2>7. \A t \in ToSet(MARKS') \cup ToSet(marks_pending') : t <= now'
    BY <1>2, <2>1, <2>5 DEF TypeInv, MarkTypes
  <2> QED BY <2>1, <2>4, <2>6, <2>7 DEF MarkTypes
<1> QED BY <1>3, <1>4, <1>5, <1>6 DEF TypeInv

(* What a tick's last step files. *)
Files(ready, new) ==
  /\ ready = ReadyGroups /\ new \in Seq(Incident) /\ Len(new) = Len(ready)
  /\ incidents' = incidents \o new
  /\ \A n \in 1 .. Len(ready) : new[n].stalls = Of(ready[n]) /\ ~new[n].marked /\ new[n].dur > 0
  /\ pending' = pending \ UNION {Of(ready[n]) : n \in 1 .. Len(ready)}

LEMMA StallsIs == ASSUME TypeInv, tick_stalls PROVE \E ready, new : Files(ready, new)
<1>1. PICK ready : ready = ReadyGroups
  OBVIOUS
<1>2. PICK new : new = Analyzed(ready)
  OBVIOUS
<1>3. incidents' = incidents \o new
  BY <1>1, <1>2 DEF tick_stalls
<1>4. pending' = pending \ UNION {g.kernel \cup g.sched : g \in ToSet(ready)}
  BY <1>1 DEF tick_stalls
<1>5. PendingOK /\ incidents \in Seq(Incident)
  BY TypesPending DEF TypeInv, IncidentTypes
<1>6. ready \in Seq(Group)
  BY <1>1, <1>5, ReadyAre
<1>7. UNION {g.kernel \cup g.sched : g \in ToSet(ready)} = UNION {Of(ready[n]) : n \in 1 .. Len(ready)}
  <2>1. ToSet(ready) = {ready[n] : n \in 1 .. Len(ready)}
    BY <1>6, MembersAre
  <2> QED BY <2>1 DEF Of
<1>8. /\ new \in Seq(Incident) /\ Len(new) = Len(ready)
      /\ \A n \in 1 .. Len(ready) : new[n].stalls = Of(ready[n]) /\ ~new[n].marked /\ new[n].dur > 0
  BY <1>1, <1>2, <1>5, AnalyzedIs
<1>9. pending' = pending \ UNION {Of(ready[n]) : n \in 1 .. Len(ready)}
  BY <1>4, <1>7
<1> QED BY SMTT(30), <1>1, <1>3, <1>8, <1>9 DEF Files

LEMMA StallsTypes == ASSUME TypeInv, tick_stalls PROVE TypeInv'
<1>0. PICK ready, new : Files(ready, new)
  BY StallsIs
<1>1. /\ ready = ReadyGroups /\ new \in Seq(Incident) /\ Len(new) = Len(ready)
      /\ incidents' = incidents \o new
      /\ \A n \in 1 .. Len(ready) : new[n].stalls = Of(ready[n]) /\ ~new[n].marked /\ new[n].dur > 0
      /\ pending' = pending \ UNION {Of(ready[n]) : n \in 1 .. Len(ready)}
  BY <1>0 DEF Files
<1>2. ClockTypes' /\ MarkTypes'
  BY DEF tick_stalls, TypeInv, ClockTypes, MarkTypes, clockVars, probeVars, markVars
<1>3. StallTypes'
  BY <1>1 DEF tick_stalls, TypeInv, StallTypes, probeVars
<1>4. StepTypes'
  <2>1. pc' = "idle" /\ force' = force
    BY DEF tick_stalls
  <2>2. phase \in {"running", "stopping", "flushed"}
    BY DEF tick_stalls, TypeInv, StepTypes
  <2>3. phase' \in {"running", "stopping", "flushed", "done"}
    BY <2>2 DEF tick_stalls
  <2> QED BY <2>1, <2>3 DEF TypeInv, StepTypes
<1>5. IncidentTypes'
  <2>1. /\ incidents' \in Seq(Incident)
        /\ \A i \in 1 .. Len(incidents) : incidents'[i] = incidents[i]
        /\ \A i \in 1 .. Len(incidents') : i \notin 1 .. Len(incidents) =>
             i - Len(incidents) \in 1 .. Len(new) /\ incidents'[i] = new[i - Len(incidents)]
    BY <1>1, MoreIncidents DEF TypeInv, IncidentTypes
  <2>2. /\ drained' = drained /\ PendingOK /\ pending \subseteq drained
    BY TypesPending DEF tick_stalls, TypeInv, StallTypes
  <2>3. ASSUME NEW n \in 1 .. Len(new)
        PROVE  new[n].stalls \subseteq drained /\ new[n].stalls # {} /\ new[n].dur > 0
    <3>1. ready[n] \in Group /\ \E i \in 1 .. Len(Groups) : ready[n] = Groups[i]
      BY <1>1, <2>2, ReadyAre
    <3>2. Of(ready[n]) \subseteq pending /\ Of(ready[n]) # {}
      BY <2>2, <3>1, GroupIs DEF Group, Of
    <3> QED BY <1>1, <2>2, <3>2
  <2>4. \A i \in 1 .. Len(incidents') :
          incidents'[i].stalls \subseteq drained /\ incidents'[i].stalls # {} /\ incidents'[i].dur > 0
    BY <2>1, <2>3 DEF TypeInv, IncidentTypes
  <2> QED BY <2>1, <2>2, <2>4 DEF IncidentTypes
<1> QED BY <1>2, <1>3, <1>4, <1>5 DEF TypeInv

LEMMA NextTypes == TypeInv /\ [Next]_vars => TypeInv'
<1> SUFFICES ASSUME TypeInv, [Next]_vars PROVE TypeInv'
  OBVIOUS
<1>1. CASE Next
  BY <1>1, AdvanceTypes, TraceTypes, MarkNowTypes, RunTypes, ReaderTypes, StopTypes, TickTypes, ProcessTypes,
     StallsTypes DEF Next, Tick
<1>2. CASE UNCHANGED vars
  BY <1>2 DEF vars, clockVars, probeVars, stallVars, markVars, tickVars, runVars, TypeInv, ClockTypes, StallTypes,
              IncidentTypes, MarkTypes, StepTypes
<1> QED BY <1>1, <1>2

(* Every state the analyzer reaches is well-formed. *)
THEOREM TypeInvariant == Spec => []TypeInv
<1>1. Init => TypeInv
  BY InitTypes
<1>2. TypeInv /\ [Next]_vars => TypeInv'
  BY NextTypes
<1> QED BY <1>1, <1>2, PTL DEF Spec
(* In particular as TypeOK says. *)
THEOREM TypesHold == Spec => []TypeOK
<1>1. TypeInv => TypeOK
  <2> SUFFICES ASSUME TypeInv PROVE TypeOK
    OBVIOUS
  <2>1. /\ now \in Nat /\ latest_ts \in 0 .. now /\ tick_now \in 0 .. now /\ stop_at \in 0 .. now
        /\ woke \in [Probes -> 0 .. now]
    <3>1. \A p \in Probes : woke[p] \in 0 .. now
      BY DEF TypeInv, ClockTypes
    <3> QED BY <3>1 DEF TypeInv, ClockTypes
  <2>2. Report \subseteq Stall
    BY DEF Report
  <2>3. ASSUME NEW S, NEW q \in Seq(S)
        PROVE  IsSeqOf(q, S) /\ DOMAIN q = 1 .. Len(q)
    BY <2>3, LenProperties, ElementOfSeq DEF IsSeqOf
  <2>4. IsSeqOf(wire, Report) /\ IsSeqOf(rx, Report) /\ IsSeqOf(minor, Report)
    BY <2>3 DEF TypeInv, StallTypes
  <2>5. /\ IsSeqOf(wire, Stall) /\ IsSeqOf(rx, Stall) /\ IsSeqOf(minor, Stall)
        /\ pending \subseteq Stall /\ drained \subseteq Stall
    BY <2>2, <2>4 DEF TypeInv, StallTypes, IsSeqOf
  <2>6. \A i \in DOMAIN incidents :
          /\ incidents[i].class \in {"Freeze", "Kernel", "Starvation"}
          /\ incidents[i].stalls \subseteq drained /\ incidents[i].stalls # {}
          /\ incidents[i].dur > 0
    <3>1. incidents \in Seq(Incident)
      BY DEF TypeInv, IncidentTypes
    <3>2. IsSeqOf(incidents, Incident) /\ DOMAIN incidents = 1 .. Len(incidents)
      BY <2>3, <3>1
    <3>3. \A i \in 1 .. Len(incidents) : incidents[i].class \in {"Freeze", "Kernel", "Starvation"}
      BY <3>2 DEF IsSeqOf, Incident
    <3> QED BY <3>2, <3>3 DEF TypeInv, IncidentTypes
  <2>7. IsSeqOf(MARKS, 0 .. now) /\ IsSeqOf(marks_pending, 0 .. now)
    <3>1. MARKS \in Seq(Nat) /\ marks_pending \in Seq(Nat)
      BY DEF TypeInv, MarkTypes
    <3>2. /\ \A i \in DOMAIN MARKS : MARKS[i] \in Nat /\ MARKS[i] \in ToSet(MARKS)
          /\ \A i \in DOMAIN marks_pending : marks_pending[i] \in Nat /\ marks_pending[i] \in ToSet(marks_pending)
      BY <2>3, <3>1 DEF IsSeqOf, ToSet
    <3> QED BY <3>2, <2>1 DEF TypeInv, MarkTypes, IsSeqOf
  <2>8. /\ pc \in {"idle", "marks", "stalls"} /\ force \in BOOLEAN
        /\ phase \in {"running", "stopping", "flushed", "done"}
    BY DEF TypeInv, StepTypes
  <2> QED BY <2>1, <2>5, <2>6, <2>7, <2>8 DEF TypeOK
<1> QED BY <1>1, TypeInvariant, PTL

-----------------------------------------------------------------------------
(* Stalls are conserved.                                                   *)

(* No report is in two places at once: each carries the time its probe      *)
(* woke, and a probe that reports again woke later.                        *)
OnceInWire == \A i, j \in 1 .. Len(wire) : i # j => wire[i] # wire[j]

Once ==
  /\ OnceInWire
  /\ ToSet(wire) \cap ToSet(rx) = {}
  /\ (ToSet(wire) \cup ToSet(rx)) \cap drained = {}
  /\ \A s \in ToSet(wire) \cup ToSet(rx) \cup drained : s.end <= woke[s.cpu]

LEMMA InitOnce == Init => Once
<1> SUFFICES ASSUME Init PROVE Once
  OBVIOUS
<1>1. wire = <<>> /\ rx = <<>> /\ drained = {} /\ Len(wire) = 0
  BY DEF Init
<1>2. ToSet(wire) = {} /\ ToSet(rx) = {}
  BY <1>1 DEF ToSet
<1> QED BY <1>1, <1>2 DEF Once, OnceInWire

LEMMA RunOnce ==
  ASSUME TypeInv, Once, NEW p \in Probes, NEW start \in woke[p] .. now, run(p, start)
  PROVE  Once'
<1>0. PICK s : s = Late(p, start)
  OBVIOUS
<1>1. /\ s \in Report /\ s.cpu = p /\ s.end = now /\ woke[p] < now
      /\ \/ rx' = Append(rx, s) /\ wire' = wire
         \/ wire' = Append(wire, s) /\ rx' = rx
      /\ woke' = [woke EXCEPT ![p] = now]
  BY <1>0, RunIs
<1>2. drained' = drained
  BY DEF run, stallVars
<1>3. wire \in Seq(Report) /\ rx \in Seq(Report) /\ drained \subseteq Report
  BY DEF TypeInv, StallTypes
<1>4. ToSet(wire) \subseteq Report /\ ToSet(rx) \subseteq Report
  BY <1>3, MembersAre
<1>5. /\ woke \in [Probes -> Nat] /\ now \in Nat /\ \A c \in Probes : woke[c] <= now
  BY DEF TypeInv, ClockTypes
<1>6. s \notin ToSet(wire) \cup ToSet(rx) \cup drained
  <2>1. ~(s.end <= woke[s.cpu])
    BY <1>1, <1>5
  <2> QED BY <2>1 DEF Once
<1>7. ToSet(Append(rx, s)) = ToSet(rx) \cup {s} /\ ToSet(Append(wire, s)) = ToSet(wire) \cup {s}
  BY <1>1, <1>3, MembersOfAppend
<1>8. \A u \in Report : u.end <= woke[u.cpu] => u.end <= woke'[u.cpu]
  <2> SUFFICES ASSUME NEW u \in Report, u.end <= woke[u.cpu] PROVE u.end <= woke'[u.cpu]
    OBVIOUS
  <2>1. u.cpu \in Probes /\ u.end \in Nat
    BY ReportIs
  <2> QED BY <1>1, <1>5, <2>1
<1>9. s.end <= woke'[s.cpu]
  BY <1>1, <1>5
<1>10. ToSet(wire') \cup ToSet(rx') = ToSet(wire) \cup ToSet(rx) \cup {s}
  BY <1>1, <1>7
<1>11. \A u \in ToSet(wire') \cup ToSet(rx') \cup drained' : u.end <= woke'[u.cpu]
  <2>1. \A u \in ToSet(wire) \cup ToSet(rx) \cup drained : u \in Report /\ u.end <= woke[u.cpu]
    BY <1>3, <1>4 DEF Once
  <2> QED BY <2>1, <1>8, <1>9, <1>10, <1>2
<1>12. ToSet(wire') \cap ToSet(rx') = {} /\ (ToSet(wire') \cup ToSet(rx')) \cap drained' = {}
  BY <1>1, <1>2, <1>6, <1>7 DEF Once
<1>13. OnceInWire'
  <2>1. CASE wire' = wire
    BY <2>1 DEF Once, OnceInWire
  <2>2. CASE wire' = Append(wire, s)
    <3>1. /\ Len(wire') = Len(wire) + 1 /\ Len(wire) \in Nat
          /\ \A i \in 1 .. Len(wire) : wire'[i] = wire[i]
          /\ wire'[Len(wire) + 1] = s
      BY <1>1, <1>3, <2>2, PushSpec
    <3>2. \A i \in 1 .. Len(wire) : wire[i] # s
      BY <1>3, <1>6, MembersAre
    <3>3. \A i \in 1 .. Len(wire') : i \in 1 .. Len(wire) \/ i = Len(wire) + 1
      BY <3>1
    <3> QED BY <3>1, <3>2, <3>3 DEF Once, OnceInWire
  <2> QED BY <1>1, <2>1, <2>2
<1> QED BY <1>11, <1>12, <1>13 DEF Once

LEMMA ReaderOnce == ASSUME TypeInv, Once, probe_reader PROVE Once'
<1>1. wire \in Seq(Report) /\ rx \in Seq(Report) /\ wire # <<>>
  BY DEF TypeInv, StallTypes, probe_reader
<1>2. wire' = Tail(wire) /\ rx' = Append(rx, Head(wire)) /\ drained' = drained /\ woke' = woke
  BY DEF probe_reader, stallVars
<1>3. /\ Tail(wire) \in Seq(Report) /\ Head(wire) \in Report
      /\ ToSet(wire) = {Head(wire)} \cup ToSet(Tail(wire))
      /\ Head(wire) = wire[1] /\ 1 \in 1 .. Len(wire)
      /\ Len(Tail(wire)) = Len(wire) - 1 /\ \A i \in 1 .. Len(Tail(wire)) : Tail(wire)[i] = wire[i + 1]
  BY <1>1, MembersOfTail
<1>4. ToSet(rx') = ToSet(rx) \cup {Head(wire)}
  BY <1>1, <1>2, <1>3, MembersOfAppend
<1>5. Len(wire) \in Nat
  BY <1>1, LenProperties
<1>6. \A i \in 1 .. Len(Tail(wire)) : i + 1 \in 1 .. Len(wire) /\ i + 1 # 1
  BY <1>3, <1>5
<1>7. OnceInWire'
  <2>1. \A i, j \in 1 .. Len(Tail(wire)) : i # j => wire[i + 1] # wire[j + 1]
    <3> SUFFICES ASSUME NEW i \in 1 .. Len(Tail(wire)), NEW j \in 1 .. Len(Tail(wire)), i # j
                 PROVE  wire[i + 1] # wire[j + 1]
      OBVIOUS
    <3>1. i + 1 # j + 1
      OBVIOUS
    <3> QED BY <3>1, <1>6 DEF Once, OnceInWire
  <2> QED BY <2>1, <1>2, <1>3 DEF OnceInWire
<1>8. Head(wire) \notin ToSet(wire')
  <2>1. \A i \in 1 .. Len(Tail(wire)) : Tail(wire)[i] # Head(wire)
    BY <1>3, <1>6 DEF Once, OnceInWire
  <2>2. ToSet(Tail(wire)) = {Tail(wire)[i] : i \in 1 .. Len(Tail(wire))}
    BY <1>3, MembersAre
  <2> QED BY <2>1, <2>2, <1>2
<1>9. ToSet(wire') \cup ToSet(rx') = ToSet(wire) \cup ToSet(rx)
  BY <1>2, <1>3, <1>4
<1>10. ToSet(wire') \cap ToSet(rx') = {}
  BY <1>2, <1>3, <1>4, <1>8 DEF Once
<1> QED BY <1>2, <1>7, <1>9, <1>10 DEF Once

LEMMA StopOnce == ASSUME TypeInv, Once, Stop PROVE Once'
<1>1. wire \in Seq(Report)
  BY DEF TypeInv, StallTypes
<1>2. PICK n \in 0 .. Len(wire) : wire' = SubSeq(wire, 1, n)
  BY DEF Stop
<1>3. /\ wire' \in Seq(Report) /\ Len(wire') = n
      /\ \A i \in 1 .. n : wire'[i] = wire[i] /\ i \in 1 .. Len(wire)
  BY <1>1, <1>2, FirstPart
<1>4. ToSet(wire') \subseteq ToSet(wire)
  <2>1. ToSet(wire') = {wire'[i] : i \in 1 .. Len(wire')} /\ ToSet(wire) = {wire[i] : i \in 1 .. Len(wire)}
    BY <1>1, <1>3, MembersAre
  <2> QED BY <2>1, <1>3
<1>5. drained' = drained /\ woke' = woke /\ rx' = rx
  BY DEF Stop, stallVars
<1>6. OnceInWire'
  BY <1>3 DEF Once, OnceInWire
<1> QED BY <1>4, <1>5, <1>6 DEF Once

LEMMA TickOnce == ASSUME TypeInv, Once, NEW f \in BOOLEAN, tick(f) PROVE Once'
<1>1. drained' = drained \cup ToSet(rx) /\ rx' = <<>>
  BY TickIs
<1>2. wire' = wire /\ woke' = woke
  BY DEF tick, probeVars
<1>3. ToSet(rx') = {}
  BY <1>1 DEF ToSet
<1>4. OnceInWire'
  BY <1>2 DEF Once, OnceInWire
<1> QED BY <1>1, <1>2, <1>3, <1>4 DEF Once

LEMMA OnceStays == ASSUME Once, UNCHANGED <<wire, rx, drained, woke>> PROVE Once'
  BY DEF Once, OnceInWire

LEMMA NextOnce == TypeInv /\ Once /\ [Next]_vars => Once'
<1> SUFFICES ASSUME TypeInv, Once, [Next]_vars PROVE Once'
  OBVIOUS
<1>1. CASE Advance \/ (\E ts \in 1 .. now : Trace(ts)) \/ mark_now \/ process_marks \/ tick_stalls
  BY <1>1, OnceStays DEF Advance, Trace, mark_now, process_marks, tick_stalls, probeVars, stallVars
<1>2. CASE \E p \in Probes : \E start \in woke[p] .. now : run(p, start)
  BY <1>2, RunOnce
<1>3. CASE probe_reader
  BY <1>3, ReaderOnce
<1>4. CASE Stop
  BY <1>4, StopOnce
<1>5. CASE \E f \in BOOLEAN : tick(f)
  BY <1>5, TickOnce
<1>6. CASE UNCHANGED vars
  BY <1>6, OnceStays DEF vars, probeVars, stallVars
<1> QED BY <1>1, <1>2, <1>3, <1>4, <1>5, <1>6 DEF Next, Tick

(* Answering marks files only marked incidents... *)
LEMMA FiledStays ==
  ASSUME TypeInv, process_marks
  PROVE  Filed' = Filed /\ \A i \in Filed : incidents'[i] = incidents[i]
<1>1. PICK ans, new : Answered(Line, ans, new)
  BY ProcessIs
<1>2. /\ incidents' = incidents \o new /\ new \in Seq(Incident)
      /\ \A n \in 1 .. Len(new) : new[n].marked
  BY <1>1 DEF Answered
<1>3. incidents \in Seq(Incident)
  BY DEF TypeInv, IncidentTypes
<1>4. /\ incidents' \in Seq(Incident) /\ Len(incidents') = Len(incidents) + Len(new)
      /\ Len(incidents) \in Nat /\ Len(new) \in Nat
      /\ \A i \in 1 .. Len(incidents) : incidents'[i] = incidents[i]
      /\ \A i \in 1 .. Len(incidents') : i \notin 1 .. Len(incidents) =>
           i - Len(incidents) \in 1 .. Len(new) /\ incidents'[i] = new[i - Len(incidents)]
  BY <1>2, <1>3, MoreIncidents
<1>5. DOMAIN incidents = 1 .. Len(incidents) /\ DOMAIN incidents' = 1 .. Len(incidents')
  BY <1>3, <1>4, LenProperties
<1>6. \A i \in 1 .. Len(incidents) : i \in 1 .. Len(incidents')
  BY <1>4
<1> QED BY <1>2, <1>4, <1>5, <1>6 DEF Filed

(* ...and filing stalls adds those of the groups that are ready. *)
LEMMA FiledGrow ==
  ASSUME TypeInv, NEW ready, NEW new, Files(ready, new)
  PROVE  /\ \A i \in Filed : i \in Filed' /\ incidents'[i] = incidents[i]
         /\ \A i \in Filed' : i \in Filed \/ \E n \in 1 .. Len(ready) :
              i = Len(incidents) + n /\ incidents'[i].stalls = Of(ready[n])
         /\ \A n \in 1 .. Len(ready) :
              Len(incidents) + n \in Filed' /\ incidents'[Len(incidents) + n].stalls = Of(ready[n])
<1>2. /\ incidents' = incidents \o new /\ new \in Seq(Incident) /\ Len(new) = Len(ready)
      /\ \A n \in 1 .. Len(ready) : new[n].stalls = Of(ready[n]) /\ ~new[n].marked
  BY DEF Files
<1>3. incidents \in Seq(Incident)
  BY DEF TypeInv, IncidentTypes
<1>4. /\ incidents' \in Seq(Incident) /\ Len(incidents') = Len(incidents) + Len(new)
      /\ Len(incidents) \in Nat /\ Len(new) \in Nat
      /\ \A i \in 1 .. Len(incidents) : incidents'[i] = incidents[i]
      /\ \A i \in 1 .. Len(new) : incidents'[Len(incidents) + i] = new[i]
      /\ \A i \in 1 .. Len(incidents') : i \notin 1 .. Len(incidents) =>
           i - Len(incidents) \in 1 .. Len(new) /\ incidents'[i] = new[i - Len(incidents)]
  BY <1>2, <1>3, MoreIncidents
<1>5. DOMAIN incidents = 1 .. Len(incidents) /\ DOMAIN incidents' = 1 .. Len(incidents')
  BY <1>3, <1>4, LenProperties
<1>6. \A i \in 1 .. Len(incidents) : i \in 1 .. Len(incidents')
  BY <1>4
<1>7. \A i \in Filed : i \in Filed' /\ incidents'[i] = incidents[i]
  BY <1>4, <1>5, <1>6 DEF Filed
<1>8. ASSUME NEW i \in Filed', i \notin Filed
      PROVE  \E n \in 1 .. Len(ready) : i = Len(incidents) + n /\ incidents'[i].stalls = Of(ready[n])
  <2>1. i \in 1 .. Len(incidents') /\ ~incidents'[i].marked
    BY <1>5 DEF Filed
  <2>2. i \notin 1 .. Len(incidents)
    BY <1>4, <1>5, <1>8, <2>1 DEF Filed
  <2>3. i - Len(incidents) \in 1 .. Len(ready) /\ incidents'[i] = new[i - Len(incidents)]
    BY <1>2, <1>4, <2>1, <2>2
  <2>4. i = Len(incidents) + (i - Len(incidents))
    BY <1>4, <2>1
  <2> QED BY <1>2, <2>3, <2>4
<1>9. ASSUME NEW n \in 1 .. Len(ready)
      PROVE  Len(incidents) + n \in Filed' /\ incidents'[Len(incidents) + n].stalls = Of(ready[n])
  <2>1. incidents'[Len(incidents) + n] = new[n]
    BY <1>2, <1>4
  <2>2. Len(incidents) + n \in 1 .. Len(incidents')
    BY <1>2, <1>4
  <2> QED BY <1>2, <1>5, <2>1, <2>2 DEF Filed
<1> QED BY <1>7, <1>8, <1>9

(* What an incident was filed for has been received. *)
LEMMA FiledDrained ==
  ASSUME TypeInv, NEW i \in Filed
  PROVE  incidents[i].stalls \subseteq drained /\ incidents[i].stalls # {} /\ i \in 1 .. Len(incidents)
         /\ incidents[i].stalls \subseteq Report /\ IsFiniteSet(incidents[i].stalls)
<1>1. incidents \in Seq(Incident) /\ drained \subseteq Report /\ IsFiniteSet(drained)
  BY DEF TypeInv, IncidentTypes, StallTypes
<1>2. i \in 1 .. Len(incidents)
  BY <1>1, LenProperties DEF Filed
<1>3. incidents[i].stalls \subseteq drained /\ incidents[i].stalls # {}
  BY <1>2 DEF TypeInv, IncidentTypes
<1>4. incidents[i].stalls \in SUBSET drained
  BY <1>3
<1> QED BY <1>1, <1>2, <1>3, <1>4, FS_Subset

LEMMA TickConserves ==
  ASSUME TypeInv, Once, StallsConserved, NEW f \in BOOLEAN, tick(f)
  PROVE  StallsConserved'
<1>1. /\ pending' = pending \cup {s \in ToSet(rx) : ~s.minor}
      /\ drained' = drained \cup ToSet(rx)
  BY TickIs
<1>2. incidents' = incidents
  BY DEF tick
<1>3. Filed' = Filed
  BY <1>2 DEF Filed
<1>4. ToSet(rx) \cap drained = {}
  BY DEF Once
<1>5. {s \in drained' : ~s.minor} = {s \in drained : ~s.minor} \cup {s \in ToSet(rx) : ~s.minor}
  BY <1>1
<1>6. pending' \cup UNION {incidents'[i].stalls : i \in Filed'} = {s \in drained' : ~s.minor}
  <2>1. PICK all : all = UNION {incidents[i].stalls : i \in Filed}
    OBVIOUS
  <2>2. UNION {incidents'[i].stalls : i \in Filed'} = all
    BY <1>2, <1>3, <2>1
  <2>3. pending \cup all = {s \in drained : ~s.minor}
    BY <2>1 DEF StallsConserved
  <2> QED BY <1>1, <1>5, <2>2, <2>3
<1>7. ASSUME NEW i \in Filed
      PROVE  /\ incidents[i].stalls \cap pending' = {}
             /\ \A j \in Filed : i # j => incidents[i].stalls \cap incidents[j].stalls = {}
  <2>1. incidents[i].stalls \subseteq drained
    BY FiledDrained
  <2>2. incidents[i].stalls \cap pending = {}
    BY DEF StallsConserved
  <2>3. incidents[i].stalls \cap pending' = {}
    BY <1>1, <1>4, <2>1, <2>2
  <2> QED BY <2>3 DEF StallsConserved
<1>8. \A i \in Filed' : /\ incidents'[i].stalls \cap pending' = {}
                        /\ \A j \in Filed' : i # j => incidents'[i].stalls \cap incidents'[j].stalls = {}
  BY <1>2, <1>3, <1>7
<1> QED BY <1>6, <1>8 DEF StallsConserved

LEMMA StallsConserve ==
  ASSUME TypeInv, StallsConserved, tick_stalls
  PROVE  StallsConserved'
<1>0. PICK ready, new : Files(ready, new)
  BY StallsIs
<1>1. /\ ready = ReadyGroups
      /\ pending' = pending \ UNION {Of(ready[n]) : n \in 1 .. Len(ready)}
  BY <1>0 DEF Files
<1>2. drained' = drained
  BY DEF tick_stalls
<1>3. PendingOK
  BY TypesPending
<1>4. /\ \A n \in 1 .. Len(ready) : Of(ready[n]) \subseteq pending
      /\ \A n, m \in 1 .. Len(ready) : n # m => Of(ready[n]) \cap Of(ready[m]) = {}
  <2>1. /\ ready \in Seq(Group)
        /\ \A n \in 1 .. Len(ready) : ready[n] \in Group
        /\ \A n, m \in 1 .. Len(ready) : n # m => Of(ready[n]) \cap Of(ready[m]) = {}
    BY <1>1, <1>3, ReadyAre
  <2> QED BY <2>1 DEF Group, Of
<1>5. /\ \A i \in Filed : i \in Filed' /\ incidents'[i] = incidents[i]
      /\ \A i \in Filed' : i \in Filed \/ \E n \in 1 .. Len(ready) :
           i = Len(incidents) + n /\ incidents'[i].stalls = Of(ready[n])
      /\ \A n \in 1 .. Len(ready) :
           Len(incidents) + n \in Filed' /\ incidents'[Len(incidents) + n].stalls = Of(ready[n])
  BY <1>0, FiledGrow
<1>6. PICK gone : gone = UNION {Of(ready[n]) : n \in 1 .. Len(ready)}
  OBVIOUS
<1>a. PICK all : all = UNION {incidents[i].stalls : i \in Filed}
  OBVIOUS
<1>b. PICK all1 : all1 = UNION {incidents'[i].stalls : i \in Filed'}
  OBVIOUS
<1>7. all1 = all \cup gone
  <2>1. ASSUME NEW i \in Filed', NEW s \in incidents'[i].stalls
        PROVE  s \in all \cup gone
    <3>1. CASE i \in Filed
      BY <3>1, <1>5, <1>a
    <3>2. CASE i \notin Filed
      <4>1. PICK n \in 1 .. Len(ready) : incidents'[i].stalls = Of(ready[n])
        BY <3>2, <1>5
      <4>2. s \in Of(ready[n])
        BY <4>1
      <4>3. s \in gone
        BY <4>2, <1>6
      <4> QED BY <4>3
    <3> QED BY <3>1, <3>2
  <2>2. ASSUME NEW i \in Filed, NEW s \in incidents[i].stalls
        PROVE  s \in all1
    <3>1. i \in Filed' /\ s \in incidents'[i].stalls
      BY <1>5
    <3> QED BY <3>1, <1>b
  <2>3. ASSUME NEW n \in 1 .. Len(ready), NEW s \in Of(ready[n])
        PROVE  s \in all1
    <3>1. PICK j : j = Len(incidents) + n
      OBVIOUS
    <3>2. j \in Filed' /\ s \in incidents'[j].stalls
      BY <3>1, <1>5
    <3> QED BY <3>2, <1>b
  <2>4. \A s \in all1 : s \in all \cup gone
    BY <2>1, <1>b
  <2>5. \A s \in all : s \in all1
    BY <2>2, <1>a
  <2>6. \A s \in gone : s \in all1
    BY <2>3, <1>6
  <2> QED BY <2>4, <2>5, <2>6
<1>8. gone \subseteq pending
  BY <1>4, <1>6
<1>9. pending' \cup UNION {incidents'[i].stalls : i \in Filed'} = {s \in drained' : ~s.minor}
  <2>2. pending \cup all = {s \in drained : ~s.minor}
    BY <1>a DEF StallsConserved
  <2>4. pending' = pending \ gone
    BY <1>1, <1>6
  <2>5. pending' \cup all1 = pending \cup all
    BY <2>4, <1>7, <1>8
  <2>6. pending' \cup all1 = {s \in drained' : ~s.minor}
    BY <2>2, <2>5, <1>2
  <2> QED BY <2>6, <1>b
<1>10. ASSUME NEW i \in Filed'
       PROVE  /\ incidents'[i].stalls \cap pending' = {}
              /\ \A j \in Filed' : i # j => incidents'[i].stalls \cap incidents'[j].stalls = {}
  <2>1. CASE i \in Filed
    <3>1. incidents'[i].stalls = incidents[i].stalls /\ incidents[i].stalls \cap pending = {}
      BY <2>1, <1>5 DEF StallsConserved
    <3>2. ASSUME NEW j \in Filed', i # j
          PROVE  incidents'[i].stalls \cap incidents'[j].stalls = {}
      <4>1. CASE j \in Filed
        BY <2>1, <3>2, <4>1, <1>5 DEF StallsConserved
      <4>2. CASE j \notin Filed
        <5>1. PICK n \in 1 .. Len(ready) : incidents'[j].stalls = Of(ready[n])
          BY <4>2, <1>5
        <5> QED BY <3>1, <5>1, <1>4
      <4> QED BY <4>1, <4>2
    <3> QED BY <3>1, <3>2, <1>1
  <2>2. CASE i \notin Filed
    <3>1. PICK n \in 1 .. Len(ready) : i = Len(incidents) + n /\ incidents'[i].stalls = Of(ready[n])
      BY <2>2, <1>5
    <3>2. ASSUME NEW j \in Filed', i # j
          PROVE  incidents'[i].stalls \cap incidents'[j].stalls = {}
      <4>1. CASE j \in Filed
        <5>1. incidents'[j].stalls \cap pending = {}
          BY <4>1, <1>5 DEF StallsConserved
        <5> QED BY <5>1, <3>1, <1>4
      <4>2. CASE j \notin Filed
        <5>1. PICK m \in 1 .. Len(ready) : j = Len(incidents) + m /\ incidents'[j].stalls = Of(ready[m])
          BY <4>2, <1>5
        <5>2. n # m
          BY <3>1, <3>2, <5>1
        <5> QED BY <3>1, <5>1, <5>2, <1>4
      <4> QED BY <4>1, <4>2
    <3> QED BY <3>1, <3>2, <1>1
  <2> QED BY <2>1, <2>2
<1> QED BY <1>9, <1>10 DEF StallsConserved

LEMMA ProcessConserves ==
  ASSUME TypeInv, StallsConserved, process_marks
  PROVE  StallsConserved'
<1>1. Filed' = Filed /\ \A i \in Filed : incidents'[i] = incidents[i]
  BY FiledStays
<1>2. pending' = pending /\ drained' = drained
  BY DEF process_marks, stallVars
<1>3. UNION {incidents'[i].stalls : i \in Filed'} = UNION {incidents[i].stalls : i \in Filed}
  BY <1>1
<1> QED BY <1>1, <1>2, <1>3 DEF StallsConserved

LEMMA ConservedStays == ASSUME StallsConserved, UNCHANGED <<pending, drained, incidents>> PROVE StallsConserved'
  BY DEF StallsConserved, Filed

(* A full stall the analyzer has received is waiting or in exactly one      *)
(* incident, through every merge, split and pairing of clusters.           *)
THEOREM StallsAreConserved == Spec => []StallsConserved
<1>1. Init => StallsConserved
  <2> SUFFICES ASSUME Init PROVE StallsConserved
    OBVIOUS
  <2>1. pending = {} /\ drained = {} /\ incidents = <<>>
    BY DEF Init
  <2>2. Filed = {}
    BY <2>1 DEF Filed
  <2> QED BY <2>1, <2>2 DEF StallsConserved
<1>2. TypeInv /\ Once /\ StallsConserved /\ [Next]_vars => StallsConserved'
  <2> SUFFICES ASSUME TypeInv, Once, StallsConserved, [Next]_vars PROVE StallsConserved'
    OBVIOUS
  <2>1. CASE Advance \/ (\E ts \in 1 .. now : Trace(ts)) \/ mark_now
    BY <2>1, ConservedStays DEF Advance, Trace, mark_now, stallVars
  <2>2. CASE (\E p \in Probes : \E start \in woke[p] .. now : run(p, start)) \/ probe_reader \/ Stop
    BY <2>2, ConservedStays DEF run, probe_reader, Stop, stallVars
  <2>3. CASE \E f \in BOOLEAN : tick(f)
    BY <2>3, TickConserves
  <2>4. CASE process_marks
    BY <2>4, ProcessConserves
  <2>5. CASE tick_stalls
    BY <2>5, StallsConserve
  <2>6. CASE UNCHANGED vars
    BY <2>6, ConservedStays DEF vars, stallVars
  <2> QED BY <2>1, <2>2, <2>3, <2>4, <2>5, <2>6 DEF Next, Tick
<1> QED BY <1>1, <1>2, TypeInvariant, InitOnce, NextOnce, PTL DEF Spec

-----------------------------------------------------------------------------
(* Flagged moments keep their place.                                       *)

(* A set of positions that has all the earlier ones is a first part. *)
LEMMA FirstOnes ==
  ASSUME NEW n \in Nat, NEW I, I \subseteq 1 .. n, \A i \in I : \A j \in 1 .. i : j \in I
  PROVE  \E k \in 0 .. n : I = 1 .. k
<1> DEFINE T == {j \in 0 .. n : j = n \/ j + 1 \notin I}
<1>1. T \subseteq Nat /\ n \in T
  OBVIOUS
<1>2. PICK m \in T : \A j \in T : m <= j
  BY <1>1, LeastNatural
<1>3. m \in 0 .. n /\ (m = n \/ m + 1 \notin I)
  BY <1>2
<1>4. ASSUME NEW i \in 1 .. m
      PROVE  i \in I
  <2>1. i - 1 \in 0 .. n /\ ~(m <= i - 1) /\ i - 1 # n /\ (i - 1) + 1 = i
    BY <1>3
  <2>2. i - 1 \notin T
    <3> HIDE DEF T
    <3> QED BY <2>1, <1>2
  <2> QED BY <2>1, <2>2
<1>5. ASSUME NEW i \in I
      PROVE  i \in 1 .. m
  <2> SUFFICES ASSUME i > m PROVE FALSE
    BY <1>3
  <2>1. i \in 1 .. n
    OBVIOUS
  <2>2. m # n /\ m + 1 \in 1 .. i
    BY <1>3, <2>1
  <2> QED BY <2>2, <1>3
<1> QED BY <1>3, <1>4, <1>5

LEMMA PrefixOfConcat ==
  ASSUME NEW S, NEW q \in Seq(S), NEW r \in Seq(S)
  PROVE  IsPrefix(q, q \o r) /\ IsPrefix(q, q)
<1>1. Len(q) \in Nat /\ Len(r) \in Nat /\ Len(q \o r) = Len(q) + Len(r)
  BY LenProperties, ConcatProperties
<1>2. SubSeq(q \o r, 1, Len(q)) = SubSeq(q, 1, Len(q))
  <2>1. CASE Len(q) = 0
    <3>1. Len(q) < 1 /\ 1 \in Int /\ Len(q) \in Int
      BY <2>1
    <3> QED BY <3>1, SubSeqEmpty
  <2>2. CASE Len(q) # 0
    <3>1. 1 \in 1 .. Len(q) /\ Len(q) \in 1 .. Len(q)
      BY <2>2, <1>1
    <3> QED BY <3>1, SubSeqOfConcat1
  <2> QED BY <2>1, <2>2
<1> QED BY <1>1, <1>2 DEF IsPrefix

(* Who is waiting for an answer waits in the order of the flags. *)
InLine == \A i, j \in 1 .. Len(Line) : i <= j => Line[i] <= Line[j]

LEMMA LineOfNow == ASSUME TypeInv PROVE \A i \in 1 .. Len(Line) : Line[i] \in Nat /\ Line[i] <= now
<1>1. Line \in Seq(Nat) /\ ToSet(Line) = ToSet(marks_pending) \cup ToSet(MARKS)
  BY LineIs DEF TypeInv
<1>2. ToSet(Line) = {Line[i] : i \in 1 .. Len(Line)}
  BY <1>1, MembersAre
<1>3. \A t \in ToSet(Line) : t <= now
  BY <1>1 DEF TypeInv, MarkTypes
<1> QED BY <1>1, <1>2, <1>3, ElementOfSeq

(* A flag goes to the end of the line... *)
LEMMA LineGrows == ASSUME TypeInv, mark_now PROVE Line' = Append(Line, now)
<1>1. MARKS' = Append(MARKS, now) /\ marks_pending' = marks_pending /\ now \in Nat
  BY DEF mark_now, markVars, TypeInv, ClockTypes
<1>2. MARKS \in Seq(Nat) /\ marks_pending \in Seq(Nat) /\ <<now>> \in Seq(Nat)
  BY <1>1 DEF TypeInv, MarkTypes
<1>3. Append(MARKS, now) = MARKS \o <<now>>
  BY <1>1, <1>2, AppendIsConcat
<1>4. (marks_pending \o MARKS) \o <<now>> = marks_pending \o (MARKS \o <<now>>)
  BY <1>2, ConcatAssociative
<1>5. marks_pending \o MARKS \in Seq(Nat)
  BY <1>2, ConcatProperties
<1>6. Append(marks_pending \o MARKS, now) = (marks_pending \o MARKS) \o <<now>>
  BY <1>1, <1>5, AppendIsConcat
<1> QED BY <1>1, <1>3, <1>4, <1>6 DEF Line

(* ...and those who are answered are the first of it. *)
LEMMA RipeFirst ==
  ASSUME TypeInv, InLine
  PROVE  \E k \in 0 .. Len(Line) : Ripe(Line) = 1 .. k /\ DOMAIN Line \ Ripe(Line) = k + 1 .. Len(Line)
<1>1. Line \in Seq(Nat)
  BY LineIs DEF TypeInv
<1>2. Len(Line) \in Nat /\ DOMAIN Line = 1 .. Len(Line)
  BY <1>1, LenProperties
<1>3. \A i \in 1 .. Len(Line) : Line[i] \in Nat
  BY LineOfNow
<1>4. ASSUME NEW i \in Ripe(Line), NEW j \in 1 .. i
      PROVE  j \in Ripe(Line)
  <2>1. i \in 1 .. Len(Line) /\ j \in 1 .. Len(Line) /\ j <= i /\ MarkIsRipe(Line[i])
    BY <1>2 DEF Ripe
  <2>2. Line[j] <= Line[i] /\ Line[i] \in Nat /\ Line[j] \in Nat
    BY <2>1, <1>3 DEF InLine
  <2>3. now \in Nat /\ latest_ts \in Nat /\ {MarkAfter, CaughtUp, MarkRipe, MarkGiveUp} \subseteq Nat
    BY AnalyzerAssumption DEF TypeInv, ClockTypes
  <2>4. MarkIsRipe(Line[j])
    BY SMTT(30), <2>1, <2>2, <2>3 DEF MarkIsRipe
  <2> QED BY <2>1, <2>4, <1>2 DEF Ripe
<1>5. Ripe(Line) \subseteq 1 .. Len(Line)
  BY <1>2 DEF Ripe
<1>6. PICK k \in 0 .. Len(Line) : Ripe(Line) = 1 .. k
  BY <1>2, <1>4, <1>5, FirstOnes
<1>7. DOMAIN Line \ Ripe(Line) = k + 1 .. Len(Line)
  BY <1>2, <1>6
<1> QED BY <1>6, <1>7

LEMMA ProcessLine ==
  ASSUME TypeInv, InLine, process_marks, NEW ans, NEW new, Answered(Line, ans, new)
  PROVE  \E k \in 0 .. Len(Line) :
           /\ At(Line, Ripe(Line)) \o marks_pending' = Line
           /\ Line' = marks_pending' /\ marks_pending' = SubSeq(Line, k + 1, Len(Line))
           /\ At(Line, Ripe(Line)) \in Seq(Nat) /\ marks_pending' \in Seq(Nat)
<1>1. Line \in Seq(Nat)
  BY LineIs DEF TypeInv
<1>2. PICK k \in 0 .. Len(Line) : Ripe(Line) = 1 .. k /\ DOMAIN Line \ Ripe(Line) = k + 1 .. Len(Line)
  BY RipeFirst
<1>3. marks_pending' = At(Line, k + 1 .. Len(Line)) /\ MARKS' = <<>>
  BY <1>2 DEF Answered, process_marks
<1>4. /\ At(Line, k + 1 .. Len(Line)) = SubSeq(Line, k + 1, Len(Line))
      /\ At(Line, 1 .. k) \o At(Line, k + 1 .. Len(Line)) = Line
  BY <1>1, <1>2, SplitAt
<1>5. Len(Line) \in Nat /\ DOMAIN Line = 1 .. Len(Line)
  BY <1>1, LenProperties
<1>6. At(Line, 1 .. k) \in Seq(Nat) /\ At(Line, k + 1 .. Len(Line)) \in Seq(Nat)
  <2>1. 1 .. k \subseteq DOMAIN Line /\ k + 1 .. Len(Line) \subseteq DOMAIN Line
    BY <1>2, <1>5
  <2> QED BY <2>1, <1>1, MembersAt
<1>7. Line' = marks_pending'
  BY <1>3, <1>6, ConcatEmptySeq DEF Line
<1> QED BY <1>2, <1>3, <1>4, <1>6, <1>7

LEMMA InLineStays == ASSUME InLine, UNCHANGED <<marks_pending, MARKS>> PROVE InLine'
  BY DEF InLine, Line

LEMMA NextInLine == TypeInv /\ InLine /\ [Next]_vars => InLine'
<1> SUFFICES ASSUME TypeInv, InLine, [Next]_vars PROVE InLine'
  OBVIOUS
<1>1. CASE Advance \/ (\E ts \in 1 .. now : Trace(ts)) \/ tick_stalls \/ (\E f \in BOOLEAN : tick(f))
  BY <1>1, InLineStays DEF Advance, Trace, tick_stalls, tick, markVars
<1>2. CASE (\E p \in Probes : \E start \in woke[p] .. now : run(p, start)) \/ probe_reader \/ Stop
  BY <1>2, InLineStays DEF run, probe_reader, Stop, markVars
<1>3. CASE mark_now
  <2>1. Line' = Append(Line, now)
    BY <1>3, LineGrows
  <2>2. Line \in Seq(Nat) /\ now \in Nat
    BY LineIs DEF TypeInv, ClockTypes
  <2>3. /\ Len(Line') = Len(Line) + 1 /\ Len(Line) \in Nat
        /\ \A i \in 1 .. Len(Line) : Line'[i] = Line[i]
        /\ Line'[Len(Line) + 1] = now
    BY <2>1, <2>2, PushSpec
  <2>4. ASSUME NEW i \in 1 .. Len(Line'), NEW j \in 1 .. Len(Line'), i <= j
        PROVE  Line'[i] <= Line'[j]
    <3>1. CASE j \in 1 .. Len(Line)
      <4>1. i \in 1 .. Len(Line)
        BY <3>1, <2>3, <2>4
      <4> QED BY <3>1, <4>1, <2>3, <2>4 DEF InLine
    <3>2. CASE j \notin 1 .. Len(Line)
      <4>1. j = Len(Line) + 1 /\ (i \in 1 .. Len(Line) \/ i = Len(Line) + 1)
        BY <3>2, <2>3
      <4> QED BY <4>1, <2>2, <2>3, LineOfNow
    <3> QED BY <3>1, <3>2
  <2> QED BY <2>4 DEF InLine
<1>4. CASE process_marks
  <2>1. PICK ans, new : Answered(Line, ans, new)
    BY <1>4, ProcessIs
  <2>2. PICK k \in 0 .. Len(Line) : Line' = SubSeq(Line, k + 1, Len(Line))
    BY <1>4, <2>1, ProcessLine
  <2>3. Line \in Seq(Nat)
    BY LineIs DEF TypeInv
  <2>4. Len(Line) \in Nat /\ k + 1 \in Int /\ \A i \in k + 1 .. Len(Line) : Line[i] \in Nat
    BY <2>2, <2>3, LenProperties, ElementOfSeq
  <2>5. /\ Len(Line') = Len(Line) - k
        /\ \A i \in 1 .. Len(Line) - k : Line'[i] = Line[k + i]
    <3>1. Len(Line) \in Int
      BY <2>4
    <3>2. /\ Len(Line') = IF k + 1 <= Len(Line) THEN Len(Line) - (k + 1) + 1 ELSE 0
          /\ \A i \in 1 .. Len(Line) - (k + 1) + 1 : Line'[i] = Line[(k + 1) + i - 1]
      BY <2>2, <2>4, <3>1, SubSeqProperties
    <3>3. k \in Int /\ k <= Len(Line) /\ Len(Line) - (k + 1) + 1 = Len(Line) - k
      BY <2>4
    <3>4. Len(Line') = Len(Line) - k
      <4>1. Len(Line') = IF k + 1 <= Len(Line) THEN Len(Line) - k ELSE 0
        BY <3>2, <3>3
      <4>2. CASE k + 1 <= Len(Line)
        BY <4>1, <4>2
      <4>3. CASE ~(k + 1 <= Len(Line))
        <5>0. PICK l \in Int : l = Len(Line)
          BY <3>1
        <5>1. k <= l /\ ~(k + 1 <= l) /\ k \in Int
          BY <5>0, <4>3, <3>3
        <5>2. l - k = 0
          BY <5>1
        <5> QED BY <4>1, <4>3, <5>0, <5>2
      <4> QED BY <4>2, <4>3
    <3>5. \A i \in 1 .. Len(Line) - k : (k + 1) + i - 1 = k + i
      BY <3>3, <3>1
    <3>6. \A i \in 1 .. Len(Line) - k : Line'[i] = Line[(k + 1) + i - 1]
      BY <3>2, <3>3
    <3> QED BY <3>4, <3>5, <3>6
  <2>6. ASSUME NEW i \in 1 .. Len(Line'), NEW j \in 1 .. Len(Line'), i <= j
        PROVE  Line'[i] <= Line'[j]
    <3>1. k + i \in 1 .. Len(Line) /\ k + j \in 1 .. Len(Line) /\ k + i <= k + j
      BY <2>4, <2>5, <2>6
    <3> QED BY <3>1, <2>5 DEF InLine
  <2> QED BY <2>6 DEF InLine
<1>5. CASE UNCHANGED vars
  BY <1>5, InLineStays DEF vars, markVars
<1> QED BY <1>1, <1>2, <1>3, <1>4, <1>5 DEF Next, Tick

LEMMA InitInLine == Init => InLine
<1> SUFFICES ASSUME Init PROVE InLine
  OBVIOUS
<1>1. Line = <<>>
  BY DEF Init, Line
<1>2. Len(Line) = 0
  BY <1>1
<1> QED BY <1>2 DEF InLine

Told == [i \in DOMAIN examined |-> examined[i].t]

LEMMA ToldIs ==
  ASSUME NEW q \in Seq(Answer)
  PROVE  [i \in DOMAIN q |-> q[i].t] \in Seq(Nat)
<1>0. \A i \in 1 .. Len(q) : q[i] \in Answer
  BY ElementOfSeq
<1>1. DOMAIN q = 1 .. Len(q) /\ Len(q) \in Nat /\ \A i \in 1 .. Len(q) : q[i].t \in Nat
  BY <1>0, LenProperties DEF Answer
<1>2. [i \in DOMAIN q |-> q[i].t] \in [1 .. Len(q) -> Nat]
  BY <1>1
<1> QED BY <1>1, <1>2

LEMMA MarkLineIs == ASSUME TypeInv PROVE MarkLine = Told \o Line /\ Told \in Seq(Nat) /\ MarkLine \in Seq(Nat)
<1>1. MARKS \in Seq(Nat) /\ marks_pending \in Seq(Nat) /\ examined \in Seq(Answer)
  BY DEF TypeInv, MarkTypes
<1>2. Told \in Seq(Nat)
  BY <1>1, ToldIs DEF Told
<1>3. MarkLine = Told \o Line
  BY SMTT(30), <1>1, <1>2, ConcatAssociative DEF MarkLine, Told, Line
<1>4. Line \in Seq(Nat)
  BY LineIs DEF TypeInv
<1> QED BY <1>2, <1>3, <1>4, ConcatProperties

LEMMA Regrouped ==
  ASSUME NEW a \in Seq(Nat), NEW b \in Seq(Nat), NEW c \in Seq(Nat)
  PROVE  (a \o b) \o c = a \o (b \o c)
  BY ConcatAssociative

LEMMA MarkLineNext == ASSUME TypeInv' PROVE MarkLine' = Told' \o Line'
<1>1. MARKS' \in Seq(Nat) /\ marks_pending' \in Seq(Nat) /\ examined' \in Seq(Answer)
  BY DEF TypeInv, MarkTypes
<1>2. Told' \in Seq(Nat)
  BY <1>1, ToldIs DEF Told
<1> QED BY SMTT(30), <1>1, <1>2, ConcatAssociative DEF MarkLine, Told, Line

(* The answers given carry the moments taken from the line. *)
LEMMA ToldGrows ==
  ASSUME TypeInv, NEW ans, NEW new, Answered(Line, ans, new), At(Line, Ripe(Line)) \in Seq(Nat)
  PROVE  Told' = Told \o At(Line, Ripe(Line))
<1>1. PICK asked : asked = At(Line, Ripe(Line))
  OBVIOUS
<1>2. asked \in Seq(Nat) /\ examined \in Seq(Answer) /\ ans \in Seq(Answer)
  BY <1>1 DEF TypeInv, MarkTypes, Answered
<1>3. examined' = examined \o ans /\ Len(ans) = Len(asked) /\ \A i \in 1 .. Len(ans) : ans[i].t = asked[i]
  BY <1>1 DEF Answered
<1>4. /\ examined' \in Seq(Answer) /\ Len(examined') = Len(examined) + Len(ans)
      /\ \A i \in 1 .. Len(examined) + Len(ans) :
           examined'[i] = IF i <= Len(examined) THEN examined[i] ELSE ans[i - Len(examined)]
  <2>1. /\ examined \o ans \in Seq(Answer) /\ Len(examined \o ans) = Len(examined) + Len(ans)
        /\ \A i \in 1 .. Len(examined) + Len(ans) :
             (examined \o ans)[i] = IF i <= Len(examined) THEN examined[i] ELSE ans[i - Len(examined)]
    BY <1>2, ConcatProperties
  <2>2. examined' = examined \o ans
    BY <1>3
  <2> QED BY <2>1, <2>2, Zenon
<1>5. Told \in Seq(Nat)
  BY <1>2, ToldIs DEF Told
<1>6. /\ Len(examined) \in Nat /\ DOMAIN examined = 1 .. Len(examined) /\ Len(ans) \in Nat
      /\ DOMAIN examined' = 1 .. Len(examined')
  BY <1>2, <1>4, LenProperties
<1>7. Len(Told) = Len(examined) /\ \A i \in 1 .. Len(examined) : Told[i] = examined[i].t
  <2>1. DOMAIN Told = 1 .. Len(examined)
    BY <1>6 DEF Told
  <2>2. Len(Told) \in Nat /\ DOMAIN Told = 1 .. Len(Told)
    BY <1>5, LenProperties
  <2> QED BY <2>1, <2>2, <1>6 DEF Told
<1>8. /\ Told \o asked \in Seq(Nat) /\ Len(Told \o asked) = Len(examined) + Len(ans)
      /\ \A i \in 1 .. Len(examined) + Len(ans) :
           (Told \o asked)[i] = IF i <= Len(examined) THEN Told[i] ELSE asked[i - Len(examined)]
  <2>1. /\ Told \o asked \in Seq(Nat) /\ Len(Told \o asked) = Len(Told) + Len(asked)
        /\ \A i \in 1 .. Len(Told) + Len(asked) :
             (Told \o asked)[i] = IF i <= Len(Told) THEN Told[i] ELSE asked[i - Len(Told)]
    BY <1>2, <1>5, ConcatProperties
  <2>2. Len(Told) = Len(examined) /\ Len(asked) = Len(ans)
    BY <1>3, <1>7
  <2> QED BY <2>1, <2>2, Zenon
<1>9. DOMAIN (Told \o asked) = 1 .. Len(examined) + Len(ans)
  BY <1>8, LenProperties
<1>10. ASSUME NEW i \in 1 .. Len(examined) + Len(ans)
       PROVE  examined'[i].t = (Told \o asked)[i]
  <2>1. CASE i <= Len(examined)
    <3>1. i \in 1 .. Len(examined)
      BY <2>1, <1>6
    <3> QED BY <2>1, <3>1, <1>4, <1>7, <1>8
  <2>2. CASE ~(i <= Len(examined))
    <3>1. i - Len(examined) \in 1 .. Len(ans)
      BY <2>2, <1>6
    <3> QED BY <2>2, <3>1, <1>3, <1>4, <1>8
  <2> QED BY <2>1, <2>2
<1>11. [i \in 1 .. Len(examined) + Len(ans) |-> examined'[i].t] = Told \o asked
  <2>0. PICK q : q = Told \o asked
    OBVIOUS
  <2>1. q \in [1 .. Len(examined) + Len(ans) -> Nat]
    <3>1. q \in Seq(Nat) /\ Len(q) = Len(examined) + Len(ans)
      BY <2>0, <1>8
    <3> QED BY <3>1, LenProperties
  <2>2. \A i \in 1 .. Len(examined) + Len(ans) : examined'[i].t = q[i]
    BY <2>0, <1>10
  <2>3. [i \in 1 .. Len(examined) + Len(ans) |-> examined'[i].t] = q
    BY <2>1, <2>2
  <2> QED BY <2>0, <2>3
<1>12. Told' = [i \in 1 .. Len(examined) + Len(ans) |-> examined'[i].t]
  BY <1>4, <1>6 DEF Told
<1> QED BY <1>1, <1>11, <1>12

(* So a flag lengthens the whole line by one... *)
LEMMA FlagGrows == ASSUME TypeInv, mark_now PROVE MarkLine' = MarkLine \o <<now>> /\ <<now>> \in Seq(Nat)
<1>1. Line' = Append(Line, now) /\ Told' = Told /\ now \in Nat
  BY LineGrows DEF mark_now, markVars, Told, TypeInv, ClockTypes
<1>2. MarkLine = Told \o Line /\ Told \in Seq(Nat) /\ Line \in Seq(Nat) /\ MarkLine \in Seq(Nat)
  BY MarkLineIs, LineIs DEF TypeInv
<1>3. MarkLine' = Told' \o Line'
  <2>1. TypeInv'
    BY MarkNowTypes
  <2> QED BY <2>1, MarkLineNext
<1>4. Append(Line, now) = Line \o <<now>> /\ <<now>> \in Seq(Nat)
  BY <1>1, <1>2, AppendIsConcat
<1>5. MarkLine' = MarkLine \o <<now>>
  BY <1>1, <1>2, <1>3, <1>4, ConcatAssociative
<1> QED BY <1>4, <1>5

(* ...and an answer moves nobody. *)
LEMMA AnswersStay == ASSUME TypeInv, InLine, process_marks PROVE MarkLine' = MarkLine
<1>1. PICK ans, new : Answered(Line, ans, new)
  BY ProcessIs
<1>2. /\ At(Line, Ripe(Line)) \o marks_pending' = Line
      /\ Line' = marks_pending'
      /\ At(Line, Ripe(Line)) \in Seq(Nat) /\ marks_pending' \in Seq(Nat)
  BY <1>1, ProcessLine
<1>3. Told' = Told \o At(Line, Ripe(Line))
  BY <1>1, <1>2, ToldGrows
<1>4. MarkLine = Told \o Line /\ Told \in Seq(Nat) /\ MarkLine \in Seq(Nat)
  BY MarkLineIs
<1>5. MarkLine' = Told' \o Line'
  <2>1. TypeInv'
    BY ProcessTypes
  <2> QED BY <2>1, MarkLineNext
<1>6. MarkLine' = MarkLine
  <2>1. PICK asked : asked = At(Line, Ripe(Line))
    OBVIOUS
  <2>2. asked \in Seq(Nat) /\ asked \o marks_pending' = Line
    BY <2>1, <1>2
  <2>3. PICK r : r = marks_pending'
    OBVIOUS
  <2>4. r \in Seq(Nat) /\ asked \o r = Line
    BY <2>2, <2>3, <1>2
  <2>5. (Told \o asked) \o r = Told \o (asked \o r)
    <3>1. PICK told \in Seq(Nat) : told = Told
      BY <1>4
    <3>2. asked \in Seq(Nat) /\ r \in Seq(Nat)
      BY <2>2, <2>4
    <3>3. (told \o asked) \o r = told \o (asked \o r)
      BY <3>2, Regrouped
    <3> QED BY <3>1, <3>3
  <2>6. MarkLine' = (Told \o asked) \o r
    BY <2>1, <2>3, <1>2, <1>3, <1>5
  <2> QED BY <2>4, <2>5, <2>6, <1>4
<1> QED BY <1>6

LEMMA ToldStays == ASSUME TypeInv, UNCHANGED <<examined, marks_pending, MARKS>> PROVE IsPrefix(MarkLine, MarkLine')
<1>1. MarkLine' = MarkLine
  BY DEF MarkLine
<1>2. MarkLine \in Seq(Nat)
  BY MarkLineIs
<1> QED BY <1>1, <1>2, PrefixOfConcat

(* A flagged moment keeps its place from the moment it is flagged until it  *)
(* is answered: none is lost, answered twice or overtaken.                 *)
THEOREM MarksAreKeptInLine == Spec => MarksKeptInLine
<1>1. TypeInv /\ InLine /\ [Next]_vars => [IsPrefix(MarkLine, MarkLine')]_vars
  <2> SUFFICES ASSUME TypeInv, InLine, Next PROVE IsPrefix(MarkLine, MarkLine')
    OBVIOUS
  <2>1. CASE Advance \/ (\E ts \in 1 .. now : Trace(ts)) \/ tick_stalls \/ (\E f \in BOOLEAN : tick(f))
    BY <2>1, ToldStays DEF Advance, Trace, tick_stalls, tick, markVars
  <2>2. CASE (\E p \in Probes : \E start \in woke[p] .. now : run(p, start)) \/ probe_reader \/ Stop
    BY <2>2, ToldStays DEF run, probe_reader, Stop, markVars
  <2>3. CASE mark_now
    <3>1. MarkLine' = MarkLine \o <<now>> /\ MarkLine \in Seq(Nat) /\ <<now>> \in Seq(Nat)
      BY <2>3, FlagGrows, MarkLineIs
    <3> QED BY <3>1, PrefixOfConcat
  <2>4. CASE process_marks
    <3>1. MarkLine' = MarkLine /\ MarkLine \in Seq(Nat)
      BY <2>4, AnswersStay, MarkLineIs
    <3> QED BY <3>1, PrefixOfConcat
  <2> QED BY <2>1, <2>2, <2>3, <2>4 DEF Next, Tick
<1> QED BY <1>1, TypeInvariant, InitInLine, NextInLine, PTL DEF Spec, MarksKeptInLine

-----------------------------------------------------------------------------
(* A clean answer contradicts no interruption.                             *)

LEMMA TimesAre ==
  /\ {MaxDelay, Gap, Slack, TwinWait, MarkBefore, MarkAfter, MarkGiveUp, MinorKeep, TickGap, StopWait} \subseteq Nat
  /\ Slack + MaxDelay <= TwinWait /\ Slack < StopWait /\ MaxDelay < StopWait
  /\ MarkBefore + MarkGiveUp + TickGap + StopWait + 1 <= MinorKeep
  BY AnalyzerAssumption

(* The next tick is not far off, even when the run is stopped in between. *)
InTime ==
  /\ phase = "running" => now <= tick_now + TickGap
  /\ phase # "running" => now <= stop_at + StopWait + 1 /\ stop_at <= tick_now + TickGap

LEMMA InTimeMeans == ASSUME TypeInv, InTime PROVE now <= tick_now + TickGap + StopWait + 1
<1>1. now \in Nat /\ tick_now \in Nat /\ stop_at \in Nat /\ TickGap \in Nat /\ StopWait \in Nat
  BY TimesAre DEF TypeInv, ClockTypes
<1> QED BY <1>1 DEF InTime

LEMMA InTimeStays == ASSUME InTime, UNCHANGED <<now, tick_now, phase, stop_at>> PROVE InTime'
  BY DEF InTime

LEMMA NextInTime == TypeInv /\ InTime /\ [Next]_vars => InTime'
<1> SUFFICES ASSUME TypeInv, InTime, [Next]_vars PROVE InTime'
  OBVIOUS
<1>0. now \in Nat /\ tick_now \in 0 .. now /\ stop_at \in 0 .. now /\ TickGap \in Nat /\ StopWait \in Nat
  BY TimesAre DEF TypeInv, ClockTypes
<1>1. CASE (\E ts \in 1 .. now : Trace(ts)) \/ mark_now \/ process_marks
  BY <1>1, InTimeStays DEF Trace, mark_now, process_marks, clockVars, tickVars, runVars
<1>2. CASE (\E p \in Probes : \E start \in woke[p] .. now : run(p, start)) \/ probe_reader
  BY <1>2, InTimeStays DEF run, probe_reader, clockVars, tickVars, runVars
<1>3. CASE Advance
  BY <1>0, <1>3 DEF Advance, InTime, tickVars, runVars
<1>4. CASE Stop
  BY <1>0, <1>4 DEF Stop, InTime, clockVars, tickVars
<1>5. CASE \E f \in BOOLEAN : tick(f)
  BY <1>0, <1>5 DEF tick, InTime, clockVars, runVars
<1>6. CASE tick_stalls
  <2>1. UNCHANGED <<now, tick_now, stop_at>>
    BY <1>6 DEF tick_stalls, clockVars
  <2>2. phase' = "running" <=> phase = "running"
    BY <1>6 DEF tick_stalls, TypeInv, StepTypes
  <2> QED BY <2>1, <2>2 DEF InTime
<1>7. CASE UNCHANGED vars
  BY <1>7, InTimeStays DEF vars, clockVars, tickVars, runVars
<1> QED BY <1>1, <1>2, <1>3, <1>4, <1>5, <1>6, <1>7 DEF Next, Tick

LEMMA InitInTime == Init => InTime
  BY TimesAre DEF Init, InTime

(* No moment waits for its answer for long. *)
Waited == IF pc = "marks" THEN MarkGiveUp + TickGap + StopWait + 1 ELSE MarkGiveUp

Young == \A i \in 1 .. Len(Line) : Line[i] + Waited >= tick_now

LEMMA WaitedIs == Waited \in Nat /\ Waited >= MarkGiveUp
  BY TimesAre DEF Waited

LEMMA YoungStays ==
  ASSUME Young, UNCHANGED <<marks_pending, MARKS, pc, tick_now>>
  PROVE  Young'
  BY DEF Young, Line, Waited

LEMMA NextYoung == TypeInv /\ InLine /\ InTime /\ Young /\ [Next]_vars => Young'
<1> SUFFICES ASSUME TypeInv, InLine, InTime, Young, [Next]_vars PROVE Young'
  OBVIOUS
<1>0. now \in Nat /\ tick_now \in Nat /\ tick_now <= now /\ MarkGiveUp \in Nat /\ TickGap \in Nat /\ StopWait \in Nat
  BY TimesAre DEF TypeInv, ClockTypes
<1>a. \A i \in 1 .. Len(Line) : Line[i] \in Nat /\ Line[i] <= now
  BY LineOfNow
<1>1. CASE Advance \/ (\E ts \in 1 .. now : Trace(ts)) \/ Stop
  BY <1>1, YoungStays DEF Advance, Trace, Stop, markVars, tickVars
<1>2. CASE (\E p \in Probes : \E start \in woke[p] .. now : run(p, start)) \/ probe_reader
  BY <1>2, YoungStays DEF run, probe_reader, markVars, tickVars
<1>3. CASE mark_now
  <2>1. Line' = Append(Line, now) /\ pc' = pc /\ tick_now' = tick_now
    BY <1>3, LineGrows DEF mark_now, tickVars
  <2>2. Line \in Seq(Nat)
    BY LineIs DEF TypeInv
  <2>3. /\ Len(Line') = Len(Line) + 1 /\ Len(Line) \in Nat
        /\ \A i \in 1 .. Len(Line) : Line'[i] = Line[i]
        /\ Line'[Len(Line) + 1] = now
    BY <2>1, <2>2, <1>0, PushSpec
  <2>4. Waited' = Waited
    BY <2>1 DEF Waited
  <2>5. ASSUME NEW i \in 1 .. Len(Line')
        PROVE  Line'[i] + Waited >= tick_now
    <3>1. CASE i \in 1 .. Len(Line)
      BY <3>1, <2>3 DEF Young
    <3>2. CASE i \notin 1 .. Len(Line)
      <4>1. Line'[i] = now
        BY <3>2, <2>3
      <4> QED BY <4>1, <1>0, WaitedIs
    <3> QED BY <3>1, <3>2
  <2> QED BY <2>1, <2>4, <2>5 DEF Young
<1>4. CASE \E f \in BOOLEAN : tick(f)
  <2>1. Line' = Line /\ pc = "idle" /\ pc' = "marks" /\ tick_now' = now
    BY <1>4 DEF tick, markVars, Line
  <2>2. Waited = MarkGiveUp /\ Waited' = MarkGiveUp + TickGap + StopWait + 1
    BY <2>1 DEF Waited
  <2>3. now <= tick_now + TickGap + StopWait + 1
    BY InTimeMeans
  <2>4. ASSUME NEW i \in 1 .. Len(Line)
        PROVE  Line[i] + (MarkGiveUp + TickGap + StopWait + 1) >= now
    <3>1. Line[i] + MarkGiveUp >= tick_now /\ Line[i] \in Nat
      BY <2>2, <1>a DEF Young
    <3> QED BY <3>1, <2>3, <1>0
  <2> QED BY <2>1, <2>2, <2>4 DEF Young
<1>5. CASE process_marks
  <2>1. PICK ans, new : Answered(Line, ans, new)
    BY <1>5, ProcessIs
  <2>2. Line' = marks_pending' /\ marks_pending' \in Seq(Nat) /\ marks_pending' = At(Line, DOMAIN Line \ Ripe(Line))
    BY <1>5, <2>1, ProcessLine DEF Answered
  <2>3. Line \in Seq(Nat) /\ DOMAIN Line = 1 .. Len(Line)
    BY LineIs, LenProperties DEF TypeInv
  <2>4. ToSet(Line') = {Line[i] : i \in DOMAIN Line \ Ripe(Line)}
    <3>1. DOMAIN Line \ Ripe(Line) \subseteq DOMAIN Line
      OBVIOUS
    <3> QED BY <2>2, <2>3, <3>1, MembersAt
  <2>5. ASSUME NEW t \in ToSet(Line')
        PROVE  t + MarkGiveUp >= tick_now
    <3>1. PICK i \in DOMAIN Line \ Ripe(Line) : t = Line[i]
      BY <2>4
    <3>2. ~MarkIsRipe(t) /\ t \in Nat
      BY <3>1, <2>3, <1>a DEF Ripe
    <3>3. ~(now - t > MarkGiveUp)
      BY <3>2 DEF MarkIsRipe
    <3> QED BY <3>2, <3>3, <1>0
  <2>6. pc' = "stalls" /\ tick_now' = tick_now
    BY <1>5 DEF process_marks
  <2>7. Waited' = MarkGiveUp
    BY <2>6 DEF Waited
  <2>8. \A i \in 1 .. Len(Line') : Line'[i] \in ToSet(Line')
    <3>1. PICK q \in Seq(Nat) : q = Line'
      BY <2>2
    <3>2. ToSet(q) = {q[i] : i \in 1 .. Len(q)}
      BY MembersAre
    <3> QED BY <3>1, <3>2
  <2> QED BY <2>5, <2>6, <2>7, <2>8 DEF Young
<1>6. CASE tick_stalls
  <2>1. Line' = Line /\ tick_now' = tick_now /\ pc = "stalls" /\ pc' = "idle"
    BY <1>6 DEF tick_stalls, markVars, Line
  <2>2. Waited' = Waited
    BY <2>1 DEF Waited
  <2> QED BY <2>1, <2>2 DEF Young
<1>7. CASE UNCHANGED vars
  BY <1>7, YoungStays DEF vars, markVars, tickVars
<1> QED BY <1>1, <1>2, <1>3, <1>4, <1>5, <1>6, <1>7 DEF Next, Tick

LEMMA InitYoung == Init => Young
<1> SUFFICES ASSUME Init PROVE Young
  OBVIOUS
<1>1. Line = <<>>
  BY DEF Init, Line
<1>2. Len(Line) = 0
  BY <1>1
<1> QED BY <1>2 DEF Young

(* A minor report is let go only when it is old. *)
Kept == \A s \in drained : s.minor => s \in ToSet(minor) \/ s.end + MinorKeep < tick_now

LEMMA NextKept == TypeInv /\ Kept /\ [Next]_vars => Kept'
<1> SUFFICES ASSUME TypeInv, Kept, [Next]_vars PROVE Kept'
  OBVIOUS
<1>1. CASE \E f \in BOOLEAN : tick(f)
  <2>0. PICK f \in BOOLEAN : tick(f)
    BY <1>1
  <2>1. /\ \A s \in ToSet(minor) \cup {u \in ToSet(rx) : u.minor} : s \in ToSet(minor') \/ s.end < now - MinorKeep
        /\ drained' = drained \cup ToSet(rx) /\ ToSet(rx) \subseteq Report /\ tick_now' = now
    BY <2>0, TickIs
  <2>2. now \in Nat /\ tick_now \in Nat /\ tick_now <= now /\ MinorKeep \in Nat /\ drained \subseteq Report
    BY TimesAre DEF TypeInv, ClockTypes, StallTypes
  <2>3. ASSUME NEW s \in drained', s.minor, s \notin ToSet(minor')
        PROVE  s.end + MinorKeep < now
    <3>1. s.end \in Nat
      BY <2>1, <2>2, ReportIs
    <3>2. CASE s \in ToSet(minor) \cup {u \in ToSet(rx) : u.minor}
      <4>1. s.end < now - MinorKeep
        BY <3>2, <2>1, <2>3
      <4> QED BY <4>1, <3>1, <2>2
    <3>3. CASE s \notin ToSet(minor) \cup {u \in ToSet(rx) : u.minor}
      <4>1. s \in drained
        BY <3>3, <2>1, <2>3
      <4>2. s.end + MinorKeep < tick_now
        BY <3>3, <4>1, <2>3 DEF Kept
      <4> QED BY <4>2, <3>1, <2>2
    <3> QED BY <3>2, <3>3
  <2> QED BY <2>1, <2>3 DEF Kept
<1>2. CASE ~\E f \in BOOLEAN : tick(f)
  <2>1. UNCHANGED <<drained, minor, tick_now>>
    BY <1>2 DEF Next, Tick, Advance, Trace, mark_now, run, probe_reader, Stop, process_marks, tick_stalls,
                vars, stallVars, tickVars
  <2> QED BY <2>1 DEF Kept
<1> QED BY <1>1, <1>2

LEMMA InitKept == Init => Kept
  BY DEF Init, Kept

(* Which answers are new. *)
LEMMA NewAnswers ==
  ASSUME TypeInv, [Next]_vars, NEW i \in DOMAIN examined' \ DOMAIN examined
  PROVE  /\ process_marks
         /\ examined'[i].verdict = Verdict(examined'[i].t)
         /\ \E j \in 1 .. Len(Line) : examined'[i].t = Line[j]
<1>1. process_marks
  <2> SUFFICES ASSUME ~process_marks PROVE FALSE
    OBVIOUS
  <2>1. examined' = examined
    BY DEF Next, Tick, Advance, Trace, mark_now, run, probe_reader, Stop, tick, tick_stalls, vars, markVars
  <2> QED BY <2>1
<1>2. PICK ans, new : Answered(Line, ans, new)
  BY <1>1, ProcessIs
<1>3. examined \in Seq(Answer) /\ ans \in Seq(Answer) /\ examined' = examined \o ans
  BY <1>2 DEF Answered, TypeInv, MarkTypes
<1>4. /\ examined \o ans \in Seq(Answer) /\ Len(examined \o ans) = Len(examined) + Len(ans)
      /\ \A n \in 1 .. Len(examined) + Len(ans) :
           (examined \o ans)[n] = IF n <= Len(examined) THEN examined[n] ELSE ans[n - Len(examined)]
  BY <1>3, ConcatProperties
<1>5. /\ DOMAIN examined = 1 .. Len(examined) /\ Len(examined) \in Nat /\ Len(ans) \in Nat
      /\ DOMAIN examined' = 1 .. Len(examined) + Len(ans)
  <2>1. DOMAIN (examined \o ans) = 1 .. Len(examined \o ans)
    BY <1>4, LenProperties
  <2> QED BY <2>1, <1>3, <1>4, LenProperties
<1>6. i - Len(examined) \in 1 .. Len(ans) /\ ~(i <= Len(examined)) /\ i \in 1 .. Len(examined) + Len(ans)
  BY <1>5
<1>7. examined'[i] = ans[i - Len(examined)]
  BY <1>3, <1>4, <1>6
<1>8. PICK n \in 1 .. Len(ans) : examined'[i] = ans[n]
  BY <1>6, <1>7
<1>9. ans[n].verdict = Verdict(ans[n].t) /\ ans[n].t \in {Line[j] : j \in Ripe(Line)}
  BY <1>2 DEF Answered
<1>10. Ripe(Line) \subseteq 1 .. Len(Line)
  <2>1. Line \in Seq(Nat)
    BY LineIs DEF TypeInv
  <2> QED BY <2>1, LenProperties DEF Ripe
<1> QED BY <1>1, <1>8, <1>9, <1>10

LEMMA CleanIs == ASSUME NEW t, Verdict(t) = "clean" PROVE in_window(t) = {}
<1>1. CASE full_stall(t)
  <2>1. Verdict(t) = "stall"
    BY <1>1, Zenon DEF Verdict
  <2> QED BY <2>1
<1>2. CASE ~full_stall(t) /\ in_window(t) # {}
  <2>1. Verdict(t) = "blip"
    BY <1>2, Zenon DEF Verdict
  <2> QED BY <2>1
<1> QED BY <1>1, <1>2

(* A clean answer contradicts no interruption that the analyzer has ever    *)
(* received: what it has let go by then is too old to matter.              *)
THEOREM CleanHidesNoBlip == Spec => CleanMeansNoBlip
<1>1. TypeInv /\ InTime /\ Young /\ Kept /\ [Next]_vars => [Clears({s \in drained : s.minor})]_vars
  <2> SUFFICES ASSUME TypeInv, InTime, Young, Kept, [Next]_vars,
                      NEW i \in DOMAIN examined' \ DOMAIN examined, examined'[i].verdict = "clean",
                      NEW s \in drained, s.minor, Disturbs(s, examined'[i].t)
               PROVE  FALSE
    BY DEF Clears
  <2>1. /\ process_marks /\ examined'[i].verdict = Verdict(examined'[i].t)
        /\ \E j \in 1 .. Len(Line) : examined'[i].t = Line[j]
    BY NewAnswers
  <2>2. PICK j \in 1 .. Len(Line) : examined'[i].t = Line[j]
    BY <2>1
  <2>3. PICK t \in Nat : t = Line[j]
    BY LineOfNow
  <2>4. in_window(t) = {}
    BY <2>1, <2>2, <2>3, CleanIs
  <2>5. s.kind = "Kernel" /\ len(s) >= MarkMin /\ Overlaps(s, t - MarkBefore, t + MarkAfter)
    BY <2>2, <2>3 DEF Disturbs
  <2>6. s \notin ToSet(minor)
    BY <2>4, <2>5 DEF in_window
  <2>7. s.end + MinorKeep < tick_now
    BY <2>6 DEF Kept
  <2>8. t + (MarkGiveUp + TickGap + StopWait + 1) >= tick_now
    <3>1. pc = "marks"
      BY <2>1 DEF process_marks
    <3> QED BY <3>1, <2>3 DEF Young, Waited
  <2>9. s.end \in Nat /\ s.end >= t - MarkBefore
    <3>1. s \in Report
      BY DEF TypeInv, StallTypes
    <3> QED BY <3>1, <2>5, ReportIs DEF Overlaps
  <2>10. tick_now \in Nat
    BY DEF TypeInv, ClockTypes
  <2>11. PICK e \in Nat : e = s.end
    BY <2>9
  <2>12. /\ {MarkBefore, MarkGiveUp, MinorKeep, TickGap, StopWait} \subseteq Nat
         /\ MarkBefore + MarkGiveUp + TickGap + StopWait + 1 <= MinorKeep
    BY TimesAre
  <2>13. e + MinorKeep < tick_now /\ e >= t - MarkBefore
    BY <2>7, <2>9, <2>11
  <2> QED BY SMTT(30), <2>8, <2>10, <2>12, <2>13
<1> QED BY <1>1, TypeInvariant, InitInLine, NextInLine, InitInTime, NextInTime, InitYoung, NextYoung, InitKept, NextKept,
           PTL DEF Spec, CleanMeansNoBlip

-----------------------------------------------------------------------------
(* When a report can still come.                                           *)

WireTimes == \A s \in ToSet(wire) : s.kind = "Kernel" /\ s.end + MaxDelay >= now

RxTimes ==
  \A s \in ToSet(rx) : /\ s.kind = "Scheduler" => s.end >= tick_now
                       /\ s.kind = "Kernel" => s.end + MaxDelay >= tick_now

KernelsStop ==
  phase # "running" =>
    \A s \in ToSet(wire) \cup ToSet(rx) \cup drained : s.kind = "Kernel" => s.end <= stop_at

NoKernelsLeft == phase # "running" /\ wire = <<>> /\ \A s \in ToSet(rx) : s.kind = "Scheduler"

(* The last two analyses begin when the kernel probes have been silent for  *)
(* long.                                                                   *)
LastOnes ==
  /\ pc # "idle" /\ force => phase # "running"
  /\ (pc # "idle" /\ phase # "running") \/ phase \in {"flushed", "done"} =>
       NoKernelsLeft /\ tick_now >= stop_at + StopWait

Timing == WireTimes /\ RxTimes /\ KernelsStop /\ LastOnes

LEMMA InitTiming == Init => Timing
<1> SUFFICES ASSUME Init PROVE Timing
  OBVIOUS
<1>1. ToSet(wire) = {} /\ ToSet(rx) = {}
  BY DEF Init, ToSet
<1> QED BY <1>1 DEF Init, Timing, WireTimes, RxTimes, KernelsStop, LastOnes

LEMMA OnWay ==
  ASSUME TypeInv
  PROVE  /\ wire \in Seq(Report) /\ rx \in Seq(Report)
         /\ ToSet(wire) \subseteq Report /\ ToSet(rx) \subseteq Report /\ drained \subseteq Report
  BY MembersAre DEF TypeInv, StallTypes

LEMMA Numbers ==
  ASSUME TypeInv
  PROVE  /\ now \in Nat /\ tick_now \in Nat /\ tick_now <= now /\ stop_at \in Nat /\ stop_at <= now
         /\ MaxDelay \in Nat /\ StopWait \in Nat /\ Slack \in Nat /\ TwinWait \in Nat
         /\ MaxDelay < StopWait /\ Slack < StopWait /\ Slack + MaxDelay <= TwinWait
  BY TimesAre DEF TypeInv, ClockTypes

LEMMA AdvanceTiming == ASSUME TypeInv, Timing, Advance PROVE Timing'
<1>1. UNCHANGED <<wire, rx, drained, tick_now, pc, force, phase, stop_at>> /\ now' = now + 1
  BY DEF Advance, probeVars, stallVars, tickVars, runVars
<1>2. \A s \in ToSet(wire) : now < s.end + MaxDelay /\ s.end \in Nat
  <2>1. ToSet(wire) = {wire[i] : i \in 1 .. Len(wire)} /\ DOMAIN wire = 1 .. Len(wire)
    BY OnWay, MembersAre, LenProperties
  <2>2. \A i \in DOMAIN wire : now < wire[i].end + MaxDelay
    BY DEF Advance
  <2> QED BY <2>1, <2>2, OnWay, ReportIs
<1>3. WireTimes'
  <2>1. \A s \in ToSet(wire) : s.end + MaxDelay >= now + 1
    BY <1>2, Numbers
  <2> QED BY <2>1, <1>1 DEF Timing, WireTimes
<1>4. RxTimes' /\ KernelsStop' /\ LastOnes'
  BY <1>1 DEF Timing, RxTimes, KernelsStop, LastOnes, NoKernelsLeft
<1> QED BY <1>3, <1>4 DEF Timing

LEMMA RunTiming ==
  ASSUME TypeInv, Timing, NEW p \in Probes, NEW start \in woke[p] .. now, run(p, start)
  PROVE  Timing' /\ (NoKernelsLeft => NoKernelsLeft')
<1>0. PICK s : s = Late(p, start)
  OBVIOUS
<1>1. /\ s \in Report /\ s.kind = Kind(p) /\ s.end = now
      /\ \/ p = NoCpu /\ rx' = Append(rx, s) /\ wire' = wire
         \/ p # NoCpu /\ wire' = Append(wire, s) /\ rx' = rx
  BY <1>0, RunIs
<1>2. UNCHANGED <<now, drained, tick_now, pc, force, phase, stop_at>>
  BY DEF run, clockVars, stallVars, tickVars, runVars
<1>3. phase # "running" => p = NoCpu
  BY DEF run
<1>4. /\ ToSet(Append(rx, s)) = ToSet(rx) \cup {s} /\ ToSet(Append(wire, s)) = ToSet(wire) \cup {s}
  BY <1>1, OnWay, MembersOfAppend
<1>5. Kind(p) = IF p = NoCpu THEN "Scheduler" ELSE "Kernel"
  BY DEF Kind
<1>6. CASE p = NoCpu
  <2>1. s.kind = "Scheduler" /\ ToSet(rx') = ToSet(rx) \cup {s} /\ wire' = wire
    BY <1>1, <1>4, <1>5, <1>6
  <2>2. WireTimes'
    BY <2>1, <1>2 DEF Timing, WireTimes
  <2>3. RxTimes'
    BY <2>1, <1>1, <1>2, Numbers DEF Timing, RxTimes
  <2>4. KernelsStop'
    BY <2>1, <1>2 DEF Timing, KernelsStop
  <2>5. NoKernelsLeft => NoKernelsLeft'
    BY <2>1, <1>2 DEF NoKernelsLeft
  <2>6. LastOnes'
    BY <2>5, <1>2 DEF Timing, LastOnes
  <2> QED BY <2>2, <2>3, <2>4, <2>5, <2>6 DEF Timing
<1>7. CASE p # NoCpu
  <2>1. s.kind = "Kernel" /\ ToSet(wire') = ToSet(wire) \cup {s} /\ rx' = rx /\ phase = "running"
    BY <1>1, <1>3, <1>4, <1>5, <1>7
  <2>2. WireTimes'
    <3>1. s.end + MaxDelay >= now
      BY <1>1, Numbers
    <3> QED BY <2>1, <3>1, <1>2 DEF Timing, WireTimes
  <2>3. RxTimes'
    BY <2>1, <1>2 DEF Timing, RxTimes
  <2>4. KernelsStop' /\ LastOnes' /\ ~NoKernelsLeft
    BY <2>1, <1>2 DEF Timing, KernelsStop, LastOnes, NoKernelsLeft
  <2> QED BY <2>2, <2>3, <2>4 DEF Timing
<1> QED BY <1>6, <1>7

LEMMA ReaderTiming == ASSUME TypeInv, Timing, probe_reader PROVE Timing' /\ ~NoKernelsLeft
<1>1. /\ wire # <<>> /\ wire' = Tail(wire) /\ rx' = Append(rx, Head(wire))
      /\ UNCHANGED <<now, drained, tick_now, pc, force, phase, stop_at>>
  BY DEF probe_reader, clockVars, stallVars, tickVars, runVars
<1>2. /\ Head(wire) \in Report /\ ToSet(wire) = {Head(wire)} \cup ToSet(Tail(wire))
  BY <1>1, OnWay, MembersOfTail
<1>3. ToSet(rx') = ToSet(rx) \cup {Head(wire)}
  BY <1>1, <1>2, OnWay, MembersOfAppend
<1>4. PICK h : h = Head(wire)
  OBVIOUS
<1>5. h.kind = "Kernel" /\ h.end + MaxDelay >= now /\ h.end \in Nat
  BY <1>2, <1>4, ReportIs DEF Timing, WireTimes
<1>6. WireTimes'
  BY <1>1, <1>2 DEF Timing, WireTimes
<1>7. RxTimes'
  <2>1. h.end + MaxDelay >= tick_now
    BY <1>5, Numbers
  <2> QED BY <1>1, <1>3, <1>4, <1>5, <2>1 DEF Timing, RxTimes
<1>8. KernelsStop'
  BY <1>1, <1>2, <1>3 DEF Timing, KernelsStop
<1>9. ~NoKernelsLeft /\ LastOnes'
  BY <1>1 DEF Timing, LastOnes, NoKernelsLeft
<1> QED BY <1>6, <1>7, <1>8, <1>9 DEF Timing

LEMMA StopTiming == ASSUME TypeInv, Once, Timing, Stop PROVE Timing' /\ ~NoKernelsLeft
<1>1. /\ UNCHANGED <<now, rx, drained, tick_now, pc, force>> /\ phase' = "stopping" /\ stop_at' = now
      /\ phase = "running" /\ pc = "idle"
  BY DEF Stop, clockVars, stallVars, tickVars
<1>2. ToSet(wire') \subseteq ToSet(wire)
  <2>1. PICK n \in 0 .. Len(wire) : wire' = SubSeq(wire, 1, n)
    BY DEF Stop
  <2>2. /\ wire' \in Seq(Report) /\ Len(wire') = n
        /\ \A i \in 1 .. n : wire'[i] = wire[i] /\ i \in 1 .. Len(wire)
    BY <2>1, OnWay, FirstPart
  <2>3. ToSet(wire') = {wire'[i] : i \in 1 .. Len(wire')} /\ ToSet(wire) = {wire[i] : i \in 1 .. Len(wire)}
    BY <2>2, OnWay, MembersAre
  <2> QED BY <2>2, <2>3
<1>3. \A s \in ToSet(wire) \cup ToSet(rx) \cup drained : s.end <= now
  <2> SUFFICES ASSUME NEW s \in ToSet(wire) \cup ToSet(rx) \cup drained PROVE s.end <= now
    OBVIOUS
  <2>1. s \in Report /\ s.end <= woke[s.cpu]
    BY OnWay DEF Once
  <2>2. s.cpu \in Probes /\ s.end \in Nat
    BY <2>1, ReportIs
  <2>3. woke[s.cpu] \in Nat /\ woke[s.cpu] <= now /\ now \in Nat
    BY <2>2 DEF TypeInv, ClockTypes
  <2> QED BY <2>1, <2>2, <2>3
<1>4. WireTimes' /\ RxTimes'
  BY <1>1, <1>2 DEF Timing, WireTimes, RxTimes
<1>5. KernelsStop'
  BY <1>1, <1>2, <1>3 DEF KernelsStop
<1>6. LastOnes' /\ ~NoKernelsLeft
  BY <1>1 DEF LastOnes, NoKernelsLeft
<1> QED BY <1>4, <1>5, <1>6 DEF Timing

LEMMA TickTiming ==
  ASSUME TypeInv, Timing, NEW f \in BOOLEAN, tick(f)
  PROVE  Timing' /\ (NoKernelsLeft => NoKernelsLeft')
<1>1. /\ drained' = drained \cup ToSet(rx) /\ rx' = <<>> /\ pc' = "marks" /\ tick_now' = now /\ force' = f
      /\ UNCHANGED <<now, wire, phase, stop_at>> /\ MayTick(f)
  BY TickIs DEF tick, clockVars, probeVars, runVars
<1>2. ToSet(rx') = {}
  BY <1>1 DEF ToSet
<1>3. WireTimes' /\ RxTimes' /\ KernelsStop'
  BY <1>1, <1>2 DEF Timing, WireTimes, RxTimes, KernelsStop
<1>4. NoKernelsLeft => NoKernelsLeft'
  BY <1>1, <1>2 DEF NoKernelsLeft
<1>5. f => phase # "running"
  BY <1>1 DEF MayTick
<1>6. ASSUME phase # "running" PROVE NoKernelsLeft' /\ now >= stop_at + StopWait
  <2>1. CASE phase \in {"flushed", "done"}
    <3>1. NoKernelsLeft /\ tick_now >= stop_at + StopWait
      BY <2>1 DEF Timing, LastOnes
    <3> QED BY <3>1, <1>4, Numbers
  <2>2. CASE phase = "stopping"
    <3>1. now >= stop_at + StopWait
      BY <1>1, <2>2 DEF MayTick
    <3>2. ToSet(wire) = {}
      <4> SUFFICES ASSUME NEW s \in ToSet(wire) PROVE FALSE
        OBVIOUS
      <4>1. s.kind = "Kernel" /\ s.end + MaxDelay >= now /\ s.end \in Nat
        BY OnWay, ReportIs DEF Timing, WireTimes
      <4>2. s.end <= stop_at
        BY <1>6, <4>1 DEF Timing, KernelsStop
      <4> QED BY <3>1, <4>1, <4>2, Numbers
    <3>3. wire = <<>>
      <4> SUFFICES ASSUME wire # <<>> PROVE FALSE
        OBVIOUS
      <4>1. Head(wire) \in ToSet(wire)
        BY OnWay, MembersOfTail
      <4> QED BY <4>1, <3>2
    <3> QED BY <3>1, <3>3, <1>1, <1>2, <2>2 DEF NoKernelsLeft
  <2> QED BY <2>1, <2>2, <1>6 DEF TypeInv, StepTypes
<1>7. LastOnes'
  BY <1>1, <1>5, <1>6 DEF LastOnes
<1> QED BY <1>3, <1>4, <1>7 DEF Timing

LEMMA StallsTiming ==
  ASSUME TypeInv, Timing, tick_stalls
  PROVE  Timing' /\ (NoKernelsLeft => NoKernelsLeft')
<1>1. /\ UNCHANGED <<now, wire, rx, drained, tick_now, force, stop_at>> /\ pc = "stalls" /\ pc' = "idle"
  BY DEF tick_stalls, clockVars, probeVars
<1>2. (phase' = "running" <=> phase = "running") /\ phase' \in {"running", "flushed", "done"}
  BY DEF tick_stalls, TypeInv, StepTypes
<1>3. WireTimes' /\ RxTimes' /\ KernelsStop'
  BY <1>1, <1>2 DEF Timing, WireTimes, RxTimes, KernelsStop
<1>4. NoKernelsLeft => NoKernelsLeft'
  BY <1>1, <1>2 DEF NoKernelsLeft
<1>5. LastOnes'
  BY <1>1, <1>2, <1>4 DEF Timing, LastOnes
<1> QED BY <1>3, <1>4, <1>5 DEF Timing

LEMMA TimingStays ==
  ASSUME Timing, UNCHANGED <<now, wire, rx, drained, tick_now, force, phase, stop_at>>, pc' = pc \/ (pc = "marks" /\ pc' = "stalls")
  PROVE  Timing' /\ (NoKernelsLeft => NoKernelsLeft')
<1>1. WireTimes' /\ RxTimes' /\ KernelsStop'
  BY DEF Timing, WireTimes, RxTimes, KernelsStop
<1>2. NoKernelsLeft' <=> NoKernelsLeft
  BY DEF NoKernelsLeft
<1>3. LastOnes'
  BY <1>2 DEF Timing, LastOnes
<1> QED BY <1>1, <1>2, <1>3 DEF Timing

LEMMA NextTiming == TypeInv /\ Once /\ Timing /\ [Next]_vars => Timing' /\ (NoKernelsLeft => NoKernelsLeft')
<1> SUFFICES ASSUME TypeInv, Once, Timing, [Next]_vars PROVE Timing' /\ (NoKernelsLeft => NoKernelsLeft')
  OBVIOUS
<1>1. CASE Advance
  BY <1>1, AdvanceTiming DEF Advance, NoKernelsLeft, probeVars, runVars
<1>2. CASE \E p \in Probes : \E start \in woke[p] .. now : run(p, start)
  BY <1>2, RunTiming
<1>3. CASE probe_reader \/ Stop
  BY <1>3, ReaderTiming, StopTiming
<1>4. CASE \E f \in BOOLEAN : tick(f)
  BY <1>4, TickTiming
<1>5. CASE tick_stalls
  BY <1>5, StallsTiming
<1>6. CASE (\E ts \in 1 .. now : Trace(ts)) \/ mark_now
  BY <1>6, TimingStays DEF Trace, mark_now, clockVars, probeVars, stallVars, tickVars, runVars
<1>7. CASE process_marks
  BY <1>7, TimingStays DEF process_marks, clockVars, probeVars, stallVars, runVars
<1>8. CASE UNCHANGED vars
  BY <1>8, TimingStays DEF vars, clockVars, probeVars, stallVars, tickVars, runVars
<1> QED BY <1>1, <1>2, <1>3, <1>4, <1>5, <1>6, <1>7, <1>8 DEF Next, Tick

-----------------------------------------------------------------------------
(* The two views of one event are not filed apart.                         *)

(* No report can join or match what has been filed without its twin... *)
Settled ==
  \A i \in Filed :
    /\ Lone(i, "Kernel") => span_of(incidents[i].stalls).end + Slack < tick_now
    /\ Lone(i, "Scheduler") => span_of(incidents[i].stalls).end + Slack + MaxDelay < tick_now \/ NoKernelsLeft

(* ...and of the clusters that are waiting none does, unless a third report *)
(* explains why it was not there before.                                   *)
Accompanied ==
  \A i \in Filed :
    /\ Lone(i, "Kernel") => \A d \in Clusters("Scheduler") :
         is_twin(span_of(incidents[i].stalls), span_of(d)) => Company(incidents[i].stalls, d)
    /\ Lone(i, "Scheduler") => \A c \in Clusters("Kernel") :
         is_twin(span_of(c), span_of(incidents[i].stalls)) => Company(c, incidents[i].stalls)

LEMMA ClustersNext == ASSUME NEW kind, NEW Q, Q = OfKind(kind)' PROVE Clusters(kind)' = ClustersOf(Q)
  BY DEF Clusters, ClustersOf

LEMMA CompanyGrows == ASSUME NEW c, NEW d, Company(c, d), drained \subseteq drained' PROVE Company(c, d)'
  BY DEF Company

LEMMA TwinEnds ==
  ASSUME NEW a \in Nat, NEW b \in Nat, Apart(a, b) <= Slack
  PROVE  b <= a + Slack /\ a <= b + Slack
  BY TimesAre DEF Apart

(* A cluster that is over before anything new is a cluster of the old. *)
LEMMA NewClusters ==
  ASSUME TypeInv, NEW f \in BOOLEAN, tick(f), NEW kind, NEW d \in Clusters(kind)',
         \A s \in ToSet(rx) : s.kind = kind => s.end > span_of(d).end
  PROVE  d \in Clusters(kind) /\ span_of(d).end \in Nat
<1>1. PICK P : P = OfKind(kind)
  OBVIOUS
<1>2. PICK Q : Q = OfKind(kind)'
  OBVIOUS
<1>3. /\ pending' = pending \cup {s \in ToSet(rx) : ~s.minor}
      /\ ToSet(rx) \subseteq Report /\ IsFiniteSet(ToSet(rx))
  BY TickIs
<1>4. PendingOK
  BY TypesPending
<1>5. Q = P \cup {s \in ToSet(rx) : ~s.minor /\ s.kind = kind}
  BY <1>1, <1>2, <1>3 DEF OfKind
<1>6. P \subseteq Report /\ IsFiniteSet(P) /\ P \subseteq Q /\ Q \subseteq Report
  BY <1>1, <1>3, <1>4, <1>5, KindsOK
<1>7. IsFiniteSet(Q)
  <2>1. {s \in ToSet(rx) : ~s.minor /\ s.kind = kind} \in SUBSET ToSet(rx)
    OBVIOUS
  <2>2. IsFiniteSet({s \in ToSet(rx) : ~s.minor /\ s.kind = kind})
    BY <2>1, <1>3, FS_Subset
  <2> QED BY <2>2, <1>5, <1>6, FS_Union
<1>8. PICK x \in Starts(Q) : d = Cluster(Q, x)
  BY <1>2, ClustersNext DEF ClustersOf
<1>9. IsFiniteSet(d) /\ d # {} /\ d \subseteq Report
  BY <1>6, <1>7, <1>8, ClusterSpan
<1>10. span_of(d).end \in Nat /\ \A s \in d : s.end <= span_of(d).end
  BY <1>9, SpanIs
<1>11. d \subseteq Q
  BY <1>8 DEF Cluster
<1>12. d \subseteq P
  <2> SUFFICES ASSUME NEW s \in d, s \notin P PROVE FALSE
    OBVIOUS
  <2>1. s \in ToSet(rx) /\ s.kind = kind
    BY <1>5, <1>11
  <2>2. s.end > span_of(d).end /\ s.end <= span_of(d).end
    BY <2>1, <1>10
  <2>3. s.end \in Nat
    BY <1>9, ReportIs
  <2> QED BY <2>2, <2>3, <1>10
<1>13. x \in Starts(P) /\ Cluster(P, x) = d
  BY <1>6, <1>8, <1>12, ClusterBefore
<1> QED BY <1>1, <1>10, <1>13 DEF Clusters

(* What is left when the groups that are ready have been filed. *)
LEMMA FewerClusters ==
  ASSUME TypeInv, NEW ready, NEW new, Files(ready, new), NEW kind \in Kinds, NEW d \in Clusters(kind)'
  PROVE  d \in Clusters(kind)
<1>1. PICK P : P = OfKind(kind)
  OBVIOUS
<1>2. PICK Q : Q = OfKind(kind)'
  OBVIOUS
<1>3. ready = ReadyGroups /\ pending' = pending \ UNION {Of(ready[n]) : n \in 1 .. Len(ready)}
  BY DEF Files
<1>4. PendingOK
  BY TypesPending
<1>5. P \subseteq Report
  BY <1>1, <1>4, KindsOK
<1> DEFINE R == {x \in Starts(P) : \E n \in 1 .. Len(ready) : Cluster(P, x) \subseteq Of(ready[n])}
<1>6. ASSUME NEW n \in 1 .. Len(ready), NEW s \in P, s \in Of(ready[n])
      PROVE  \E r \in R : s \in Cluster(P, r)
  <2>1. PICK i \in 1 .. Len(Groups) : ready[n] = Groups[i]
    BY <1>3, <1>4, ReadyAre
  <2>2. /\ Groups[i].kernel # {} => Groups[i].kernel \in Clusters("Kernel")
        /\ Groups[i].sched # {} => Groups[i].sched \in Clusters("Scheduler")
    BY <1>4, GroupIs
  <2>3. s.kind = kind
    BY <1>1 DEF OfKind
  <2>4. PICK c \in Clusters(kind) : s \in c /\ c \subseteq Of(ready[n])
    <3>1. CASE s \in Groups[i].kernel
      <4>1. Groups[i].kernel \in Clusters("Kernel")
        BY <3>1, <2>2
      <4>2. kind = "Kernel"
        BY <3>1, <4>1, <2>3, <1>4, WaitingCluster
      <4> QED BY <3>1, <4>1, <4>2, <2>1 DEF Of
    <3>2. CASE s \in Groups[i].sched
      <4>1. Groups[i].sched \in Clusters("Scheduler")
        BY <3>2, <2>2
      <4>2. kind = "Scheduler"
        BY <3>2, <4>1, <2>3, <1>4, WaitingCluster
      <4> QED BY <3>2, <4>1, <4>2, <2>1 DEF Of
    <3> QED BY <3>1, <3>2, <1>6, <2>1 DEF Of
  <2>5. PICK x \in Starts(P) : c = Cluster(P, x)
    BY <2>4, <1>1 DEF Clusters
  <2> QED BY <2>4, <2>5
<1>7. Q = P \ UNION {Cluster(P, r) : r \in R}
  <2>1. Q = P \ UNION {Of(ready[n]) : n \in 1 .. Len(ready)}
    BY <1>1, <1>2, <1>3 DEF OfKind
  <2>2. ASSUME NEW s \in P
        PROVE  (s \in UNION {Of(ready[n]) : n \in 1 .. Len(ready)}) <=> (s \in UNION {Cluster(P, r) : r \in R})
    <3>1. ASSUME s \in UNION {Of(ready[n]) : n \in 1 .. Len(ready)} PROVE s \in UNION {Cluster(P, r) : r \in R}
      <4>1. PICK n \in 1 .. Len(ready) : s \in Of(ready[n])
        BY <3>1
      <4>2. PICK r \in R : s \in Cluster(P, r)
        BY <4>1, <1>6
      <4> HIDE DEF R
      <4> QED BY <4>2
    <3>2. ASSUME s \in UNION {Cluster(P, r) : r \in R} PROVE s \in UNION {Of(ready[n]) : n \in 1 .. Len(ready)}
      <4>1. PICK r \in R : s \in Cluster(P, r)
        BY <3>2
      <4>2. PICK n \in 1 .. Len(ready) : Cluster(P, r) \subseteq Of(ready[n])
        OBVIOUS
      <4>3. s \in Of(ready[n])
        BY <4>1, <4>2
      <4> QED BY <4>3
    <3> QED BY <3>1, <3>2
  <2> HIDE DEF R
  <2> QED BY <2>1, <2>2
<1>8. PICK x \in Starts(Q) : d = Cluster(Q, x)
  BY <1>2, ClustersNext DEF ClustersOf
<1>9. R \in SUBSET Starts(P)
  OBVIOUS
<1>10. x \in Starts(P) /\ Cluster(P, x) = d
  <2> HIDE DEF R
  <2> QED BY <1>5, <1>7, <1>8, <1>9, ClusterRemains
<1> QED BY <1>1, <1>10 DEF Clusters

(* What is filed without its twin while a twin is waiting is not alone. *)
LEMMA NewLone ==
  ASSUME TypeInv, StallsConserved, NEW ready, NEW new, Files(ready, new), NEW n \in 1 .. Len(ready),
         NEW all, all = Of(ready[n])
  PROVE  /\ (\A s \in all : s.kind = "Kernel") =>
              /\ all \in Clusters("Kernel") /\ ready[n].sched = {}
              /\ \A d \in Clusters("Scheduler") : is_twin(span_of(all), span_of(d)) => Company(all, d)
         /\ (\A s \in all : s.kind = "Scheduler") =>
              /\ all \in Clusters("Scheduler") /\ ready[n].kernel = {}
              /\ \A c \in Clusters("Kernel") : is_twin(span_of(c), span_of(all)) => Company(c, all)
<1>1. PendingOK /\ ready = ReadyGroups
  BY TypesPending DEF Files
<1>2. PICK i \in 1 .. Len(Groups) : ready[n] = Groups[i]
  BY <1>1, ReadyAre
<1>3. /\ Groups[i].kernel # {} => Groups[i].kernel \in Clusters("Kernel")
      /\ Groups[i].sched # {} => Groups[i].sched \in Clusters("Scheduler")
      /\ Of(Groups[i]) # {}
  BY <1>1, GroupIs
<1>4. /\ all = Groups[i].kernel \cup Groups[i].sched /\ all # {}
      /\ \A s \in Groups[i].kernel : s.kind = "Kernel"
      /\ \A s \in Groups[i].sched : s.kind = "Scheduler"
  <2>1. \A s \in Groups[i].kernel : s.kind = "Kernel"
    BY <1>1, <1>3, WaitingCluster
  <2>2. \A s \in Groups[i].sched : s.kind = "Scheduler"
    BY <1>1, <1>3, WaitingCluster
  <2> QED BY <2>1, <2>2, <1>2, <1>3 DEF Of
<1>5. \A u \in pending : u \in drained /\ ~u.minor
  BY DEF StallsConserved
<1>6. ASSUME \A s \in all : s.kind = "Kernel"
      PROVE  /\ all \in Clusters("Kernel") /\ ready[n].sched = {}
             /\ \A d \in Clusters("Scheduler") : is_twin(span_of(all), span_of(d)) => Company(all, d)
  <2>1. Groups[i].sched = {} /\ all = Groups[i].kernel
    BY <1>4, <1>6
  <2>2. ASSUME NEW d \in Clusters("Scheduler"), is_twin(span_of(all), span_of(d))
        PROVE  Company(all, d)
    <3>1. PICK u \in pending \ (all \cup d) : Apart(u.start, span_of(d).start) <= Slack
      BY <1>1, <2>1, <2>2, LoneKernel
    <3> QED BY <3>1, <1>5 DEF Company
  <2> QED BY <2>1, <2>2, <1>2, <1>3, <1>4
<1>7. ASSUME \A s \in all : s.kind = "Scheduler"
      PROVE  /\ all \in Clusters("Scheduler") /\ ready[n].kernel = {}
             /\ \A c \in Clusters("Kernel") : is_twin(span_of(c), span_of(all)) => Company(c, all)
  <2>1. Groups[i].kernel = {} /\ all = Groups[i].sched
    BY <1>4, <1>7
  <2>2. ASSUME NEW c \in Clusters("Kernel"), is_twin(span_of(c), span_of(all))
        PROVE  Company(c, all)
    <3>1. PICK u \in pending \ (c \cup all) : Apart(u.start, span_of(c).start) <= Slack
      BY <1>1, <2>1, <2>2, LoneSched
    <3> QED BY <3>1, <1>5 DEF Company
  <2> QED BY <2>1, <2>2, <1>2, <1>3, <1>4
<1> QED BY <1>6, <1>7

Twins == Settled /\ Accompanied /\ TwinsCountedOnce

LEMMA TickSettled ==
  ASSUME TypeInv, Timing, Settled, NEW f \in BOOLEAN, tick(f)
  PROVE  Settled'
<1>1. incidents' = incidents /\ tick_now' = now /\ (NoKernelsLeft => NoKernelsLeft')
  BY TickIs, TickTiming DEF tick
<1>2. Filed' = Filed
  BY <1>1 DEF Filed
<1>3. ASSUME NEW i \in Filed
      PROVE  /\ (\A s \in incidents[i].stalls : s.kind = "Kernel") => span_of(incidents[i].stalls).end + Slack < now
             /\ (\A s \in incidents[i].stalls : s.kind = "Scheduler") =>
                  span_of(incidents[i].stalls).end + Slack + MaxDelay < now \/ NoKernelsLeft
  <2>1. PICK e \in Nat : e = span_of(incidents[i].stalls).end
    BY FiledDrained, SpanIs
  <2>2. /\ (\A s \in incidents[i].stalls : s.kind = "Kernel") => e + Slack < tick_now
        /\ (\A s \in incidents[i].stalls : s.kind = "Scheduler") => e + Slack + MaxDelay < tick_now \/ NoKernelsLeft
    BY <2>1 DEF Settled, Lone
  <2>3. e + Slack < tick_now => e + Slack < now
    BY <2>1, Numbers
  <2>4. e + Slack + MaxDelay < tick_now => e + Slack + MaxDelay < now
    BY <2>1, Numbers
  <2> QED BY <2>1, <2>2, <2>3, <2>4
<1>4. \A i \in Filed' :
        /\ (\A s \in incidents'[i].stalls : s.kind = "Kernel") => span_of(incidents'[i].stalls).end + Slack < tick_now'
        /\ (\A s \in incidents'[i].stalls : s.kind = "Scheduler") =>
             span_of(incidents'[i].stalls).end + Slack + MaxDelay < tick_now' \/ NoKernelsLeft'
  BY <1>1, <1>2, <1>3
<1> QED BY <1>4 DEF Settled, Lone

LEMMA WaitingNext ==
  ASSUME TypeInv', NEW kind, NEW d \in Clusters(kind)'
  PROVE  span_of(d).end \in Nat
<1>1. PICK Q : Q = OfKind(kind)'
  OBVIOUS
<1>2. pending' \subseteq Report /\ IsFiniteSet(pending')
  <2>1. pending' \in SUBSET drained' /\ drained' \subseteq Report /\ IsFiniteSet(drained')
    BY DEF TypeInv, StallTypes
  <2> QED BY <2>1, FS_Subset
<1>3. Q \subseteq Report /\ IsFiniteSet(Q)
  <2>1. Q \in SUBSET pending'
    BY <1>1 DEF OfKind
  <2> QED BY <2>1, <1>2, FS_Subset
<1>4. PICK x \in Starts(Q) : d = Cluster(Q, x)
  BY <1>1, ClustersNext DEF ClustersOf
<1>5. d # {} /\ d \subseteq Report /\ IsFiniteSet(d)
  BY <1>3, <1>4, ClusterSpan
<1> QED BY <1>5, SpanIs

LEMMA TickAccompanied ==
  ASSUME TypeInv, Timing, Settled, Accompanied, NEW f \in BOOLEAN, tick(f)
  PROVE  Accompanied'
<1>1. incidents' = incidents /\ drained \subseteq drained'
  BY TickIs DEF tick
<1>2. Filed' = Filed
  BY <1>1 DEF Filed
<1>3. ASSUME NEW i \in Filed, \A s \in incidents[i].stalls : s.kind = "Kernel", NEW all, all = incidents[i].stalls,
             NEW d \in Clusters("Scheduler")', is_twin(span_of(all), span_of(d))
      PROVE  Company(all, d)'
  <2>1. PICK e \in Nat : e = span_of(all).end
    BY <1>3, FiledDrained, SpanIs
  <2>2. e + Slack < tick_now
    BY <1>3, <2>1 DEF Settled, Lone
  <2>3. span_of(d).end \in Nat
    BY WaitingNext, TickTypes
  <2>4. span_of(d).end <= e + Slack
    BY <1>3, <2>1, <2>3, TwinEnds DEF is_twin
  <2>5. \A s \in ToSet(rx) : s.kind = "Scheduler" => s.end > span_of(d).end
    <3> SUFFICES ASSUME NEW s \in ToSet(rx), s.kind = "Scheduler" PROVE s.end > span_of(d).end
      OBVIOUS
    <3>1. s.end >= tick_now /\ s.end \in Nat
      BY OnWay, ReportIs DEF Timing, RxTimes
    <3> QED BY <3>1, <2>1, <2>2, <2>3, <2>4, Numbers
  <2>6. d \in Clusters("Scheduler")
    BY <2>5, NewClusters
  <2>7. Company(all, d)
    BY <1>3, <2>6 DEF Accompanied, Lone
  <2> QED BY <2>7, <1>1, CompanyGrows
<1>4. ASSUME NEW i \in Filed, \A s \in incidents[i].stalls : s.kind = "Scheduler", NEW all, all = incidents[i].stalls,
             NEW c \in Clusters("Kernel")', is_twin(span_of(c), span_of(all))
      PROVE  Company(c, all)'
  <2>1. PICK e \in Nat : e = span_of(all).end
    BY <1>4, FiledDrained, SpanIs
  <2>2. e + Slack + MaxDelay < tick_now \/ NoKernelsLeft
    BY <1>4, <2>1 DEF Settled, Lone
  <2>3. span_of(c).end \in Nat
    BY WaitingNext, TickTypes
  <2>4. span_of(c).end <= e + Slack
    BY <1>4, <2>1, <2>3, TwinEnds DEF is_twin
  <2>5. \A s \in ToSet(rx) : s.kind = "Kernel" => s.end > span_of(c).end
    <3> SUFFICES ASSUME NEW s \in ToSet(rx), s.kind = "Kernel" PROVE s.end > span_of(c).end
      OBVIOUS
    <3>1. s.end + MaxDelay >= tick_now /\ s.end \in Nat
      BY OnWay, ReportIs DEF Timing, RxTimes
    <3>2. ~NoKernelsLeft
      BY DEF NoKernelsLeft
    <3> QED BY <3>1, <3>2, <2>1, <2>2, <2>3, <2>4, Numbers
  <2>6. c \in Clusters("Kernel")
    BY <2>5, NewClusters
  <2>7. Company(c, all)
    BY <1>4, <2>6 DEF Accompanied, Lone
  <2> QED BY <2>7, <1>1, CompanyGrows
<1> QED BY <1>1, <1>2, <1>3, <1>4 DEF Accompanied, Lone

(* Filed alone, a cluster is old: it has waited for its twin for long, or   *)
(* the run is over and the kernel probes were silent before it ended.      *)
LEMMA NewSettled ==
  ASSUME TypeInv, Timing, tick_stalls, NEW ready, NEW new, Files(ready, new), NEW n \in 1 .. Len(ready),
         NEW all, all = Of(ready[n]), ready[n].kernel = {} \/ ready[n].sched = {}
  PROVE  /\ (\A s \in all : s.kind = "Kernel") => span_of(all).end + Slack < tick_now
         /\ (\A s \in all : s.kind = "Scheduler") => span_of(all).end + Slack + MaxDelay < tick_now \/ NoKernelsLeft
<1>1. PendingOK /\ ready = ReadyGroups
  BY TypesPending DEF Files
<1>2. Ready(ready[n]) /\ ready[n] \in Group /\ \E i \in 1 .. Len(Groups) : ready[n] = Groups[i]
  BY <1>1, ReadyAre
<1>3. all \subseteq pending /\ all # {}
  BY <1>1, <1>2, GroupIs DEF Of, Group
<1>4. all \in SUBSET pending
  BY <1>3
<1>5. all \subseteq Report /\ IsFiniteSet(all) /\ all \subseteq drained
  BY <1>1, <1>3, <1>4, FS_Subset DEF PendingOK, TypeInv, StallTypes
<1>6. PICK e \in Nat : e = span_of(all).end
  BY <1>3, <1>5, SpanIs
<1>7. force \/ tick_now - e > TwinWait
  BY <1>2, <1>6 DEF Ready, Of
<1>8. CASE tick_now - e > TwinWait
  <2>1. e + Slack + MaxDelay < tick_now /\ e + Slack < tick_now
    BY SMTT(30), <1>6, <1>8, Numbers
  <2> QED BY <2>1, <1>6
<1>9. CASE force
  <2>1. phase # "running" /\ NoKernelsLeft /\ tick_now >= stop_at + StopWait
    BY <1>9 DEF tick_stalls, Timing, LastOnes
  <2>2. ASSUME \A s \in all : s.kind = "Kernel"
        PROVE  e + Slack < tick_now
    <3>1. PICK s \in all : s.end = e
      BY <1>3, <1>5, <1>6, SpanIs
    <3>2. s.end <= stop_at
      BY <2>1, <2>2, <1>5 DEF Timing, KernelsStop
    <3> QED BY <3>1, <3>2, <2>1, <1>6, Numbers
  <2> QED BY <2>1, <2>2, <1>6
<1> QED BY <1>7, <1>8, <1>9

LEMMA StallsTwins ==
  ASSUME TypeInv, StallsConserved, Timing, Twins, tick_stalls
  PROVE  Twins'
<1>0. PICK ready, new : Files(ready, new)
  BY StallsIs
<1>1. /\ \A i \in Filed : i \in Filed' /\ incidents'[i] = incidents[i]
      /\ \A i \in Filed' : i \in Filed \/ \E n \in 1 .. Len(ready) :
           i = Len(incidents) + n /\ incidents'[i].stalls = Of(ready[n])
  BY <1>0, FiledGrow
<1>2. drained' = drained /\ tick_now' = tick_now /\ (NoKernelsLeft => NoKernelsLeft')
  BY StallsTiming DEF tick_stalls
<1>3. \A kind \in Kinds : \A d \in Clusters(kind)' : d \in Clusters(kind)
  BY <1>0, FewerClusters
<1>4. "Kernel" \in Kinds /\ "Scheduler" \in Kinds
  BY DEF Kinds
<1>5. ASSUME NEW i \in Filed', NEW all, all = incidents'[i].stalls, \A s \in all : s.kind = "Kernel"
      PROVE  /\ span_of(all).end + Slack < tick_now
             /\ \A d \in Clusters("Scheduler") : is_twin(span_of(all), span_of(d)) => Company(all, d)
             /\ i \notin Filed => all \in Clusters("Kernel")
  <2>1. CASE i \in Filed
    <3>1. all = incidents[i].stalls
      BY <2>1, <1>1, <1>5
    <3> QED BY <3>1, <2>1, <1>5 DEF Twins, Settled, Accompanied, Lone
  <2>2. CASE i \notin Filed
    <3>1. PICK n \in 1 .. Len(ready) : all = Of(ready[n])
      BY <2>2, <1>1, <1>5
    <3>2. /\ all \in Clusters("Kernel") /\ ready[n].sched = {}
          /\ \A d \in Clusters("Scheduler") : is_twin(span_of(all), span_of(d)) => Company(all, d)
      BY <3>1, <1>0, <1>5, NewLone
    <3>3. span_of(all).end + Slack < tick_now
      BY <3>1, <3>2, <1>0, <1>5, NewSettled
    <3> QED BY <3>2, <3>3
  <2> QED BY <2>1, <2>2
<1>6. ASSUME NEW i \in Filed', NEW all, all = incidents'[i].stalls, \A s \in all : s.kind = "Scheduler"
      PROVE  /\ span_of(all).end + Slack + MaxDelay < tick_now \/ NoKernelsLeft
             /\ \A c \in Clusters("Kernel") : is_twin(span_of(c), span_of(all)) => Company(c, all)
             /\ i \notin Filed => all \in Clusters("Scheduler")
  <2>1. CASE i \in Filed
    <3>1. all = incidents[i].stalls
      BY <2>1, <1>1, <1>6
    <3> QED BY <3>1, <2>1, <1>6 DEF Twins, Settled, Accompanied, Lone
  <2>2. CASE i \notin Filed
    <3>1. PICK n \in 1 .. Len(ready) : all = Of(ready[n])
      BY <2>2, <1>1, <1>6
    <3>2. /\ all \in Clusters("Scheduler") /\ ready[n].kernel = {}
          /\ \A c \in Clusters("Kernel") : is_twin(span_of(c), span_of(all)) => Company(c, all)
      BY <3>1, <1>0, <1>6, NewLone
    <3>3. span_of(all).end + Slack + MaxDelay < tick_now \/ NoKernelsLeft
      BY <3>1, <3>2, <1>0, <1>6, NewSettled
    <3> QED BY <3>2, <3>3
  <2> QED BY <2>1, <2>2
<1>7. Settled'
  BY <1>2, <1>5, <1>6 DEF Settled, Lone
<1>8. \A c, d : Company(c, d) => Company(c, d)'
  BY <1>2, CompanyGrows
<1>9. Accompanied'
  BY <1>3, <1>4, <1>5, <1>6, <1>8 DEF Accompanied, Lone
<1>10. ASSUME NEW i \in Filed', NEW j \in Filed', NEW c, c = incidents'[i].stalls, NEW d, d = incidents'[j].stalls,
              \A s \in c : s.kind = "Kernel", \A s \in d : s.kind = "Scheduler", is_twin(span_of(c), span_of(d))
       PROVE  Company(c, d)
  <2>1. CASE i \in Filed /\ j \in Filed
    <3>1. c = incidents[i].stalls /\ d = incidents[j].stalls
      BY <2>1, <1>1, <1>10
    <3> QED BY <3>1, <2>1, <1>10 DEF Twins, TwinsCountedOnce, Lone
  <2>2. CASE j \notin Filed
    <3>1. d \in Clusters("Scheduler")
      BY <2>2, <1>6, <1>10
    <3> QED BY <3>1, <1>5, <1>10
  <2>3. CASE i \notin Filed
    <3>1. c \in Clusters("Kernel")
      BY <2>3, <1>5, <1>10
    <3> QED BY <3>1, <1>6, <1>10
  <2> QED BY <2>1, <2>2, <2>3
<1>11. TwinsCountedOnce'
  BY <1>8, <1>10 DEF TwinsCountedOnce, Lone
<1> QED BY <1>7, <1>9, <1>11 DEF Twins

LEMMA TwinsStay ==
  ASSUME Twins, UNCHANGED <<pending, drained, tick_now>>, Filed' = Filed,
         \A i \in Filed : incidents'[i] = incidents[i], NoKernelsLeft => NoKernelsLeft'
  PROVE  Twins'
<1>1. \A i \in Filed' : incidents'[i].stalls = incidents[i].stalls
  OBVIOUS
<1>2. Settled'
  BY <1>1 DEF Twins, Settled, Lone
<1>3. \A kind : Clusters(kind)' = Clusters(kind)
  BY DEF Clusters, OfKind
<1>4. \A c, d : Company(c, d) <=> Company(c, d)'
  BY DEF Company
<1>5. Accompanied'
  BY <1>1, <1>3, <1>4 DEF Twins, Accompanied, Lone
<1>6. TwinsCountedOnce'
  BY <1>1, <1>4 DEF Twins, TwinsCountedOnce, Lone
<1> QED BY <1>2, <1>5, <1>6 DEF Twins

(* An event seen by both kinds of probe is never filed once by each, unless *)
(* a third report began with it: whichever view is filed alone has waited   *)
(* for as long as the other one can be under way.                          *)
THEOREM TwinsAreCountedOnce == Spec => []TwinsCountedOnce
<1>1. Init => Twins
  <2> SUFFICES ASSUME Init PROVE Twins
    OBVIOUS
  <2>1. Filed = {}
    BY DEF Init, Filed
  <2> QED BY <2>1 DEF Twins, Settled, Accompanied, TwinsCountedOnce
<1>2. TypeInv /\ Once /\ StallsConserved /\ Timing /\ Twins /\ [Next]_vars => Twins'
  <2> SUFFICES ASSUME TypeInv, Once, StallsConserved, Timing, Twins, [Next]_vars PROVE Twins'
    OBVIOUS
  <2>1. NoKernelsLeft => NoKernelsLeft'
    BY NextTiming
  <2>2. CASE \E f \in BOOLEAN : tick(f)
    <3>1. PICK f \in BOOLEAN : tick(f)
      BY <2>2
    <3>2. Settled' /\ Accompanied'
      BY <3>1, TickSettled, TickAccompanied DEF Twins
    <3>3. TwinsCountedOnce'
      <4>1. incidents' = incidents /\ drained \subseteq drained'
        BY <3>1, TickIs DEF tick
      <4>2. \A c, d : Company(c, d) => Company(c, d)'
        BY <4>1, CompanyGrows
      <4> QED BY <4>1, <4>2 DEF Twins, TwinsCountedOnce, Filed, Lone
    <3> QED BY <3>2, <3>3 DEF Twins
  <2>3. CASE tick_stalls
    BY <2>3, StallsTwins
  <2>4. CASE process_marks
    <3>1. Filed' = Filed /\ \A i \in Filed : incidents'[i] = incidents[i]
      BY <2>4, FiledStays
    <3>2. UNCHANGED <<pending, drained, tick_now>>
      BY <2>4 DEF process_marks, stallVars
    <3> QED BY <3>1, <3>2, <2>1, TwinsStay
  <2>5. CASE ~(\E f \in BOOLEAN : tick(f)) /\ ~tick_stalls /\ ~process_marks
    <3>1. UNCHANGED <<pending, drained, tick_now, incidents>>
      BY <2>5 DEF Next, Tick, Advance, Trace, mark_now, run, probe_reader, Stop, vars, stallVars, tickVars
    <3>2. Filed' = Filed /\ \A i \in Filed : incidents'[i] = incidents[i]
      BY <3>1 DEF Filed
    <3> QED BY <3>1, <3>2, <2>1, TwinsStay
  <2> QED BY <2>2, <2>3, <2>4, <2>5
<1>3. Spec => []StallsConserved
  BY StallsAreConserved
<1>4. Twins => TwinsCountedOnce
  BY DEF Twins
<1>5. TypeInv /\ Once /\ Timing /\ [Next]_vars => Timing'
  BY NextTiming
<1> QED BY <1>1, <1>2, <1>3, <1>4, <1>5, TypeInvariant, InitOnce, NextOnce, InitTiming, PTL DEF Spec

-----------------------------------------------------------------------------
(* Every step of the analyzer is one that IncidentLog allows.              *)

LogStep == Log!Next \/ UNCHANGED Log!logged

SameLine == MarkLine' = MarkLine /\ Len(examined') = Len(examined)

(* Incidents that are filed together. *)
Filing(batch) ==
  /\ \A c, d \in batch : c # d => c \cap d = {}
  /\ {} \notin batch
  /\ UNION batch \subseteq pending
  /\ FiledStalls' = FiledStalls \cup batch
  /\ Reported' = Reported \ UNION batch

LEMMA Unseen ==
  ASSUME Reported' = Reported, FiledStalls' = FiledStalls, SameLine, State' = State, owed' = owed
  PROVE  LogStep
  BY DEF LogStep, SameLine, Log!logged

LEMMA SeenReport ==
  ASSUME NEW s \in FullStalls, s \notin Reported \cup UNION FiledStalls, Reported' = Reported \cup {s},
         FiledStalls' = FiledStalls, SameLine, State' = State, owed' = owed
  PROVE  LogStep
  BY DEF LogStep, SameLine, Log!Next, Log!Report

LEMMA SeenFlag ==
  ASSUME NEW t \in Times, MarkLine' = Append(MarkLine, t), Len(examined') = Len(examined),
         Reported' = Reported, FiledStalls' = FiledStalls, State' = State, owed' = owed
  PROVE  LogStep
  BY DEF LogStep, Log!Next, Log!Flag

LEMMA SeenAnswer ==
  ASSUME NEW n \in 1 .. Len(MarkLine), n > Len(examined), Len(examined') = n, MarkLine' = MarkLine,
         Reported' = Reported, FiledStalls' = FiledStalls, State' = State, owed' = owed
  PROVE  LogStep
  BY DEF LogStep, Log!Next, Log!Answer

LEMMA SeenFile ==
  ASSUME NEW batch, Filing(batch), SameLine, State' = State, owed' = owed
  PROVE  LogStep
<1>1. CASE batch = {}
  <2>1. Reported' = Reported /\ FiledStalls' = FiledStalls
    BY <1>1 DEF Filing
  <2> QED BY <2>1, Unseen
<1>2. CASE batch # {}
  <2>1. batch \in SUBSET SUBSET Reported
    BY DEF Filing, Reported
  <2>2. Log!File(batch)
    BY <1>2 DEF Filing, SameLine, Log!File, Log!Files
  <2> QED BY <2>1, <2>2 DEF LogStep, Log!Next
<1> QED BY <1>1, <1>2

LEMMA SeenClose ==
  ASSUME NEW batch, Filing(batch), SameLine, State = "ending", State' = "over", owed' = owed,
         owed.stalls \subseteq UNION FiledStalls', owed.marks <= Len(examined)
  PROVE  LogStep
<1>1. batch \in SUBSET SUBSET Reported
  BY DEF Filing, Reported
<1>2. Log!Close(batch)
  BY DEF Filing, SameLine, Log!Close, Log!Files
<1> QED BY <1>1, <1>2 DEF LogStep, Log!Next

LEMMA SeenEnd ==
  ASSUME NEW lost \in SUBSET Reported, Reported' = Reported \ lost, State = "on", State' = "ending",
         owed' = [stalls |-> Reported', marks |-> Len(MarkLine)], FiledStalls' = FiledStalls, SameLine
  PROVE  LogStep
<1>1. Log!End(lost)
  BY DEF SameLine, Log!End
<1> QED BY <1>1 DEF LogStep, Log!Next

LEMMA StateIs ==
  /\ phase = "running" => State = "on"
  /\ phase \in {"stopping", "flushed"} => State = "ending"
  /\ phase = "done" => State = "over"
  BY Zenon DEF State

LEMMA StateNext ==
  /\ phase' = "running" => State' = "on"
  /\ phase' \in {"stopping", "flushed"} => State' = "ending"
  /\ phase' = "done" => State' = "over"
  BY Zenon DEF State

(* What IncidentLog sees of the incidents stays with the incidents. *)
LEMMA FiledSame == ASSUME incidents' = incidents PROVE FiledStalls' = FiledStalls
  BY DEF FiledStalls, Filed

LEMMA ReportedSame == ASSUME UNCHANGED <<wire, rx, pending>> PROVE Reported' = Reported
  BY DEF Reported, Full

LEMMA LineSame == ASSUME UNCHANGED <<examined, marks_pending, MARKS>> PROVE SameLine
  BY DEF SameLine, MarkLine

-----------------------------------------------------------------------------
(* The clock of a run that ends is bounded.                                *)

Bounded ==
  /\ phase = "running" => now <= MaxNow
  /\ phase # "running" => stop_at <= MaxNow /\ now <= stop_at + StopWait + 1

LEMMA InitBounded == Init => Bounded
  BY AnalyzerAssumption DEF Init, Bounded

LEMMA BoundedStays ==
  ASSUME Bounded, UNCHANGED <<now, stop_at>>, phase' = "running" <=> phase = "running"
  PROVE  Bounded'
  BY DEF Bounded

LEMMA NextBounded == TypeInv /\ Bounded /\ [Next]_vars => Bounded'
<1> SUFFICES ASSUME TypeInv, Bounded, [Next]_vars PROVE Bounded'
  OBVIOUS
<1>0. now \in Nat /\ stop_at \in Nat /\ MaxNow \in Nat /\ StopWait \in Nat
  BY AnalyzerAssumption, Numbers
<1>1. CASE (\E ts \in 1 .. now : Trace(ts)) \/ mark_now \/ process_marks
  BY <1>1, BoundedStays DEF Trace, mark_now, process_marks, clockVars, tickVars, runVars
<1>2. CASE (\E p \in Probes : \E start \in woke[p] .. now : run(p, start)) \/ probe_reader
  BY <1>2, BoundedStays DEF run, probe_reader, clockVars, tickVars, runVars
<1>3. CASE Advance
  BY <1>0, <1>3 DEF Advance, Bounded, runVars
<1>4. CASE Stop
  BY <1>0, <1>4 DEF Stop, Bounded, clockVars
<1>5. CASE \E f \in BOOLEAN : tick(f)
  BY <1>5, BoundedStays DEF tick, clockVars, runVars
<1>6. CASE tick_stalls
  <2>1. UNCHANGED <<now, stop_at>>
    BY <1>6 DEF tick_stalls, clockVars
  <2>2. phase' = "running" <=> phase = "running"
    BY <1>6 DEF tick_stalls, TypeInv, StepTypes
  <2> QED BY <2>1, <2>2, BoundedStays
<1>7. CASE UNCHANGED vars
  BY <1>7, BoundedStays DEF vars, clockVars, runVars
<1> QED BY <1>1, <1>2, <1>3, <1>4, <1>5, <1>6, <1>7 DEF Next, Tick

LEMMA InTimes == ASSUME TypeInv, Bounded, NEW t \in Nat, t <= now PROVE t \in Times
<1>1. now \in Nat /\ stop_at \in Nat /\ MaxNow \in Nat /\ StopWait \in Nat
  BY AnalyzerAssumption, Numbers
<1>2. now <= MaxNow + StopWait + 1
  BY <1>1 DEF Bounded
<1> QED BY <1>1, <1>2 DEF Times

-----------------------------------------------------------------------------
(* What each step does to the reports.                                     *)

LEMMA OwnReports == ASSUME TypeInv PROVE Reported \cup UNION FiledStalls \subseteq ToSet(wire) \cup ToSet(rx) \cup drained
<1>1. pending \subseteq drained
  BY DEF TypeInv, StallTypes
<1>2. Reported \subseteq ToSet(wire) \cup ToSet(rx) \cup drained
  BY <1>1 DEF Reported, Full
<1>3. UNION FiledStalls \subseteq drained
  BY FiledDrained DEF FiledStalls
<1> QED BY <1>2, <1>3

LEMMA RunLogs ==
  ASSUME TypeInv, Once, Bounded, NEW p \in Probes, NEW start \in woke[p] .. now, run(p, start), owed' = owed
  PROVE  LogStep
<1>1. PICK s : s = Late(p, start)
  OBVIOUS
<1>2. /\ s \in Report /\ s.cpu = p /\ s.end = now /\ woke[p] < now
      /\ \/ rx' = Append(rx, s) /\ wire' = wire
         \/ wire' = Append(wire, s) /\ rx' = rx
  BY <1>1, RunIs
<1>3. UNCHANGED <<pending, incidents, examined, marks_pending, MARKS, phase>>
  BY DEF run, stallVars, markVars, runVars
<1>4. FiledStalls' = FiledStalls /\ SameLine /\ State' = State
  BY <1>3, FiledSame, LineSame DEF State
<1>5. wire \in Seq(Report) /\ rx \in Seq(Report)
  BY OnWay
<1>6. Full(wire)' \cup Full(rx)' = Full(wire) \cup Full(rx) \cup {x \in {s} : ~x.minor}
  <2>1. ToSet(Append(rx, s)) = ToSet(rx) \cup {s} /\ ToSet(Append(wire, s)) = ToSet(wire) \cup {s}
    BY <1>2, <1>5, MembersOfAppend
  <2>2. ToSet(wire') \cup ToSet(rx') = ToSet(wire) \cup ToSet(rx) \cup {s}
    BY <1>2, <2>1
  <2> QED BY <2>2 DEF Full
<1>7. s \notin Reported \cup UNION FiledStalls
  <2> SUFFICES ASSUME s \in Reported \cup UNION FiledStalls PROVE FALSE
    OBVIOUS
  <2>1. s.end <= woke[s.cpu]
    BY OwnReports DEF Once
  <2>2. woke[p] \in Nat /\ now \in Nat
    BY DEF TypeInv, ClockTypes
  <2> QED BY <1>2, <2>1, <2>2
<1>8. CASE s.minor
  <2>1. Reported' = Reported
    BY <1>3, <1>6, <1>8 DEF Reported
  <2> QED BY <1>4, <2>1, Unseen
<1>9. CASE ~s.minor
  <2>1. Reported' = Reported \cup {s}
    BY <1>3, <1>6, <1>9 DEF Reported
  <2>2. s \in FullStalls
    <3>1. s \in Stall /\ s.start \in Nat /\ s.end \in Nat /\ s.start < s.end /\ s.minor \in BOOLEAN /\ now \in Nat
      BY <1>2, ReportIs DEF Report, TypeInv, ClockTypes
    <3>2. s.start <= now /\ s.end <= now
      BY <1>2, <3>1
    <3>3. s.start \in Times /\ s.end \in Times /\ s.minor = FALSE
      BY <1>9, <3>1, <3>2, InTimes
    <3> QED BY <3>1, <3>3 DEF Stall, FullStalls
  <2> QED BY <1>4, <1>7, <2>1, <2>2, SeenReport
<1> QED BY <1>8, <1>9

LEMMA ReaderLogs == ASSUME TypeInv, probe_reader, owed' = owed PROVE LogStep
<1>1. wire # <<>> /\ wire' = Tail(wire) /\ rx' = Append(rx, Head(wire))
  BY DEF probe_reader
<1>2. UNCHANGED <<pending, incidents, examined, marks_pending, MARKS, phase>>
  BY DEF probe_reader, stallVars, markVars, runVars
<1>3. FiledStalls' = FiledStalls /\ SameLine /\ State' = State
  BY <1>2, FiledSame, LineSame DEF State
<1>4. wire \in Seq(Report) /\ rx \in Seq(Report)
  BY OnWay
<1>5. PICK s \in Report : s = Head(wire)
  BY <1>1, <1>4, MembersOfTail
<1>6. ToSet(wire) = {s} \cup ToSet(wire')
  BY <1>1, <1>4, <1>5, MembersOfTail
<1>7. ToSet(rx') = ToSet(rx) \cup {s}
  BY <1>1, <1>4, <1>5, MembersOfAppend
<1>8. Reported' = Reported
  BY <1>2, <1>6, <1>7 DEF Reported, Full
<1> QED BY <1>3, <1>8, Unseen

LEMMA TickLogs == ASSUME TypeInv, NEW f \in BOOLEAN, tick(f), owed' = owed PROVE LogStep
<1>1. pending' = pending \cup {s \in ToSet(rx) : ~s.minor} /\ rx' = <<>>
  BY TickIs
<1>2. UNCHANGED <<wire, incidents, examined, marks_pending, MARKS, phase>>
  BY DEF tick, probeVars, markVars, runVars
<1>3. FiledStalls' = FiledStalls /\ SameLine /\ State' = State
  BY <1>2, FiledSame, LineSame DEF State
<1>4. ToSet(rx') = {}
  BY <1>1 DEF ToSet
<1>5. Reported' = Reported
  BY <1>1, <1>2, <1>4 DEF Reported, Full
<1> QED BY <1>3, <1>5, Unseen

LEMMA StopLogs ==
  ASSUME TypeInv, Once, Stop, owed' = [stalls |-> Reported', marks |-> Len(MarkLine)]
  PROVE  LogStep
<1>1. UNCHANGED <<rx, pending, incidents, examined, marks_pending, MARKS>> /\ phase = "running" /\ phase' = "stopping"
  BY DEF Stop, stallVars, markVars
<1>2. FiledStalls' = FiledStalls /\ SameLine /\ State = "on" /\ State' = "ending"
  BY <1>1, FiledSame, LineSame, StateIs, StateNext
<1>3. wire \in Seq(Report)
  BY OnWay
<1>4. PICK n \in 0 .. Len(wire) : wire' = SubSeq(wire, 1, n)
  BY DEF Stop
<1>5. ToSet(wire') \subseteq ToSet(wire)
  <2>1. /\ wire' \in Seq(Report) /\ Len(wire') = n
        /\ \A i \in 1 .. n : wire'[i] = wire[i] /\ i \in 1 .. Len(wire)
    BY <1>3, <1>4, FirstPart
  <2>2. ToSet(wire') = {wire'[i] : i \in 1 .. Len(wire')} /\ ToSet(wire) = {wire[i] : i \in 1 .. Len(wire)}
    BY <1>3, <2>1, MembersAre
  <2> QED BY <2>1, <2>2
<1>6. PICK lost : lost = Full(wire) \ Full(wire')
  OBVIOUS
<1>7. lost \subseteq ToSet(wire) /\ lost \in SUBSET Reported
  BY <1>6 DEF Full, Reported
<1>8. ToSet(wire) \cap ToSet(rx) = {} /\ ToSet(wire) \cap pending = {}
  BY DEF Once, TypeInv, StallTypes
<1>9. Reported' = Reported \ lost
  <2>1. Reported' = Full(wire') \cup Full(rx) \cup pending
    BY <1>1 DEF Reported, Full
  <2>2. Full(wire') \subseteq Full(wire) /\ Full(rx) \subseteq ToSet(rx)
    BY <1>5 DEF Full
  <2> QED BY <1>6, <1>7, <1>8, <2>1, <2>2 DEF Reported
<1> QED BY <1>2, <1>7, <1>9, SeenEnd

LEMMA FlagLogs == ASSUME TypeInv, Bounded, mark_now, owed' = owed PROVE LogStep
<1>1. UNCHANGED <<wire, rx, pending, incidents, examined, phase>>
  BY DEF mark_now, probeVars, stallVars, markVars, runVars
<1>2. Reported' = Reported /\ FiledStalls' = FiledStalls /\ State' = State
  BY <1>1, FiledSame, ReportedSame DEF State
<1>3. now \in Nat /\ now \in Times
  <2>1. now \in Nat
    BY Numbers
  <2> QED BY <2>1, InTimes
<1>4. MarkLine' = Append(MarkLine, now)
  <2>1. MarkLine' = MarkLine \o <<now>>
    BY FlagGrows
  <2>2. MarkLine \in Seq(Nat)
    BY MarkLineIs
  <2> QED BY <2>1, <2>2, <1>3, AppendIsConcat
<1> QED BY <1>1, <1>2, <1>3, <1>4, SeenFlag

(* Answering marks: none, or the next ones in line. *)
LEMMA AnswersAdd ==
  ASSUME TypeInv, InLine, process_marks
  PROVE  /\ MarkLine' = MarkLine
         /\ Len(examined) \in Nat /\ Len(examined') \in Nat /\ Len(MarkLine) \in Nat
         /\ Len(examined) <= Len(examined') /\ Len(examined') <= Len(MarkLine)
         /\ force => Len(examined') = Len(MarkLine)
<1>1. PICK ans, new : Answered(Line, ans, new)
  BY ProcessIs
<1>2. /\ At(Line, Ripe(Line)) \o marks_pending' = Line
      /\ At(Line, Ripe(Line)) \in Seq(Nat) /\ marks_pending' \in Seq(Nat)
  BY <1>1, ProcessLine
<1>3. Line \in Seq(Nat) /\ Len(Line) \in Nat /\ DOMAIN Line = 1 .. Len(Line)
  BY LineIs, LenProperties DEF TypeInv
<1>4. /\ examined \in Seq(Answer) /\ ans \in Seq(Answer) /\ examined' = examined \o ans
      /\ Len(ans) = Len(At(Line, Ripe(Line)))
  BY <1>1 DEF Answered, TypeInv, MarkTypes
<1>5. Len(examined') = Len(examined) + Len(ans) /\ Len(examined) \in Nat /\ Len(ans) \in Nat
  BY <1>4, ConcatProperties, LenProperties
<1>6. Len(MarkLine) = Len(examined) + Len(Line)
  <2>1. MarkLine = Told \o Line /\ Told \in Seq(Nat)
    BY MarkLineIs
  <2>2. DOMAIN Told = DOMAIN examined
    BY DEF Told
  <2>3. Len(Told) = Len(examined)
    BY <1>4, <2>1, <2>2, LenProperties
  <2>4. Len(Told \o Line) = Len(Told) + Len(Line)
    BY <1>3, <2>1, ConcatProperties
  <2> QED BY <2>1, <2>3, <2>4
<1>7. Len(ans) <= Len(Line)
  <2>1. Len(Line) = Len(At(Line, Ripe(Line))) + Len(marks_pending') /\ Len(marks_pending') \in Nat
    BY <1>2, ConcatProperties, LenProperties
  <2> QED BY <2>1, <1>4, <1>5
<1>8. ASSUME force
      PROVE  Len(ans) = Len(Line)
  <2>1. Ripe(Line) = DOMAIN Line
    BY <1>8 DEF Ripe, MarkIsRipe
  <2>2. 0 \in 0 .. Len(Line) /\ Len(Line) \in 0 .. Len(Line)
    BY <1>3
  <2>3. At(Line, 1 .. Len(Line)) = SubSeq(Line, 1, Len(Line))
    BY <1>3, <2>2, SplitAt
  <2>4. Len(SubSeq(Line, 1, Len(Line))) = Len(Line)
    BY <1>3, <2>2, FirstPart
  <2> QED BY <1>3, <1>4, <2>1, <2>3, <2>4
<1>9. MarkLine' = MarkLine
  BY AnswersStay
<1> QED BY <1>3, <1>5, <1>6, <1>7, <1>8, <1>9

LEMMA MarksLogs == ASSUME TypeInv, InLine, process_marks, owed' = owed PROVE LogStep
<1>1. UNCHANGED <<wire, rx, pending, phase>>
  BY DEF process_marks, probeVars, stallVars, runVars
<1>2. Reported' = Reported /\ State' = State
  BY <1>1, ReportedSame DEF State
<1>3. FiledStalls' = FiledStalls
  BY FiledStays DEF FiledStalls
<1>4. CASE Len(examined') = Len(examined)
  BY <1>2, <1>3, <1>4, AnswersAdd, Unseen DEF SameLine
<1>5. CASE Len(examined') # Len(examined)
  <2>1. Len(examined') \in 1 .. Len(MarkLine) /\ Len(examined') > Len(examined) /\ MarkLine' = MarkLine
    BY <1>5, AnswersAdd
  <2>2. PICK n \in 1 .. Len(MarkLine) : n = Len(examined')
    BY <2>1
  <2> QED BY <1>2, <1>3, <2>1, <2>2, SeenAnswer
<1> QED BY <1>4, <1>5

-----------------------------------------------------------------------------
(* The last analysis files everything.                                     *)

LEMMA GroupsCover ==
  ASSUME PendingOK, NEW s \in pending
  PROVE  \E i \in 1 .. Len(Groups) : s \in Of(Groups[i])
<1>1. PICK ks, left, rest : GroupsAre(ks, left, rest)
  BY GroupsSpec
<1>2. /\ left = LeftAfter(ks) /\ Len(Groups) = Len(ks) + Len(rest)
      /\ ks \in Seq(Clusters("Kernel")) /\ rest \in Seq(left[Len(ks)])
  BY <1>1 DEF GroupsAre
<1>3. Len(ks) \in Nat /\ Len(rest) \in Nat
  BY <1>2, LenProperties
<1>4. s \in Report /\ s.kind \in {"Kernel", "Scheduler"}
  BY DEF PendingOK, Report, Stall, Kinds
<1>5. PICK c \in Clusters(s.kind) : s \in c
  <2>1. s \in OfKind(s.kind) /\ OfKind(s.kind) \subseteq Report
    BY KindsOK DEF OfKind
  <2>2. \E x \in Starts(OfKind(s.kind)) : s \in Cluster(OfKind(s.kind), x)
    BY <2>1, ClustersCover
  <2> QED BY <2>2 DEF Clusters
<1>6. CASE s.kind = "Kernel"
  <2>1. PICK n \in 1 .. Len(ks) : ks[n] = c
    BY <1>1, <1>5, <1>6 DEF GroupsAre
  <2>2. Groups[n].kernel = c
    BY <1>1, <2>1 DEF GroupsAre
  <2>3. n \in 1 .. Len(Groups)
    BY <1>2, <1>3, <2>1
  <2> QED BY <1>5, <2>2, <2>3 DEF Of
<1>7. CASE s.kind = "Scheduler"
  <2>1. CASE c \in left[Len(ks)]
    <3>1. PICK n \in 1 .. Len(rest) : rest[n] = c
      BY <1>1, <2>1 DEF GroupsAre
    <3>2. Groups[Len(ks) + n].sched = c
      BY <1>1, <3>1 DEF GroupsAre
    <3>3. Len(ks) + n \in 1 .. Len(Groups)
      BY <1>2, <1>3, <3>1
    <3> QED BY <1>5, <3>2, <3>3 DEF Of
  <2>2. CASE c \notin left[Len(ks)]
    <3>1. Len(ks) \in 0 .. Len(ks) /\ c \in Clusters("Scheduler") /\ c \notin LeftAfter(ks)[Len(ks)]
      BY <1>2, <1>3, <1>5, <1>7, <2>2
    <3>2. PICK j \in 1 .. Len(ks) : c \in Takes(ks[j], LeftAfter(ks)[j - 1])
      BY <1>3, <3>1, TakenBy
    <3>3. Groups[j].sched = UNION Takes(ks[j], LeftAfter(ks)[j - 1])
      BY <1>1, <1>2, <3>2 DEF GroupsAre
    <3>4. j \in 1 .. Len(Groups)
      BY <1>2, <1>3, <3>2
    <3> QED BY <1>5, <3>2, <3>3, <3>4 DEF Of
  <2> QED BY <2>1, <2>2
<1> QED BY <1>4, <1>6, <1>7

LEMMA AllReady ==
  ASSUME PendingOK, force, NEW ready, ready = ReadyGroups
  PROVE  pending \subseteq UNION {Of(ready[n]) : n \in 1 .. Len(ready)}
<1>1. Groups \in Seq(Group) /\ DOMAIN Groups = 1 .. Len(Groups)
  BY GroupsSeq, LenProperties
<1>2. ready = At(Groups, DOMAIN Groups)
  <2>1. {i \in DOMAIN Groups : Ready(Groups[i])} = DOMAIN Groups
    BY DEF Ready
  <2> QED BY <2>1 DEF ReadyGroups
<1>3. At(Groups, DOMAIN Groups) \in Seq(Group) /\ ToSet(At(Groups, DOMAIN Groups)) = {Groups[i] : i \in DOMAIN Groups}
  BY <1>1, MembersAt
<1>4. ToSet(ready) = {ready[n] : n \in 1 .. Len(ready)}
  BY <1>2, <1>3, MembersAre
<1>5. \A s \in pending : \E i \in DOMAIN Groups : s \in Of(Groups[i])
  BY <1>1, GroupsCover
<1>6. {ready[n] : n \in 1 .. Len(ready)} = {Groups[i] : i \in DOMAIN Groups}
  BY <1>2, <1>3, <1>4
<1> QED BY <1>5, <1>6

(* What the last step of a tick files, as IncidentLog sees it. *)
LEMMA StallsFile ==
  ASSUME TypeInv, Once, tick_stalls
  PROVE  \E batch : Filing(batch) /\ (force => pending \subseteq UNION batch)
<1>1. PICK ready, new : Files(ready, new)
  BY StallsIs
<1>2. PendingOK /\ ready = ReadyGroups /\ pending' = pending \ UNION {Of(ready[n]) : n \in 1 .. Len(ready)}
  BY <1>1, TypesPending DEF Files
<1>3. PICK batch : batch = {Of(ready[n]) : n \in 1 .. Len(ready)}
  OBVIOUS
<1>4. /\ \A n \in 1 .. Len(ready) : Of(ready[n]) \subseteq pending /\ Of(ready[n]) # {}
      /\ \A n, m \in 1 .. Len(ready) : n # m => Of(ready[n]) \cap Of(ready[m]) = {}
  <2>1. /\ \A n \in 1 .. Len(ready) : ready[n] \in Group /\ \E i \in 1 .. Len(Groups) : ready[n] = Groups[i]
        /\ \A n, m \in 1 .. Len(ready) : n # m => Of(ready[n]) \cap Of(ready[m]) = {}
    BY <1>2, ReadyAre
  <2>2. \A n \in 1 .. Len(ready) : Of(ready[n]) \subseteq pending /\ Of(ready[n]) # {}
    BY <1>2, <2>1, GroupIs DEF Group, Of
  <2> QED BY <2>1, <2>2
<1>5. \A c, d \in batch : c # d => c \cap d = {}
  BY <1>3, <1>4
<1>6. {} \notin batch /\ UNION batch \subseteq pending
  BY <1>3, <1>4
<1>7. FiledStalls' = FiledStalls \cup batch
  <2>1. /\ \A i \in Filed : i \in Filed' /\ incidents'[i] = incidents[i]
        /\ \A i \in Filed' : i \in Filed \/ \E n \in 1 .. Len(ready) :
             i = Len(incidents) + n /\ incidents'[i].stalls = Of(ready[n])
        /\ \A n \in 1 .. Len(ready) :
             Len(incidents) + n \in Filed' /\ incidents'[Len(incidents) + n].stalls = Of(ready[n])
    BY <1>1, FiledGrow
  <2>2. PICK filed1 : filed1 = FiledStalls'
    OBVIOUS
  <2>3. filed1 = {incidents'[i].stalls : i \in Filed'}
    BY <2>2 DEF FiledStalls
  <2>4. filed1 \subseteq FiledStalls \cup batch
    BY <1>3, <2>1, <2>3 DEF FiledStalls
  <2>5. FiledStalls \subseteq filed1
    BY <2>1, <2>3 DEF FiledStalls
  <2>6. batch \subseteq filed1
    BY <1>3, <2>1, <2>3
  <2> QED BY <2>2, <2>4, <2>5, <2>6
<1>8. Reported' = Reported \ UNION batch
  <2>1. PICK gone : gone = UNION batch
    OBVIOUS
  <2>2. PICK way : way = Full(wire) \cup Full(rx)
    OBVIOUS
  <2>3. UNCHANGED <<wire, rx>> /\ pending' = pending \ gone
    BY <1>2, <1>3, <2>1 DEF tick_stalls, probeVars
  <2>4. Reported' = way \cup (pending \ gone) /\ Reported = way \cup pending
    BY <2>2, <2>3 DEF Reported, Full
  <2>5. gone \cap way = {}
    <3>1. gone \subseteq drained
      BY <1>6, <2>1 DEF TypeInv, StallTypes
    <3>2. way \subseteq ToSet(wire) \cup ToSet(rx)
      BY <2>2 DEF Full
    <3> QED BY <3>1, <3>2 DEF Once
  <2> QED BY <2>1, <2>4, <2>5
<1>9. force => pending \subseteq UNION batch
  BY <1>2, <1>3, AllReady
<1> QED BY <1>5, <1>6, <1>7, <1>8, <1>9 DEF Filing

-----------------------------------------------------------------------------
(* What is owed when the run is being stopped, and what has become of it.  *)

Forced == pc # "idle" /\ phase # "running" => force

(* The marks have been answered once the first forced look at them is over. *)
Answering == phase \in {"flushed", "done"} \/ (phase = "stopping" /\ pc = "stalls")

Debts ==
  phase # "running" =>
    /\ owed.stalls \subseteq Reported \cup UNION FiledStalls
    /\ \A s \in owed.stalls : s.end <= stop_at
    /\ owed.marks \in Nat /\ owed.marks <= Len(MarkLine)
    /\ Answering => owed.marks <= Len(examined)

LEMMA NextForced == TypeInv /\ Forced /\ [Next]_vars => Forced'
<1> SUFFICES ASSUME TypeInv, Forced, [Next]_vars PROVE Forced'
  OBVIOUS
<1>1. CASE (\E f \in BOOLEAN : tick(f))
  BY <1>1 DEF tick, MayTick, Forced, runVars
<1>2. CASE tick_stalls \/ Stop
  BY <1>2 DEF tick_stalls, Stop, Forced, tickVars
<1>3. CASE ~(\E f \in BOOLEAN : tick(f)) /\ ~tick_stalls /\ ~Stop
  <2>1. UNCHANGED <<phase, force>> /\ (pc' # "idle" => pc # "idle")
    BY <1>3 DEF Next, Tick, Advance, Trace, mark_now, run, probe_reader, process_marks, vars, tickVars, runVars
  <2> QED BY <2>1 DEF Forced
<1> QED BY <1>1, <1>2, <1>3

LEMMA StallsLogs ==
  ASSUME TypeInv, Once, Timing, Forced, Debts, tick_stalls, owed' = owed
  PROVE  LogStep
<1>1. PICK batch : Filing(batch) /\ (force => pending \subseteq UNION batch)
  BY StallsFile
<1>2. UNCHANGED <<wire, rx, examined, marks_pending, MARKS>> /\ pc = "stalls"
  BY DEF tick_stalls, probeVars, markVars
<1>3. SameLine
  BY <1>2, LineSame
<1>4. CASE phase = "running" \/ phase = "stopping"
  <2>1. \/ phase = "running" /\ phase' = "running"
        \/ phase = "stopping" /\ phase' = "flushed"
    BY Zenon, <1>4 DEF tick_stalls
  <2>2. State' = State
    BY <2>1, StateIs, StateNext
  <2> QED BY <1>1, <1>3, <2>2, SeenFile
<1>5. CASE phase = "flushed"
  <2>1. phase' = "done"
    BY Zenon, <1>5 DEF tick_stalls
  <2>2. State = "ending" /\ State' = "over"
    BY <1>5, <2>1, StateIs, StateNext
  <2>3. /\ owed.stalls \subseteq Reported \cup UNION FiledStalls /\ owed.marks <= Len(examined)
        /\ \A s \in owed.stalls : s.end <= stop_at
    BY <1>5 DEF Debts, Answering
  <2>4. wire = <<>> /\ (\A s \in ToSet(rx) : s.kind = "Scheduler") /\ tick_now >= stop_at + StopWait
    BY <1>2, <1>5 DEF Timing, LastOnes, NoKernelsLeft
  <2>5. \A s \in ToSet(rx) : ~(s.end <= stop_at)
    <3>1. TAKE s \in ToSet(rx)
    <3>2. s.end >= tick_now /\ s.end \in Nat
      BY <2>4, OnWay, ReportIs DEF Timing, RxTimes
    <3> QED BY <2>4, <3>2, Numbers
  <2>6. ToSet(wire) = {}
    BY <2>4 DEF ToSet
  <2>7. owed.stalls \subseteq pending \cup UNION FiledStalls
    BY <2>3, <2>5, <2>6 DEF Reported, Full
  <2>8. force
    BY <1>2, <1>5 DEF Forced
  <2>9. owed.stalls \subseteq UNION FiledStalls'
    <3>1. PICK filed1 : filed1 = FiledStalls'
      OBVIOUS
    <3>2. filed1 = FiledStalls \cup batch /\ pending \subseteq UNION batch
      BY <1>1, <2>8, <3>1 DEF Filing
    <3>3. owed.stalls \subseteq UNION filed1
      BY <2>7, <3>2
    <3> QED BY <3>1, <3>3
  <2> QED BY <1>1, <1>3, <2>2, <2>3, <2>9, SeenClose
<1> QED BY <1>2, <1>4, <1>5 DEF TypeInv, StepTypes

LEMMA OtherLogs ==
  ASSUME Advance \/ (\E ts \in 1 .. now : Trace(ts)) \/ UNCHANGED vars, owed' = owed
  PROVE  LogStep
<1>1. UNCHANGED <<wire, rx, pending, incidents, examined, marks_pending, MARKS, phase>>
  BY DEF Advance, Trace, vars, probeVars, stallVars, markVars, runVars
<1> QED BY <1>1, ReportedSame, FiledSame, LineSame, Unseen DEF State

Accounts == TypeInv /\ Once /\ InLine /\ Timing /\ Bounded /\ Forced /\ Debts

(* The owing starts with Stop and only there. *)
LEMMA OwedIs ==
  ASSUME StopNext
  PROVE  /\ Stop => owed' = [stalls |-> Reported', marks |-> Len(MarkLine)]
         /\ ~Stop => owed' = owed
<1>1. Stop => phase = "running" /\ phase' = "stopping"
  BY DEF Stop
<1>2. ~Stop => ~(phase = "running" /\ phase' = "stopping")
  <2>1. CASE tick_stalls
    <3>1. phase = "running" => phase' = "running"
      BY Zenon, <2>1 DEF tick_stalls
    <3> QED BY <3>1
  <2>2. CASE ~tick_stalls
    BY <2>2 DEF StopNext, Next, Tick, Advance, Trace, mark_now, run, probe_reader, tick, process_marks, runVars
  <2> QED BY <2>1, <2>2
<1> QED BY <1>1, <1>2 DEF StopNext

LEMMA StepLogs == Accounts /\ [StopNext]_<<vars, owed>> => LogStep
<1> SUFFICES ASSUME Accounts, [StopNext]_<<vars, owed>> PROVE LogStep
  OBVIOUS
<1>0. TypeInv /\ Once /\ InLine /\ Timing /\ Bounded /\ Forced /\ Debts
  BY DEF Accounts
<1>1. CASE UNCHANGED <<vars, owed>>
  BY <1>1, OtherLogs
<1>2. CASE StopNext /\ Stop
  BY <1>0, <1>2, OwedIs, StopLogs
<1>3. CASE StopNext /\ ~Stop
  <2>1. owed' = owed /\ Next
    BY <1>3, OwedIs DEF StopNext
  <2>2. CASE Advance \/ \E ts \in 1 .. now : Trace(ts)
    BY <2>1, <2>2, OtherLogs
  <2>3. CASE mark_now
    BY <1>0, <2>1, <2>3, FlagLogs
  <2>4. CASE \E p \in Probes : \E start \in woke[p] .. now : run(p, start)
    BY <1>0, <2>1, <2>4, RunLogs
  <2>5. CASE probe_reader
    BY <1>0, <2>1, <2>5, ReaderLogs
  <2>6. CASE \E f \in BOOLEAN : tick(f)
    BY <1>0, <2>1, <2>6, TickLogs
  <2>7. CASE process_marks
    BY <1>0, <2>1, <2>7, MarksLogs
  <2>8. CASE tick_stalls
    BY <1>0, <2>1, <2>8, StallsLogs
  <2> QED BY <1>3, <2>1, <2>2, <2>3, <2>4, <2>5, <2>6, <2>7, <2>8 DEF Next, Tick
<1> QED BY <1>1, <1>2, <1>3

(* A step that IncidentLog allows loses nothing, unless it ends the run. *)
LEMMA LogGrows ==
  ASSUME LogStep, State # "on", MarkLine \in Seq(Nat), Len(examined) \in Nat, Len(examined') \in Nat
  PROVE  /\ Reported \cup UNION FiledStalls \subseteq (Reported \cup UNION FiledStalls)'
         /\ Len(MarkLine') \in Nat /\ Len(MarkLine) <= Len(MarkLine')
         /\ Len(examined) <= Len(examined')
<1> DEFINE rep1 == Reported'
           filed1 == FiledStalls'
           line1 == MarkLine'
           n1 == Len(examined')
<1>0. Len(MarkLine) \in Nat
  BY LenProperties
<1>1. CASE UNCHANGED Log!logged
  BY <1>0, <1>1 DEF Log!logged
<1>2. CASE \E s \in FullStalls : Log!Report(s)
  BY <1>0, <1>2 DEF Log!Report
<1>3. CASE \E t \in Times : Log!Flag(t)
  <2>1. PICK t \in Times : line1 = Append(MarkLine, t) /\ rep1 = Reported /\ filed1 = FiledStalls /\ n1 = Len(examined)
    BY <1>3 DEF Log!Flag
  <2>2. Len(line1) = Len(MarkLine) + 1
    <3>1. t \in Nat
      BY <2>1 DEF Times
    <3> QED BY <2>1, <3>1, AppendProperties
  <2> HIDE DEF rep1, filed1, line1, n1
  <2>3. Reported \cup UNION FiledStalls \subseteq rep1 \cup UNION filed1
    BY <2>1
  <2> QED BY <1>0, <2>1, <2>2, <2>3 DEF rep1, filed1, line1, n1
<1>4. CASE \E n \in 1 .. Len(MarkLine) : Log!Answer(n)
  BY <1>0, <1>4 DEF Log!Answer
<1>5. CASE \E batch \in SUBSET SUBSET Reported : Log!File(batch) \/ Log!Close(batch)
  <2>1. PICK batch : /\ filed1 = FiledStalls \cup batch /\ rep1 = Reported \ UNION batch
                     /\ line1 = MarkLine /\ n1 = Len(examined)
    BY <1>5 DEF Log!File, Log!Close, Log!Files
  <2> HIDE DEF rep1, filed1, line1, n1
  <2>2. Reported \cup UNION FiledStalls \subseteq rep1 \cup UNION filed1
    BY <2>1
  <2> QED BY <1>0, <2>1, <2>2 DEF rep1, filed1, line1, n1
<1>6. ~\E lost \in SUBSET Reported : Log!End(lost)
  BY DEF Log!End
<1> QED BY <1>1, <1>2, <1>3, <1>4, <1>5, <1>6 DEF LogStep, Log!Next

LEMMA StopDebts == ASSUME TypeInv, Once, StopNext, Stop, TypeInv' PROVE Debts'
<1>1. owed' = [stalls |-> Reported', marks |-> Len(MarkLine)]
  BY OwedIs
<1>2. phase' = "stopping" /\ pc' = "idle" /\ stop_at' = now /\ MarkLine' = MarkLine
  <2>1. UNCHANGED <<examined, marks_pending, MARKS>>
    BY DEF Stop, markVars
  <2> QED BY <2>1, LineSame DEF SameLine, Stop, tickVars
<1>3. UNCHANGED <<rx, pending, drained>> /\ ToSet(rx) \cup drained \subseteq ToSet(rx') \cup drained'
  BY DEF Stop, stallVars
<1>4. \A s \in Reported' : s.end <= now
  <2>1. Once'
    BY StopOnce
  <2>2. Reported' \subseteq ToSet(wire') \cup ToSet(rx') \cup drained'
    <3>1. pending' \subseteq drained'
      BY DEF TypeInv, StallTypes
    <3> QED BY <3>1 DEF Reported, Full
  <2>3. \A s \in Reported' : s.end <= woke'[s.cpu]
    BY <2>1, <2>2 DEF Once
  <2>4. woke' = woke /\ \A p \in Probes : woke[p] <= now /\ woke[p] \in Nat
    BY DEF Stop, TypeInv, ClockTypes
  <2>5. \A s \in Reported' : s.cpu \in Probes /\ s.end \in Nat
    <3>1. ToSet(wire') \cup ToSet(rx') \cup drained' \subseteq Report
      <4>1. wire' \in Seq(Report) /\ rx' \in Seq(Report) /\ drained' \subseteq Report
        BY DEF TypeInv, StallTypes
      <4> QED BY <4>1, MembersAre
    <3> QED BY <2>2, <3>1, ReportIs DEF Report, Stall
  <2>6. now \in Nat
    BY Numbers
  <2> QED BY <2>3, <2>4, <2>5, <2>6
<1>5. Len(MarkLine) \in Nat
  BY MarkLineIs, LenProperties
<1>6. /\ owed'.stalls = Reported' /\ owed'.marks = Len(MarkLine)
      /\ ~Answering'
  BY <1>1, <1>2 DEF Answering
<1> QED BY <1>2, <1>4, <1>5, <1>6 DEF Debts

LEMMA NextDebts == Accounts /\ [StopNext]_<<vars, owed>> => Debts'
<1> SUFFICES ASSUME Accounts, [StopNext]_<<vars, owed>> PROVE Debts'
  OBVIOUS
<1>0. TypeInv /\ Once /\ InLine /\ Timing /\ Bounded /\ Forced /\ Debts
  BY DEF Accounts
<1>1. TypeInv' /\ [Next]_vars
  BY <1>0, NextTypes DEF StopNext
<1>2. CASE StopNext /\ Stop
  BY <1>0, <1>1, <1>2, StopDebts
<1>3. CASE ~(StopNext /\ Stop) /\ phase = "running"
  <2>1. phase' = "running"
    <3>1. CASE tick_stalls
      BY Zenon, <1>3, <3>1 DEF tick_stalls
    <3>2. CASE ~tick_stalls
      BY <1>3, <3>2 DEF StopNext, Next, Tick, Advance, Trace, mark_now, run, probe_reader, tick, process_marks,
                        vars, runVars
    <3> QED BY <3>1, <3>2
  <2> QED BY <2>1 DEF Debts
<1>4. CASE phase # "running"
  <2>1. ~Stop
    BY <1>4 DEF Stop
  <2>2. owed' = owed
    BY <2>1, OwedIs
  <2>3. stop_at' = stop_at
    BY <1>1, <2>1 DEF Next, Tick, Advance, Trace, mark_now, run, probe_reader, tick, process_marks, tick_stalls,
                      vars, runVars
  <2>4. State # "on"
    BY <1>0, <1>4, StateIs DEF TypeInv, StepTypes
  <2>5. MarkLine \in Seq(Nat) /\ Len(MarkLine) \in Nat /\ Len(examined) \in Nat /\ Len(examined') \in Nat
    <3>1. examined \in Seq(Answer) /\ examined' \in Seq(Answer)
      BY <1>0, <1>1 DEF TypeInv, MarkTypes
    <3>2. MarkLine \in Seq(Nat)
      BY <1>0, MarkLineIs
    <3> QED BY <3>1, <3>2, LenProperties
  <2>6. /\ Reported \cup UNION FiledStalls \subseteq (Reported \cup UNION FiledStalls)'
        /\ Len(MarkLine') \in Nat /\ Len(MarkLine) <= Len(MarkLine')
        /\ Len(examined) <= Len(examined')
    BY <2>4, <2>5, StepLogs, LogGrows
  <2>7. /\ owed.stalls \subseteq Reported \cup UNION FiledStalls
        /\ \A s \in owed.stalls : s.end <= stop_at
        /\ owed.marks \in Nat /\ owed.marks <= Len(MarkLine)
        /\ Answering => owed.marks <= Len(examined)
    BY <1>0, <1>4 DEF Debts
  <2>8. Answering' => owed.marks <= Len(examined')
    <3>1. CASE process_marks
      <4>1. phase' = phase /\ pc = "marks"
        BY <3>1 DEF process_marks, runVars
      <4>2. CASE phase = "stopping"
        <5>1. force
          BY <1>0, <4>1, <4>2 DEF Forced
        <5>2. Len(examined') = Len(MarkLine)
          BY <1>0, <3>1, <5>1, AnswersAdd
        <5> QED BY <2>7, <5>2
      <4>3. CASE phase # "stopping"
        <5>1. Answering' => Answering
          BY <4>1, <4>3 DEF Answering
        <5> QED BY <2>5, <2>6, <2>7, <5>1
      <4> QED BY <4>2, <4>3
    <3>2. CASE ~process_marks
      <4>1. Answering' => Answering
        <5>1. CASE tick_stalls
          <6>1. pc = "stalls" /\ pc' = "idle" /\ phase \in {"stopping", "flushed"}
            BY <1>0, <1>4, <5>1 DEF tick_stalls, TypeInv, StepTypes
          <6> QED BY <6>1 DEF Answering
        <5>2. CASE \E f \in BOOLEAN : tick(f)
          BY <5>2 DEF tick, runVars, Answering
        <5>3. CASE ~tick_stalls /\ ~\E f \in BOOLEAN : tick(f)
          <6>1. UNCHANGED <<phase, pc>>
            BY <1>1, <2>1, <3>2, <5>3 DEF Next, Tick, Advance, Trace, mark_now, run, probe_reader, vars, tickVars, runVars
          <6> QED BY <6>1 DEF Answering
        <5> QED BY <5>1, <5>2, <5>3
      <4> QED BY <2>5, <2>6, <2>7, <4>1
    <3> QED BY <3>1, <3>2
  <2>9. owed'.stalls \subseteq (Reported \cup UNION FiledStalls)' /\ owed'.marks <= Len(MarkLine')
    BY <2>2, <2>5, <2>6, <2>7
  <2> QED BY <2>2, <2>3, <2>7, <2>8, <2>9 DEF Debts
<1> QED BY <1>2, <1>3, <1>4

LEMMA StartLogs == StopInit => Log!Init
<1> SUFFICES ASSUME StopInit PROVE Log!Init
  OBVIOUS
<1>1. /\ wire = <<>> /\ rx = <<>> /\ pending = {} /\ incidents = <<>> /\ examined = <<>>
      /\ marks_pending = <<>> /\ MARKS = <<>> /\ phase = "running" /\ owed = Nothing
  BY DEF StopInit, Init
<1>2. Reported = {}
  BY <1>1 DEF Reported, Full, ToSet
<1>3. FiledStalls = {}
  BY <1>1 DEF FiledStalls, Filed
<1>4. MarkLine = <<>>
  <2>1. [i \in DOMAIN examined |-> examined[i].t] = <<>>
    BY <1>1
  <2> QED BY <1>1, <2>1 DEF MarkLine
<1>5. Len(examined) = 0 /\ State = "on"
  BY <1>1, StateIs
<1> QED BY <1>1, <1>2, <1>3, <1>4, <1>5 DEF Log!Init, Log!Nothing, Nothing

(* Every step of the analyzer, and the end of the run, does what IncidentLog *)
(* promises: whatever was reported is filed once, whatever was flagged is   *)
(* answered in its turn, and the run is not over before all that was owed   *)
(* when it was told to stop is settled.                                     *)
THEOREM PromiseIsSafe == StopSpec => Log!Safety
<1>1. StopSpec => Spec
  <2>1. [StopNext]_<<vars, owed>> => [Next]_vars
    BY DEF StopNext
  <2> QED BY <2>1, PTL DEF StopSpec, StopInit, Spec
<1>2. StopInit => Bounded /\ Forced /\ Debts
  BY InitBounded DEF StopInit, Init, Forced, Debts
<1>3. [StopNext]_<<vars, owed>> => [Next]_vars
  BY DEF StopNext
<1>4. TypeInv /\ Once /\ InLine /\ Timing /\ Bounded /\ Forced /\ Debts /\ [StopNext]_<<vars, owed>> => Debts' /\ LogStep
  BY NextDebts, StepLogs DEF Accounts
<1>5. LogStep => [Log!Next]_(Log!logged)
  BY DEF LogStep
<1> QED BY <1>1, <1>2, <1>3, <1>4, <1>5, TypeInvariant, InitOnce, NextOnce, InitInLine, NextInLine, InitTiming,
           NextTiming, NextBounded, NextForced, StartLogs, PTL DEF StopSpec, StopInit, Log!Safety
=============================================================================
