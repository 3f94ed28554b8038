-------------------------- MODULE KernelTraceProofs --------------------------
(***************************************************************************)
(* What the consumer of the kernel trace keeps, for every cap, every       *)
(* window length and every number of events.                               *)
(*                                                                         *)
(* SwitchRings: the rings are well formed, a popped record is always       *)
(* accounted for, switches_cover is honest, switch_window is complete, and *)
(* the rings are bounded in count and in time.  Every action touches the   *)
(* rings in the same way: first all of them are pruned or none is, then at *)
(* most one of them gets a record and may lose its front.  Lemma StepShape *)
(* says so once, ring by ring, and everything after it argues about one    *)
(* ring at a time.                                                         *)
(*                                                                         *)
(* FileTally, below: whatever a cap throws away, the queue of names is the *)
(* map's, waiting under a named key is its file's, and in the rundown      *)
(* files without a tally cost none that waited its name.                   *)
(***************************************************************************)
EXTENDS SwitchRings, FileTally, Lemmas

(* The rings after the pruning that handle_event may do before it pushes. *)
Pruned(ts, h) ==
  /\ h \in [Kinds -> Nat]
  /\ \A k \in Kinds :
       /\ head[k] <= h[k] /\ h[k] <= Len(log[k])
       /\ ~PruneDue(ts) => h[k] = head[k]
       /\ PruneDue(ts) => DropsTo(log[k], head[k], ts - Keep(k), h[k])

(* How long a ring is kept is a natural number. *)
LEMMA KeepType == \A k \in Kinds : Keep(k) \in Nat
  BY RingAssumption DEF Keep

(* What handle_event's pruning does to the heads of all the rings. *)
LEMMA HeadsAfterSpec ==
  ASSUME TypeOK, NEW ts \in Nat
  PROVE  Pruned(ts, HeadsAfter(ts))
<1>1. CASE PruneDue(ts)
  <2>1. ASSUME NEW k \in Kinds
        PROVE  /\ PruneOne(log[k], head[k], ts - Keep(k)) \in head[k] .. Len(log[k])
               /\ DropsTo(log[k], head[k], ts - Keep(k), PruneOne(log[k], head[k], ts - Keep(k)))
    <3>1. log[k] \in Seq(Rec) /\ head[k] \in Nat /\ head[k] <= Len(log[k]) /\ ts - Keep(k) \in Int
      BY KeepType DEF TypeOK
    <3>2. \A q \in Rec : q.ts \in Int
      BY DEF Rec
    <3> QED BY <3>1, <3>2, PruneOneSpec
  <2>2. HeadsAfter(ts) = [k \in Kinds |-> PruneOne(log[k], head[k], ts - Keep(k))]
    BY <1>1 DEF HeadsAfter, prune
  <2>3. \A k \in Kinds : head[k] \in Nat /\ Len(log[k]) \in Nat
    BY LenProperties DEF TypeOK
  <2> QED BY <1>1, <2>1, <2>2, <2>3 DEF Pruned
<1>2. CASE ~PruneDue(ts)
  BY <1>2 DEF Pruned, HeadsAfter, TypeOK
<1> QED BY <1>1, <1>2

(* The caps and the newest-lost mark after a step, seen from ring j: it is *)
(* left alone, it gets a record, or it gets one and loses its front.       *)
Kept(j, h) ==
  log'[j] = log[j] /\ head'[j] = h[j]

Grown(j, h, r) ==
  /\ log'[j] = Append(log[j], r) /\ head'[j] = h[j]
  /\ j \in Capped => Len(log[j]) + 1 - h[j] <= Cap(j)

Overflown(j, h, r) ==
  /\ j \in Capped
  /\ log'[j] = Append(log[j], r) /\ head'[j] = h[j] + 1
  /\ Len(log[j]) + 1 - h[j] > Cap(j)
  /\ switches_overflowed' = TRUE
  /\ ring_lost_until' >= log'[j][h[j] + 1].ts

(* ring_lost_until only ever moves to the time of a record just dropped. *)
Moved(h) ==
  ring_lost_until' # ring_lost_until =>
    \E j \in Capped : /\ head'[j] = h[j] + 1
                     /\ ring_lost_until' = log'[j][h[j] + 1].ts

Shape(r, h) ==
  /\ r \in Rec /\ r.ts >= latest_ts - Disorder
  /\ Pruned(r.ts, h)
  /\ latest_ts' = Max2(latest_ts, r.ts)
  /\ last_prune' = IF PruneDue(r.ts) THEN r.ts ELSE last_prune
  /\ log' \in [Kinds -> Seq(Rec)] /\ head' \in [Kinds -> Nat]
  /\ ring_lost_until' \in Nat \cup {None} /\ ring_lost_until' >= ring_lost_until
  /\ switches_overflowed' \in BOOLEAN
  /\ switches_overflowed => switches_overflowed'
  /\ \A j \in Kinds : Kept(j, h) \/ Grown(j, h, r) \/ Overflown(j, h, r)
  /\ Moved(h)
  /\ events' \in Nat

(* Both count caps leave room for a record. *)
LEMMA CapType == \A k \in Capped : Cap(k) \in Nat \ {0}
  BY RingAssumption DEF Cap

(* What push_back does to a ring, position by position. *)
LEMMA AppendFacts ==
  ASSUME NEW k \in Kinds, TypeOK, NEW r \in Rec
  PROVE  /\ log[k] \in Seq(Rec) /\ head[k] \in Nat
         /\ Len(log[k]) \in Nat
         /\ Append(log[k], r) \in Seq(Rec)
         /\ Len(Append(log[k], r)) = Len(log[k]) + 1
         /\ \A i \in 1 .. Len(log[k]) : Append(log[k], r)[i] = log[k][i]
         /\ Append(log[k], r)[Len(log[k]) + 1] = r
  BY LenProperties, AppendProperties DEF TypeOK

(* An event that is kept in a ring has the common shape, whether the ring *)
(* has a count cap (push_switch, push_ready) or not.                       *)
LEMMA EventShape ==
  ASSUME TypeOK, NEW k \in Kinds, NEW r \in Rec, handle_event(k, r)
  PROVE  Shape(r, HeadsAfter(r.ts))
<1> DEFINE h == HeadsAfter(r.ts)
<1>0. r.ts \in Nat
  BY DEF Rec
<1>1. Pruned(r.ts, h)
  BY <1>0, HeadsAfterSpec
<1>2. /\ h \in [Kinds -> Nat] /\ h[k] \in Nat /\ h[k] <= Len(log[k])
      /\ log \in [Kinds -> Seq(Rec)]
  BY <1>1 DEF Pruned, TypeOK
<1>3. /\ r.ts >= latest_ts - Disorder
      /\ latest_ts' = Max2(latest_ts, r.ts)
      /\ last_prune' = IF PruneDue(r.ts) THEN r.ts ELSE last_prune
      /\ events' \in Nat
  BY DEF handle_event, TypeOK
<1> HIDE DEF h
<1>4. CASE k \notin Capped
  <2>1. /\ log' = [log EXCEPT ![k] = Append(@, r)] /\ head' = h
        /\ UNCHANGED <<ring_lost_until, switches_overflowed>>
    BY <1>4 DEF handle_event, push_long, h
  <2>2. log' \in [Kinds -> Seq(Rec)]
    BY <2>1, <1>2, AppendFacts
  <2>3. \A j \in Kinds : Kept(j, h) \/ Grown(j, h, r)
    BY <2>1, <1>2, <1>4 DEF Kept, Grown
  <2>4. ring_lost_until \in Nat \cup {None} /\ switches_overflowed \in BOOLEAN
    BY DEF TypeOK
  <2>5. ring_lost_until' >= ring_lost_until /\ ring_lost_until' \in Nat \cup {None}
    BY <2>1, <2>4 DEF None
  <2>6. switches_overflowed' \in BOOLEAN /\ (switches_overflowed => switches_overflowed')
    BY <2>1, <2>4
  <2>7. Moved(h)
    BY <2>1 DEF Moved
  <2> QED BY <1>1, <1>2, <1>3, <2>1, <2>2, <2>3, <2>5, <2>6, <2>7 DEF Shape, h
<1>5. CASE k \in Capped
  <2> DEFINE lg == Append(log[k], r)
             over == Len(lg) - h[k] > Cap(k)
  <2>1. /\ log' = [log EXCEPT ![k] = lg]
        /\ head' = IF over THEN [h EXCEPT ![k] = @ + 1] ELSE h
        /\ ring_lost_until' = IF over THEN Max2(ring_lost_until, lg[h[k] + 1].ts)
                                      ELSE ring_lost_until
        /\ switches_overflowed' = (switches_overflowed \/ over)
    BY <1>5 DEF handle_event, push_capped, h
  <2>2. lg \in Seq(Rec) /\ Len(lg) = Len(log[k]) + 1 /\ Len(log[k]) \in Nat
    BY AppendFacts
  <2>3. h[k] + 1 \in 1 .. Len(lg)
    BY <2>2, <1>2
  <2> HIDE DEF lg
  <2>a. lg[h[k] + 1] \in Rec
    BY <2>2, <2>3, ElementOfSeq
  <2>4. lg[h[k] + 1].ts \in Nat
    BY <2>a DEF Rec
  <2>5. ring_lost_until \in Nat \cup {None} /\ switches_overflowed \in BOOLEAN
    BY DEF TypeOK
  <2>6. Cap(k) \in Nat
    BY <1>5, CapType
  <2>7. log' \in [Kinds -> Seq(Rec)] /\ log'[k] = lg /\ head' \in [Kinds -> Nat]
    BY <2>1, <2>2, <1>2
  <2>8. ring_lost_until' \in Nat \cup {None} /\ ring_lost_until' >= ring_lost_until
    BY <2>1, <2>4, <2>5 DEF Max2, None
  <2>9. switches_overflowed' \in BOOLEAN /\ (switches_overflowed => switches_overflowed')
    BY <2>1, <2>5
  <2>10. ASSUME NEW j \in Kinds, j # k PROVE Kept(j, h)
    BY <2>1, <1>2, <2>10 DEF Kept
  <2>11. CASE over
    <3>1. ring_lost_until' >= lg[h[k] + 1].ts
      BY <2>11, <2>1, <2>4, <2>5 DEF Max2, None
    <3>2. head'[k] = h[k] + 1
      BY <2>11, <2>1, <1>2
    <3>3. switches_overflowed' = TRUE
      BY <2>11, <2>1, <2>5
    <3>a. Len(log[k]) + 1 - h[k] > Cap(k)
      BY <2>11, <2>2, <2>6, <1>2
    <3>b. log'[k] = Append(log[k], r)
      BY <2>7 DEF lg
    <3>c. ring_lost_until' >= log'[k][h[k] + 1].ts
      BY <2>7, <3>1
    <3>4. Overflown(k, h, r)
      BY <1>5, <3>a, <3>b, <3>c, <3>2, <3>3 DEF Overflown
    <3>5. ring_lost_until' # ring_lost_until => ring_lost_until' = log'[k][h[k] + 1].ts
      BY <2>11, <2>1, <2>7 DEF Max2
    <3>6. Moved(h)
      BY <1>5, <3>2, <3>5 DEF Moved
    <3> QED BY <1>1, <1>3, <2>7, <2>8, <2>9, <2>10, <3>4, <3>6 DEF Shape, h
  <2>12. CASE ~over
    <3>1. head'[k] = h[k] /\ Len(log[k]) + 1 - h[k] <= Cap(k)
      BY <2>12, <2>1, <2>2, <2>6, <1>2
    <3>2. Grown(k, h, r)
      BY <2>7, <3>1 DEF Grown, lg
    <3>3. Moved(h)
      BY <2>12, <2>1 DEF Moved
    <3> QED BY <1>1, <1>3, <2>7, <2>8, <2>9, <2>10, <3>2, <3>3 DEF Shape, h
  <2> QED BY <2>11, <2>12
<1> QED BY <1>4, <1>5

(* So has an event that is kept in none. *)
LEMMA OtherShape ==
  ASSUME TypeOK, NEW r \in Rec, handle_other(r.ts)
  PROVE  Shape(r, HeadsAfter(r.ts))
<1> DEFINE h == HeadsAfter(r.ts)
<1>0. r.ts \in Nat
  BY DEF Rec
<1>1. Pruned(r.ts, h)
  BY <1>0, HeadsAfterSpec
<1>2. /\ r.ts >= latest_ts - Disorder
      /\ latest_ts' = Max2(latest_ts, r.ts)
      /\ last_prune' = IF PruneDue(r.ts) THEN r.ts ELSE last_prune
      /\ events' \in Nat
      /\ log' = log /\ head' = h
      /\ UNCHANGED <<ring_lost_until, switches_overflowed>>
  BY DEF handle_other, TypeOK
<1> HIDE DEF h
<1>3. log' \in [Kinds -> Seq(Rec)] /\ head' \in [Kinds -> Nat]
  BY <1>1, <1>2 DEF Pruned, TypeOK
<1>4. ring_lost_until \in Nat \cup {None} /\ switches_overflowed \in BOOLEAN
  BY DEF TypeOK
<1>5. ring_lost_until' >= ring_lost_until /\ ring_lost_until' \in Nat \cup {None}
  BY <1>2, <1>4 DEF None
<1>6. switches_overflowed' \in BOOLEAN /\ (switches_overflowed => switches_overflowed')
  BY <1>2, <1>4
<1>7. \A j \in Kinds : Kept(j, h)
  BY <1>2 DEF Kept
<1>8. Moved(h)
  BY <1>2 DEF Moved
<1> QED BY <1>1, <1>2, <1>3, <1>5, <1>6, <1>7, <1>8 DEF Shape, h

(* Every step of the rings has this shape; the thread an event names plays *)
(* no part in it.                                                          *)
LEMMA StepShape ==
  ASSUME TypeOK, Next
  PROVE  \E r \in Rec : \E h : Shape(r, h)
<1>1. 1 .. MaxTs \subseteq Nat
  BY RingAssumption
<1>2. ASSUME NEW k \in Kinds, NEW ts \in 1 .. MaxTs, NEW tid \in Tids,
             handle_event(k, [ts |-> ts, tid |-> tid])
      PROVE  \E r \in Rec : \E h : Shape(r, h)
  <2>1. [ts |-> ts, tid |-> tid] \in Rec
    BY <1>1 DEF Rec
  <2> QED BY <1>2, <2>1, EventShape
<1>3. ASSUME NEW ts \in 1 .. MaxTs, handle_other(ts)
      PROVE  \E r \in Rec : \E h : Shape(r, h)
  <2>1. PICK tid \in Tids : TRUE
    BY RingAssumption
  <2>2. [ts |-> ts, tid |-> tid] \in Rec /\ [ts |-> ts, tid |-> tid].ts = ts
    BY <1>1 DEF Rec
  <2> QED BY <1>3, <2>2, OtherShape
<1> QED BY <1>2, <1>3 DEF Next

-----------------------------------------------------------------------------
(* The shape keeps the rings well formed. *)
LEMMA ShapeType ==
  ASSUME TypeOK, NEW r \in Rec, NEW h, Shape(r, h)
  PROVE  TypeOK'
<1>1. latest_ts' \in Nat /\ last_prune' \in Nat
  BY DEF Shape, TypeOK, Rec, Max2
<1>2. ASSUME NEW j \in Kinds PROVE head'[j] <= Len(log'[j])
  <2>1. /\ Kept(j, h) \/ Grown(j, h, r) \/ Overflown(j, h, r)
        /\ h[j] \in Nat /\ h[j] <= Len(log[j])
    BY DEF Shape, Pruned
  <2>2. Len(log[j]) \in Nat /\ Len(Append(log[j], r)) = Len(log[j]) + 1
    BY AppendFacts
  <2> QED BY <2>1, <2>2 DEF Kept, Grown, Overflown
<1> QED BY <1>1, <1>2 DEF Shape, TypeOK

(* Type correctness: in particular no ring ever pops more than was pushed. *)
THEOREM TypeCorrect == Spec => []TypeOK
<1>1. Init => TypeOK
  <2> SUFFICES ASSUME Init PROVE TypeOK
    OBVIOUS
  <2>1. log \in [Kinds -> Seq(Rec)] /\ \A k \in Kinds : log[k] = <<>> /\ head[k] = 0
    BY DEF Init
  <2>2. \A k \in Kinds : head[k] <= Len(log[k])
    BY <2>1
  <2> QED BY <2>1, <2>2 DEF Init, TypeOK
<1>2. TypeOK /\ [Next]_vars => TypeOK'
  <2> SUFFICES ASSUME TypeOK, [Next]_vars PROVE TypeOK'
    OBVIOUS
  <2>1. CASE Next
    BY <2>1, StepShape, ShapeType
  <2>2. CASE UNCHANGED vars
    BY <2>2 DEF vars, TypeOK
  <2> QED BY <2>1, <2>2
<1> QED BY <1>1, <1>2, PTL DEF Spec

-----------------------------------------------------------------------------
(* The front of the switch ring speaks for the clock: unless the count cap *)
(* dropped something since, it is no older than the last pruning's cutoff. *)
FrontTellsTime ==
  Held("switch") # {} =>
    \/ FrontOf("switch").ts >= last_prune - SwitchKeep
    \/ ring_lost_until >= last_prune - SwitchKeep

(* The inductive invariant behind switches_cover. *)
CoverInv ==
  /\ TypeOK
  /\ last_prune <= latest_ts
  /\ DropsAreAccounted
  /\ FrontTellsTime

(* Facts about one ring before and after a step, used throughout. *)
LEMMA RingFacts ==
  ASSUME TypeOK, NEW r \in Rec, NEW h, Shape(r, h), NEW j \in Kinds
  PROVE  /\ Len(log[j]) \in Nat /\ head[j] \in Nat /\ h[j] \in Nat /\ Keep(j) \in Nat
         /\ head[j] <= h[j] /\ h[j] <= Len(log[j])
         /\ \A i \in 1 .. Len(log[j]) : log[j][i].ts \in Nat /\ log'[j][i] = log[j][i]
         /\ Len(log'[j]) \in {Len(log[j]), Len(log[j]) + 1}
         /\ Len(log'[j]) = Len(log[j]) + 1 => log'[j][Len(log[j]) + 1] = r
         /\ r.ts \in Nat
<1>1. log[j] \in Seq(Rec) /\ head[j] \in Nat /\ Len(log[j]) \in Nat
  BY AppendFacts
<1>2. \A i \in 1 .. Len(log[j]) : log[j][i] \in Rec
  BY <1>1, ElementOfSeq
<1>3. \A i \in 1 .. Len(log[j]) : log[j][i].ts \in Nat
  BY <1>2 DEF Rec
<1>4. h[j] \in Nat /\ head[j] <= h[j] /\ h[j] <= Len(log[j])
  BY DEF Shape, Pruned
<1>5. log'[j] = log[j] \/ log'[j] = Append(log[j], r)
  BY DEF Shape, Kept, Grown, Overflown
<1>6. r.ts \in Nat
  BY DEF Rec
<1>7. CASE log'[j] = log[j]
  BY <1>1, <1>3, <1>4, <1>6, <1>7, KeepType
<1>8. CASE log'[j] = Append(log[j], r)
  BY <1>1, <1>3, <1>4, <1>6, <1>8, KeepType, AppendFacts
<1> QED BY <1>5, <1>7, <1>8

(* Pruning and the caps are the only ways out of a ring, and each leaves   *)
(* its mark.                                                               *)
LEMMA ShapeDrops ==
  ASSUME TypeOK, last_prune <= latest_ts, DropsAreAccounted,
         NEW r \in Rec, NEW h, Shape(r, h)
  PROVE  DropsAreAccounted'
<1> SUFFICES ASSUME NEW k \in Kinds, NEW i \in 1 .. head'[k]
             PROVE  \/ log'[k][i].ts < last_prune' - Keep(k)
                    \/ k \in Capped /\ switches_overflowed' /\ log'[k][i].ts <= ring_lost_until'
  BY DEF DropsAreAccounted, Popped
<1>1. /\ Len(log[k]) \in Nat /\ head[k] \in Nat /\ h[k] \in Nat /\ Keep(k) \in Nat
      /\ head[k] <= h[k] /\ h[k] <= Len(log[k])
      /\ \A n \in 1 .. Len(log[k]) : log[k][n].ts \in Nat /\ log'[k][n] = log[k][n]
      /\ r.ts \in Nat
  BY RingFacts
<1>2. /\ last_prune \in Nat /\ latest_ts \in Nat
      /\ ring_lost_until \in Nat \cup {None} /\ switches_overflowed \in BOOLEAN
  BY DEF TypeOK
<1>3. /\ last_prune' = IF PruneDue(r.ts) THEN r.ts ELSE last_prune
      /\ ring_lost_until' \in Nat \cup {None} /\ ring_lost_until' >= ring_lost_until
      /\ switches_overflowed => switches_overflowed'
  BY DEF Shape
<1>4. last_prune' \in Nat /\ last_prune' >= last_prune
  BY <1>1, <1>2, <1>3 DEF PruneDue, Advances
<1>5. CASE i \in 1 .. head[k]
  <2>1. \/ log[k][i].ts < last_prune - Keep(k)
        \/ k \in Capped /\ switches_overflowed /\ log[k][i].ts <= ring_lost_until
    BY <1>5 DEF DropsAreAccounted, Popped
  <2>2. log'[k][i] = log[k][i] /\ log[k][i].ts \in Nat
    BY <1>1, <1>5
  <2>3. log[k][i].ts < last_prune - Keep(k) => log'[k][i].ts < last_prune' - Keep(k)
    BY <1>1, <1>2, <1>4, <2>2
  <2>4. log[k][i].ts <= ring_lost_until => log'[k][i].ts <= ring_lost_until'
    BY <1>2, <1>3, <2>2 DEF None
  <2> QED BY <2>1, <2>3, <2>4, <1>3
<1>6. CASE i \in head[k] + 1 .. h[k]
  <2>1. PruneDue(r.ts) /\ DropsTo(log[k], head[k], r.ts - Keep(k), h[k])
    BY <1>1, <1>6 DEF Shape, Pruned
  <2>2. log[k][i].ts < r.ts - Keep(k) /\ last_prune' = r.ts
    BY <2>1, <1>3, <1>6 DEF DropsTo
  <2>3. log'[k][i] = log[k][i]
    BY <1>1, <1>6
  <2> QED BY <2>2, <2>3
<1>7. CASE i > h[k]
  <2>1. Overflown(k, h, r) /\ i = h[k] + 1
    <3>1. head'[k] # h[k]
      BY <1>1, <1>7
    <3>2. Overflown(k, h, r)
      BY <3>1 DEF Shape, Kept, Grown
    <3> QED BY <3>2, <1>1, <1>7 DEF Overflown
  <2> QED BY <2>1 DEF Overflown
<1> QED BY <1>1, <1>5, <1>6, <1>7

(* No event makes the front of the switch ring older than what pruning or *)
(* the cap popped: this is why asking the front record is enough.          *)
LEMMA ShapeFront ==
  ASSUME TypeOK, last_prune <= latest_ts, FrontTellsTime,
         NEW r \in Rec, NEW h, Shape(r, h)
  PROVE  FrontTellsTime'
<1> DEFINE s == "switch"
<1>0. s \in Kinds /\ s \in Capped
  BY DEF Kinds, Capped
<1> HIDE DEF s
<1> SUFFICES ASSUME head'[s] + 1 <= Len(log'[s])
             PROVE  \/ log'[s][head'[s] + 1].ts >= last_prune' - SwitchKeep
                    \/ ring_lost_until' >= last_prune' - SwitchKeep
  <2>1. head'[s] \in Nat /\ Len(log'[s]) \in Nat
    BY <1>0, LenProperties DEF Shape
  <2>2. (Held(s) # {})' <=> head'[s] + 1 <= Len(log'[s])
    BY <2>1 DEF Held
  <2> QED BY <2>2 DEF FrontTellsTime, FrontOf, s
<1>1. /\ Len(log[s]) \in Nat /\ head[s] \in Nat /\ h[s] \in Nat
      /\ head[s] <= h[s] /\ h[s] <= Len(log[s])
      /\ \A n \in 1 .. Len(log[s]) : log[s][n].ts \in Nat /\ log'[s][n] = log[s][n]
      /\ Len(log'[s]) \in {Len(log[s]), Len(log[s]) + 1}
      /\ Len(log'[s]) = Len(log[s]) + 1 => log'[s][Len(log[s]) + 1] = r
      /\ r.ts \in Nat
  BY <1>0, RingFacts
<1>2. /\ last_prune \in Nat /\ latest_ts \in Nat /\ ring_lost_until \in Nat \cup {None}
      /\ SwitchKeep \in Nat /\ Disorder \in Nat /\ Disorder <= SwitchKeep
  BY RingAssumption DEF TypeOK
<1>3. /\ last_prune' = IF PruneDue(r.ts) THEN r.ts ELSE last_prune
      /\ r.ts >= latest_ts - Disorder
      /\ ring_lost_until' \in Nat \cup {None} /\ ring_lost_until' >= ring_lost_until
  BY DEF Shape
(* The new record is never older than the cutoff in force. *)
<1>4. last_prune' \in Nat /\ r.ts >= last_prune' - SwitchKeep
  BY <1>1, <1>2, <1>3 DEF PruneDue
(* Before the push, the claim holds of the pruned ring. *)
<1>5. h[s] < Len(log[s]) =>
        \/ log[s][h[s] + 1].ts >= last_prune' - SwitchKeep
        \/ ring_lost_until >= last_prune' - SwitchKeep
  <2>1. CASE PruneDue(r.ts)
    <3>1. Keep(s) = SwitchKeep
      BY <1>0 DEF Keep
    <3>2. DropsTo(log[s], head[s], r.ts - SwitchKeep, h[s])
      BY <2>1, <3>1, <1>0 DEF Shape, Pruned
    <3> QED BY <2>1, <3>2, <1>3 DEF DropsTo
  <2>2. CASE ~PruneDue(r.ts)
    <3>1. h[s] = head[s] /\ last_prune' = last_prune
      BY <2>2, <1>0, <1>3 DEF Shape, Pruned
    <3>a. h[s] < Len(log[s]) => head[s] + 1 \in head[s] + 1 .. Len(log[s])
      BY <3>1, <1>1
    <3>2. h[s] < Len(log[s]) => Held(s) # {}
      BY <3>a DEF Held
    <3>3. Held(s) # {} => \/ log[s][head[s] + 1].ts >= last_prune - SwitchKeep
                          \/ ring_lost_until >= last_prune - SwitchKeep
      BY DEF FrontTellsTime, FrontOf, s
    <3> QED BY <3>1, <3>2, <3>3
  <2> QED BY <2>1, <2>2
<1>6. CASE head'[s] = h[s]
  <2>1. CASE h[s] < Len(log[s])
    <3>1. log'[s][head'[s] + 1] = log[s][h[s] + 1]
      BY <1>1, <1>6, <2>1
    <3> QED BY <3>1, <2>1, <1>2, <1>3, <1>4, <1>5 DEF None
  <2>2. CASE h[s] = Len(log[s])
    <3>1. log'[s][head'[s] + 1] = r
      BY <1>1, <1>6, <2>2
    <3> QED BY <3>1, <1>4
  <2> QED BY <1>1, <2>1, <2>2
<1>7. CASE head'[s] # h[s]
  <2>1. Overflown(s, h, r)
    BY <1>0, <1>7 DEF Shape, Kept, Grown
  <2>2. Cap(s) \in Nat \ {0}
    BY <1>0, CapType
  <2>3. h[s] < Len(log[s])
    BY <2>1, <2>2, <1>1 DEF Overflown
  <2>4. ring_lost_until' >= log[s][h[s] + 1].ts /\ log[s][h[s] + 1].ts \in Nat
    <3>1. h[s] + 1 \in 1 .. Len(log[s])
      BY <2>3, <1>1
    <3>2. log[s][h[s] + 1].ts \in Nat /\ log'[s][h[s] + 1] = log[s][h[s] + 1]
      BY <3>1, <1>1
    <3>3. ring_lost_until' >= log'[s][h[s] + 1].ts
      BY <2>1 DEF Overflown
    <3> QED BY <3>2, <3>3
  <2>5. ring_lost_until' \in Int /\ ring_lost_until \in Int /\ last_prune' - SwitchKeep \in Int
    BY <1>2, <1>3, <1>4 DEF None
  <2>6. CASE log[s][h[s] + 1].ts >= last_prune' - SwitchKeep
    BY <2>4, <2>5, <2>6
  <2>7. CASE ring_lost_until >= last_prune' - SwitchKeep
    BY <1>3, <2>5, <2>7
  <2> QED BY <1>5, <2>3, <2>6, <2>7
<1> QED BY <1>6, <1>7

(* The inductive invariant behind switches_cover: the accounting of drops *)
(* together with what the front of the switch ring tells.                  *)
THEOREM CoverInvariant == Spec => []CoverInv
<1>1. Init => CoverInv
  <2> SUFFICES ASSUME Init PROVE CoverInv
    OBVIOUS
  <2>1. TypeOK
    <3>1. log \in [Kinds -> Seq(Rec)] /\ \A k \in Kinds : log[k] = <<>> /\ head[k] = 0
      BY DEF Init
    <3>2. \A k \in Kinds : head[k] <= Len(log[k])
      BY <3>1
    <3> QED BY <3>1, <3>2 DEF Init, TypeOK
  <2>2. DropsAreAccounted
    BY DEF Init, DropsAreAccounted, Popped
  <2>3. FrontTellsTime
    BY DEF Init, FrontTellsTime, Held, Kinds, Capped
  <2> QED BY <2>1, <2>2, <2>3 DEF CoverInv, Init
<1>2. CoverInv /\ [Next]_vars => CoverInv'
  <2> SUFFICES ASSUME CoverInv, [Next]_vars PROVE CoverInv'
    OBVIOUS
  <2>1. CASE Next
    <3>1. PICK r \in Rec : \E h : Shape(r, h)
      BY <2>1, StepShape DEF CoverInv
    <3>2. PICK h : Shape(r, h)
      BY <3>1
    <3>3. TypeOK' /\ DropsAreAccounted' /\ FrontTellsTime'
      BY <3>2, ShapeType, ShapeDrops, ShapeFront DEF CoverInv
    <3>4. last_prune' <= latest_ts'
      BY <3>2 DEF Shape, CoverInv, TypeOK, Rec, Max2, PruneDue
    <3> QED BY <3>3, <3>4 DEF CoverInv
  <2>2. CASE UNCHANGED vars
    BY <2>2 DEF vars, CoverInv, TypeOK, DropsAreAccounted, FrontTellsTime, Held, FrontOf, Popped
  <2> QED BY <2>1, <2>2
<1> QED BY <1>1, <1>2, PTL DEF Spec

(* A popped record is always accounted for, for every cap and window. *)
THEOREM DropsAccounted == Spec => []DropsAreAccounted
<1>1. CoverInv => DropsAreAccounted
  BY DEF CoverInv
<1> QED BY <1>1, CoverInvariant, PTL

(* In one state: what switches_cover(from) says yes to has lost nothing    *)
(* from `from` on.                                                         *)
LEMMA CoverHonestState ==
  ASSUME CoverInv, NEW from \in Nat, switches_cover(from),
         NEW k \in Capped, NEW i \in Popped(k)
  PROVE  log[k][i].ts < from
<1>1. /\ ring_lost_until = None \/ ring_lost_until < from
      /\ Held("switch") # {} /\ FrontOf("switch").ts <= from
  BY DEF switches_cover
<1>2. /\ k \in Kinds /\ "switch" \in Kinds /\ Keep(k) = SwitchKeep /\ SwitchKeep \in Nat
  BY RingAssumption DEF Kinds, Capped, Keep
<1>3. /\ log[k] \in Seq(Rec) /\ head[k] \in Nat /\ head[k] <= Len(log[k]) /\ Len(log[k]) \in Nat
      /\ log["switch"] \in Seq(Rec) /\ head["switch"] \in Nat /\ Len(log["switch"]) \in Nat
      /\ last_prune \in Nat /\ ring_lost_until \in Nat \cup {None}
  BY <1>2, LenProperties DEF CoverInv, TypeOK
<1>4. i \in 1 .. Len(log[k]) /\ head["switch"] + 1 \in 1 .. Len(log["switch"])
  BY <1>1, <1>3 DEF Held, Popped
<1>5. log[k][i] \in Rec /\ FrontOf("switch") \in Rec
  BY <1>3, <1>4, ElementOfSeq DEF FrontOf
<1>6. log[k][i].ts \in Nat /\ FrontOf("switch").ts \in Nat
  BY <1>5 DEF Rec
<1>7. CASE log[k][i].ts < last_prune - SwitchKeep
  <2>1. \/ FrontOf("switch").ts >= last_prune - SwitchKeep
        \/ ring_lost_until >= last_prune - SwitchKeep
    BY <1>1 DEF CoverInv, FrontTellsTime
  <2> QED BY <2>1, <1>1, <1>2, <1>3, <1>6, <1>7 DEF None
<1>8. CASE log[k][i].ts <= ring_lost_until
  BY <1>1, <1>3, <1>6, <1>8 DEF None
<1> QED BY <1>2, <1>7, <1>8 DEF CoverInv, DropsAreAccounted

(* switches_cover is honest: for every cap, every keep window and every    *)
(* disorder up to the keep window, a window it vouches for has lost no     *)
(* context switch and no wake-up.                                          *)
THEOREM CoverHonest == Spec => []CoverIsHonest
<1>1. CoverInv => CoverIsHonest
  <2>1. 1 .. MaxTs \subseteq Nat
    BY RingAssumption
  <2> QED BY <2>1, CoverHonestState DEF CoverIsHonest
<1> QED BY <1>1, CoverInvariant, PTL

(* The admitted loss is the time of a record that the count cap really     *)
(* dropped: an overflow disqualifies no window that it need not.           *)
THEOREM LostTight == Spec => []LostIsTight
<1>1. Init => LostIsTight
  BY DEF Init, LostIsTight
<1>2. TypeOK /\ LostIsTight /\ [Next]_vars => LostIsTight'
  <2> SUFFICES ASSUME TypeOK, LostIsTight, [Next]_vars PROVE LostIsTight'
    OBVIOUS
  <2>1. CASE Next
    <3>1. PICK r \in Rec : \E h : Shape(r, h)
      BY <2>1, StepShape
    <3>2. PICK h : Shape(r, h)
      BY <3>1
    <3>3. ASSUME NEW k \in Capped
          PROVE  /\ k \in Kinds /\ head[k] \in Nat /\ h[k] \in Nat
                 /\ head[k] <= h[k] /\ h[k] <= head'[k] /\ head'[k] \in Nat
                 /\ \A i \in 1 .. head[k] : log'[k][i] = log[k][i]
      <4>1. k \in Kinds
        BY DEF Kinds
      <4>2. /\ Len(log[k]) \in Nat /\ head[k] \in Nat /\ h[k] \in Nat
            /\ head[k] <= h[k] /\ h[k] <= Len(log[k])
            /\ \A n \in 1 .. Len(log[k]) : log'[k][n] = log[k][n]
        BY <4>1, <3>2, RingFacts
      <4>3. head'[k] = h[k] \/ head'[k] = h[k] + 1
        BY <4>1, <3>2 DEF Shape, Kept, Grown, Overflown
      <4> QED BY <4>1, <4>2, <4>3
    <3>4. CASE ring_lost_until' = ring_lost_until
      <4> SUFFICES ASSUME ring_lost_until # None
                   PROVE  \E k \in Capped : \E i \in 1 .. head'[k] : log'[k][i].ts = ring_lost_until
        BY <3>4 DEF LostIsTight, Popped
      <4>1. PICK k \in Capped : \E i \in 1 .. head[k] : log[k][i].ts = ring_lost_until
        BY DEF LostIsTight, Popped
      <4>2. PICK i \in 1 .. head[k] : log[k][i].ts = ring_lost_until
        BY <4>1
      <4>3. i \in 1 .. head'[k] /\ log'[k][i] = log[k][i]
        BY <3>3
      <4> QED BY <4>2, <4>3
    <3>5. CASE ring_lost_until' # ring_lost_until
      <4>1. PICK k \in Capped : head'[k] = h[k] + 1 /\ ring_lost_until' = log'[k][h[k] + 1].ts
        BY <3>2, <3>5 DEF Shape, Moved
      <4>2. h[k] + 1 \in 1 .. head'[k]
        BY <4>1, <3>3
      <4> QED BY <4>1, <4>2 DEF LostIsTight, Popped
    <3> QED BY <3>4, <3>5
  <2>2. CASE UNCHANGED vars
    BY <2>2 DEF vars, LostIsTight, Popped
  <2> QED BY <2>1, <2>2
<1> QED BY <1>1, <1>2, TypeCorrect, PTL DEF Spec

-----------------------------------------------------------------------------
(* How far out of order the rings can be: no record is stamped more than   *)
(* Disorder before one that was pushed earlier, or after the newest event. *)
Ordered ==
  \A k \in Kinds : \A j \in 1 .. Len(log[k]) :
    /\ log[k][j].ts <= latest_ts
    /\ \A i \in 1 .. j : log[k][j].ts >= log[k][i].ts - Disorder

OrderInv == CoverInv /\ Ordered

(* A ring stays as far out of order as the trace is, and no further. *)
LEMMA ShapeOrdered ==
  ASSUME TypeOK, Ordered, NEW r \in Rec, NEW h, Shape(r, h)
  PROVE  Ordered'
<1> SUFFICES ASSUME NEW k \in Kinds, NEW j \in 1 .. Len(log'[k])
             PROVE  /\ log'[k][j].ts <= latest_ts'
                    /\ \A i \in 1 .. j : log'[k][j].ts >= log'[k][i].ts - Disorder
  BY DEF Ordered
<1>1. /\ Len(log[k]) \in Nat
      /\ \A n \in 1 .. Len(log[k]) : log[k][n].ts \in Nat /\ log'[k][n] = log[k][n]
      /\ Len(log'[k]) \in {Len(log[k]), Len(log[k]) + 1}
      /\ Len(log'[k]) = Len(log[k]) + 1 => log'[k][Len(log[k]) + 1] = r
      /\ r.ts \in Nat
  BY RingFacts
<1>2. /\ latest_ts \in Nat /\ Disorder \in Nat
      /\ latest_ts' = Max2(latest_ts, r.ts) /\ r.ts >= latest_ts - Disorder
  BY RingAssumption DEF TypeOK, Shape
<1>3. /\ latest_ts' \in Nat /\ latest_ts' >= latest_ts /\ latest_ts' >= r.ts
  BY <1>1, <1>2 DEF Max2
<1>4. CASE j \in 1 .. Len(log[k])
  <2>1. /\ log[k][j].ts <= latest_ts
        /\ \A i \in 1 .. j : log[k][j].ts >= log[k][i].ts - Disorder
    BY <1>4 DEF Ordered
  <2>2. log[k][j].ts \in Nat /\ log'[k][j] = log[k][j]
    BY <1>1, <1>4
  <2>3. \A i \in 1 .. j : log'[k][i] = log[k][i]
    BY <1>1, <1>4
  <2> QED BY SMTT(30), <2>1, <2>2, <2>3, <1>2, <1>3
<1>5. CASE j = Len(log[k]) + 1
  <2>1. log'[k][j] = r
    BY <1>1, <1>5
  <2>2. ASSUME NEW i \in 1 .. j PROVE log'[k][j].ts >= log'[k][i].ts - Disorder
    <3>1. CASE i = j
      BY <3>1, <2>1, <1>1, <1>2
    <3>2. CASE i \in 1 .. Len(log[k])
      <4>1. log[k][i].ts <= latest_ts /\ log[k][i].ts \in Nat /\ log'[k][i] = log[k][i]
        BY <3>2, <1>1 DEF Ordered
      <4> QED BY SMTT(30), <4>1, <2>1, <1>1, <1>2
    <3> QED BY <3>1, <3>2, <1>1, <1>5
  <2> QED BY <2>1, <2>2, <1>3
<1> QED BY <1>1, <1>4, <1>5

(* Every ring is sorted up to the disorder of the trace. *)
THEOREM OrderInvariant == Spec => []OrderInv
<1>1. Init => Ordered
  BY DEF Init, Ordered
<1>2. CoverInv /\ Ordered /\ [Next]_vars => Ordered'
  <2> SUFFICES ASSUME CoverInv, Ordered, [Next]_vars PROVE Ordered'
    OBVIOUS
  <2>0. TypeOK
    BY DEF CoverInv
  <2>1. CASE Next
    BY <2>0, <2>1, StepShape, ShapeOrdered
  <2>2. CASE UNCHANGED vars
    BY <2>2 DEF vars, Ordered
  <2> QED BY <2>1, <2>2
<1> QED BY <1>1, <1>2, CoverInvariant, PTL DEF Spec, OrderInv

(* What one binary search can and cannot step over. *)
LEMMA SearchBrackets ==
  ASSUME TypeOK, Ordered, NEW k \in Kinds, NEW i \in Held(k), NEW t \in Int,
         NEW a \in partition_point(k, t)
  PROVE  /\ log[k][i].ts >= t + Disorder => a < i
         /\ log[k][i].ts < t - Disorder => i <= a
<1>1. /\ Len(log[k]) \in Nat /\ head[k] \in Nat /\ Disorder \in Nat /\ log[k] \in Seq(Rec)
  BY LenProperties, RingAssumption DEF TypeOK
<1>2. \A n \in 1 .. Len(log[k]) : log[k][n] \in Rec
  BY <1>1, ElementOfSeq
<1>3. \A n \in 1 .. Len(log[k]) : log[k][n].ts \in Nat
  BY <1>2 DEF Rec
<1>4. i \in 1 .. Len(log[k]) /\ i > head[k]
  BY <1>1 DEF Held
<1>5. /\ a \in head[k] .. Len(log[k])
      /\ a > head[k] => log[k][a].ts < t
      /\ a < Len(log[k]) => log[k][a + 1].ts >= t
  BY DEF partition_point, PartitionPoints
<1>6. ASSUME log[k][i].ts >= t + Disorder, ~(a < i) PROVE FALSE
  <2>1. a \in 1 .. Len(log[k]) /\ i \in 1 .. a /\ a > head[k]
    BY <1>1, <1>4, <1>5, <1>6
  <2>2. log[k][a].ts >= log[k][i].ts - Disorder
    BY <2>1 DEF Ordered
  <2>3. log[k][a].ts < t /\ log[k][a].ts \in Nat /\ log[k][i].ts \in Nat
    BY <2>1, <1>3, <1>4, <1>5
  <2> QED BY <2>2, <2>3, <1>1, <1>6
<1>7. ASSUME log[k][i].ts < t - Disorder, ~(i <= a) PROVE FALSE
  <2>1. i \in 1 .. Len(log[k]) /\ a + 1 \in 1 .. i /\ a < Len(log[k]) /\ a + 1 \in 1 .. Len(log[k])
    BY <1>1, <1>4, <1>5, <1>7
  <2>2. log[k][i].ts >= log[k][a + 1].ts - Disorder
    BY <2>1 DEF Ordered
  <2>3. log[k][a + 1].ts >= t /\ log[k][a + 1].ts \in Nat /\ log[k][i].ts \in Nat
    BY <2>1, <1>3, <1>4, <1>5
  <2> QED BY <2>2, <2>3, <1>1, <1>7
<1> QED BY <1>6, <1>7

(* switch_window misses nothing and adds nothing, for every window it is   *)
(* asked for, as long as the millisecond it widens its search by covers    *)
(* the disorder of the trace.                                              *)
THEOREM WindowComplete ==
  ASSUME Disorder <= Slop
  PROVE  Spec => []WindowIsComplete
<1>1. OrderInv => WindowIsComplete
  <2> SUFFICES ASSUME OrderInv,
                      NEW from \in 1 .. MaxTs, NEW to \in from .. MaxTs,
                      switches_cover(from), NEW k \in Capped,
                      NEW w \in switch_window(k, from, to)
               PROVE  w = Pushed(k, from, to)
    BY DEF WindowIsComplete
  <2>1. PICK a \in partition_point(k, from - Slop), b \in partition_point(k, to + Slop + 1) :
          w = {i \in a + 1 .. b : log[k][i].ts >= from /\ log[k][i].ts <= to}
    BY DEF switch_window
  <2>2. k \in Kinds /\ TypeOK /\ Ordered /\ CoverInv
    BY DEF Kinds, OrderInv, CoverInv
  <2>3. /\ Len(log[k]) \in Nat /\ head[k] \in Nat /\ head[k] <= Len(log[k])
        /\ Disorder \in Nat /\ Slop \in Nat /\ MaxTs \in Nat
        /\ log[k] \in Seq(Rec) /\ from \in Nat /\ to \in Nat
    BY <2>2, LenProperties, RingAssumption DEF TypeOK
  <2>4. a \in head[k] .. Len(log[k]) /\ b \in head[k] .. Len(log[k])
    BY DEF partition_point, PartitionPoints
  <2>5. w \subseteq Pushed(k, from, to)
    BY <2>1, <2>3, <2>4 DEF Pushed
  <2>6. ASSUME NEW i \in Pushed(k, from, to) PROVE i \in w
    <3>1. i \in 1 .. Len(log[k]) /\ log[k][i].ts >= from /\ log[k][i].ts <= to
      BY DEF Pushed
    <3>2. log[k][i] \in Rec
      BY <3>1, <2>3, ElementOfSeq
    <3>3. log[k][i].ts \in Nat
      BY <3>2 DEF Rec
    <3>4. i \notin Popped(k)
      BY <2>2, <2>3, <3>1, <3>3, CoverHonestState
    <3>5. i \in Held(k)
      BY <3>1, <3>4, <2>3 DEF Held, Popped
    <3>6. from - Slop \in Int /\ to + Slop + 1 \in Int
      BY <2>3
    <3>7. a < i
      <4>1. log[k][i].ts >= (from - Slop) + Disorder
        BY <3>1, <3>3, <2>3
      <4> QED BY <4>1, <3>5, <3>6, <2>2, SearchBrackets
    <3>8. i <= b
      <4>1. log[k][i].ts < (to + Slop + 1) - Disorder
        BY <3>1, <3>3, <2>3
      <4> QED BY <4>1, <3>5, <3>6, <2>2, SearchBrackets
    <3> QED BY <2>1, <2>4, <3>1, <3>7, <3>8, <2>3
  <2> QED BY <2>5, <2>6
<1> QED BY <1>1, OrderInvariant, PTL

(* In a ring that is in order, one binary search splits it exactly. *)
LEMMA SortedBrackets ==
  ASSUME TypeOK, NEW k \in Kinds, InOrder(k), NEW i \in Held(k), NEW t \in Int,
         NEW a \in partition_point(k, t)
  PROVE  log[k][i].ts >= t <=> a < i
<1>1. /\ Len(log[k]) \in Nat /\ head[k] \in Nat /\ log[k] \in Seq(Rec)
  BY LenProperties DEF TypeOK
<1>2. \A n \in 1 .. Len(log[k]) : log[k][n] \in Rec
  BY <1>1, ElementOfSeq
<1>3. \A n \in 1 .. Len(log[k]) : log[k][n].ts \in Nat
  BY <1>2 DEF Rec
<1>4. i \in 1 .. Len(log[k]) /\ i > head[k]
  BY <1>1 DEF Held
<1>5. /\ a \in head[k] .. Len(log[k])
      /\ a > head[k] => log[k][a].ts < t
      /\ a < Len(log[k]) => log[k][a + 1].ts >= t
  BY DEF partition_point, PartitionPoints
<1>6. ASSUME log[k][i].ts >= t, ~(a < i) PROVE FALSE
  <2>1. a \in 1 .. Len(log[k]) /\ i \in 1 .. a /\ a > head[k]
    BY <1>1, <1>4, <1>5, <1>6
  <2>2. log[k][i].ts <= log[k][a].ts
    BY <2>1 DEF InOrder
  <2>3. log[k][a].ts < t /\ log[k][a].ts \in Nat /\ log[k][i].ts \in Nat
    BY <2>1, <1>3, <1>4, <1>5
  <2> QED BY <2>2, <2>3, <1>6
<1>7. ASSUME a < i PROVE log[k][i].ts >= t
  <2>1. a + 1 \in 1 .. i /\ a < Len(log[k]) /\ a + 1 \in 1 .. Len(log[k])
    BY <1>1, <1>4, <1>5, <1>7
  <2>2. log[k][a + 1].ts <= log[k][i].ts
    BY <2>1, <1>4 DEF InOrder
  <2>3. log[k][a + 1].ts >= t /\ log[k][a + 1].ts \in Nat /\ log[k][i].ts \in Nat
    BY <2>1, <1>3, <1>4, <1>5
  <2> QED BY <2>2, <2>3
<1> QED BY <1>6, <1>7

(* Two binary searches on a covered ring in order cut out all that was     *)
(* ever pushed between the two times, and nothing else.                    *)
LEMMA CutIsPushed ==
  ASSUME CoverInv, NEW from \in Nat, switches_cover(from), NEW k \in Capped, InOrder(k),
         NEW lo \in Nat, NEW hi \in Nat, from <= lo,
         NEW a \in partition_point(k, lo), NEW b \in partition_point(k, hi + 1)
  PROVE  a + 1 .. b = Pushed(k, lo, hi)
<1>1. k \in Kinds /\ TypeOK
  BY DEF Kinds, CoverInv
<1>2. /\ Len(log[k]) \in Nat /\ head[k] \in Nat /\ log[k] \in Seq(Rec)
      /\ a \in head[k] .. Len(log[k]) /\ b \in head[k] .. Len(log[k])
      /\ hi + 1 \in Int /\ lo \in Int
  BY <1>1, LenProperties DEF TypeOK, partition_point, PartitionPoints
<1>3. ASSUME NEW i \in 1 .. Len(log[k]) PROVE log[k][i].ts \in Nat
  <2>1. log[k][i] \in Rec
    BY <1>2, ElementOfSeq
  <2> QED BY <2>1 DEF Rec
<1>4. ASSUME NEW i \in Held(k)
      PROVE  /\ log[k][i].ts >= lo <=> a < i
             /\ log[k][i].ts >= hi + 1 <=> b < i
  BY <1>1, <1>2, SortedBrackets
<1>5. ASSUME NEW i \in a + 1 .. b PROVE i \in Pushed(k, lo, hi)
  <2>1. i \in Held(k) /\ i \in 1 .. Len(log[k]) /\ a < i /\ ~(b < i)
    BY <1>2 DEF Held
  <2> QED BY <2>1, <1>3, <1>4 DEF Pushed
<1>6. ASSUME NEW i \in Pushed(k, lo, hi) PROVE i \in a + 1 .. b
  <2>1. i \in 1 .. Len(log[k]) /\ log[k][i].ts >= lo /\ log[k][i].ts <= hi
    BY DEF Pushed
  <2>2. i \notin Popped(k)
    BY <2>1, <1>3, CoverHonestState
  <2>3. i \in Held(k)
    BY <2>1, <2>2, <1>2 DEF Held, Popped
  <2>4. a < i /\ ~(b < i)
    BY <2>1, <2>3, <1>3, <1>4
  <2> QED BY <2>1, <2>4, <1>2
<1> QED BY <1>5, <1>6

(* stuck_records hands out every wake-up around the end of a covered       *)
(* request and every switch-out of the woken threads, for every cap, keep  *)
(* window and look-around, while the trace arrives in order.               *)
THEOREM StuckComplete == Spec => []StuckRecordsComplete
<1>1. CoverInv => StuckRecordsComplete
  <2> SUFFICES ASSUME CoverInv,
                      NEW start \in 1 .. MaxTs, NEW end \in start + LookBefore .. MaxTs,
                      stuck_covered(start, end), \A k \in Capped : InOrder(k),
                      NEW rd \in stuck_readies(end)
               PROVE  /\ rd = Pushed("ready", end - LookBefore, end + LookAfter)
                      /\ LET woken == {log["ready"][i].tid : i \in rd}
                         IN \A sw \in stuck_switches(start, end, woken) :
                              sw = {i \in Pushed("switch", start, end + LookAfter) :
                                      log["switch"][i].tid \in woken}
    BY DEF StuckRecordsComplete
  <2>1. /\ start \in Nat /\ end - LookBefore \in Nat /\ end + LookAfter \in Nat
        /\ start <= end - LookBefore
        /\ "ready" \in Capped /\ "switch" \in Capped /\ switches_cover(start)
    BY RingAssumption DEF Capped, stuck_covered
  <2>2. rd = Pushed("ready", end - LookBefore, end + LookAfter)
    <3>1. PICK a \in partition_point("ready", end - LookBefore),
               b \in partition_point("ready", end + LookAfter + 1) : rd = a + 1 .. b
      BY DEF stuck_readies
    <3> QED BY <3>1, <2>1, CutIsPushed
  <2>3. ASSUME NEW woken, NEW sw \in stuck_switches(start, end, woken)
        PROVE  sw = {i \in Pushed("switch", start, end + LookAfter) : log["switch"][i].tid \in woken}
    <3>1. PICK a \in partition_point("switch", start),
               b \in partition_point("switch", end + LookAfter + 1) :
            sw = {i \in a + 1 .. b : log["switch"][i].tid \in woken}
      BY DEF stuck_switches
    <3>2. a + 1 .. b = Pushed("switch", start, end + LookAfter)
      <4>1. start <= start
        BY <2>1
      <4> QED BY <4>1, <2>1, CutIsPushed
    <3> QED BY <3>1, <3>2
  <2> QED BY <2>2, <2>3
<1> QED BY <1>1, CoverInvariant, PTL

-----------------------------------------------------------------------------
(* How far back the rings reach: every record kept is within the window of *)
(* the last pruning, and the clock has moved at most one interval since.   *)
Reach ==
  /\ latest_ts - last_prune <= PruneEvery
  /\ \A k \in Kinds :
       /\ k \in Capped => Len(log[k]) - head[k] <= Cap(k)
       /\ \A i \in Held(k) : log[k][i].ts >= last_prune - Keep(k) - Disorder

(* A step keeps every ring within its time window at the last prune. *)
LEMMA ShapeReach ==
  ASSUME TypeOK, last_prune <= latest_ts, Ordered, Reach, NEW r \in Rec, NEW h, Shape(r, h)
  PROVE  Reach'
<1>1. /\ latest_ts \in Nat /\ last_prune \in Nat /\ Disorder \in Nat /\ PruneEvery \in Nat
      /\ latest_ts' = Max2(latest_ts, r.ts) /\ r.ts >= latest_ts - Disorder
      /\ last_prune' = IF PruneDue(r.ts) THEN r.ts ELSE last_prune
      /\ r.ts \in Nat
  BY RingAssumption DEF TypeOK, Shape, Rec
<1>2. latest_ts' - last_prune' <= PruneEvery
  BY <1>1 DEF Reach, PruneDue, Advances, Max2
<1>3. ASSUME NEW k \in Kinds
      PROVE  /\ k \in Capped => Len(log'[k]) - head'[k] <= Cap(k)
             /\ \A i \in head'[k] + 1 .. Len(log'[k]) :
                  log'[k][i].ts >= last_prune' - Keep(k) - Disorder
  <2>1. /\ Len(log[k]) \in Nat /\ head[k] \in Nat /\ h[k] \in Nat /\ Keep(k) \in Nat
        /\ head[k] <= h[k] /\ h[k] <= Len(log[k])
        /\ \A n \in 1 .. Len(log[k]) : log[k][n].ts \in Nat /\ log'[k][n] = log[k][n]
        /\ Len(log'[k]) \in {Len(log[k]), Len(log[k]) + 1}
        /\ Len(log'[k]) = Len(log[k]) + 1 => log'[k][Len(log[k]) + 1] = r
    BY RingFacts
  <2>2. k \in Capped => Len(log'[k]) - head'[k] <= Cap(k)
    <3> SUFFICES ASSUME k \in Capped PROVE Len(log'[k]) - head'[k] <= Cap(k)
      OBVIOUS
    <3>1. Cap(k) \in Nat /\ Len(log[k]) - head[k] <= Cap(k)
      BY CapType DEF Reach
    <3>2. Len(Append(log[k], r)) = Len(log[k]) + 1
      BY AppendFacts
    <3>3. Kept(k, h) \/ Grown(k, h, r) \/ Overflown(k, h, r)
      BY DEF Shape
    <3>4. CASE Kept(k, h)
      BY <2>1, <3>1, <3>4 DEF Kept
    <3>5. CASE Grown(k, h, r)
      BY <2>1, <3>1, <3>2, <3>5 DEF Grown
    <3>6. CASE Overflown(k, h, r)
      <4>1. Len(log'[k]) = Len(log[k]) + 1 /\ head'[k] = h[k] + 1
        BY <3>2, <3>6 DEF Overflown
      <4> QED BY <4>1, <2>1, <3>1
    <3> QED BY <3>3, <3>4, <3>5, <3>6
  <2>3. head'[k] \in Nat /\ head'[k] >= h[k]
    BY <2>1 DEF Shape, Kept, Grown, Overflown
  <2>4. ASSUME NEW i \in h[k] + 1 .. Len(log[k])
        PROVE  log[k][i].ts >= last_prune' - Keep(k) - Disorder
    <3>1. CASE PruneDue(r.ts)
      <4>1. DropsTo(log[k], head[k], r.ts - Keep(k), h[k])
        BY <3>1 DEF Shape, Pruned
      <4>2. h[k] < Len(log[k]) /\ h[k] + 1 \in 1 .. i /\ i \in 1 .. Len(log[k])
            /\ h[k] + 1 \in 1 .. Len(log[k])
        BY <2>1
      <4>3. log[k][h[k] + 1].ts >= r.ts - Keep(k)
        BY <4>1, <4>2 DEF DropsTo
      <4>4. log[k][i].ts >= log[k][h[k] + 1].ts - Disorder
        BY <4>2 DEF Ordered
      <4>5. log[k][i].ts \in Nat /\ log[k][h[k] + 1].ts \in Nat
        BY <4>2, <2>1
      <4>6. last_prune' = r.ts
        BY <3>1, <1>1
      <4>7. Keep(k) \in Nat /\ Disorder \in Nat /\ r.ts \in Nat
        BY <2>1, <1>1
      <4>8. \A a, b, c, d, e \in Nat : b >= c - d /\ a >= b - e => a >= c - d - e
        OBVIOUS
      <4>9. log[k][i].ts >= r.ts - Keep(k) - Disorder
        <5> HIDE DEF Keep
        <5> QED BY <4>3, <4>4, <4>5, <4>7, <4>8
      <4> QED BY <4>6, <4>9
    <3>2. CASE ~PruneDue(r.ts)
      <4>1. h[k] = head[k] /\ last_prune' = last_prune
        BY <3>2, <1>1 DEF Shape, Pruned
      <4>2. i \in Held(k)
        BY <4>1 DEF Held
      <4> QED BY <4>1, <4>2 DEF Reach
    <3> QED BY <3>1, <3>2
  <2>5. r.ts >= last_prune' - Keep(k) - Disorder
    BY SMTT(30), <1>1, <2>1 DEF PruneDue
  <2>6. ASSUME NEW i \in head'[k] + 1 .. Len(log'[k])
        PROVE  log'[k][i].ts >= last_prune' - Keep(k) - Disorder
    <3>1. CASE i \in h[k] + 1 .. Len(log[k])
      <4>1. log'[k][i] = log[k][i]
        BY <3>1, <2>1
      <4> QED BY <3>1, <4>1, <2>4
    <3>2. CASE i = Len(log[k]) + 1 /\ Len(log'[k]) = Len(log[k]) + 1
      BY <3>2, <2>1, <2>5
    <3> QED BY <3>1, <3>2, <2>1, <2>3
  <2> QED BY <2>2, <2>6
<1> QED BY <1>2, <1>3 DEF Reach, Held

(* The rings are bounded in count and in time whatever the trace does. *)
THEOREM Bounded == Spec => []RingsBounded
<1>1. Init => Reach
  <2> SUFFICES ASSUME Init PROVE Reach
    OBVIOUS
  <2>1. \A k \in Kinds : log[k] = <<>> /\ head[k] = 0 /\ Held(k) = {}
    BY DEF Init, Held
  <2>2. \A k \in Capped : k \in Kinds /\ Cap(k) \in Nat
    BY CapType DEF Kinds
  <2>3. latest_ts - last_prune <= PruneEvery
    BY RingAssumption DEF Init
  <2> QED BY <2>1, <2>2, <2>3 DEF Reach
<1>2. OrderInv /\ Reach /\ [Next]_vars => Reach'
  <2> SUFFICES ASSUME OrderInv, Reach, [Next]_vars PROVE Reach'
    OBVIOUS
  <2>0. TypeOK /\ last_prune <= latest_ts /\ Ordered
    BY DEF OrderInv, CoverInv
  <2>1. CASE Next
    BY <2>0, <2>1, StepShape, ShapeReach
  <2>2. CASE UNCHANGED vars
    BY <2>2 DEF vars, Reach, Held
  <2> QED BY <2>1, <2>2
<1>3. OrderInv /\ Reach => RingsBounded
  <2> SUFFICES ASSUME OrderInv, Reach, NEW k \in Kinds, Held(k) # {}
               PROVE  FrontOf(k).ts >= latest_ts - Keep(k) - PruneEvery - Disorder
    BY DEF Reach, RingsBounded
  <2>1. /\ log[k] \in Seq(Rec) /\ head[k] \in Nat /\ Len(log[k]) \in Nat
        /\ last_prune \in Nat /\ latest_ts \in Nat /\ Keep(k) \in Nat
        /\ Disorder \in Nat /\ PruneEvery \in Nat
    BY KeepType, LenProperties, RingAssumption DEF OrderInv, CoverInv, TypeOK
  <2>2. head[k] + 1 \in Held(k) /\ head[k] + 1 \in 1 .. Len(log[k])
    BY <2>1 DEF Held
  <2>3. log[k][head[k] + 1] \in Rec
    BY <2>1, <2>2, ElementOfSeq
  <2>4. log[k][head[k] + 1].ts \in Nat
    BY <2>3 DEF Rec
  <2>5. log[k][head[k] + 1].ts >= last_prune - Keep(k) - Disorder
    BY <2>2 DEF Reach
  <2>6. latest_ts - last_prune <= PruneEvery
    BY DEF Reach
  <2>7. PICK ts \in Nat : ts = FrontOf(k).ts
    BY <2>4 DEF FrontOf
  <2>8. ts >= last_prune - Keep(k) - Disorder
    BY <2>5, <2>7 DEF FrontOf
  <2>9. ts >= latest_ts - Keep(k) - PruneEvery - Disorder
    BY <2>1, <2>6, <2>8
  <2> QED BY <2>7, <2>9
<1> QED BY <1>1, <1>2, <1>3, OrderInvariant, PTL DEF Spec


-----------------------------------------------------------------------------
(* FileTally. *)

(* The types the arguments rest on. *)
FileTypes ==
  /\ owner \in [Keys -> Files \cup {Closed}]
  /\ DOMAIN file_names \subseteq Keys /\ DOMAIN file_wait \subseteq Keys
  /\ order \in Seq(Keys) /\ todo \subseteq Keys
  /\ phase \in {"running", "rundown"}

(* A key that has both a name and an open file has that file's name. *)
NamesAreOwners == \A k \in DOMAIN file_names : owner[k] # Closed => file_names[k] = owner[k]

(* Waiting under a key without a name was added without one, or the name   *)
(* has been pushed out since.                                              *)
NamelessIsMarked ==
  \A k \in DOMAIN file_wait : Named(k) \/ file_wait[k].blind = TRUE \/ k \in evicted

(* No more keys wait than the cap allows. *)
WaitFits == Cardinality(DOMAIN file_wait) <= WaitCap

(* What is still to be named is open, and nothing is before the stop. *)
TodoIsOpen == (phase = "running" => todo = {}) /\ \A k \in todo : owner[k] # Closed

FilesCore ==
  /\ FileTypes /\ NamesAreQueued /\ NamesAreOwners /\ NamelessIsMarked
  /\ NamedWaitingIsItsOwn /\ WaitFits

(* In the rundown: an open file with a tally has a name, has still to get  *)
(* one, or had one before.                                                 *)
RundownCovers ==
  \A k \in DOMAIN file_wait : owner[k] # Closed => k \in todo \/ Named(k) \/ k \in had

(* As many of those with a tally have a name as before. *)
NamedKept ==
  Cardinality(DOMAIN file_names \cap DOMAIN file_wait) >= Cardinality(had \cap DOMAIN file_wait)

(* At the front of the queue are names from before; behind them came at    *)
(* most half a map of files without a tally, and those with one.           *)
Behind(m) == {order[i] : i \in m + 1 .. Len(order)}
OldInFront ==
  \E m \in 0 .. Len(order) :
    /\ \A i \in 1 .. m : order[i] \in had
    /\ Cardinality(Behind(m) \ DOMAIN file_wait) <= NameCap \div 2

InRundown == RundownCovers /\ NamedKept /\ OldInFront

FilesInv == FilesCore /\ TodoIsOpen /\ (phase = "rundown" => InRundown)

-----------------------------------------------------------------------------
(* A sequence without repetitions has none after one more, and holds that  *)
(* one too (FileNames.order after push_back).                              *)
LEMMA NamePushed ==
  ASSUME NEW S, NEW s \in Seq(S), NEW e \in S, IsInjective(s), e \notin ToSet(s)
  PROVE  /\ Append(s, e) \in Seq(S) /\ Len(Append(s, e)) = Len(s) + 1
         /\ IsInjective(Append(s, e)) /\ ToSet(Append(s, e)) = ToSet(s) \cup {e}
<1>1. PICK n \in Nat : n = Len(s) /\ DOMAIN s = 1 .. n
  BY LenProperties
<1>2. PICK t : t = Append(s, e)
  OBVIOUS
<1>3. /\ t \in Seq(S) /\ Len(t) = n + 1
      /\ \A i \in 1 .. n : t[i] = s[i]
      /\ t[n + 1] = e
  BY <1>1, <1>2, AppendProperties
<1>4. DOMAIN t = 1 .. n + 1
  BY <1>3, LenProperties
<1>5. \A i \in 1 .. n : s[i] # e /\ \A j \in 1 .. n : s[i] = s[j] => i = j
  BY <1>1 DEF IsInjective, ToSet
<1>6. \A a, b \in 1 .. n + 1 : t[a] = t[b] => a = b
  <2>1. \A a \in 1 .. n + 1 : a \in 1 .. n \/ a = n + 1
    BY <1>1
  <2> QED BY <2>1, <1>3, <1>5
<1>7. ToSet(t) = ToSet(s) \cup {e}
  <2>1. \A a \in 1 .. n + 1 : a \in 1 .. n \/ a = n + 1
    BY <1>1
  <2>2. 1 .. n \subseteq 1 .. n + 1 /\ n + 1 \in 1 .. n + 1
    BY <1>1
  <2> QED BY <2>1, <2>2, <1>1, <1>3, <1>4 DEF ToSet
<1>8. IsInjective(t)
  BY <1>4, <1>6 DEF IsInjective
<1> QED BY <1>1, <1>2, <1>3, <1>7, <1>8

(* ... and without its first it holds all the others (pop_front).          *)
LEMMA NamePopped ==
  ASSUME NEW S, NEW s \in Seq(S), s # <<>>, IsInjective(s)
  PROVE  /\ Tail(s) \in Seq(S) /\ Len(Tail(s)) = Len(s) - 1
         /\ IsInjective(Tail(s)) /\ ToSet(Tail(s)) = ToSet(s) \ {Head(s)}
<1>1. PICK n \in Nat : n = Len(s) /\ DOMAIN s = 1 .. n
  BY LenProperties
<1>2. PICK t : t = Tail(s)
  OBVIOUS
<1>3. Len(s) # 0
  OBVIOUS
<1>4. PICK m \in Nat : n = m + 1
  BY <1>1, <1>3
<1>5. Head(s) = s[1]
  OBVIOUS
<1>6. /\ t \in Seq(S) /\ Len(t) = m
      /\ \A i \in 1 .. m : t[i] = s[i + 1]
  <2>1. /\ Tail(s) \in Seq(S) /\ Len(Tail(s)) = Len(s) - 1
        /\ \A i \in 1 .. Len(Tail(s)) : Tail(s)[i] = s[i + 1]
    BY HeadTailProperties
  <2>2. Len(s) - 1 = m
    BY <1>1, <1>4
  <2> QED BY <1>2, <2>1, <2>2
<1>7. DOMAIN t = 1 .. m
  BY <1>6, LenProperties
<1>8. \A i, j \in 1 .. m + 1 : s[i] = s[j] => i = j
  BY <1>1, <1>4 DEF IsInjective
<1>9. \A i \in 1 .. m : i + 1 \in 1 .. m + 1 /\ i + 1 # 1
  BY <1>4
<1>10. \A j \in 1 .. m + 1 : j # 1 => \E i \in 1 .. m : j = i + 1
  <2>1. \A j \in 1 .. m + 1 : j # 1 => j - 1 \in 1 .. m /\ j = (j - 1) + 1
    BY <1>4
  <2> QED BY <2>1
<1>11. IsInjective(t)
  <2>1. \A a, b \in 1 .. m : a + 1 = b + 1 => a = b
    BY <1>4
  <2> QED BY <2>1, <1>6, <1>7, <1>8, <1>9 DEF IsInjective
<1>12. ToSet(t) = ToSet(s) \ {s[1]}
  <2>1. 1 \in 1 .. m + 1
    BY <1>4
  <2>2. ToSet(s) = {s[j] : j \in 1 .. m + 1}
    BY <1>1, <1>4 DEF ToSet
  <2>3. ASSUME NEW i \in 1 .. m
        PROVE  t[i] \in ToSet(s) \ {s[1]}
    <3>1. i + 1 \in 1 .. m + 1 /\ i + 1 # 1 /\ t[i] = s[i + 1]
      BY <1>6, <1>9
    <3>2. s[i + 1] # s[1]
      BY <3>1, <2>1, <1>8
    <3> QED BY <3>1, <3>2, <2>2
  <2>4. ASSUME NEW k \in ToSet(s) \ {s[1]}
        PROVE  \E i \in 1 .. m : t[i] = k
    <3>1. PICK j \in 1 .. m + 1 : s[j] = k /\ j # 1
      BY <2>2
    <3>2. PICK i \in 1 .. m : j = i + 1
      BY <3>1, <1>10
    <3> QED BY <3>1, <3>2, <1>6
  <2>5. ToSet(t) = {t[i] : i \in 1 .. m}
    BY <1>7 DEF ToSet
  <2> QED BY <2>3, <2>4, <2>5
<1>13. m = Len(s) - 1
  BY <1>1, <1>4
<1> QED BY <1>2, <1>5, <1>6, <1>11, <1>12, <1>13

(* insert on the queue and the map: a key that has a name stays where it   *)
(* is, a new one goes to the back, and when that is one too many the       *)
(* oldest goes out of both.                                                *)
InsertShape(key) ==
  \/ /\ Named(key) /\ order' = order /\ DOMAIN file_names' = DOMAIN file_names
  \/ /\ ~Named(key) /\ Len(order) < NameCap
     /\ order' = Append(order, key) /\ DOMAIN file_names' = DOMAIN file_names \cup {key}
  \/ /\ ~Named(key) /\ Len(order) = NameCap
     /\ order' = Tail(Append(order, key))
     /\ DOMAIN file_names' = (DOMAIN file_names \cup {key}) \ {Head(Append(order, key))}

LEMMA InsertIs ==
  ASSUME FileTypes, NamesAreQueued, NEW key \in Keys, NEW name, insert(key, name)
  PROVE  InsertShape(key)
<1> DEFINE grown == IF Named(key) THEN order ELSE Append(order, key)
           over  == Len(grown) > NameCap
           names == [k \in DOMAIN file_names \cup {key} |-> IF k = key THEN name ELSE file_names[k]]
<1>0. NameCap \in Nat \ {0} /\ order \in Seq(Keys) /\ Len(order) \in Nat /\ Len(order) <= NameCap
  BY FileTallyAssumption, LenProperties DEF FileTypes, NamesAreQueued
<1>1. Len(Append(order, key)) = Len(order) + 1
  BY <1>0, AppendProperties
<1>2. /\ order' = IF over THEN Tail(grown) ELSE grown
      /\ file_names' = IF over THEN Restrict(names, DOMAIN names \ {Head(grown)}) ELSE names
  BY DEF insert
<1>3. DOMAIN names = DOMAIN file_names \cup {key}
  OBVIOUS
<1>4. over => DOMAIN file_names' = DOMAIN names \ {Head(grown)}
  BY <1>2 DEF Restrict
<1>5. ~over => DOMAIN file_names' = DOMAIN names
  BY <1>2
<1> HIDE DEF names
<1>6. CASE Named(key)
  <2>1. grown = order /\ ~over
    BY <1>0, <1>6
  <2> HIDE DEF grown
  <2>2. order' = order
    BY <1>2, <2>1
  <2>3. DOMAIN file_names' = DOMAIN file_names
    BY <1>3, <1>5, <1>6, <2>1 DEF Named
  <2> QED BY <1>6, <2>2, <2>3 DEF InsertShape
<1>7. CASE ~Named(key)
  <2>1. grown = Append(order, key) /\ Len(grown) = Len(order) + 1
    BY <1>1, <1>7
  <2> HIDE DEF grown
  <2>2. CASE Len(order) = NameCap
    <3>1. over
      BY <1>0, <2>1, <2>2
    <3> QED BY <1>2, <1>3, <1>4, <1>7, <2>1, <2>2, <3>1 DEF InsertShape
  <2>3. CASE Len(order) # NameCap
    <3>1. ~over /\ Len(order) < NameCap
      BY <1>0, <2>1, <2>3
    <3> QED BY <1>2, <1>3, <1>5, <1>7, <2>1, <3>1 DEF InsertShape
  <2> QED BY <2>2, <2>3
<1> QED BY <1>6, <1>7

(* It keeps the queue and the map together. *)
LEMMA InsertQueue ==
  ASSUME FileTypes, NamesAreQueued, NEW key \in Keys, NEW name, insert(key, name)
  PROVE  order' \in Seq(Keys) /\ NamesAreQueued'
<1>0. /\ NameCap \in Nat \ {0} /\ order \in Seq(Keys) /\ Len(order) \in Nat /\ Len(order) <= NameCap
      /\ IsInjective(order) /\ ToSet(order) = DOMAIN file_names
  BY FileTallyAssumption, LenProperties DEF FileTypes, NamesAreQueued
<1>1. InsertShape(key)
  BY InsertIs
<1>2. CASE Named(key)
  BY <1>0, <1>1, <1>2 DEF InsertShape, NamesAreQueued
<1> DEFINE grown == Append(order, key)
<1>3. ASSUME ~Named(key)
      PROVE  /\ grown \in Seq(Keys) /\ Len(grown) = Len(order) + 1
             /\ IsInjective(grown) /\ ToSet(grown) = DOMAIN file_names \cup {key}
  BY <1>0, <1>3, NamePushed DEF Named
<1> HIDE DEF grown
<1>4. CASE ~Named(key) /\ Len(order) < NameCap
  <2>1. order' = grown /\ DOMAIN file_names' = DOMAIN file_names \cup {key} /\ Len(grown) <= NameCap
    BY <1>0, <1>1, <1>3, <1>4 DEF InsertShape, grown
  <2> QED BY <1>3, <1>4, <2>1 DEF NamesAreQueued
<1>5. CASE ~Named(key) /\ Len(order) = NameCap
  <2>1. order' = Tail(grown) /\ DOMAIN file_names' = (DOMAIN file_names \cup {key}) \ {Head(grown)}
    <3>1. ~(Len(order) < NameCap)
      BY <1>0, <1>5
    <3> QED BY <3>1, <1>1, <1>5, Zenon DEF InsertShape, grown
  <2>2. grown # <<>> /\ Len(grown) - 1 <= NameCap
    <3>1. Len(grown) # 0 /\ Len(grown) - 1 <= NameCap
      BY <1>0, <1>3, <1>5
    <3> QED BY <3>1
  <2>3. /\ Tail(grown) \in Seq(Keys) /\ Len(Tail(grown)) = Len(grown) - 1
        /\ IsInjective(Tail(grown)) /\ ToSet(Tail(grown)) = ToSet(grown) \ {Head(grown)}
    BY <1>3, <1>5, <2>2, NamePopped
  <2> QED BY <1>3, <1>5, <2>1, <2>2, <2>3 DEF NamesAreQueued
<1> QED BY <1>0, <1>2, <1>4, <1>5

(* What a name event does to the map, however it is capped: the key has    *)
(* the new name, the others keep theirs, and whoever loses one is in       *)
(* `evicted`.                                                              *)
NewNames(key, name) ==
  /\ evicted \subseteq evicted'
  /\ DOMAIN file_names' \subseteq DOMAIN file_names \cup {key}
  /\ \A k \in DOMAIN file_names \cup {key} : k \in DOMAIN file_names' \/ k \in evicted'
  /\ \A k \in DOMAIN file_names' : file_names'[k] = IF k = key THEN name ELSE file_names[k]

LEMMA InsertNames ==
  ASSUME NEW key, NEW name, insert(key, name)
  PROVE  NewNames(key, name)
<1> DEFINE grown == IF Named(key) THEN order ELSE Append(order, key)
           over  == Len(grown) > NameCap
           names == [k \in DOMAIN file_names \cup {key} |-> IF k = key THEN name ELSE file_names[k]]
<1>1. /\ file_names' = IF over THEN Restrict(names, DOMAIN names \ {Head(grown)}) ELSE names
      /\ evicted' = IF over THEN evicted \cup {Head(grown)} ELSE evicted
  BY DEF insert
<1> HIDE DEF grown
<1>2. CASE over
  BY <1>1, <1>2 DEF NewNames, Restrict
<1>3. CASE ~over
  BY <1>1, <1>3 DEF NewNames
<1> QED BY <1>2, <1>3

(* A name event that is not skipped: the names, and the waiting it leaves. *)
LEMMA NameStep ==
  ASSUME NEW key, NEW name, NEW rundown, file_name(key, name, rundown), ~Skips(key, rundown)
  PROVE  /\ insert(key, name) /\ NewNames(key, name)
         /\ DOMAIN file_wait' \subseteq DOMAIN file_wait
         /\ \A k \in DOMAIN file_wait' : file_wait'[k] = file_wait[k]
         /\ key \in DOMAIN file_wait' => ~(Named(key) /\ file_names[key] # name)
<1>1. /\ insert(key, name)
      /\ file_wait' = IF Named(key) /\ file_names[key] # name
                      THEN Restrict(file_wait, DOMAIN file_wait \ {key}) ELSE file_wait
  BY DEF file_name
<1> QED BY <1>1, InsertNames DEF Restrict

(* A name event that tells the truth keeps the invariant: `file` is what   *)
(* the key stands for from now on, or stood for until now.                 *)
LEMMA NamePreserves ==
  ASSUME FilesCore, NEW key \in Keys, NEW name, NEW rundown,
         file_name(key, name, rundown), ~Skips(key, rundown),
         owner' \in [Keys -> Files \cup {Closed}], owner'[key] \in {name, Closed},
         \A k \in Keys \ {key} : owner'[k] = owner[k],
         phase' = phase, todo' \in {todo, todo \ {key}}
  PROVE  FilesCore'
<1>1. /\ insert(key, name) /\ NewNames(key, name)
      /\ DOMAIN file_wait' \subseteq DOMAIN file_wait
      /\ \A k \in DOMAIN file_wait' : file_wait'[k] = file_wait[k]
      /\ key \in DOMAIN file_wait' => ~(Named(key) /\ file_names[key] # name)
  BY NameStep
<1>2. FileTypes /\ NamesAreQueued
  BY DEF FilesCore
<1>3. order' \in Seq(Keys) /\ NamesAreQueued'
  BY <1>1, <1>2, InsertQueue
<1>4. FileTypes'
  BY <1>1, <1>2, <1>3 DEF FileTypes, NewNames
<1>5. NamesAreOwners'
  <2> SUFFICES ASSUME NEW k \in DOMAIN file_names', owner'[k] # Closed
               PROVE  file_names'[k] = owner'[k]
    BY DEF NamesAreOwners
  <2>1. CASE k = key
    BY <2>1, <1>1 DEF NewNames
  <2>2. CASE k # key
    BY <2>2, <1>1, <1>2 DEF NewNames, FilesCore, NamesAreOwners, FileTypes
  <2> QED BY <2>1, <2>2
<1>6. NamelessIsMarked'
  BY <1>1 DEF NewNames, FilesCore, NamelessIsMarked, Named
<1>7. NamedWaitingIsItsOwn'
  <2> SUFFICES ASSUME NEW k \in DOMAIN file_wait', k \in DOMAIN file_names',
                      ~file_wait'[k].blind, k \notin evicted'
               PROVE  file_wait'[k].from = {file_names'[k]}
    BY DEF NamedWaitingIsItsOwn, Named
  <2>1. k \in DOMAIN file_wait /\ file_wait'[k] = file_wait[k] /\ k \notin evicted
    BY <1>1 DEF NewNames
  <2>2. k \in DOMAIN file_names
    BY <2>1 DEF FilesCore, NamelessIsMarked, Named
  <2>3. file_names'[k] = file_names[k]
    BY <1>1, <2>2 DEF NewNames, Named
  <2> QED BY <2>1, <2>2, <2>3 DEF FilesCore, NamedWaitingIsItsOwn, Named
<1>8. WaitFits'
  <2>1. IsFiniteSet(DOMAIN file_wait)
    BY <1>2, FileTallyAssumption, FS_Subset DEF FileTypes
  <2>2. /\ IsFiniteSet(DOMAIN file_wait') /\ Cardinality(DOMAIN file_wait') <= Cardinality(DOMAIN file_wait)
        /\ Cardinality(DOMAIN file_wait) <= WaitCap
    BY <1>1, <2>1, FS_Subset DEF FilesCore, WaitFits
  <2> QED BY <2>1, <2>2, FS_CardinalityType, FileTallyAssumption DEF WaitFits
<1> QED BY <1>3, <1>4, <1>5, <1>6, <1>7, <1>8 DEF FilesCore

(* In the rundown a name event leaves the tallies alone, and what it does  *)
(* to the queue keeps the names from before in front: a file without a     *)
(* tally comes in only while the map is less than half full, so by the     *)
(* time the map is full and a file with one pushes the front out, the      *)
(* names that came since cannot be all there is.                           *)
LEMMA RundownPreserves ==
  ASSUME FilesCore, TodoIsOpen, InRundown, NEW key \in todo, NEW name, name = owner[key],
         file_name(key, name, TRUE), ~Skips(key, TRUE),
         todo' = todo \ {key}, owner' = owner, had' = had
  PROVE  InRundown'
<1> DEFINE W == DOMAIN file_wait
           N == DOMAIN file_names
<1>1. /\ key \in Keys /\ owner[key] # Closed
      /\ W \subseteq Keys /\ N \subseteq Keys /\ order \in Seq(Keys)
      /\ FileTypes /\ NamesAreQueued
  BY DEF FilesCore, FileTypes, TodoIsOpen
<1>2. insert(key, name) /\ file_wait' = file_wait
  <2>1. ~(Named(key) /\ file_names[key] # name)
    BY <1>1 DEF FilesCore, NamesAreOwners, Named
  <2> QED BY <2>1 DEF file_name
<1>3. InsertShape(key)
  BY <1>1, <1>2, InsertIs
<1>4. PICK n \in Nat : n = Len(order) /\ DOMAIN order = 1 .. n /\ n <= NameCap
  BY <1>1, LenProperties DEF NamesAreQueued
<1>5. PICK half \in Nat : half = NameCap \div 2 /\ half <= NameCap /\ WaitCap + half <= NameCap
                          /\ NameCap \in Nat \ {0} /\ WaitCap \in Nat
  <2>1. NameCap \in Nat \ {0} /\ WaitCap \in Nat \ {0} /\ WaitCap + NameCap \div 2 <= NameCap
    BY FileTallyAssumption
  <2>2. NameCap \div 2 \in Nat /\ NameCap \div 2 <= NameCap
    BY <2>1
  <2> QED BY <2>1, <2>2
<1>6. PICK m \in 0 .. n : /\ \A i \in 1 .. m : order[i] \in had
                          /\ Cardinality(Behind(m) \ W) <= half
  BY <1>4, <1>5 DEF InRundown, OldInFront
<1>7. /\ \A i, j \in 1 .. n : order[i] = order[j] => i = j
      /\ N = {order[i] : i \in 1 .. n}
  BY <1>1, <1>4 DEF NamesAreQueued, IsInjective, ToSet
<1>8. /\ IsFiniteSet(W) /\ IsFiniteSet(N)
      /\ Cardinality(W) <= WaitCap /\ Cardinality(W) \in Nat /\ Cardinality(N) \in Nat
  BY <1>1, FileTallyAssumption, FS_Subset, FS_CardinalityType DEF FilesCore, WaitFits
<1>9. ASSUME key \notin W
      PROVE  Cardinality(N) < half
  BY <1>5, <1>8, <1>9 DEF Skips
<1>10. Cardinality(N) = n
  <2>1. order \in Bijection(1 .. n, N)
    <3>1. order \in [1 .. n -> N]
      <4>1. order = [i \in 1 .. n |-> order[i]]
        BY <1>1, <1>4, LenProperties
      <4> QED BY <4>1, <1>7
    <3> QED BY <3>1, <1>7 DEF Bijection, Injection, Surjection, IsInjective
  <2>2. IsFiniteSet(1 .. n) /\ Cardinality(1 .. n) = n
    BY FS_Interval
  <2>3. ExistsBijection(1 .. n, N)
    BY <2>1 DEF ExistsBijection
  <2> QED BY <2>2, <2>3, FS_Bijection
<1>11. Behind(m) = {order[i] : i \in m + 1 .. n} /\ Behind(m) \subseteq N
  <2>1. \A i \in m + 1 .. n : i \in 1 .. n
    BY <1>6
  <2> QED BY <2>1, <1>4, <1>7 DEF Behind
<1>12. IsFiniteSet(Behind(m) \ W) /\ Cardinality(Behind(m) \ W) \in Nat
  BY <1>8, <1>11, FS_Subset, FS_Difference, FS_CardinalityType
<1>13. W' = W
  BY <1>2
<1> HIDE DEF W, N
<1>14. CASE Named(key)
  <2>1. order' = order /\ DOMAIN file_names' = N
    BY <1>3, <1>14 DEF InsertShape, N
  <2>2. RundownCovers'
    BY <1>2, <1>14, <2>1 DEF InRundown, RundownCovers, Named, N
  <2>3. NamedKept'
    BY <1>2, <2>1 DEF InRundown, NamedKept, N
  <2>4. OldInFront'
    BY <1>2, <2>1 DEF InRundown, OldInFront, Behind
  <2> QED BY <2>2, <2>3, <2>4 DEF InRundown
<1> DEFINE grown == Append(order, key)
<1>15. /\ grown \in Seq(Keys) /\ Len(grown) = n + 1
       /\ \A i \in 1 .. n : grown[i] = order[i]
       /\ grown[n + 1] = key
  BY <1>1, <1>4, AppendProperties
<1> HIDE DEF grown
<1>16. ASSUME NEW T, T = Behind(m) \cup {key}, ~Named(key)
       PROVE  Cardinality(T \ W) <= half
  <2>1. CASE key \in W
    <3>1. T \ W = Behind(m) \ W
      BY <1>16, <2>1
    <3> QED BY <3>1, <1>6
  <2>2. CASE key \notin W
    <3>1. /\ IsFiniteSet(N \cup {key}) /\ Cardinality(N \cup {key}) = n + 1
      BY <1>8, <1>10, <1>16, FS_AddElement DEF Named, N
    <3>2. T \ W \subseteq N \cup {key}
      BY <1>11, <1>16
    <3>3. /\ IsFiniteSet(T \ W) /\ Cardinality(T \ W) <= n + 1
      BY <3>1, <3>2, FS_Subset
    <3>4. n < half
      BY <1>9, <1>10, <2>2
    <3>5. Cardinality(T \ W) \in Nat
      BY <3>3, FS_CardinalityType
    <3> QED BY <3>3, <3>4, <3>5, <1>4, <1>5
  <2> QED BY <2>1, <2>2
<1>17. CASE ~Named(key) /\ n < NameCap
  <2>1. order' = grown /\ DOMAIN file_names' = N \cup {key}
    BY <1>3, <1>4, <1>17 DEF InsertShape, N, grown
  <2>2. RundownCovers'
    BY <1>2, <2>1 DEF InRundown, RundownCovers, Named, N
  <2>3. NamedKept'
    <3>1. N \cap W \subseteq (N \cup {key}) \cap W /\ IsFiniteSet((N \cup {key}) \cap W)
      BY <1>8, FS_Intersection
    <3>2. Cardinality(N \cap W) <= Cardinality((N \cup {key}) \cap W)
      BY <3>1, FS_Subset
    <3>3. Cardinality(N \cap W) >= Cardinality(had \cap W)
      BY DEF InRundown, NamedKept, N, W
    <3>4. /\ Cardinality(N \cap W) \in Nat /\ Cardinality(had \cap W) \in Nat
          /\ Cardinality((N \cup {key}) \cap W) \in Nat
      BY <1>8, FS_Intersection, FS_CardinalityType
    <3>5. Cardinality((N \cup {key}) \cap W) >= Cardinality(had \cap W)
      BY <3>2, <3>3, <3>4
    <3> QED BY <1>2, <2>1, <3>5 DEF NamedKept, W
  <2>4. OldInFront'
    <3>1. {grown[i] : i \in m + 1 .. n + 1} = Behind(m) \cup {key}
      <4>1. \A i \in m + 1 .. n + 1 : (i \in m + 1 .. n /\ i \in 1 .. n) \/ i = n + 1
        BY <1>6
      <4>2. n + 1 \in m + 1 .. n + 1 /\ \A i \in m + 1 .. n : i \in m + 1 .. n + 1 /\ i \in 1 .. n
        BY <1>6
      <4> QED BY <4>1, <4>2, <1>11, <1>15
    <3>2. Cardinality({grown[i] : i \in m + 1 .. n + 1} \ W) <= half
      BY <3>1, <1>16, <1>17
    <3>3. m \in 0 .. n + 1 /\ \A i \in 1 .. m : grown[i] \in had
      <4>1. \A i \in 1 .. m : i \in 1 .. n
        BY <1>6
      <4> QED BY <4>1, <1>4, <1>6, <1>15
    <3>4. Behind(m)' = {grown[i] : i \in m + 1 .. n + 1}
      <4>1. {order'[i] : i \in m + 1 .. Len(order')} = {grown[i] : i \in m + 1 .. n + 1}
        BY <1>15, <2>1
      <4> QED BY <4>1 DEF Behind
    <3>5. Len(order') = n + 1 /\ \A i \in 1 .. m : order'[i] \in had'
      BY <3>3, <1>15, <2>1
    <3>6. Cardinality(Behind(m)' \ DOMAIN file_wait') <= NameCap \div 2
      BY <3>2, <3>4, <1>2, <1>5 DEF W
    <3> QED BY <3>3, <3>5, <3>6 DEF OldInFront
  <2> QED BY <2>2, <2>3, <2>4 DEF InRundown
<1>18. CASE ~Named(key) /\ n = NameCap
  <2>1. key \in W
    BY <1>4, <1>5, <1>9, <1>10, <1>18
  <2>2. m # 0
    <3> SUFFICES ASSUME m = 0 PROVE FALSE
      OBVIOUS
    <3>1. Behind(m) = N
      BY <1>7, <1>11
    <3> DEFINE K == N \cup {key}
    <3>2. IsFiniteSet(K) /\ Cardinality(K) = n + 1
      BY <1>8, <1>10, <1>18, FS_AddElement DEF Named, N
    <3>3. K \ W = N \ W
      BY <2>1
    <3> HIDE DEF K
    <3>4. Cardinality(K \ W) = Cardinality(K) - Cardinality(K \cap W)
      BY <3>2, FS_Difference
    <3>5. IsFiniteSet(K \cap W) /\ Cardinality(K \cap W) <= Cardinality(W)
      BY <1>8, FS_Intersection
    <3>6. Cardinality(K \cap W) \in Nat
      BY <3>5, FS_CardinalityType
    <3>7. Cardinality(K \ W) <= half
      BY <3>1, <3>3, <1>6
    <3>8. PICK a \in Nat : a = Cardinality(K \cap W)
      BY <3>6
    <3>9. PICK w \in Nat : w = Cardinality(W) /\ w <= WaitCap /\ a <= w
      BY <1>8, <3>5, <3>8
    <3>10. n + 1 - a <= half
      BY <3>2, <3>4, <3>7, <3>8
    <3> QED BY <3>9, <3>10, <1>4, <1>5, <1>18
  <2>3. 1 \in 1 .. n /\ 1 \in 1 .. m /\ grown # <<>>
    <3>1. Len(grown) # 0
      BY <1>4, <1>15
    <3> QED BY <3>1, <2>2, <1>6
  <2>4. PICK old : old = Head(grown) /\ old = order[1] /\ old \in had /\ old \in N
    BY <2>3, <1>6, <1>7, <1>15
  <2>5. order' = Tail(grown) /\ DOMAIN file_names' = (N \cup {key}) \ {old}
    <3>1. ~(Len(order) < NameCap)
      BY <1>4, <1>5, <1>18
    <3>2. order' = Tail(grown) /\ DOMAIN file_names' = (N \cup {key}) \ {Head(grown)}
      BY <3>1, <1>3, <1>18, Zenon DEF InsertShape, N, grown
    <3> QED BY <3>2, <2>4
  <2>6. old # key /\ key \notin N
    BY <2>4, <1>18 DEF Named, N
  <2>7. RundownCovers'
    BY <1>2, <2>4, <2>5, <2>6 DEF InRundown, RundownCovers, Named, N
  <2>8. NamedKept'
    <3> DEFINE A == N \cap W
               B == ((N \cup {key}) \ {old}) \cap W
    <3>1. IsFiniteSet(A) /\ Cardinality(A) \in Nat /\ Cardinality(had \cap W) \in Nat
      BY <1>8, FS_Intersection, FS_CardinalityType
    <3>2. B = (A \cup {key}) \ {old}
      BY <2>1
    <3>3. Cardinality(A) >= Cardinality(had \cap W)
      BY DEF InRundown, NamedKept, N, W
    <3>4. key \notin A
      BY <2>6
    <3> HIDE DEF A, B
    <3>5. IsFiniteSet(A \cup {key}) /\ Cardinality(A \cup {key}) = Cardinality(A) + 1
      BY <3>1, <3>4, FS_AddElement
    <3>6. Cardinality((A \cup {key}) \ {old}) \in {Cardinality(A), Cardinality(A) + 1}
      <4>1. Cardinality((A \cup {key}) \ {old}) =
              IF old \in A \cup {key} THEN Cardinality(A \cup {key}) - 1 ELSE Cardinality(A \cup {key})
        BY <3>5, FS_RemoveElement
      <4> QED BY <4>1, <3>1, <3>5
    <3>7. Cardinality(B) >= Cardinality(had \cap W)
      BY <3>1, <3>2, <3>3, <3>6
    <3> QED BY <1>2, <2>5, <3>7 DEF NamedKept, B, W
  <2>9. OldInFront'
    <3>1. PICK t : t = Tail(grown)
      OBVIOUS
    <3>2. Len(t) = n /\ \A i \in 1 .. n : t[i] = grown[i + 1]
      <4>1. /\ Len(Tail(grown)) = Len(grown) - 1
            /\ \A i \in 1 .. Len(Tail(grown)) : Tail(grown)[i] = grown[i + 1]
        BY <1>15, <2>3, HeadTailProperties
      <4>2. Len(grown) - 1 = n
        BY <1>4, <1>15
      <4> QED BY <3>1, <4>1, <4>2
    <3>3. PICK p \in 0 .. n : m = p + 1
      BY <2>2, <1>6
    <3>4. \A i \in 1 .. p : t[i] \in had
      <4>1. \A i \in 1 .. p : i \in 1 .. n /\ i + 1 \in 1 .. n /\ i + 1 \in 1 .. m
        BY <3>3
      <4> QED BY <4>1, <3>2, <1>6, <1>15
    <3>5. {t[i] : i \in p + 1 .. n} = Behind(m) \cup {key}
      <4>1. \A i \in p + 1 .. n : i \in 1 .. n /\ ((i + 1 \in m + 1 .. n /\ i + 1 \in 1 .. n) \/ i + 1 = n + 1)
        BY <3>3
      <4>2. n \in p + 1 .. n /\ n \in 1 .. n
        BY <3>3, <1>6, <2>3
      <4>3. \A j \in m + 1 .. n : j - 1 \in p + 1 .. n /\ j - 1 \in 1 .. n /\ (j - 1) + 1 = j /\ j \in 1 .. n
        BY <3>3
      <4>4. ASSUME NEW x \in {t[i] : i \in p + 1 .. n}
            PROVE  x \in Behind(m) \cup {key}
        <5>1. PICK i \in p + 1 .. n : x = t[i]
          BY <4>4
        <5>2. x = grown[i + 1]
          BY <5>1, <4>1, <3>2
        <5> QED BY <5>2, <4>1, <1>11, <1>15
      <4>5. ASSUME NEW x \in Behind(m) \cup {key}
            PROVE  x \in {t[i] : i \in p + 1 .. n}
        <5>1. CASE x = key
          BY <5>1, <4>2, <3>2, <1>15
        <5>2. CASE x \in Behind(m)
          <6>1. PICK j \in m + 1 .. n : x = order[j]
            BY <5>2, <1>11
          <6>2. x = t[j - 1]
            BY <6>1, <4>3, <3>2, <1>15
          <6> QED BY <6>2, <4>3
        <5> QED BY <5>1, <5>2, <4>5
      <4> QED BY <4>4, <4>5
    <3>6. Cardinality({t[i] : i \in p + 1 .. n} \ W) <= half
      BY <3>5, <1>16, <1>18
    <3>7. order' = t
      BY <3>1, <2>5
    <3>8. Behind(p)' = {t[i] : i \in p + 1 .. n}
      <4>1. {order'[i] : i \in p + 1 .. Len(order')} = {t[i] : i \in p + 1 .. n}
        BY <3>2, <3>7
      <4> QED BY <4>1 DEF Behind
    <3>9. Len(order') = n /\ \A i \in 1 .. p : order'[i] \in had'
      BY <3>2, <3>4, <3>7
    <3>10. Cardinality(Behind(p)' \ DOMAIN file_wait') <= NameCap \div 2
      BY <3>6, <3>8, <1>2, <1>5 DEF W
    <3> QED BY <3>9, <3>10 DEF OldInFront
  <2> QED BY <2>7, <2>8, <2>9 DEF InRundown
<1> QED BY <1>4, <1>5, <1>14, <1>17, <1>18

(* A cap only ever takes entries out. *)
LEMMA CapTakesOut ==
  ASSUME NEW m, NEW c \in cap_by_wait(m)
  PROVE  DOMAIN c \subseteq DOMAIN m /\ \A k \in DOMAIN c : c[k] = m[k]
  BY DEF cap_by_wait, kSubset, Restrict

(* What a cap leaves fits. *)
LEMMA CapFits ==
  ASSUME NEW m, IsFiniteSet(DOMAIN m), NEW c \in cap_by_wait(m)
  PROVE  Cardinality(DOMAIN c) <= WaitCap
<1> DEFINE n    == Cardinality(DOMAIN m)
           cut  == Min({m[k].total : k \in {j \in DOMAIN m :
                         Cardinality({i \in DOMAIN m : m[i].total <= m[j].total}) > n \div 2}})
           over == {k \in DOMAIN m : m[k].total > cut}
           room == Min({WaitCap \div 2, Cardinality(over)})
<1>1. c \in IF n <= WaitCap THEN {m} ELSE {Restrict(m, K) : K \in kSubset(room, over)}
  BY DEF cap_by_wait
<1>2. IsFiniteSet(over)
  <2> HIDE DEF cut
  <2> QED BY FS_Subset
<1> HIDE DEF cut, over
<1>3. CASE n <= WaitCap
  BY <1>1, <1>3
<1>4. CASE ~(n <= WaitCap)
  <2>1. PICK K \in kSubset(room, over) : c = Restrict(m, K)
    BY <1>1, <1>4
  <2>2. DOMAIN c = K /\ Cardinality(K) = room
    BY <2>1 DEF Restrict, kSubset
  <2>3. PICK a \in Nat : a = WaitCap \div 2 /\ a <= WaitCap /\ WaitCap \in Nat
    <3>1. WaitCap \in Nat
      BY FileTallyAssumption
    <3>2. WaitCap \div 2 \in Nat /\ WaitCap \div 2 <= WaitCap
      BY <3>1
    <3> QED BY <3>1, <3>2
  <2>4. PICK b \in Nat : b = Cardinality(over)
    BY <1>2, FS_CardinalityType
  <2>5. CASE a <= b
    <3>1. room = a
      BY <2>3, <2>4, <2>5, MinIs
    <3> QED BY <2>2, <2>3, <3>1
  <2>6. CASE ~(a <= b)
    <3>1. room = b
      BY <2>3, <2>4, <2>6, MinIs
    <3> QED BY <2>2, <2>3, <2>4, <2>6, <3>1
  <2> QED BY <2>5, <2>6
<1> QED BY <1>3, <1>4

(* A request adds to the entry of its own key. *)
LEMMA RequestPreserves ==
  ASSUME FilesCore, NEW key \in Keys, NEW pid, NEW dur, DiskIo(key, pid, dur)
  PROVE  FilesCore'
<1>1. /\ phase = "running" /\ owner[key] # Closed
      /\ file_wait' \in cap_by_wait(add(key, pid, dur))
      /\ UNCHANGED <<owner, file_names, order, evicted, todo, phase>>
  BY DEF DiskIo, nameVars
<1>2. /\ DOMAIN file_wait' \subseteq DOMAIN add(key, pid, dur)
      /\ \A k \in DOMAIN file_wait' : file_wait'[k] = add(key, pid, dur)[k]
  BY <1>1, CapTakesOut
<1>3. /\ DOMAIN add(key, pid, dur) = DOMAIN file_wait \cup {key}
      /\ \A k \in DOMAIN file_wait \ {key} : add(key, pid, dur)[k] = file_wait[k]
  BY DEF add
<1> DEFINE old == IF key \in DOMAIN file_wait THEN file_wait[key] ELSE NoWait
<1>4. /\ add(key, pid, dur)[key].from = old.from \cup {owner[key]}
      /\ add(key, pid, dur)[key].blind = (old.blind \/ ~Named(key))
  BY DEF add, Waited
<1>5. FileTypes' /\ NamesAreQueued' /\ NamesAreOwners'
  <2>1. DOMAIN file_wait' \subseteq Keys
    BY <1>2, <1>3 DEF FilesCore, FileTypes
  <2> QED BY <1>1, <2>1 DEF FilesCore, FileTypes, NamesAreQueued, NamesAreOwners
<1>6. NamelessIsMarked'
  <2> SUFFICES ASSUME NEW k \in DOMAIN file_wait', ~Named(k), k \notin evicted
               PROVE  file_wait'[k].blind = TRUE
    BY <1>1 DEF NamelessIsMarked, Named
  <2>1. CASE k = key
    BY <2>1, <1>2, <1>4
  <2>2. CASE k # key
    BY <2>2, <1>2, <1>3 DEF FilesCore, NamelessIsMarked
  <2> QED BY <2>1, <2>2
<1>7. NamedWaitingIsItsOwn'
  <2> SUFFICES ASSUME NEW k \in DOMAIN file_wait', Named(k), ~file_wait'[k].blind, k \notin evicted
               PROVE  file_wait'[k].from = {file_names[k]}
    BY <1>1 DEF NamedWaitingIsItsOwn, Named
  <2>1. CASE k = key
    <3>1. ~old.blind /\ file_wait'[k].from = old.from \cup {owner[key]}
      BY <2>1, <1>2, <1>4
    <3>2. file_names[key] = owner[key]
      BY <2>1, <1>1 DEF FilesCore, NamesAreOwners, Named
    <3>3. CASE key \in DOMAIN file_wait
      BY <2>1, <3>1, <3>2, <3>3 DEF FilesCore, NamedWaitingIsItsOwn
    <3>4. CASE key \notin DOMAIN file_wait
      BY <2>1, <3>1, <3>2, <3>4 DEF NoWait
    <3> QED BY <3>3, <3>4
  <2>2. CASE k # key
    BY <2>2, <1>2, <1>3 DEF FilesCore, NamedWaitingIsItsOwn
  <2> QED BY <2>1, <2>2
<1>8. WaitFits'
  <2>1. DOMAIN add(key, pid, dur) \subseteq Keys
    BY <1>3 DEF FilesCore, FileTypes
  <2>2. IsFiniteSet(DOMAIN add(key, pid, dur))
    BY <2>1, FileTallyAssumption, FS_Subset
  <2> QED BY <1>1, <2>2, CapFits DEF WaitFits
<1> QED BY <1>5, <1>6, <1>7, <1>8 DEF FilesCore

-----------------------------------------------------------------------------
(* The inductive invariant of names and waiting. *)
THEOREM FilesInvariant == FilesSpec => []FilesInv
<1>1. FilesInit => FilesInv
  <2> SUFFICES ASSUME FilesInit PROVE FilesInv
    OBVIOUS
  <2>1. DOMAIN file_names = {} /\ DOMAIN file_wait = {} /\ order = <<>>
    BY DEF FilesInit, Empty
  <2>2. order \in Seq(Keys) /\ Len(order) = 0 /\ DOMAIN order = {}
    BY <2>1, EmptySeq
  <2>3. FileTypes
    BY <2>1, <2>2 DEF FilesInit, FileTypes
  <2>4. NamesAreQueued
    BY <2>1, <2>2, FileTallyAssumption DEF NamesAreQueued, IsInjective, ToSet
  <2>5. NamesAreOwners /\ NamelessIsMarked /\ NamedWaitingIsItsOwn
    BY <2>1 DEF NamesAreOwners, NamelessIsMarked, NamedWaitingIsItsOwn
  <2>6. WaitFits
    BY <2>1, FS_EmptySet, FileTallyAssumption DEF WaitFits
  <2>7. TodoIsOpen /\ phase # "rundown"
    BY DEF FilesInit, TodoIsOpen
  <2> QED BY <2>3, <2>4, <2>5, <2>6, <2>7 DEF FilesInv, FilesCore
<1>2. FilesInv /\ [FilesNext]_filesVars => FilesInv'
  <2> SUFFICES ASSUME FilesInv, [FilesNext]_filesVars PROVE FilesInv'
    OBVIOUS
  <2>0. FilesCore /\ TodoIsOpen /\ FileTypes
    BY DEF FilesInv, FilesCore
  <2>1. ASSUME NEW key \in Keys, NEW file \in Files, Open(key, file) PROVE FilesInv'
    <3>1. /\ owner' = [owner EXCEPT ![key] = file] /\ phase = "running"
          /\ file_name(key, file, FALSE) /\ todo' = todo /\ phase' = phase
      BY <2>1 DEF Open
    <3>2. ~Skips(key, FALSE)
      BY DEF Skips
    <3>3. /\ owner' \in [Keys -> Files \cup {Closed}] /\ owner'[key] = file
          /\ \A k \in Keys \ {key} : owner'[k] = owner[k]
      BY <2>0, <3>1 DEF FileTypes
    <3>4. FilesCore'
      BY <2>0, <3>1, <3>2, <3>3, NamePreserves
    <3>5. TodoIsOpen'
      BY <2>0, <3>1 DEF TodoIsOpen
    <3> QED BY <3>1, <3>4, <3>5 DEF FilesInv
  <2>2. ASSUME NEW key \in Keys, Delete(key) PROVE FilesInv'
    <3>1. /\ owner' = [owner EXCEPT ![key] = Closed] /\ phase = "running"
          /\ file_name(key, owner[key], FALSE) /\ todo' = todo /\ phase' = phase
      BY <2>2 DEF Delete
    <3>2. ~Skips(key, FALSE)
      BY DEF Skips
    <3>3. /\ owner' \in [Keys -> Files \cup {Closed}] /\ owner'[key] = Closed
          /\ \A k \in Keys \ {key} : owner'[k] = owner[k]
      BY <2>0, <3>1 DEF FileTypes
    <3>4. FilesCore'
      BY <2>0, <3>1, <3>2, <3>3, NamePreserves
    <3>5. TodoIsOpen'
      BY <2>0, <3>1 DEF TodoIsOpen
    <3> QED BY <3>1, <3>4, <3>5 DEF FilesInv
  <2>3. ASSUME NEW key \in Keys, Rundown(key) PROVE FilesInv'
    <3>1. /\ key \in todo /\ todo' = todo \ {key} /\ owner' = owner /\ phase' = phase /\ had' = had
          /\ file_name(key, owner[key], TRUE) /\ owner \in [Keys -> Files \cup {Closed}]
      BY <2>0, <2>3 DEF Rundown, FileTypes
    <3>2. TodoIsOpen' /\ phase = "rundown"
      BY <2>0, <3>1 DEF TodoIsOpen, FileTypes
    <3>3. InRundown
      BY <3>2 DEF FilesInv
    <3>4. CASE ~Skips(key, TRUE)
      <4>1. FilesCore'
        BY <2>0, <3>1, <3>4, NamePreserves
      <4>2. InRundown'
        BY <2>0, <3>1, <3>3, <3>4, RundownPreserves
      <4> QED BY <3>2, <4>1, <4>2 DEF FilesInv
    <3>5. CASE Skips(key, TRUE)
      <4>1. /\ UNCHANGED <<file_names, order, evicted, file_wait, owner, phase, had>>
            /\ key \notin DOMAIN file_wait
        BY <3>1, <3>5 DEF file_name, nameVars, tallyVars, Skips
      <4>2. FilesCore'
        BY <2>0, <3>1, <4>1 DEF FilesCore, FileTypes, NamesAreQueued, NamesAreOwners,
                                NamelessIsMarked, NamedWaitingIsItsOwn, WaitFits, Named
      <4>3. RundownCovers'
        BY <3>1, <3>3, <4>1 DEF InRundown, RundownCovers, Named
      <4>4. NamedKept' /\ OldInFront'
        BY <3>3, <4>1 DEF InRundown, NamedKept, OldInFront, Behind
      <4> QED BY <3>2, <4>2, <4>3, <4>4 DEF FilesInv, InRundown
    <3> QED BY <3>4, <3>5
  <2>4. ASSUME NEW key \in Keys, NEW pid \in Pids, NEW dur \in Durations,
               DiskIo(key, pid, dur) \/ HardFault(key, pid, dur)
        PROVE  FilesInv'
    <3>1. phase = "running" /\ phase' = phase /\ todo' = todo /\ owner' = owner
      BY <2>4 DEF DiskIo, HardFault
    <3>2. TodoIsOpen'
      BY <2>0, <3>1 DEF TodoIsOpen
    <3>3. CASE DiskIo(key, pid, dur)
      BY <2>0, <3>1, <3>2, <3>3, RequestPreserves DEF FilesInv
    <3>4. CASE HardFault(key, pid, dur)
      <4>1. UNCHANGED <<file_names, order, evicted, file_wait>>
        BY <3>4 DEF HardFault, nameVars
      <4>2. FilesCore'
        BY <2>0, <3>1, <4>1 DEF FilesCore, FileTypes, NamesAreQueued, NamesAreOwners,
                                NamelessIsMarked, NamedWaitingIsItsOwn, WaitFits, Named
      <4> QED BY <3>1, <3>2, <4>2 DEF FilesInv
    <3> QED BY <2>4, <3>3, <3>4
  <2>5. CASE StopSession
    <3>1. /\ phase' = "rundown" /\ todo' = {k \in Keys : owner[k] # Closed} /\ had' = DOMAIN file_names
          /\ UNCHANGED <<owner, file_names, order, evicted, file_wait>>
      BY <2>5 DEF StopSession, nameVars, tallyVars
    <3>2. FilesCore'
      BY <2>0, <3>1 DEF FilesCore, FileTypes, NamesAreQueued, NamesAreOwners,
                        NamelessIsMarked, NamedWaitingIsItsOwn, WaitFits, Named
    <3>3. TodoIsOpen'
      BY <3>1 DEF TodoIsOpen
    <3>4. RundownCovers'
      BY <2>0, <3>1 DEF RundownCovers, FileTypes
    <3>5. NamedKept'
      <4>1. DOMAIN file_names \cap DOMAIN file_wait \subseteq Keys
        BY <2>0 DEF FileTypes
      <4>2. Cardinality(DOMAIN file_names \cap DOMAIN file_wait) \in Nat
        BY <4>1, FileTallyAssumption, FS_Subset, FS_CardinalityType
      <4> QED BY <3>1, <4>2 DEF NamedKept
    <3>6. OldInFront'
      <4>1. PICK n \in Nat : n = Len(order) /\ DOMAIN order = 1 .. n
        BY <2>0, LenProperties DEF FileTypes
      <4>2. \A i \in 1 .. n : order[i] \in DOMAIN file_names
        BY <2>0, <4>1 DEF FilesCore, NamesAreQueued, ToSet
      <4>3. n + 1 .. n = {}
        BY <4>1
      <4>4. {order[i] : i \in n + 1 .. n} \ DOMAIN file_wait = {}
        BY <4>3
      <4>5. Cardinality({order[i] : i \in n + 1 .. n} \ DOMAIN file_wait) <= NameCap \div 2
        <5>1. NameCap \div 2 >= 0
          BY FileTallyAssumption
        <5> QED BY <4>4, <5>1, FS_EmptySet
      <4>6. n \in 0 .. n
        BY <4>1
      <4>7. Behind(n)' = {order[i] : i \in n + 1 .. n}
        <5>1. {order'[i] : i \in n + 1 .. Len(order')} = {order[i] : i \in n + 1 .. n}
          BY <3>1, <4>1
        <5> QED BY <5>1 DEF Behind
      <4>8. Len(order') = n /\ \A i \in 1 .. n : order'[i] \in had'
        BY <3>1, <4>1, <4>2
      <4>9. Cardinality(Behind(n)' \ DOMAIN file_wait') <= NameCap \div 2
        BY <3>1, <4>5, <4>7
      <4> QED BY <4>6, <4>8, <4>9 DEF OldInFront
    <3> QED BY <3>2, <3>3, <3>4, <3>5, <3>6 DEF FilesInv, InRundown
  <2>6. CASE UNCHANGED filesVars
    <3>1. UNCHANGED <<owner, file_names, order, evicted, file_wait, todo, phase, had>>
      BY <2>6 DEF filesVars, nameVars, tallyVars
    <3>2. FilesCore' /\ TodoIsOpen'
      BY <2>0, <3>1 DEF FilesCore, FileTypes, NamesAreQueued, NamesAreOwners,
                        NamelessIsMarked, NamedWaitingIsItsOwn, WaitFits, TodoIsOpen, Named
    <3>3. InRundown => InRundown'
      BY <3>1 DEF InRundown, RundownCovers, NamedKept, OldInFront, Behind, Named
    <3> QED BY <3>1, <3>2, <3>3 DEF FilesInv
  <2> QED BY <2>1, <2>2, <2>3, <2>4, <2>5, <2>6 DEF FilesNext
<1> QED BY <1>1, <1>2, PTL DEF FilesSpec

(* The map of names and the queue that bounds it agree, for every cap: it  *)
(* never holds more than NameCap names.                                    *)
THEOREM NamesQueued == FilesSpec => []NamesAreQueued
<1>1. FilesInv => NamesAreQueued
  BY DEF FilesInv, FilesCore
<1> QED BY <1>1, FilesInvariant, PTL

(* Waiting is not handed to another file, for any number of files that     *)
(* share a key and for every cap, unless it was added without a name or    *)
(* the name has been pushed out.                                           *)
THEOREM NamedWaitingOwn == FilesSpec => []NamedWaitingIsItsOwn
<1>1. FilesInv => NamedWaitingIsItsOwn
  BY DEF FilesInv, FilesCore
<1> QED BY <1>1, FilesInvariant, PTL

(* The rundown, for every cap and every order in which Windows names the   *)
(* files: those with a tally and a name never become fewer, and each that  *)
(* had no name has its own from its event to the end.                      *)
THEOREM WaitersNamed == FilesSpec => []WaitersAreNamed
<1>1. FilesInv => WaitersAreNamed
  BY DEF FilesInv, FilesCore, InRundown, RundownCovers, NamedKept, WaitersAreNamed, NamesAreOwners, Named
<1> QED BY <1>1, FilesInvariant, PTL

=============================================================================
