---------------------------- MODULE ReportProofs ----------------------------
(***************************************************************************)
(* What a person reads is so.                                              *)
(*                                                                         *)
(* Notables, for every number of events, disks and drivers and every cap:  *)
(* the event log is in order and complete, the roll-up lines account for   *)
(* every folded event, and a drive is charged with its own requests, less  *)
(* those that a freeze excuses.  A report is a loop.  What one round does  *)
(* is named by Reports and, with what it keeps true, by the lemmas that    *)
(* end in "After"; ReportingIs says what the recursive function Reporting  *)
(* is, and LoopIs goes up its rounds one by one.                           *)
(*                                                                         *)
(* Baseline, for every number of problems, PCs and runs: what is said of   *)
(* two runs is what changed between them.                                  *)
(***************************************************************************)
EXTENDS Notables, Baseline, Lemmas

Entry  == [event : Notable, outcome : {"shown", "folded", "suppressed"}]
Charge == [event : Notable, victim : BOOLEAN]
Held   == [count : Nat, worst : Nat, since : Nat]
Habit  == [shown : Nat, worst_shown : Nat, held : Held, last_rollup : Nat]
Rolled == [subject : Subjects, count : Nat, worst : Nat, at : Nat, final : BOOLEAN]

(* What the loop of report_notables works on. *)
Tally == [quiet : [Subjects -> Habit], window_start : Nat, in_window : Nat,
          reported : Seq(Entry), disk_slow : Seq(Charge)]

NotablesTypes ==
  /\ now \in Nat /\ pushed \in Nat /\ notable_dropped \in Nat
  /\ notable \in Seq(Notable) /\ held_notables \in Seq(Notable) /\ ios \subseteq Notable
  /\ quiet \in [Subjects -> Habit] /\ window_start \in Nat /\ in_window \in Nat
  /\ reported \in Seq(Entry) /\ disk_slow \in Seq(Charge) /\ rollups \in Seq(Rolled)

LEMMA NotableIs ==
  ASSUME NEW n \in Notable
  PROVE  /\ n.id \in Nat /\ n.subject \in Subjects /\ n.end \in Nat
         /\ n.dur \in Durations /\ n.dur \in Nat /\ n.dur > 0
<1>1. n.id \in Nat /\ n.subject \in Subjects /\ n.end \in Nat /\ n.dur \in Durations
  BY DEF Notable
<1>2. Durations \subseteq Nat \ {0}
  BY NotablesAssumption, Zenon
<1>3. n.dur \in Nat \ {0}
  BY <1>1, <1>2
<1> QED BY <1>1, <1>3

LEMMA OfferTypes ==
  ASSUME NEW q \in Habit, NEW d \in Nat, NEW t \in Nat
  PROVE  offer(q, d, t) \in Habit
<1>1. /\ q.shown \in Nat /\ q.worst_shown \in Nat /\ q.last_rollup \in Nat
      /\ q.held \in Held /\ q.held.count \in Nat /\ q.held.worst \in Nat /\ q.held.since \in Nat
  BY DEF Habit, Held
<1>2. CASE Showing(q, d)
  <2>1. /\ q.shown + 1 \in Nat /\ (IF d > q.worst_shown THEN d ELSE q.worst_shown) \in Nat
        /\ (IF q.shown = 0 THEN t ELSE q.last_rollup) \in Nat
    BY <1>1
  <2> QED BY <1>2, <2>1 DEF offer, Habit
<1>3. CASE ~Showing(q, d)
  <2>1. [count |-> q.held.count + 1, worst |-> IF d > q.held.worst THEN d ELSE q.held.worst,
         since |-> IF q.held.count = 0 THEN t ELSE q.held.since] \in Held
    BY <1>1 DEF Held
  <2> QED BY <1>3, <2>1 DEF offer, Habit
<1> QED BY <1>2, <1>3

(* What one round of the loop does. *)
Reports(a, n, b) ==
  /\ b \in Tally
  /\ b.quiet = [a.quiet EXCEPT ![n.subject] = offer(a.quiet[n.subject], n.dur, now)]
  /\ \E o \in {"shown", "folded", "suppressed"} :
       /\ b.reported = Append(a.reported, [event |-> n, outcome |-> o])
       /\ o = "folded" <=> ~Showing(a.quiet[n.subject], n.dur)
  /\ b.disk_slow = IF n.subject \in Disks /\ SlowOn(a.disk_slow, n.subject) < SlowCap
                   THEN Append(a.disk_slow, [event |-> n, victim |-> FALSE])
                   ELSE a.disk_slow

LEMMA ReportOneIs ==
  ASSUME now \in Nat, NEW a \in Tally, NEW n \in Notable
  PROVE  Reports(a, n, report_one(a, n))
<1> DEFINE q == a.quiet[n.subject]
           anew == now - a.window_start > WindowLen
           lines == (IF anew THEN 0 ELSE a.in_window) + 1
           o == CASE ~Showing(q, n.dur) -> "folded"
                  [] Showing(q, n.dur) /\ lines > WindowMax -> "suppressed"
                  [] OTHER -> "shown"
           b == report_one(a, n)
<1>1. /\ n.subject \in Subjects /\ n.dur \in Nat
      /\ a.quiet \in [Subjects -> Habit] /\ a.window_start \in Nat /\ a.in_window \in Nat
      /\ a.reported \in Seq(Entry) /\ a.disk_slow \in Seq(Charge)
  BY NotableIs DEF Tally
<1>2. /\ b.quiet = [a.quiet EXCEPT ![n.subject] = offer(q, n.dur, now)]
      /\ b.window_start = (IF Showing(q, n.dur) /\ anew THEN now ELSE a.window_start)
      /\ b.in_window = (IF Showing(q, n.dur) THEN lines ELSE a.in_window)
      /\ b.reported = Append(a.reported, [event |-> n, outcome |-> o])
      /\ b.disk_slow = (IF n.subject \in Disks /\ SlowOn(a.disk_slow, n.subject) < SlowCap
                        THEN Append(a.disk_slow, [event |-> n, victim |-> FALSE])
                        ELSE a.disk_slow)
      /\ b = [quiet |-> b.quiet, window_start |-> b.window_start, in_window |-> b.in_window,
              reported |-> b.reported, disk_slow |-> b.disk_slow]
  BY DEF report_one
<1>3. o \in {"shown", "folded", "suppressed"} /\ (o = "folded" <=> ~Showing(q, n.dur))
  <2>1. CASE ~Showing(q, n.dur)
    BY <2>1
  <2>2. CASE Showing(q, n.dur) /\ lines > WindowMax
    BY <2>2
  <2>3. CASE Showing(q, n.dur) /\ ~(lines > WindowMax)
    BY <2>3
  <2> QED BY <2>1, <2>2, <2>3
<1>4. lines \in Nat
  BY <1>1
<1> HIDE DEF anew, lines, o, b
<1>5. b.quiet \in [Subjects -> Habit]
  <2>1. offer(q, n.dur, now) \in Habit
    BY <1>1, OfferTypes
  <2> QED BY <1>1, <1>2, <2>1
<1>6. b.window_start \in Nat /\ b.in_window \in Nat
  BY <1>1, <1>2, <1>4
<1>7. b.reported \in Seq(Entry)
  <2>1. [event |-> n, outcome |-> o] \in Entry
    BY <1>3 DEF Entry
  <2> QED BY <2>1, <1>1, <1>2, AppendProperties
<1>8. b.disk_slow \in Seq(Charge)
  <2>1. [event |-> n, victim |-> FALSE] \in Charge
    BY DEF Charge
  <2> QED BY <2>1, <1>1, <1>2, AppendProperties
<1>9. b \in Tally
  BY <1>2, <1>5, <1>6, <1>7, <1>8 DEF Tally
<1> QED BY <1>2, <1>3, <1>9 DEF Reports, b

Start == [quiet |-> quiet, window_start |-> window_start, in_window |-> in_window,
          reported |-> reported, disk_slow |-> disk_slow]

LEMMA ReportingIs ==
  ASSUME NotablesTypes, NEW q \in Seq(Notable)
  PROVE  /\ Reporting(q) \in [0 .. Len(q) -> Tally] /\ Reporting(q)[0] = Start
         /\ \A i \in 1 .. Len(q) : /\ Reporting(q)[i - 1] \in Tally
                                   /\ Reports(Reporting(q)[i - 1], q[i], Reporting(q)[i])
<1>a. PICK n : n = Len(q)
  OBVIOUS
<1>b. PICK b : b = Start
  OBVIOUS
<1>c. PICK step : step = [i \in 1 .. n |-> [a \in Tally |-> report_one(a, q[i])]]
  OBVIOUS
<1>1. n \in Nat /\ \A i \in 1 .. n : q[i] \in Notable
  BY <1>a, LenProperties, ElementOfSeq
<1>2. \A i \in 1 .. n : \A a \in Tally : Reports(a, q[i], report_one(a, q[i])) /\ report_one(a, q[i]) \in Tally
  <2>1. \A i \in 1 .. n : \A a \in Tally : Reports(a, q[i], report_one(a, q[i]))
    BY <1>1, ReportOneIs DEF NotablesTypes
  <2> QED BY <2>1 DEF Reports
<1>3. b \in Tally
  BY <1>b DEF NotablesTypes, Tally, Start
<1>4. step \in [1 .. n -> [Tally -> Tally]]
  <2> HIDE DEF Tally
  <2> QED BY <1>2, <1>c
<1>5. PICK f : f \in [0 .. n -> Tally] /\ f[0] = b /\ \A i \in 1 .. n : f[i] = step[i][f[i - 1]]
  <2>1. \E f : Steps(f, n, Tally, b, step)
    BY <1>1, <1>3, <1>4, Recursion
  <2> QED BY <2>1 DEF Steps
<1>6. \A i \in 1 .. n : i - 1 \in 0 .. n /\ f[i - 1] \in Tally /\ f[i] = report_one(f[i - 1], q[i])
  <2>1. TAKE i \in 1 .. n
  <2>2. i - 1 \in 0 .. n
    BY <1>1
  <2>3. f[i - 1] \in Tally
    BY <2>2, <1>5
  <2>4. step[i][f[i - 1]] = report_one(f[i - 1], q[i])
    BY <2>3, <1>c
  <2> QED BY <2>2, <2>3, <2>4, <1>5
<1> DEFINE Eqn(g) == g = [i \in 0 .. n |-> IF i = 0 THEN b ELSE report_one(g[i - 1], q[i])]
<1>7. Eqn(f)
  <2>1. ASSUME NEW i \in 0 .. n
        PROVE  f[i] = IF i = 0 THEN b ELSE report_one(f[i - 1], q[i])
    <3>1. CASE i = 0
      BY <3>1, <1>5
    <3>2. CASE i # 0
      <4>1. i \in 1 .. n
        BY <3>2, <1>1
      <4> QED BY <4>1, <3>2, <1>6
    <3> QED BY <3>1, <3>2
  <2>2. f = [i \in 0 .. n |-> f[i]]
    BY <1>5
  <2> QED BY <2>1, <2>2
<1>8. PICK g : g = Reporting(q)
  OBVIOUS
<1>9. Eqn(g)
  <2>1. Reporting(q) = CHOOSE g1 : Eqn(g1)
    BY <1>a, <1>b DEF Reporting, Start
  <2> HIDE DEF Eqn
  <2> QED BY <2>1, <1>7, <1>8
<1>10. \A i \in 0 .. n : g[i] = f[i]
  <2> DEFINE P == {i \in 0 .. n : g[i] = f[i]}
  <2>1. 0 \in P
    BY <1>1, <1>5, <1>9
  <2>2. \A i \in 1 .. n : i - 1 \in P => i \in P
    <3>1. TAKE i \in 1 .. n
    <3>2. HAVE i - 1 \in P
    <3>3. i \in 0 .. n /\ i # 0
      BY <1>1
    <3>4. g[i] = report_one(g[i - 1], q[i])
      BY <3>3, <1>9
    <3>5. g[i - 1] = f[i - 1]
      BY <3>2
    <3> QED BY <3>3, <3>4, <3>5, <1>6
  <2>3. \A i \in 0 .. n : i \in P
    <3> HIDE DEF P
    <3> QED BY <2>1, <2>2, <1>1, UpTo
  <2> QED BY <2>3
<1>11. g = f
  <2>1. g = [i \in 0 .. n |-> g[i]]
    BY <1>9
  <2> HIDE DEF Eqn
  <2> QED BY <2>1, <1>5, <1>10
<1>12. \A i \in 1 .. n : f[i - 1] \in Tally /\ Reports(f[i - 1], q[i], f[i])
  BY <1>2, <1>6
<1> QED BY <1>5, <1>8, <1>11, <1>12, <1>a, <1>b

-----------------------------------------------------------------------------
(* The entries of a subject.                                               *)
(* The entries of a subject, and the events of a longer sequence. *)
LEMMA EventsAre ==
  ASSUME NEW R, \A e \in R : e.event \in Notable, NEW r \in Seq(R)
  PROVE  /\ Events(r) \in Seq(Notable) /\ Len(Events(r)) = Len(r) /\ Len(r) \in Nat
         /\ DOMAIN r = 1 .. Len(r) /\ \A i \in 1 .. Len(r) : Events(r)[i] = r[i].event /\ r[i] \in R
         /\ \A s : OfSubject(r, s) \subseteq 1 .. Len(r)
<1>1. DOMAIN r = 1 .. Len(r) /\ Len(r) \in Nat /\ \A i \in 1 .. Len(r) : r[i] \in R
  BY LenProperties, ElementOfSeq
<1>2. Events(r) = [i \in 1 .. Len(r) |-> r[i].event]
  BY <1>1 DEF Events
<1>3. Events(r) \in [1 .. Len(r) -> Notable]
  BY <1>1, <1>2
<1>4. Events(r) \in Seq(Notable) /\ Len(Events(r)) = Len(r)
  BY <1>1, <1>3
<1> QED BY <1>1, <1>2, <1>4 DEF OfSubject

LEMMA EventsAppend ==
  ASSUME NEW R, \A e \in R : e.event \in Notable, NEW r \in Seq(R), NEW e \in R
  PROVE  /\ Events(Append(r, e)) = Append(Events(r), e.event)
         /\ \A s : OfSubject(Append(r, e), s) = IF e.event.subject = s THEN OfSubject(r, s) \cup {Len(r) + 1}
                                                                     ELSE OfSubject(r, s)
<1>1. /\ Append(r, e) \in Seq(R) /\ Len(Append(r, e)) = Len(r) + 1 /\ Len(r) \in Nat
      /\ \A i \in 1 .. Len(r) : Append(r, e)[i] = r[i]
      /\ Append(r, e)[Len(r) + 1] = e
  BY AppendProperties, LenProperties
<1>2. PICK p : p = Append(r, e)
  OBVIOUS
<1>3. PICK n \in Nat : n = Len(r)
  BY <1>1
<1>4. \A i \in 1 .. n + 1 : i \in 1 .. n \/ i = n + 1
  OBVIOUS
<1>5. (\A i \in 1 .. n : i \in 1 .. n + 1 /\ i # n + 1) /\ n + 1 \in 1 .. n + 1
  OBVIOUS
<1>6. /\ Events(r) \in Seq(Notable) /\ Len(Events(r)) = n
      /\ DOMAIN r = 1 .. n /\ \A i \in 1 .. n : Events(r)[i] = r[i].event /\ r[i] \in R
  BY <1>3, EventsAre
<1>7. /\ p \in Seq(R) /\ Events(p) \in Seq(Notable) /\ Len(Events(p)) = n + 1
      /\ DOMAIN p = 1 .. n + 1 /\ \A i \in 1 .. n + 1 : Events(p)[i] = p[i].event
  <2>1. p \in Seq(R) /\ Len(p) = n + 1
    BY <1>1, <1>2, <1>3
  <2> QED BY <2>1, EventsAre
<1>8. (\A i \in 1 .. n : p[i] = r[i]) /\ p[n + 1] = e
  BY <1>1, <1>2, <1>3
<1>9. Events(p) = Append(Events(r), e.event)
  <2>1. PICK x : x = Append(Events(r), e.event)
    OBVIOUS
  <2>2. /\ x \in Seq(Notable) /\ Len(x) = n + 1
        /\ \A i \in 1 .. n : x[i] = Events(r)[i]
        /\ x[n + 1] = e.event
    BY <2>1, <1>6, AppendProperties
  <2>3. \A i \in 1 .. n + 1 : Events(p)[i] = x[i]
    BY <2>2, <1>4, <1>5, <1>6, <1>7, <1>8
  <2>4. Events(p) = x
    BY <2>2, <2>3, <1>7, SeqEqual
  <2> QED BY <2>1, <2>4
<1>10. ASSUME NEW s
       PROVE  OfSubject(p, s) = IF e.event.subject = s THEN OfSubject(r, s) \cup {n + 1} ELSE OfSubject(r, s)
  <2>1. OfSubject(p, s) = {i \in 1 .. n + 1 : p[i].event.subject = s}
    BY <1>7 DEF OfSubject
  <2>2. OfSubject(r, s) = {i \in 1 .. n : r[i].event.subject = s}
    BY <1>6 DEF OfSubject
  <2>3. \A i \in 1 .. n : p[i].event.subject = r[i].event.subject
    BY <1>8
  <2>4. p[n + 1].event.subject = e.event.subject
    BY <1>8
  <2> QED BY <2>1, <2>2, <2>3, <2>4, <1>4, <1>5
<1> QED BY <1>2, <1>3, <1>9, <1>10

LEMMA EntriesAre == (\A e \in Entry : e.event \in Notable) /\ (\A e \in Charge : e.event \in Notable)
  BY DEF Entry, Charge

-----------------------------------------------------------------------------
(* Folded events and their roll-ups.                                       *)

FoldedIn(r, s) == {i \in OfSubject(r, s) : r[i].outcome = "folded"}

(* total is what the roll-up lines count, worsts the worst of each. *)
Balanced(r, h, s, total, worsts) ==
  /\ Cardinality(FoldedIn(r, s)) = h.count + total
  /\ \A i \in FoldedIn(r, s) : r[i].event.dur <= h.worst \/ \E w \in worsts : r[i].event.dur <= w
  /\ \A w \in worsts \cup {h.worst} : w = 0 \/ \E i \in FoldedIn(r, s) : r[i].event.dur = w

LEMMA FoldedAppend ==
  ASSUME NEW r \in Seq(Entry), NEW e \in Entry, NEW s
  PROVE  /\ FoldedIn(Append(r, e), s) = IF e.event.subject = s /\ e.outcome = "folded"
                                        THEN FoldedIn(r, s) \cup {Len(r) + 1} ELSE FoldedIn(r, s)
         /\ FoldedIn(r, s) \in SUBSET (1 .. Len(r)) /\ IsFiniteSet(FoldedIn(r, s))
         /\ Len(r) \in Nat /\ Append(r, e)[Len(r) + 1] = e
         /\ \A i \in FoldedIn(r, s) : Append(r, e)[i] = r[i] /\ r[i] \in Entry
<1>1. /\ Len(r) \in Nat /\ Append(r, e)[Len(r) + 1] = e
      /\ \A i \in 1 .. Len(r) : Append(r, e)[i] = r[i] /\ r[i] \in Entry
  BY AppendProperties, LenProperties, ElementOfSeq
<1>2. OfSubject(Append(r, e), s) = IF e.event.subject = s THEN OfSubject(r, s) \cup {Len(r) + 1} ELSE OfSubject(r, s)
  BY EventsAppend, EntriesAre
<1>3. OfSubject(r, s) \subseteq 1 .. Len(r)
  BY EventsAre, EntriesAre
<1>4. FoldedIn(r, s) \in SUBSET (1 .. Len(r))
  BY <1>3 DEF FoldedIn
<1>5. IsFiniteSet(FoldedIn(r, s))
  <2>1. IsFiniteSet(1 .. Len(r))
    BY <1>1, FS_Interval
  <2> QED BY <2>1, <1>4, FS_Subset
<1>6. FoldedIn(Append(r, e), s) = IF e.event.subject = s /\ e.outcome = "folded"
                                  THEN FoldedIn(r, s) \cup {Len(r) + 1} ELSE FoldedIn(r, s)
  <2>1. \A i \in OfSubject(r, s) : Append(r, e)[i].outcome = r[i].outcome
    BY <1>1, <1>3
  <2>2. Append(r, e)[Len(r) + 1].outcome = e.outcome
    BY <1>1
  <2>3. CASE e.event.subject = s
    BY <2>1, <2>2, <2>3, <1>2 DEF FoldedIn
  <2>4. CASE e.event.subject # s
    BY <2>1, <2>4, <1>2 DEF FoldedIn
  <2> QED BY <2>3, <2>4
<1> QED BY <1>1, <1>4, <1>5, <1>6

LEMMA BalancedAfter ==
  ASSUME now \in Nat, NEW a \in Tally, NEW n \in Notable, NEW b, Reports(a, n, b), NEW s \in Subjects,
         NEW total \in Int, NEW worsts \in SUBSET Nat,
         Balanced(a.reported, a.quiet[s].held, s, total, worsts)
  PROVE  Balanced(b.reported, b.quiet[s].held, s, total, worsts)
<1>1. PICK r \in Seq(Entry) : r = a.reported
  BY DEF Tally
<1>2. PICK q \in Habit : q = a.quiet[n.subject]
  BY NotableIs DEF Tally
<1>3. PICK e \in Entry : /\ b.reported = Append(r, e) /\ e.event = n
                         /\ (e.outcome = "folded" <=> ~Showing(q, n.dur))
  <2>1. PICK o \in {"shown", "folded", "suppressed"} :
           /\ b.reported = Append(r, [event |-> n, outcome |-> o])
           /\ o = "folded" <=> ~Showing(q, n.dur)
    BY <1>1, <1>2 DEF Reports
  <2>2. [event |-> n, outcome |-> o] \in Entry
    BY DEF Entry
  <2> QED BY <2>1, <2>2
<1>4. /\ a.quiet \in [Subjects -> Habit] /\ n.subject \in Subjects /\ n.dur \in Nat /\ n.dur > 0
      /\ b.quiet = [a.quiet EXCEPT ![n.subject] = offer(q, n.dur, now)]
  BY <1>2, NotableIs DEF Tally, Reports
<1>5. /\ FoldedIn(b.reported, s) = (IF n.subject = s /\ ~Showing(q, n.dur)
                                    THEN FoldedIn(r, s) \cup {Len(r) + 1} ELSE FoldedIn(r, s))
      /\ FoldedIn(r, s) \in SUBSET (1 .. Len(r)) /\ IsFiniteSet(FoldedIn(r, s))
      /\ Len(r) \in Nat /\ b.reported[Len(r) + 1] = e
      /\ \A i \in FoldedIn(r, s) : b.reported[i] = r[i] /\ r[i] \in Entry
  BY <1>3, FoldedAppend
<1>6. PICK h \in Held : h = a.quiet[s].held
  BY <1>4 DEF Habit
<1>7. h.count \in Nat /\ h.worst \in Nat
  BY DEF Held
<1>8. Balanced(r, h, s, total, worsts)
  BY <1>1, <1>6
<1>9. CASE ~(n.subject = s /\ ~Showing(q, n.dur))
  <2>1. b.quiet[s].held = h
    <3>1. CASE n.subject # s
      BY <3>1, <1>4, <1>6
    <3>2. CASE n.subject = s /\ Showing(q, n.dur)
      <4>1. b.quiet[s] = offer(q, n.dur, now) /\ q = a.quiet[s]
        BY <3>2, <1>2, <1>4
      <4>2. offer(q, n.dur, now).held = q.held
        BY <3>2 DEF offer, Habit
      <4> QED BY <4>1, <4>2, <1>6
    <3> QED BY <3>1, <3>2, <1>9
  <2>2. FoldedIn(b.reported, s) = FoldedIn(r, s)
    BY <1>5, <1>9
  <2> QED BY <2>1, <2>2, <1>5, <1>8 DEF Balanced
<1>10. CASE n.subject = s /\ ~Showing(q, n.dur)
  <2> DEFINE m == Len(r) + 1
             F == FoldedIn(r, s)
             d == n.dur
  <2>1. /\ b.quiet[s].held.count = h.count + 1
        /\ b.quiet[s].held.worst = IF d > h.worst THEN d ELSE h.worst
    <3>1. b.quiet[s] = offer(q, n.dur, now) /\ q = a.quiet[s]
      BY <1>10, <1>2, <1>4
    <3>2. offer(q, n.dur, now).held = [count |-> h.count + 1, worst |-> IF n.dur > h.worst THEN n.dur ELSE h.worst,
                                       since |-> IF h.count = 0 THEN now ELSE h.since]
      BY <1>10, <3>1, <1>6 DEF offer, Habit
    <3> QED BY <3>1, <3>2
  <2>2. /\ FoldedIn(b.reported, s) = F \cup {m} /\ b.reported[m].event.dur = d
        /\ \A i \in F : b.reported[i].event.dur = r[i].event.dur /\ r[i].event.dur \in Nat
    <3>1. \A i \in F : r[i].event.dur \in Nat
      <4>1. \A i \in F : r[i].event \in Notable
        BY <1>5, EntriesAre
      <4> QED BY <4>1, NotableIs
    <3> QED BY <3>1, <1>3, <1>5, <1>10
  <2>3. m \notin F /\ IsFiniteSet(F)
    BY <1>5
  <2>4. Cardinality(F \cup {m}) = Cardinality(F) + 1 /\ Cardinality(F) \in Nat
    <3> HIDE DEF F, m
    <3> QED BY <2>3, FS_AddElement, FS_CardinalityType
  <2>5. /\ Cardinality(F) = h.count + total
        /\ \A i \in F : r[i].event.dur <= h.worst \/ \E w \in worsts : r[i].event.dur <= w
        /\ \A w \in worsts \cup {h.worst} : w = 0 \/ \E i \in F : r[i].event.dur = w
    BY <1>8 DEF Balanced
  <2> HIDE DEF F, m
  <2>6. PICK x : x = b.quiet[s].held.worst
    OBVIOUS
  <2>7. d \in Nat /\ x = IF d > h.worst THEN d ELSE h.worst
    BY <2>1, <2>6, <1>4
  <2>8. \A i \in F \cup {m} : b.reported[i].event.dur <= x \/ \E w \in worsts : b.reported[i].event.dur <= w
    <3>1. ASSUME NEW i \in F
          PROVE  b.reported[i].event.dur <= x \/ \E w \in worsts : b.reported[i].event.dur <= w
      <4>1. PICK y \in Nat : y = r[i].event.dur /\ y = b.reported[i].event.dur
        BY <2>2
      <4>2. y <= h.worst \/ \E w \in worsts : y <= w
        BY <4>1, <2>5
      <4>3. y <= x \/ \E w \in worsts : y <= w
        BY <4>2, <2>7, <1>7
      <4> QED BY <4>1, <4>3
    <3>2. d <= x
      BY <2>7, <1>7
    <3> QED BY <3>1, <3>2, <2>2
  <2>9. \A w \in worsts \cup {x} : w = 0 \/ \E i \in F \cup {m} : b.reported[i].event.dur = w
    <3>1. ASSUME NEW w \in worsts \cup {h.worst}
          PROVE  w = 0 \/ \E i \in F \cup {m} : b.reported[i].event.dur = w
      BY <2>2, <2>5
    <3>2. x = d \/ x = h.worst
      BY <2>7
    <3>3. b.reported[m].event.dur = d
      BY <2>2
    <3> QED BY <3>1, <3>2, <3>3
  <2>10. Cardinality(F \cup {m}) = b.quiet[s].held.count + total
    BY <2>1, <2>4, <2>5, <1>7
  <2> QED BY <2>2, <2>6, <2>8, <2>9, <2>10 DEF Balanced
<1> QED BY <1>1, <1>9, <1>10

-----------------------------------------------------------------------------
(* What a drive is charged with.                                           *)
(* What a drive is charged with: the first of its requests. *)
Beginning(C, A, cap) ==
  /\ Len(C) <= Len(A) /\ Len(C) <= cap /\ (Len(C) = Len(A) \/ Len(C) = cap)
  /\ \A i \in 1 .. Len(C) : C[i] = A[i]

LEMMA BeginningIs ==
  ASSUME NEW S, NEW C \in Seq(S), NEW A \in Seq(S), NEW cap \in Nat
  PROVE  C = SubSeq(A, 1, Min({Len(A), cap})) <=> Beginning(C, A, cap)
<1>1. Len(A) \in Nat /\ Len(C) \in Nat
  BY LenProperties
<1>2. PICK m \in Nat : m = IF Len(A) <= cap THEN Len(A) ELSE cap
  BY <1>1
<1>3. Min({Len(A), cap}) = m
  <2>1. PICK I : I = {Len(A), cap}
    OBVIOUS
  <2>2. I \subseteq Int /\ m \in I /\ \A y \in I : m <= y
    BY <2>1, <1>1, <1>2
  <2>3. Min(I) = m
    BY <2>2, MinIs
  <2> QED BY <2>1, <2>3
<1>4. /\ SubSeq(A, 1, m) \in Seq(S) /\ Len(SubSeq(A, 1, m)) = m
      /\ \A i \in 1 .. m : SubSeq(A, 1, m)[i] = A[i]
  <2>1. m <= Len(A)
    BY <1>1, <1>2
  <2>2. SubSeq(A, 1, m) = [i \in 1 .. m |-> A[i]]
    <3>1. 1 + m - 1 = m /\ \A i \in 1 .. m : i + 1 - 1 = i
      OBVIOUS
    <3> QED BY <3>1
  <2>3. \A i \in 1 .. m : A[i] \in S
    <3>1. \A i \in 1 .. m : i \in 1 .. Len(A)
      BY <2>1, <1>1
    <3> QED BY <3>1, ElementOfSeq
  <2> QED BY <2>2, <2>3
<1>5. ASSUME C = SubSeq(A, 1, m)
      PROVE  Beginning(C, A, cap)
  BY <1>1, <1>2, <1>4, <1>5 DEF Beginning
<1>6. ASSUME Beginning(C, A, cap)
      PROVE  C = SubSeq(A, 1, m)
  <2>1. Len(C) = m
    BY <1>1, <1>2, <1>6 DEF Beginning
  <2>2. \A i \in 1 .. m : C[i] = A[i]
    BY <2>1, <1>6 DEF Beginning
  <2> QED BY <2>1, <2>2, <1>4, SeqEqual
<1> QED BY <1>3, <1>5, <1>6

LEMMA BeginningAppend ==
  ASSUME NEW S, NEW C \in Seq(S), NEW A \in Seq(S), NEW cap \in Nat, NEW e \in S, Beginning(C, A, cap)
  PROVE  IF Len(C) < cap THEN Beginning(Append(C, e), Append(A, e), cap)
                         ELSE Beginning(C, Append(A, e), cap)
<1>1. /\ Len(A) \in Nat /\ Len(Append(A, e)) = Len(A) + 1 /\ Append(A, e)[Len(A) + 1] = e
      /\ \A i \in 1 .. Len(A) : Append(A, e)[i] = A[i]
  BY AppendProperties, LenProperties
<1>2. /\ Len(C) \in Nat /\ Len(Append(C, e)) = Len(C) + 1 /\ Append(C, e)[Len(C) + 1] = e
      /\ \A i \in 1 .. Len(C) : Append(C, e)[i] = C[i]
  BY AppendProperties, LenProperties
<1>3. \A i \in 1 .. Len(C) : i \in 1 .. Len(A) /\ C[i] = A[i]
  BY <1>1, <1>2 DEF Beginning
<1>4. CASE Len(C) < cap
  <2>1. Len(C) = Len(A)
    BY <1>1, <1>2, <1>4 DEF Beginning
  <2>2. \A i \in 1 .. Len(C) + 1 : i \in 1 .. Len(C) \/ i = Len(C) + 1
    BY <1>2
  <2>3. \A i \in 1 .. Len(C) + 1 : Append(C, e)[i] = Append(A, e)[i]
    BY <2>1, <2>2, <1>1, <1>2, <1>3
  <2>4. Len(C) + 1 <= cap /\ Len(C) + 1 <= Len(A) + 1
    BY <2>1, <1>1, <1>2, <1>4
  <2> QED BY <2>1, <2>3, <2>4, <1>1, <1>2, <1>4 DEF Beginning
<1>5. CASE ~(Len(C) < cap)
  <2>1. \A i \in 1 .. Len(C) : C[i] = Append(A, e)[i]
    BY <1>1, <1>3
  <2>2. Len(C) <= Len(A) + 1 /\ Len(C) = cap
    BY <1>1, <1>2, <1>5 DEF Beginning
  <2> QED BY <2>1, <2>2, <1>1, <1>2, <1>5 DEF Beginning
<1> QED BY <1>4, <1>5

Account(q, d) == At(Events(q), OfSubject(q, d))

LEMMA AccountIs ==
  ASSUME NEW R, \A e \in R : e.event \in Notable, NEW r \in Seq(R), NEW e \in R, NEW d
  PROVE  /\ Account(r, d) \in Seq(Notable)
         /\ Len(Account(r, d)) = Cardinality(OfSubject(r, d))
         /\ Account(Append(r, e), d) = IF e.event.subject = d THEN Append(Account(r, d), e.event)
                                                              ELSE Account(r, d)
<1>1. /\ Events(r) \in Seq(Notable) /\ Len(Events(r)) = Len(r) /\ OfSubject(r, d) \subseteq 1 .. Len(Events(r))
      /\ e.event \in Notable
  BY EventsAre
<1>2. /\ Events(Append(r, e)) = Append(Events(r), e.event)
      /\ OfSubject(Append(r, e), d) = IF e.event.subject = d THEN OfSubject(r, d) \cup {Len(Events(r)) + 1}
                                                             ELSE OfSubject(r, d)
  BY <1>1, EventsAppend
<1>3. /\ At(Append(Events(r), e.event), OfSubject(r, d)) = At(Events(r), OfSubject(r, d))
      /\ At(Append(Events(r), e.event), OfSubject(r, d) \cup {Len(Events(r)) + 1})
           = Append(At(Events(r), OfSubject(r, d)), e.event)
      /\ At(Events(r), OfSubject(r, d)) \in Seq(Notable)
      /\ Len(At(Events(r), OfSubject(r, d))) = Cardinality(OfSubject(r, d))
  <2> DEFINE Takes(S, q, x, I) ==
        /\ At(Append(q, x), I) = At(q, I)
        /\ At(Append(q, x), I \cup {Len(q) + 1}) = Append(At(q, I), x)
        /\ At(q, I) \in Seq(S) /\ Len(At(q, I)) = Cardinality(I) /\ Cardinality(I) \in Nat
  <2>1. ASSUME NEW S, NEW q \in Seq(S), NEW x \in S, NEW I, I \subseteq 1 .. Len(q)
        PROVE  Takes(S, q, x, I)
    BY <2>1, AtAppend, Zenon
  <2> HIDE DEF Takes
  <2>2. Takes(Notable, Events(r), e.event, OfSubject(r, d))
    BY <2>1, <1>1
  <2> QED BY <2>2 DEF Takes
<1> QED BY <1>2, <1>3 DEF Account

Charged(slow, rep) == \A d \in Disks : Beginning(Account(slow, d), Account(rep, d), SlowCap)

LEMMA ChargedAfter ==
  ASSUME NEW a \in Tally, NEW n \in Notable, NEW b, Reports(a, n, b), Charged(a.disk_slow, a.reported)
  PROVE  Charged(b.disk_slow, b.reported)
<1> SUFFICES ASSUME NEW d \in Disks
             PROVE  Beginning(Account(b.disk_slow, d), Account(b.reported, d), SlowCap)
  BY DEF Charged
<1>1. PICK r \in Seq(Entry) : r = a.reported
  BY DEF Tally
<1>2. PICK w \in Seq(Charge) : w = a.disk_slow
  BY DEF Tally
<1>3. PICK e \in Entry : b.reported = Append(r, e) /\ e.event = n
  <2>1. PICK o \in {"shown", "folded", "suppressed"} : b.reported = Append(r, [event |-> n, outcome |-> o])
    BY <1>1 DEF Reports
  <2>2. [event |-> n, outcome |-> o] \in Entry
    BY DEF Entry
  <2> QED BY <2>1, <2>2
<1>4. PICK c \in Charge : c = [event |-> n, victim |-> FALSE]
  BY DEF Charge
<1>5. b.disk_slow = IF n.subject \in Disks /\ SlowOn(w, n.subject) < SlowCap THEN Append(w, c) ELSE w
  BY <1>2, <1>4 DEF Reports
<1>6. /\ Account(r, d) \in Seq(Notable)
      /\ Account(b.reported, d) = IF n.subject = d THEN Append(Account(r, d), n) ELSE Account(r, d)
  BY <1>3, AccountIs, EntriesAre
<1>7. /\ Account(w, d) \in Seq(Notable) /\ Len(Account(w, d)) = Cardinality(OfSubject(w, d))
      /\ Account(Append(w, c), d) = IF n.subject = d THEN Append(Account(w, d), n) ELSE Account(w, d)
  <2>1. c.event = n
    BY <1>4
  <2> QED BY <2>1, AccountIs, EntriesAre
<1>8. SlowOn(w, d) = Len(Account(w, d))
  BY <1>7 DEF SlowOn, OfSubject
<1>9. Beginning(Account(w, d), Account(r, d), SlowCap) /\ SlowCap \in Nat
  BY <1>1, <1>2, NotablesAssumption, Zenon DEF Charged
<1>10. CASE n.subject # d
  BY <1>5, <1>6, <1>7, <1>9, <1>10
<1>11. CASE n.subject = d
  <2>1. IF Len(Account(w, d)) < SlowCap
        THEN Beginning(Append(Account(w, d), n), Append(Account(r, d), n), SlowCap)
        ELSE Beginning(Account(w, d), Append(Account(r, d), n), SlowCap)
    BY <1>6, <1>7, <1>9, BeginningAppend
  <2>2. b.disk_slow = IF Len(Account(w, d)) < SlowCap THEN Append(w, c) ELSE w
    BY <1>5, <1>8, <1>11
  <2> QED BY <2>1, <2>2, <1>6, <1>7, <1>11
<1> QED BY <1>10, <1>11

(* The freezes that excuse a request. *)
Excused == {n \in Notable : \E f \in frozen : n.end <= f.end + Edge /\ n.end - n.dur >= f.start - Edge}
Discounts(slow, E) == \A i \in 1 .. Len(slow) : slow[i].victim => slow[i].event \in E

LEMMA DiscountsAfter ==
  ASSUME NEW a \in Tally, NEW n \in Notable, NEW b, Reports(a, n, b), NEW E, Discounts(a.disk_slow, E)
  PROVE  Discounts(b.disk_slow, E)
<1>1. PICK w \in Seq(Charge) : w = a.disk_slow
  BY DEF Tally
<1>2. PICK c \in Charge : c = [event |-> n, victim |-> FALSE]
  BY DEF Charge
<1>3. b.disk_slow = w \/ b.disk_slow = Append(w, c)
  BY <1>1, <1>2 DEF Reports
<1>4. /\ Len(Append(w, c)) = Len(w) + 1 /\ Len(w) \in Nat /\ Append(w, c)[Len(w) + 1] = c
      /\ \A i \in 1 .. Len(w) : Append(w, c)[i] = w[i]
  BY AppendProperties, LenProperties
<1>5. \A i \in 1 .. Len(w) + 1 : i \in 1 .. Len(w) \/ i = Len(w) + 1
  BY <1>4
<1>6. ~c.victim
  BY <1>2
<1> QED BY <1>1, <1>3, <1>4, <1>5, <1>6 DEF Discounts

-----------------------------------------------------------------------------
(* The loop.                                                               *)
Tells(b, r, q, k) ==
  /\ Len(b) = Len(r) + k
  /\ \A i \in 1 .. Len(r) : b[i].event = r[i].event
  /\ \A i \in 1 .. k : b[Len(r) + i].event = q[i]

LEMMA TellsAfter ==
  ASSUME NEW r \in Seq(Entry), NEW q \in Seq(Notable), NEW k \in 1 .. Len(q),
         NEW a \in Tally, NEW b, Reports(a, q[k], b), Tells(a.reported, r, q, k - 1)
  PROVE  Tells(b.reported, r, q, k)
<1>1. PICK p \in Seq(Entry) : p = a.reported
  BY DEF Tally
<1>2. PICK e : b.reported = Append(p, e) /\ e.event = q[k]
  <2>1. PICK o : b.reported = Append(p, [event |-> q[k], outcome |-> o])
    BY <1>1 DEF Reports
  <2>2. [event |-> q[k], outcome |-> o].event = q[k]
    OBVIOUS
  <2> QED BY <2>1, <2>2
<1>3. /\ Len(b.reported) = Len(p) + 1 /\ b.reported[Len(p) + 1] = e
      /\ \A i \in 1 .. Len(p) : b.reported[i] = p[i]
  <2>1. e \in Entry \cup {e} /\ p \in Seq(Entry \cup {e})
    <3>1. \A i \in 1 .. Len(p) : p[i] \in Entry
      BY ElementOfSeq
    <3> QED BY <3>1
  <2> QED BY <2>1, <1>2, AppendProperties
<1>4. Len(r) \in Nat /\ Len(q) \in Nat /\ k \in Nat
  BY LenProperties
<1>5. /\ Len(p) = Len(r) + (k - 1)
      /\ \A i \in 1 .. Len(r) : p[i].event = r[i].event
      /\ \A i \in 1 .. k - 1 : p[Len(r) + i].event = q[i]
  BY <1>1 DEF Tells
<1>6. Len(p) + 1 = Len(r) + k
  BY <1>4, <1>5
<1>7. \A i \in 1 .. Len(r) : b.reported[i].event = r[i].event
  <2>1. \A i \in 1 .. Len(r) : i \in 1 .. Len(p)
    BY <1>4, <1>5
  <2> QED BY <2>1, <1>3, <1>5
<1>8. \A i \in 1 .. k : b.reported[Len(r) + i].event = q[i]
  <2>1. TAKE i \in 1 .. k
  <2>2. CASE i = k
    BY <2>2, <1>2, <1>3, <1>6
  <2>3. CASE i # k
    <3>1. i \in 1 .. k - 1 /\ Len(r) + i \in 1 .. Len(p)
      BY <2>3, <1>4, <1>5
    <3> QED BY <3>1, <1>3, <1>5
  <2> QED BY <2>2, <2>3
<1> QED BY <1>3, <1>6, <1>7, <1>8 DEF Tells

(* The loop over the events q keeps all that is said of its work. *)
Balances(r, h, totals, worsts) == \A s \in Subjects : Balanced(r, h[s].held, s, totals[s], worsts[s])

Looped(a, q, E, totals, worsts) ==
  /\ a \in Tally /\ Events(a.reported) = Events(reported) \o q
  /\ Charged(a.disk_slow, a.reported) /\ Discounts(a.disk_slow, E)
  /\ Balances(a.reported, a.quiet, totals, worsts)

LEMMA LoopIs ==
  ASSUME NotablesTypes, NEW q \in Seq(Notable), NEW E,
         NEW totals \in [Subjects -> Int], NEW worsts \in [Subjects -> SUBSET Nat],
         Charged(disk_slow, reported), Discounts(disk_slow, E), Balances(reported, quiet, totals, worsts)
  PROVE  Looped(Reporting(q)[Len(q)], q, E, totals, worsts)
<1>1. PICK acc : acc = Reporting(q)
  OBVIOUS
<1>2. PICK n \in Nat : n = Len(q)
  BY LenProperties
<1>3. PICK r \in Seq(Entry) : r = reported
  BY DEF NotablesTypes
<1>4. now \in Nat
  BY DEF NotablesTypes
<1>5. /\ acc \in [0 .. n -> Tally] /\ acc[0] = Start
      /\ \A i \in 1 .. n : acc[i - 1] \in Tally /\ Reports(acc[i - 1], q[i], acc[i]) /\ q[i] \in Notable
  <2>1. \A i \in 1 .. n : q[i] \in Notable
    BY <1>2, ElementOfSeq
  <2> QED BY <2>1, <1>1, <1>2, ReportingIs
<1> DEFINE Good(a, k) == /\ Tells(a.reported, r, q, k) /\ Charged(a.disk_slow, a.reported)
                         /\ Discounts(a.disk_slow, E) /\ Balances(a.reported, a.quiet, totals, worsts)
           P == {i \in 0 .. n : Good(acc[i], i)}
<1>6. 0 \in P
  <2>1. Start.reported = r /\ Start.disk_slow = disk_slow /\ Start.quiet = quiet
    BY <1>3 DEF Start
  <2>2. Tells(r, r, q, 0)
    <3>1. Len(r) \in Nat
      BY LenProperties
    <3> QED BY <3>1 DEF Tells
  <2>3. Good(Start, 0)
    BY <2>1, <2>2, <1>3
  <2> HIDE DEF Good
  <2> QED BY <2>3, <1>2, <1>5
<1>7. \A i \in 1 .. n : i - 1 \in P => i \in P
  <2>1. TAKE i \in 1 .. n
  <2>2. HAVE i - 1 \in P
  <2>3. PICK a \in Tally : a = acc[i - 1]
    BY <1>5
  <2>4. PICK b : b = acc[i]
    OBVIOUS
  <2>5. PICK m \in Notable : m = q[i]
    BY <1>5
  <2>6. Reports(a, m, b)
    BY <2>3, <2>4, <2>5, <1>5
  <2>7. Good(a, i - 1)
    <3> HIDE DEF Good
    <3> QED BY <2>2, <2>3
  <2>8. Tells(b.reported, r, q, i)
    <3>1. i \in 1 .. Len(q) /\ Reports(a, q[i], b) /\ Tells(a.reported, r, q, i - 1)
      BY <2>5, <2>6, <2>7, <1>2
    <3> QED BY <3>1, TellsAfter
  <2>9. Charged(b.disk_slow, b.reported) /\ Discounts(b.disk_slow, E)
    BY <2>6, <2>7, ChargedAfter, DiscountsAfter
  <2>10. Balances(b.reported, b.quiet, totals, worsts)
    <3> SUFFICES ASSUME NEW s \in Subjects
                 PROVE  Balanced(b.reported, b.quiet[s].held, s, totals[s], worsts[s])
      BY DEF Balances
    <3>1. PICK t \in Int : t = totals[s]
      OBVIOUS
    <3>2. PICK w \in SUBSET Nat : w = worsts[s]
      OBVIOUS
    <3>3. Balanced(a.reported, a.quiet[s].held, s, t, w)
      BY <2>7, <3>1, <3>2 DEF Balances
    <3>4. Balanced(b.reported, b.quiet[s].held, s, t, w)
      BY <3>3, <2>6, <1>4, BalancedAfter
    <3> QED BY <3>1, <3>2, <3>4
  <2>11. Good(b, i)
    BY <2>8, <2>9, <2>10
  <2>12. i \in 0 .. n
    BY <1>2
  <2> HIDE DEF Good
  <2> QED BY <2>4, <2>11, <2>12
<1>8. Good(acc[n], n)
  <2>1. n \in P
    <3>1. \A i \in 0 .. n : i \in P
      <4> HIDE DEF P
      <4> QED BY <1>6, <1>7, UpTo
    <3> QED BY <3>1, <1>2
  <2> HIDE DEF Good
  <2> QED BY <2>1
<1>9. PICK a \in Tally : a = acc[n]
  BY <1>2, <1>5
<1>10. PICK p \in Seq(Entry) : p = a.reported
  BY DEF Tally
<1>11. Events(p) = Events(r) \o q
  <2>1. /\ Events(p) \in Seq(Notable) /\ Len(Events(p)) = Len(p)
        /\ \A i \in 1 .. Len(p) : Events(p)[i] = p[i].event
    BY EventsAre, EntriesAre
  <2>2. /\ Events(r) \in Seq(Notable) /\ Len(Events(r)) = Len(r) /\ Len(r) \in Nat
        /\ \A i \in 1 .. Len(r) : Events(r)[i] = r[i].event
    BY EventsAre, EntriesAre
  <2>3. Tells(p, r, q, n)
    BY <1>8, <1>9, <1>10
  <2>4. PICK x \in Seq(Notable) : x = Events(r)
    BY <2>2
  <2>5. /\ x \o q \in Seq(Notable) /\ Len(x \o q) = Len(x) + Len(q)
        /\ \A i \in 1 .. Len(x) + Len(q) : (x \o q)[i] = IF i <= Len(x) THEN x[i] ELSE q[i - Len(x)]
    BY ConcatProperties
  <2>6. Len(x) = Len(r) /\ Len(q) = n /\ Len(p) = Len(r) + n
    BY <2>2, <2>3, <2>4, <1>2 DEF Tells
  <2>7. \A i \in 1 .. Len(r) + n : Events(p)[i] = (x \o q)[i]
    <3>1. TAKE i \in 1 .. Len(r) + n
    <3>2. CASE i <= Len(r)
      <4>1. i \in 1 .. Len(r) /\ i \in 1 .. Len(p)
        BY <3>2, <2>2, <2>6
      <4>2. p[i].event = r[i].event
        BY <4>1, <2>3 DEF Tells
      <4> QED BY <4>1, <4>2, <3>2, <2>1, <2>2, <2>4, <2>5, <2>6
    <3>3. CASE ~(i <= Len(r))
      <4>1. PICK j \in 1 .. n : i = Len(r) + j
        <5>1. i - Len(r) \in 1 .. n /\ i = Len(r) + (i - Len(r))
          BY <3>3, <2>2
        <5> QED BY <5>1
      <4>2. p[i].event = q[j]
        BY <4>1, <2>3 DEF Tells
      <4>3. i - Len(x) = j /\ ~(i <= Len(x)) /\ i \in 1 .. Len(p)
        BY <4>1, <3>3, <2>2, <2>6
      <4> QED BY <4>2, <4>3, <2>1, <2>5, <2>6
    <3> QED BY <3>2, <3>3
  <2>8. Events(p) = x \o q
    <3>1. PICK y \in Seq(Notable) : y = x \o q
      BY <2>5
    <3>2. PICK z \in Seq(Notable) : z = Events(p)
      BY <2>1
    <3>3. Len(z) = Len(y) /\ \A i \in 1 .. Len(z) : z[i] = y[i]
      BY <3>1, <3>2, <2>1, <2>5, <2>6, <2>7
    <3>4. z = y
      BY <3>3, SeqEqual
    <3> QED BY <3>1, <3>2, <3>4
  <2> QED BY <2>4, <2>8
<1> QED BY <1>1, <1>2, <1>3, <1>8, <1>9, <1>10, <1>11 DEF Looped

(* What a report holds back and what it tells are the queue. *)
LEMMA HeldBackIs ==
  ASSUME NEW all \in Seq(Notable), NEW last_call
  PROVE  /\ At(all, HeldBack(all, last_call)) \in Seq(Notable)
         /\ At(all, DOMAIN all \ HeldBack(all, last_call)) \in Seq(Notable)
         /\ At(all, DOMAIN all \ HeldBack(all, last_call)) \o At(all, HeldBack(all, last_call)) = all
<1> DEFINE n == Len(all)
           H == HeldBack(all, last_call)
<1>1. n \in Nat /\ DOMAIN all = 1 .. n
  BY LenProperties
<1>2. H \subseteq 1 .. n /\ \A i, j \in 1 .. n : i \in H /\ i <= j => j \in H
  BY <1>1 DEF HeldBack
<1> HIDE DEF H
<1>3. \E k \in 0 .. n : H = k + 1 .. n
  <2>1. CASE H = {}
    <3>1. H = n + 1 .. n /\ n \in 0 .. n
      BY <2>1, <1>1
    <3> QED BY <3>1
  <2>2. CASE H # {}
    <3>0. H \subseteq Nat
      BY <1>1, <1>2
    <3>1. PICK m \in H : \A i \in H : m <= i
      BY <2>2, <3>0, LeastNatural
    <3>2. H = m .. n
      <4>1. m \in 1 .. n
        BY <1>2
      <4>2. \A i \in H : i \in m .. n
        BY <3>1, <4>1, <1>1, <1>2
      <4>3. \A i \in m .. n : i \in 1 .. n /\ m <= i
        BY <4>1, <1>1
      <4>4. \A i \in m .. n : i \in H
        BY <4>1, <4>3, <1>2
      <4> QED BY <4>2, <4>4
    <3>3. m - 1 \in 0 .. n /\ (m - 1) + 1 = m
      BY <3>1, <1>1, <1>2
    <3> QED BY <3>2, <3>3
  <2> QED BY <2>1, <2>2
<1>4. PICK k \in 0 .. n : H = k + 1 .. n
  BY <1>3
<1>5. DOMAIN all \ H = 1 .. k
  BY <1>1, <1>4
<1>6. At(all, 1 .. k) \o At(all, k + 1 .. n) = all
  BY SplitAt
<1>7. At(all, 1 .. k) \in Seq(Notable) /\ At(all, k + 1 .. n) \in Seq(Notable)
  <2>1. 1 .. k \subseteq 1 .. Len(all) /\ k + 1 .. n \subseteq 1 .. Len(all)
    BY <1>1
  <2> QED BY <2>1, AtPicks
<1> QED BY <1>4, <1>5, <1>6, <1>7 DEF H

-----------------------------------------------------------------------------
(* The roll-up lines.                                                      *)
(* The roll-up lines of a subject: what they count and the worst of each. *)
LinesOf(ru, s) == {i \in DOMAIN ru : ru[i].subject = s}
Counts(ru)     == [i \in DOMAIN ru |-> ru[i].count]
Total(ru, s)   == SumOver(LinesOf(ru, s), Counts(ru))
Worsts(ru, s)  == {ru[i].worst : i \in LinesOf(ru, s)}

LEMMA LinesAre ==
  ASSUME NEW ru \in Seq(Rolled), NEW s
  PROVE  /\ Len(ru) \in Nat /\ DOMAIN ru = 1 .. Len(ru) /\ LinesOf(ru, s) \subseteq 1 .. Len(ru)
         /\ IsFiniteSet(LinesOf(ru, s)) /\ Total(ru, s) \in Int /\ Worsts(ru, s) \in SUBSET Nat
         /\ IsFiniteSet(Worsts(ru, s))
         /\ \A i \in 1 .. Len(ru) : ru[i].count \in Nat /\ ru[i].worst \in Nat
<1>1. Len(ru) \in Nat /\ DOMAIN ru = 1 .. Len(ru) /\ \A i \in 1 .. Len(ru) : ru[i] \in Rolled
  BY LenProperties, ElementOfSeq
<1>2. \A i \in 1 .. Len(ru) : ru[i].count \in Nat /\ ru[i].worst \in Nat
  BY <1>1 DEF Rolled
<1>3. LinesOf(ru, s) \in SUBSET (1 .. Len(ru))
  BY <1>1 DEF LinesOf
<1>4. IsFiniteSet(LinesOf(ru, s))
  <2>1. IsFiniteSet(1 .. Len(ru))
    BY <1>1, FS_Interval
  <2> QED BY <2>1, <1>3, FS_Subset
<1>5. Total(ru, s) \in Int
  <2>1. \A i \in LinesOf(ru, s) : Counts(ru)[i] \in Int
    BY <1>1, <1>2, <1>3 DEF Counts
  <2>2. SumOver(LinesOf(ru, s), Counts(ru)) \in Int
    BY <2>1, <1>4, SumTakes
  <2> QED BY <2>2 DEF Total
<1>6. Worsts(ru, s) \in SUBSET Nat
  BY <1>2, <1>3 DEF Worsts
<1>7. IsFiniteSet(Worsts(ru, s))
  <2>1. PICK I : I = LinesOf(ru, s)
    OBVIOUS
  <2>2. PICK f : f = [i \in I |-> ru[i].worst]
    OBVIOUS
  <2>3. f \in Surjection(I, Worsts(ru, s))
    <3>1. \A i \in I : f[i] = ru[i].worst
      BY <2>2
    <3>2. f \in [I -> Worsts(ru, s)]
      BY <2>1, <2>2 DEF Worsts
    <3>3. \A w \in Worsts(ru, s) : \E i \in I : f[i] = w
      BY <2>1, <3>1 DEF Worsts
    <3> QED BY <3>2, <3>3 DEF Surjection
  <2> QED BY <2>1, <2>3, <1>4, FS_Surjection
<1> QED BY <1>1, <1>2, <1>3, <1>4, <1>5, <1>6, <1>7

(* `due` gives each subject one line. *)
LEMMA OrderIs ==
  ASSUME NEW q \in [Subjects -> Habit], NEW S \in SUBSET Subjects, NEW o \in Orders(q, S)
  PROVE  /\ Cardinality(S) \in Nat /\ o \in [1 .. Cardinality(S) -> S]
         /\ \A i, j \in 1 .. Cardinality(S) : o[i] = o[j] => i = j
         /\ \A s \in S : \E i \in 1 .. Cardinality(S) : o[i] = s
<1>1. IsFiniteSet(Subjects)
  BY NotablesAssumption, Zenon
<1>2. IsFiniteSet(S) /\ Cardinality(S) \in Nat
  BY <1>1, FS_Subset, FS_CardinalityType
<1>3. PICK n \in Nat : n = Cardinality(S)
  BY <1>2
<1>4. o \in [1 .. n -> S] /\ \A i, j \in DOMAIN o : i < j => o[i] # o[j]
  BY <1>3 DEF Orders
<1>5. \A i, j \in 1 .. n : o[i] = o[j] => i = j
  <2>1. TAKE i, j \in 1 .. n
  <2>2. HAVE o[i] = o[j]
  <2>3. DOMAIN o = 1 .. n
    BY <1>4
  <2>4. ~(i < j) /\ ~(j < i)
    BY <2>2, <2>3, <1>4
  <2> QED BY <2>4
<1>6. o \in Injection(1 .. n, S)
  BY <1>4, <1>5 DEF Injection, IsInjective
<1>7. Cardinality(1 .. n) = n
  BY FS_Interval
<1>8. o \in Surjection(1 .. n, S)
  <2>1. Cardinality(1 .. n) = Cardinality(S) <=> o \in Surjection(1 .. n, S)
    BY <1>2, <1>6, FS_Injection
  <2> QED BY <2>1, <1>3, <1>7
<1>9. \A s \in S : \E i \in 1 .. n : o[i] = s
  BY <1>8 DEF Surjection
<1> QED BY <1>3, <1>4, <1>5, <1>9

(* What is held of a subject goes into its line. *)
LEMMA RolledUpBalanced ==
  ASSUME NEW ru \in Seq(Rolled), NEW q \in [Subjects -> Habit], NEW S \in SUBSET Subjects,
         NEW o \in Orders(q, S), NEW last_call \in BOOLEAN, now \in Nat,
         NEW r \in Seq(Entry), NEW s \in Subjects,
         Balanced(r, q[s].held, s, Total(ru, s), Worsts(ru, s))
  PROVE  /\ ru \o RollupLines(q, o, last_call) \in Seq(Rolled)
         /\ Balanced(r, RolledUp(q, S)[s].held, s, Total(ru \o RollupLines(q, o, last_call), s),
                     Worsts(ru \o RollupLines(q, o, last_call), s))
<1>1. PICK n \in Nat : n = Cardinality(S)
  BY OrderIs
<1>2. /\ o \in [1 .. n -> S]
      /\ \A i, j \in 1 .. n : o[i] = o[j] => i = j
      /\ \A t \in S : \E i \in 1 .. n : o[i] = t
  BY <1>1, OrderIs
<1>3. PICK nl : nl = RollupLines(q, o, last_call)
  OBVIOUS
<1>4. /\ \A i \in 1 .. n : nl[i].subject = o[i] /\ nl[i].count = q[o[i]].held.count /\ nl[i].worst = q[o[i]].held.worst
      /\ nl \in Seq(Rolled) /\ Len(nl) = n
  <2>1. DOMAIN o = 1 .. n
    BY <1>2
  <2>2. nl = [i \in 1 .. n |-> [subject |-> o[i], count |-> q[o[i]].held.count,
                                worst |-> q[o[i]].held.worst, at |-> now, final |-> last_call]]
    BY <2>1, <1>3 DEF RollupLines
  <2>3. \A i \in 1 .. n : o[i] \in Subjects /\ q[o[i]].held.count \in Nat /\ q[o[i]].held.worst \in Nat
    <3>1. \A i \in 1 .. n : o[i] \in Subjects
      BY <1>2
    <3>2. \A t \in Subjects : q[t] \in Habit
      OBVIOUS
    <3>3. \A h \in Habit : h.held.count \in Nat /\ h.held.worst \in Nat
      BY DEF Habit, Held
    <3> QED BY <3>1, <3>2, <3>3
  <2>4. nl \in [1 .. n -> Rolled]
    BY <2>2, <2>3 DEF Rolled
  <2> QED BY <2>2, <2>4
<1>5. PICK m \in Nat : m = Len(ru)
  BY LinesAre
<1>6. PICK rv : rv = ru \o nl
  OBVIOUS
<1>7. /\ rv \in Seq(Rolled) /\ Len(rv) = m + n
      /\ \A i \in 1 .. m : rv[i] = ru[i]
      /\ \A i \in 1 .. n : rv[m + i] = nl[i]
  <2>1. /\ rv \in Seq(Rolled) /\ Len(rv) = m + n
        /\ \A i \in 1 .. m + n : rv[i] = IF i <= m THEN ru[i] ELSE nl[i - m]
    <3>1. /\ ru \o nl \in Seq(Rolled) /\ Len(ru \o nl) = Len(ru) + Len(nl)
          /\ \A i \in 1 .. Len(ru) + Len(nl) : (ru \o nl)[i] = IF i <= Len(ru) THEN ru[i] ELSE nl[i - Len(ru)]
      BY <1>4, ConcatProperties
    <3> QED BY <3>1, <1>4, <1>5, <1>6
  <2>2. \A i \in 1 .. m : i \in 1 .. m + n /\ i <= m
    OBVIOUS
  <2>3. \A i \in 1 .. n : m + i \in 1 .. m + n /\ ~(m + i <= m) /\ (m + i) - m = i
    OBVIOUS
  <2> QED BY <2>1, <2>2, <2>3
<1>8. \A i \in 1 .. m + n : i \in 1 .. m \/ \E j \in 1 .. n : i = m + j
  <2>1. TAKE i \in 1 .. m + n
  <2>2. CASE i <= m
    BY <2>2
  <2>3. CASE ~(i <= m)
    <3>1. i - m \in 1 .. n /\ i = m + (i - m)
      BY <2>3
    <3> QED BY <3>1
  <2> QED BY <2>2, <2>3
<1> DEFINE L == LinesOf(ru, s)
           M == LinesOf(rv, s)
<1>9. /\ DOMAIN ru = 1 .. m /\ L \subseteq 1 .. m /\ IsFiniteSet(L) /\ Total(ru, s) \in Int
      /\ \A i \in 1 .. m : ru[i].count \in Nat
  BY <1>5, LinesAre
<1>10. /\ DOMAIN rv = 1 .. m + n /\ M \subseteq 1 .. m + n
       /\ \A i \in 1 .. m + n : rv[i].count \in Nat
  BY <1>7, LinesAre
<1>11. (\A i \in 1 .. m : i \in 1 .. m + n) /\ (\A j \in 1 .. n : m + j \in 1 .. m + n /\ m + j \notin 1 .. m)
  OBVIOUS
<1>12. PICK x \in Int : x = Total(ru, s)
  BY <1>9
<1>13. SumOver(L, Counts(rv)) = x
  <2>1. \A i \in L : Counts(ru)[i] \in Int
    BY <1>9 DEF Counts
  <2>2. \A i \in L : Counts(rv)[i] = Counts(ru)[i]
    BY <1>7, <1>9, <1>10, <1>11 DEF Counts
  <2>3. SumOver(L, Counts(rv)) = SumOver(L, Counts(ru))
    <3> HIDE DEF L
    <3> QED BY <2>1, <2>2, <1>9, SumSame
  <2> QED BY <2>3, <1>12 DEF Total
<1>14. PICK h \in Held : h = q[s].held
  BY DEF Habit
<1>15. h.count \in Nat /\ h.worst \in Nat
  BY DEF Held
<1>16. /\ Cardinality(FoldedIn(r, s)) = h.count + x
       /\ \A i \in FoldedIn(r, s) : r[i].event.dur <= h.worst \/ \E w \in Worsts(ru, s) : r[i].event.dur <= w
       /\ \A w \in Worsts(ru, s) \cup {h.worst} : w = 0 \/ \E i \in FoldedIn(r, s) : r[i].event.dur = w
  BY <1>12, <1>14 DEF Balanced
<1>17. CASE s \notin S
  <2>1. M = L
    <3>1. \A i \in 1 .. n : rv[m + i].subject # s
      <4>1. \A i \in 1 .. n : o[i] \in S /\ rv[m + i].subject = o[i]
        BY <1>2, <1>4, <1>7
      <4> QED BY <4>1, <1>17
    <3>2. \A i \in 1 .. m : rv[i].subject = ru[i].subject
      BY <1>7
    <3>3. M = {i \in 1 .. m + n : rv[i].subject = s} /\ L = {i \in 1 .. m : ru[i].subject = s}
      BY <1>9, <1>10 DEF LinesOf
    <3>4. ASSUME NEW i \in 1 .. m + n, rv[i].subject = s
          PROVE  i \in 1 .. m /\ ru[i].subject = s
      BY <3>1, <3>2, <3>4, <1>8
    <3>5. ASSUME NEW i \in 1 .. m, ru[i].subject = s
          PROVE  i \in 1 .. m + n /\ rv[i].subject = s
      BY <3>2, <3>5, <1>11
    <3> QED BY <3>3, <3>4, <3>5
  <2>2. Total(rv, s) = x
    BY <2>1, <1>13, Zenon DEF Total
  <2>3. Worsts(rv, s) = Worsts(ru, s)
    BY <2>1, <1>7, <1>9 DEF Worsts
  <2>4. RolledUp(q, S)[s].held = h
    BY <1>14, <1>17 DEF RolledUp
  <2>5. Balanced(r, h, s, x, Worsts(ru, s))
    BY <1>16 DEF Balanced
  <2> QED BY <2>2, <2>3, <2>4, <2>5, <1>3, <1>6, <1>7
<1>18. CASE s \in S
  <2>1. PICK k \in 1 .. n : o[k] = s
    BY <1>2, <1>18
  <2>2. M = L \cup {m + k}
    <3>1. \A i \in 1 .. n : rv[m + i].subject = s <=> i = k
      <4>1. \A i \in 1 .. n : rv[m + i].subject = o[i]
        BY <1>4, <1>7
      <4>2. \A i \in 1 .. n : o[i] = s => i = k
        BY <2>1, <1>2
      <4> QED BY <4>1, <4>2, <2>1
    <3>2. \A i \in 1 .. m : rv[i].subject = ru[i].subject
      BY <1>7
    <3>3. M = {i \in 1 .. m + n : rv[i].subject = s} /\ L = {i \in 1 .. m : ru[i].subject = s}
      BY <1>9, <1>10 DEF LinesOf
    <3> HIDE DEF L, M
    <3>4. ASSUME NEW i \in 1 .. m + n, rv[i].subject = s
          PROVE  i \in L \cup {m + k}
      <4>1. CASE i \in 1 .. m
        BY <3>2, <3>3, <3>4, <4>1
      <4>2. ASSUME NEW j \in 1 .. n, i = m + j PROVE i \in L \cup {m + k}
        BY <3>1, <3>4, <4>2
      <4> QED BY <1>8, <4>1, <4>2
    <3>5. ASSUME NEW i \in L
          PROVE  i \in 1 .. m + n /\ rv[i].subject = s
      BY <3>2, <3>3, <1>11
    <3>6. m + k \in 1 .. m + n /\ rv[m + k].subject = s
      BY <3>1, <2>1, <1>11
    <3>7. L \cup {m + k} \subseteq M
      BY <3>3, <3>5, <3>6
    <3> QED BY <3>3, <3>4, <3>7
  <2>3. rv[m + k].count = h.count /\ rv[m + k].worst = h.worst
    BY <2>1, <1>4, <1>7, <1>14
  <2>4. SumOver(M, Counts(rv)) = x + h.count
    <3>1. m + k \notin L /\ m + k \in 1 .. m + n
      BY <1>9, <1>11
    <3>2. \A i \in L \cup {m + k} : Counts(rv)[i] \in Int
      BY <3>1, <1>9, <1>10, <1>11 DEF Counts
    <3>3. Counts(rv)[m + k] = h.count
      BY <3>1, <2>3, <1>10 DEF Counts
    <3>4. PICK y : y = m + k
      OBVIOUS
    <3>5. SumOver(L \cup {y}, Counts(rv)) = SumOver(L, Counts(rv)) + Counts(rv)[y]
      <4> HIDE DEF L
      <4> QED BY <3>1, <3>2, <3>4, <1>9, SumExtra
    <3>6. SumOver(M, Counts(rv)) = SumOver(L \cup {y}, Counts(rv))
      BY <3>4, <2>2, Zenon
    <3> QED BY <3>3, <3>4, <3>5, <3>6, <1>13
  <2>5. Total(rv, s) = x + h.count
    BY <2>4 DEF Total
  <2>6. Worsts(rv, s) = Worsts(ru, s) \cup {h.worst}
    <3>1. \A i \in L : rv[i].worst = ru[i].worst
      BY <1>7, <1>9
    <3> QED BY <3>1, <2>2, <2>3 DEF Worsts
  <2>7. RolledUp(q, S)[s].held = NoRollup
    <3>1. q[s] \in Habit
      OBVIOUS
    <3>2. [q[s] EXCEPT !.held = NoRollup, !.last_rollup = now].held = NoRollup
      BY <3>1 DEF Habit
    <3> QED BY <3>2, <1>18 DEF RolledUp
  <2>8. Balanced(r, NoRollup, s, x + h.count, Worsts(ru, s) \cup {h.worst})
    <3>1. NoRollup.count = 0 /\ NoRollup.worst = 0
      BY DEF NoRollup
    <3>2. h.count + x = 0 + (x + h.count)
      BY <1>15
    <3> QED BY <3>1, <3>2, <1>16 DEF Balanced
  <2> QED BY <2>5, <2>6, <2>7, <2>8, <1>3, <1>6, <1>7
<1> QED BY <1>17, <1>18

-----------------------------------------------------------------------------
(* The inductive invariant.                                                *)
Ordered(q, p) ==
  /\ q \in Seq(Notable)
  /\ \A i, j \in 1 .. Len(q) : i < j => q[i].id < q[j].id
  /\ \A i \in 1 .. Len(q) : q[i].id <= p

TotalsNow == [s \in Subjects |-> Total(rollups, s)]
WorstsNow == [s \in Subjects |-> Worsts(rollups, s)]

NotablesIInv ==
  /\ NotablesTypes
  /\ Ordered(Line, pushed) /\ Len(Line) + notable_dropped = pushed
  /\ Charged(disk_slow, reported)
  /\ Discounts(disk_slow, Excused)
  /\ Balances(reported, quiet, TotalsNow, WorstsNow)

(* Only what the invariant speaks of. *)
shownVars == <<pushed, notable_dropped, notable, held_notables, ios, quiet, window_start,
               in_window, reported, disk_slow, rollups, frozen>>

LEMMA NotablesInit == Init => NotablesIInv
<1> SUFFICES ASSUME Init
             PROVE  NotablesIInv
  OBVIOUS
<1>1. /\ now = 0 /\ pushed = 0 /\ notable_dropped = 0 /\ notable = <<>> /\ held_notables = <<>> /\ ios = {}
      /\ quiet = [s \in Subjects |-> Fresh] /\ window_start = 0 /\ in_window = 0
      /\ reported = <<>> /\ disk_slow = <<>> /\ rollups = <<>>
  BY Zenon DEF Init
<1>2. NotablesTypes
  <2>1. Fresh \in Habit
    BY DEF Fresh, NoRollup, Habit, Held
  <2> QED BY <1>1, <2>1 DEF NotablesTypes
<1>3. Line = <<>>
  <2>1. Events(reported) = <<>>
    BY <1>1 DEF Events
  <2> QED BY <2>1, <1>1 DEF Line
<1>4. Ordered(Line, pushed) /\ Len(Line) + notable_dropped = pushed
  BY <1>1, <1>3 DEF Ordered
<1>5. Charged(disk_slow, reported)
  <2> SUFFICES ASSUME NEW d \in Disks
               PROVE  Beginning(Account(disk_slow, d), Account(reported, d), SlowCap)
    BY DEF Charged
  <2>1. OfSubject(<<>>, d) = {}
    BY DEF OfSubject
  <2>2. Cardinality({}) = 0
    BY FS_EmptySet
  <2>3. Account(<<>>, d) = <<>>
    <3>1. At(Events(<<>>), {}) = <<>>
      BY <2>2 DEF At
    <3> QED BY <2>1, <3>1, Zenon DEF Account
  <2>4. SlowCap \in Nat
    BY NotablesAssumption, Zenon
  <2> QED BY <1>1, <2>3, <2>4 DEF Beginning
<1>6. Discounts(disk_slow, Excused)
  BY <1>1 DEF Discounts
<1>7. Balances(reported, quiet, TotalsNow, WorstsNow)
  <2> SUFFICES ASSUME NEW s \in Subjects
               PROVE  Balanced(reported, quiet[s].held, s, TotalsNow[s], WorstsNow[s])
    BY DEF Balances
  <2>1. FoldedIn(reported, s) = {}
    BY <1>1 DEF FoldedIn, OfSubject
  <2>2. LinesOf(rollups, s) = {}
    BY <1>1 DEF LinesOf
  <2>3. TotalsNow[s] = 0
    <3>1. IsFiniteSet({}) /\ \A x \in {} : Counts(rollups)[x] \in Int
      BY FS_EmptySet
    <3>2. SumOver({}, Counts(rollups)) = 0
      BY <3>1, SumTakes
    <3> QED BY <2>2, <3>2, Zenon DEF TotalsNow, Total
  <2>4. WorstsNow[s] = {}
    BY <2>2 DEF WorstsNow, Worsts
  <2>5. quiet[s].held.count = 0 /\ quiet[s].held.worst = 0
    BY <1>1 DEF Fresh, NoRollup
  <2>6. Cardinality({}) = 0
    BY FS_EmptySet
  <2> QED BY <2>1, <2>3, <2>4, <2>5, <2>6 DEF Balanced
<1> QED BY <1>2, <1>4, <1>5, <1>6, <1>7 DEF NotablesIInv

LEMMA NotablesQuiet ==
  ASSUME NotablesIInv, UNCHANGED shownVars, now' \in Nat
  PROVE  NotablesIInv'
<1>1. /\ pushed' = pushed /\ notable_dropped' = notable_dropped /\ notable' = notable
      /\ held_notables' = held_notables /\ ios' = ios /\ quiet' = quiet /\ window_start' = window_start
      /\ in_window' = in_window /\ reported' = reported /\ disk_slow' = disk_slow
      /\ rollups' = rollups /\ frozen' = frozen
  BY DEF shownVars
<1>2. NotablesTypes'
  BY <1>1 DEF NotablesIInv, NotablesTypes
<1>3. Ordered(Line', pushed') /\ Len(Line') + notable_dropped' = pushed'
  BY <1>1, Zenon DEF NotablesIInv, Line
<1>4. Charged(disk_slow', reported')
  BY <1>1, Zenon DEF NotablesIInv
<1>5. Discounts(disk_slow', Excused')
  BY <1>1, Zenon DEF NotablesIInv, Excused
<1>6. Balances(reported', quiet', TotalsNow', WorstsNow')
  BY <1>1, Zenon DEF NotablesIInv, TotalsNow, WorstsNow
<1> QED BY <1>2, <1>3, <1>4, <1>5, <1>6 DEF NotablesIInv, Ordered, Charged, Discounts, Balances

LEMMA HandleEvent ==
  ASSUME NotablesIInv, NEW s \in Subjects, NEW ts \in Nat, NEW d \in Durations, handle_event(s, ts, d)
  PROVE  NotablesIInv'
<1>1. PICK n : n = [id |-> pushed + 1, subject |-> s, end |-> ts, dur |-> d]
  OBVIOUS
<1>2. /\ pushed' = pushed + 1 /\ now' = now
      /\ ios' = (IF s \in Disks THEN ios \cup {n} ELSE ios)
      /\ \/ notable' = Append(notable, n) /\ notable_dropped' = notable_dropped
         \/ notable' = notable /\ notable_dropped' = notable_dropped + 1
      /\ held_notables' = held_notables /\ disk_slow' = disk_slow /\ quiet' = quiet
      /\ window_start' = window_start /\ in_window' = in_window /\ reported' = reported
      /\ rollups' = rollups /\ frozen' = frozen
  BY <1>1, Zenon DEF handle_event, logVars
<1>3. /\ NotablesTypes /\ pushed \in Nat /\ notable_dropped \in Nat /\ notable \in Seq(Notable)
      /\ held_notables \in Seq(Notable) /\ reported \in Seq(Entry)
  BY DEF NotablesIInv, NotablesTypes
<1>4. n \in Notable /\ n.id = pushed + 1
  BY <1>1, <1>3 DEF Notable
<1>5. notable' \in Seq(Notable)
  BY SMTT(30), <1>2, <1>3, <1>4, AppendProperties
<1>6. NotablesTypes'
  <2>1. ios' \subseteq Notable
    BY <1>2, <1>3, <1>4 DEF NotablesTypes
  <2> QED BY <1>2, <1>3, <1>5, <2>1 DEF NotablesTypes
<1>7. PICK x \in Seq(Notable) : x = Events(reported) \o held_notables
  <2>1. Events(reported) \in Seq(Notable)
    BY <1>3, EventsAre, EntriesAre
  <2> QED BY <2>1, <1>3, ConcatProperties
<1>8. PICK q \in Seq(Notable) : q = Line
  BY DEF NotablesIInv, Ordered
<1>9. q = x \o notable /\ Line' = x \o notable'
  BY <1>2, <1>7, <1>8, Zenon DEF Line
<1>10. Ordered(q, pushed) /\ Len(q) + notable_dropped = pushed /\ Len(q) \in Nat
  BY <1>8, LenProperties DEF NotablesIInv
<1>11. Ordered(Line', pushed') /\ Len(Line') + notable_dropped' = pushed'
  <2>1. CASE notable' = notable /\ notable_dropped' = notable_dropped + 1
    <3>1. Line' = q
      BY <2>1, <1>9
    <3>2. \A i \in 1 .. Len(q) : q[i].id \in Nat /\ q[i].id <= pushed
      <4>1. \A i \in 1 .. Len(q) : q[i] \in Notable
        BY ElementOfSeq
      <4> QED BY <4>1, <1>10, NotableIs DEF Ordered
    <3>3. Ordered(q, pushed + 1)
      BY <3>2, <1>3, <1>10 DEF Ordered
    <3>4. Len(q) + (notable_dropped + 1) = pushed + 1
      BY <1>3, <1>10
    <3> QED BY <3>1, <3>3, <3>4, <2>1, <1>2
  <2>2. CASE notable' = Append(notable, n) /\ notable_dropped' = notable_dropped
    <3>1. x \o Append(notable, n) = Append(q, n)
      <4>1. PICK c \in Seq(Notable) : c = notable
        BY <1>3
      <4>2. <<n>> \in Seq(Notable)
        BY <1>4
      <4>3. Append(c, n) = c \o <<n>>
        BY <1>4, AppendIsConcat
      <4>4. Append(q, n) = q \o <<n>>
        BY <1>4, AppendIsConcat
      <4>5. PICK y \in Seq(Notable) : y = <<n>>
        BY <4>2
      <4>6. (x \o c) \o y = x \o (c \o y)
        BY ConcatAssociative
      <4> QED BY <4>1, <4>3, <4>4, <4>5, <4>6, <1>9
    <3>2. PICK y : y = Append(q, n)
      OBVIOUS
    <3>3. /\ y \in Seq(Notable) /\ Len(y) = Len(q) + 1 /\ y[Len(q) + 1] = n
          /\ \A i \in 1 .. Len(q) : y[i] = q[i] /\ q[i] \in Notable
      BY <3>2, <1>4, AppendProperties, ElementOfSeq
    <3>4. \A i \in 1 .. Len(q) : q[i].id \in Nat /\ q[i].id <= pushed
      BY <3>3, <1>10, NotableIs DEF Ordered
    <3>5. \A i \in 1 .. Len(q) + 1 : i \in 1 .. Len(q) \/ i = Len(q) + 1
      BY <1>10
    <3>6. \A i, j \in 1 .. Len(q) + 1 : i < j => y[i].id < y[j].id
      <4>1. TAKE i, j \in 1 .. Len(q) + 1
      <4>2. HAVE i < j
      <4>3. i \in 1 .. Len(q)
        BY <4>2, <1>10
      <4>4. CASE j \in 1 .. Len(q)
        BY <4>2, <4>3, <4>4, <3>3, <1>10 DEF Ordered
      <4>5. CASE j = Len(q) + 1
        <5>1. y[j].id = pushed + 1 /\ y[i].id = q[i].id
          BY <4>3, <4>5, <3>3, <1>4
        <5> QED BY <5>1, <4>3, <3>4, <1>3
      <4> QED BY <4>4, <4>5, <3>5
    <3>7. \A i \in 1 .. Len(q) + 1 : y[i].id <= pushed + 1
      <4>1. TAKE i \in 1 .. Len(q) + 1
      <4>2. CASE i \in 1 .. Len(q)
        BY <4>2, <3>3, <3>4, <1>3
      <4>3. CASE i = Len(q) + 1
        BY <4>3, <3>3, <1>3, <1>4
      <4> QED BY <4>2, <4>3, <3>5
    <3>8. Ordered(y, pushed + 1)
      BY <3>3, <3>6, <3>7 DEF Ordered
    <3>9. (Len(q) + 1) + notable_dropped = pushed + 1
      BY <1>3, <1>10
    <3> QED BY <3>1, <3>2, <3>3, <3>8, <3>9, <2>2, <1>2, <1>9
  <2> QED BY <2>1, <2>2, <1>2
<1>12. Charged(disk_slow', reported')
  BY <1>2, Zenon DEF NotablesIInv
<1>13. Discounts(disk_slow', Excused')
  BY <1>2, Zenon DEF NotablesIInv, Excused
<1>14. Balances(reported', quiet', TotalsNow', WorstsNow')
  BY <1>2, Zenon DEF NotablesIInv, TotalsNow, WorstsNow
<1> QED BY <1>6, <1>11, <1>12, <1>13, <1>14 DEF NotablesIInv, Ordered, Charged, Discounts, Balances

-----------------------------------------------------------------------------
(* The report and the freezes.                                             *)
LEMMA ReportNotables ==
  ASSUME NotablesIInv, NEW last_call \in BOOLEAN, report_notables(last_call)
  PROVE  NotablesIInv'
<1>1. PICK all : all = held_notables \o notable
  OBVIOUS
<1>2. PICK hold : hold = HeldBack(all, last_call)
  OBVIOUS
<1>3. PICK told : told = At(all, DOMAIN all \ hold)
  OBVIOUS
<1>4. PICK a : a = Reporting(told)[Len(told)]
  OBVIOUS
<1>5. PICK S : S = Due(a.quiet, last_call)
  OBVIOUS
<1>6. /\ held_notables' = At(all, hold)
      /\ window_start' = a.window_start /\ in_window' = a.in_window
      /\ reported' = a.reported /\ disk_slow' = a.disk_slow
      /\ \E order \in Orders(a.quiet, S) : rollups' = rollups \o RollupLines(a.quiet, order, last_call)
      /\ quiet' = RolledUp(a.quiet, S)
      /\ notable' = <<>> /\ now' = now /\ notable_dropped' = notable_dropped /\ pushed' = pushed
      /\ ios' = ios /\ frozen' = frozen
  BY <1>1, <1>2, <1>3, <1>4, <1>5, Zenon DEF report_notables, clockVars
<1>7. /\ NotablesTypes /\ now \in Nat /\ notable \in Seq(Notable) /\ held_notables \in Seq(Notable)
      /\ reported \in Seq(Entry) /\ rollups \in Seq(Rolled)
  BY DEF NotablesIInv, NotablesTypes
<1>8. all \in Seq(Notable)
  BY <1>1, <1>7, ConcatProperties
<1>9. /\ told \in Seq(Notable) /\ held_notables' \in Seq(Notable) /\ told \o held_notables' = all
  <2>1. /\ At(all, HeldBack(all, last_call)) \in Seq(Notable)
        /\ At(all, DOMAIN all \ HeldBack(all, last_call)) \in Seq(Notable)
        /\ At(all, DOMAIN all \ HeldBack(all, last_call)) \o At(all, HeldBack(all, last_call)) = all
    BY <1>8, HeldBackIs
  <2> QED BY <2>1, <1>2, <1>3, <1>6, Zenon
<1>10. PICK E : E = Excused
  OBVIOUS
<1>11. PICK totals \in [Subjects -> Int] : totals = TotalsNow
  <2>1. \A s \in Subjects : Total(rollups, s) \in Int
    BY <1>7, LinesAre
  <2> QED BY <2>1 DEF TotalsNow
<1>12. PICK worsts \in [Subjects -> SUBSET Nat] : worsts = WorstsNow
  <2>1. \A s \in Subjects : Worsts(rollups, s) \in SUBSET Nat
    BY <1>7, LinesAre
  <2> QED BY <2>1 DEF WorstsNow
<1>13. Looped(a, told, E, totals, worsts)
  <2>1. Charged(disk_slow, reported) /\ Discounts(disk_slow, E) /\ Balances(reported, quiet, totals, worsts)
    BY <1>10, <1>11, <1>12 DEF NotablesIInv
  <2> QED BY <2>1, <1>4, <1>7, <1>9, LoopIs
<1>14. /\ a \in Tally /\ Events(a.reported) = Events(reported) \o told
       /\ Charged(a.disk_slow, a.reported) /\ Discounts(a.disk_slow, E)
       /\ Balances(a.reported, a.quiet, totals, worsts)
  BY <1>13 DEF Looped
<1>15. PICK q \in [Subjects -> Habit] : q = a.quiet
  BY <1>14 DEF Tally
<1>16. S \in SUBSET Subjects
  BY <1>5 DEF Due
<1>17. PICK o \in Orders(q, S) : rollups' = rollups \o RollupLines(q, o, last_call)
  BY <1>6, <1>15
<1>18. PICK r \in Seq(Entry) : r = a.reported
  BY <1>14 DEF Tally
<1>19. PICK ru \in Seq(Rolled) : ru = rollups
  BY <1>7
<1>20. ASSUME NEW s \in Subjects
       PROVE  /\ ru \o RollupLines(q, o, last_call) \in Seq(Rolled)
              /\ Balanced(r, RolledUp(q, S)[s].held, s, Total(ru \o RollupLines(q, o, last_call), s),
                          Worsts(ru \o RollupLines(q, o, last_call), s))
  <2>1. totals[s] = Total(ru, s) /\ worsts[s] = Worsts(ru, s)
    BY <1>11, <1>12, <1>19 DEF TotalsNow, WorstsNow
  <2>2. Balanced(r, q[s].held, s, Total(ru, s), Worsts(ru, s))
    BY <2>1, <1>14, <1>15, <1>18 DEF Balances
  <2> QED BY <2>2, <1>7, <1>16, RolledUpBalanced
<1>21. rollups' \in Seq(Rolled)
  <2>1. PICK s \in Subjects : TRUE
    BY NotablesAssumption, Zenon
  <2> QED BY <2>1, <1>17, <1>19, <1>20
<1>22. Balances(reported', quiet', TotalsNow', WorstsNow')
  <2>1. ASSUME NEW s \in Subjects
        PROVE  Balanced(reported', quiet'[s].held, s, TotalsNow'[s], WorstsNow'[s])
    <3>1. TotalsNow'[s] = Total(rollups', s) /\ WorstsNow'[s] = Worsts(rollups', s)
      BY DEF TotalsNow, WorstsNow
    <3>2. rollups' = ru \o RollupLines(q, o, last_call) /\ reported' = r /\ quiet' = RolledUp(q, S)
      BY <1>6, <1>15, <1>17, <1>18, <1>19
    <3> QED BY <3>1, <3>2, <1>20, Zenon
  <2> QED BY <2>1 DEF Balances
<1>23. quiet' \in [Subjects -> Habit]
  <2>1. NoRollup \in Held
    BY DEF NoRollup, Held
  <2>2. \A h \in Habit : [h EXCEPT !.held = NoRollup, !.last_rollup = now] \in Habit
    BY <2>1, <1>7 DEF Habit
  <2>3. RolledUp(q, S) \in [Subjects -> Habit]
    BY <2>2, <1>15 DEF RolledUp
  <2> QED BY <2>3, <1>6, <1>15
<1>24. NotablesTypes'
  <2>1. a.window_start \in Nat /\ a.in_window \in Nat /\ a.reported \in Seq(Entry) /\ a.disk_slow \in Seq(Charge)
    BY <1>14 DEF Tally
  <2>2. notable' \in Seq(Notable)
    BY <1>6
  <2> QED BY <2>1, <2>2, <1>6, <1>7, <1>9, <1>21, <1>23 DEF NotablesTypes
<1>25. Line' = Line
  <2>1. PICK x \in Seq(Notable) : x = Events(reported)
    BY <1>7, EventsAre, EntriesAre
  <2>2. PICK h \in Seq(Notable) : h = held_notables
    BY <1>7
  <2>3. PICK n \in Seq(Notable) : n = notable
    BY <1>7
  <2>4. PICK g \in Seq(Notable) : g = held_notables'
    BY <1>9
  <2>5. Line = (x \o h) \o n /\ Line' = ((x \o told) \o g) \o <<>>
    <3>1. Events(reported') = x \o told
      BY <2>1, <1>6, <1>14
    <3>2. Line = (x \o h) \o n
      BY <2>1, <2>2, <2>3, Zenon DEF Line
    <3>3. Line' = (Events(reported') \o g) \o <<>>
      BY <2>4, <1>6, Zenon DEF Line, Events
    <3> QED BY <3>1, <3>2, <3>3, Zenon
  <2>6. (x \o h) \o n = x \o (h \o n)
    OBVIOUS
  <2>7. (x \o told) \o g = x \o (told \o g)
    BY SMTT(30), <1>9
  <2>8. h \o n = told \o g
    BY <2>2, <2>3, <2>4, <1>1, <1>9
  <2>9. ((x \o told) \o g) \o <<>> = (x \o told) \o g
    <3>1. x \o told \in Seq(Notable)
      BY <1>9, ConcatProperties
    <3>2. PICK y \in Seq(Notable) : y = x \o told
      BY <3>1
    <3>3. y \o g \in Seq(Notable)
      BY ConcatProperties
    <3> QED BY <3>2, <3>3, ConcatEmptySeq
  <2> QED BY <2>5, <2>6, <2>7, <2>8, <2>9, Zenon
<1>26. Ordered(Line', pushed') /\ Len(Line') + notable_dropped' = pushed'
  BY <1>6, <1>25, Zenon DEF NotablesIInv
<1>27. Charged(disk_slow', reported')
  BY <1>6, <1>14, Zenon
<1>28. Discounts(disk_slow', Excused')
  <2>1. Excused' = E
    BY <1>6, <1>10, Zenon DEF Excused
  <2> QED BY <2>1, <1>6, <1>14, Zenon
<1> QED BY <1>22, <1>24, <1>26, <1>27, <1>28 DEF NotablesIInv, Ordered, Charged, Discounts, Balances

LEMMA TickFreezes ==
  ASSUME NotablesIInv, tick_freezes
  PROVE  NotablesIInv'
<1>1. PICK F : disk_slow' = mark_victims(F) /\ frozen' = frozen \cup F
  BY Zenon DEF tick_freezes
<1>2. /\ pushed' = pushed /\ notable_dropped' = notable_dropped /\ notable' = notable /\ now' = now
      /\ held_notables' = held_notables /\ ios' = ios /\ quiet' = quiet /\ window_start' = window_start
      /\ in_window' = in_window /\ reported' = reported /\ rollups' = rollups
  BY Zenon DEF tick_freezes, clockVars, queueVars, logVars
<1>3. NotablesTypes /\ ios \subseteq Notable
  BY DEF NotablesIInv, NotablesTypes
<1>4. PICK w \in Seq(Charge) : w = disk_slow
  BY <1>3 DEF NotablesTypes
<1>5. PICK n \in Nat : n = Len(w)
  BY LenProperties
<1>6. DOMAIN w = 1 .. n /\ \A i \in 1 .. n : w[i] \in Charge
  BY <1>5, LenProperties, ElementOfSeq
<1> DEFINE Caught(i) == w[i].victim \/ \E f \in F : \E m \in Evidence(f) :
             /\ role_of(f, m) = "Victim"
             /\ m.subject = w[i].event.subject
             /\ m.end = w[i].event.end /\ m.dur = w[i].event.dur
<1>7. PICK v : v = disk_slow'
  OBVIOUS
<1>8. v = [i \in 1 .. n |-> [w[i] EXCEPT !.victim = Caught(i)]]
  BY <1>1, <1>4, <1>6, <1>7, Zenon DEF mark_victims
<1>9. \A i \in 1 .. n : Caught(i) \in BOOLEAN
  <2>1. \A c \in Charge : c.victim \in BOOLEAN
    BY DEF Charge
  <2> QED BY <2>1, <1>6
<1> HIDE DEF Caught
<1>10. \A i \in 1 .. n : v[i] \in Charge /\ v[i].event = w[i].event /\ v[i].victim = Caught(i)
  <2>1. TAKE i \in 1 .. n
  <2>2. PICK c \in Charge : c = w[i]
    BY <1>6
  <2>3. [c EXCEPT !.victim = Caught(i)] \in Charge /\ [c EXCEPT !.victim = Caught(i)].event = c.event
        /\ [c EXCEPT !.victim = Caught(i)].victim = Caught(i)
    BY <1>9 DEF Charge
  <2> QED BY <2>2, <2>3, <1>8
<1>11. v \in Seq(Charge) /\ Len(v) = n /\ DOMAIN v = 1 .. n
  <2>1. v \in [1 .. n -> Charge]
    BY <1>8, <1>10
  <2> QED BY <2>1
<1>12. NotablesTypes'
  BY <1>2, <1>3, <1>7, <1>11 DEF NotablesTypes
<1>13. Ordered(Line', pushed') /\ Len(Line') + notable_dropped' = pushed'
  BY <1>2, Zenon DEF NotablesIInv, Line
<1>14. Charged(disk_slow', reported')
  <2>1. Events(v) = Events(w)
    BY <1>6, <1>10, <1>11 DEF Events
  <2>2. \A d : OfSubject(v, d) = OfSubject(w, d)
    BY <1>6, <1>10, <1>11 DEF OfSubject
  <2>3. \A d : Account(v, d) = Account(w, d)
    BY <2>1, <2>2, Zenon DEF Account
  <2>4. Charged(w, reported)
    BY <1>4 DEF NotablesIInv
  <2> QED BY <2>3, <2>4, <1>2, <1>7, Zenon DEF Charged
<1>15. Discounts(disk_slow', Excused')
  <2>1. \A m \in Excused : m \in Excused'
    BY <1>1 DEF Excused
  <2>2. Discounts(w, Excused)
    BY <1>4 DEF NotablesIInv
  <2>3. ASSUME NEW i \in 1 .. n, v[i].victim
        PROVE  v[i].event \in Excused'
    <3>1. PICK e \in Notable : e = w[i].event /\ e = v[i].event
      BY <1>6, <1>10, EntriesAre
    <3>2. CASE w[i].victim
      BY <3>1, <3>2, <2>1, <2>2, <1>5 DEF Discounts
    <3>3. CASE ~w[i].victim
      <4>1a. PICK f \in F : \E m \in Evidence(f) : role_of(f, m) = "Victim" /\ m.end = e.end /\ m.dur = e.dur
        BY <3>1, <3>3, <2>3, <1>10, Zenon DEF Caught
      <4>1. PICK m \in Evidence(f) : role_of(f, m) = "Victim" /\ m.end = e.end /\ m.dur = e.dur
        BY <4>1a
      <4>2. m.end - m.dur >= f.start - Edge /\ m.end <= f.end + Edge
        <5> DEFINE start == m.end - m.dur
                   trigger == start <= f.start - Edge /\ m.end >= f.end - Edge
                   within == start >= f.start - Edge /\ m.end <= f.end + Edge
        <5>1. role_of(f, m) = CASE trigger -> "Trigger" [] within /\ ~trigger -> "Victim" [] OTHER -> "Overlap"
          BY DEF role_of
        <5> SUFFICES within
          OBVIOUS
        <5> HIDE DEF trigger, within
        <5>2. CASE trigger
          BY <5>1, <5>2, <4>1
        <5>3. CASE within
          BY <5>3
        <5>4. CASE ~trigger /\ ~within
          BY <5>1, <5>4, <4>1
        <5> QED BY <5>2, <5>3, <5>4
      <4>3. e.end - e.dur >= f.start - Edge /\ e.end <= f.end + Edge
        BY <4>1, <4>2
      <4>4. f \in frozen'
        BY <1>1
      <4>5. e \in Excused'
        BY <4>3, <4>4 DEF Excused
      <4> QED BY <4>5, <3>1
    <3> QED BY <3>2, <3>3
  <2> QED BY <2>3, <1>7, <1>11 DEF Discounts
<1>16. Balances(reported', quiet', TotalsNow', WorstsNow')
  BY <1>2, Zenon DEF NotablesIInv, TotalsNow, WorstsNow
<1> QED BY <1>12, <1>13, <1>14, <1>15, <1>16 DEF NotablesIInv, Ordered, Charged, Discounts, Balances

(* The queue and the log are one line in order, the accounts are the       *)
(* beginnings of what was reported, what is discounted is excused, and the *)
(* roll-ups balance with the folded events (report_notables).              *)
THEOREM NotablesInvariant == Spec => []NotablesIInv
<1>1. Init => NotablesIInv
  BY NotablesInit
<1>2. NotablesIInv /\ [Next]_vars => NotablesIInv'
  <2> SUFFICES ASSUME NotablesIInv, [Next]_vars
               PROVE  NotablesIInv'
    OBVIOUS
  <2>0. now \in Nat
    BY DEF NotablesIInv, NotablesTypes
  <2>1. CASE Advance
    <3>1. UNCHANGED shownVars /\ now' = now + 1
      BY <2>1, Zenon DEF Advance, shownVars, queueVars, logVars
    <3> QED BY <3>1, <2>0, NotablesQuiet
  <2>2. CASE \E ts \in 1 .. now : Trace(ts) \/ StorTrace(ts)
    <3>1. UNCHANGED shownVars /\ now' = now
      BY <2>2, Zenon DEF Trace, StorTrace, shownVars, queueVars, logVars
    <3> QED BY <3>1, <2>0, NotablesQuiet
  <2>3. CASE \E s \in Subjects, ts \in 1 .. now, d \in Durations : handle_event(s, ts, d)
    <3>1. PICK s \in Subjects, ts \in 1 .. now, d \in Durations : handle_event(s, ts, d)
      BY <2>3
    <3> QED BY <3>1, HandleEvent
  <2>4. CASE \E start \in 0 .. now : Freeze(start)
    <3>1. UNCHANGED shownVars /\ now' = now
      BY <2>4, Zenon DEF Freeze, shownVars, clockVars, queueVars, logVars
    <3> QED BY <3>1, <2>0, NotablesQuiet
  <2>5. CASE \E last_call \in BOOLEAN : report_notables(last_call)
    BY <2>5, ReportNotables
  <2>6. CASE tick_freezes
    BY <2>6, TickFreezes
  <2>7. CASE UNCHANGED vars
    <3>1. UNCHANGED shownVars /\ now' = now
      BY <2>7, Zenon DEF vars, shownVars, clockVars, queueVars, logVars
    <3> QED BY <3>1, <2>0, NotablesQuiet
  <2> QED BY <2>1, <2>2, <2>3, <2>4, <2>5, <2>6, <2>7 DEF Next
<1> QED BY <1>1, <1>2, PTL DEF Spec

(* However long events are held back, they are reported in the order they  *)
(* were queued, none is reported twice and none is lost except what the    *)
(* queue had no room for (held_notables in report_notables).               *)
THEOREM EventLogInOrder == Spec => []LogInOrder
<1>1. NotablesIInv => LogInOrder
  <2> SUFFICES ASSUME NotablesIInv
               PROVE  LogInOrder
    OBVIOUS
  <2>1. DOMAIN Line = 1 .. Len(Line)
    BY LenProperties DEF NotablesIInv, Ordered
  <2> QED BY <2>1 DEF NotablesIInv, Ordered, LogInOrder
<1> QED BY <1>1, NotablesInvariant, PTL

(* A drive is charged once with each of its slow requests, in order and up *)
(* to the cap, and a request is taken off its account only for a freeze    *)
(* that was filed and that it did not begin before (explain_cause,         *)
(* mark_victims).                                                          *)
THEOREM OnlyVictimsTaken == Spec => []OnlyVictimsDiscounted
<1>1. NotablesIInv => OnlyVictimsDiscounted
  <2> SUFFICES ASSUME NotablesIInv
               PROVE  OnlyVictimsDiscounted
    OBVIOUS
  <2>0. disk_slow \in Seq(Charge) /\ reported \in Seq(Entry) /\ SlowCap \in Nat
    BY NotablesAssumption, Zenon DEF NotablesIInv, NotablesTypes
  <2>1. ASSUME NEW d \in Disks
        PROVE  Account(disk_slow, d) = SubSeq(Account(reported, d), 1, Min({Len(Account(reported, d)), SlowCap}))
    <3>1. Account(disk_slow, d) \in Seq(Notable) /\ Account(reported, d) \in Seq(Notable)
      <4>1. ASSUME NEW R, \A e \in R : e.event \in Notable, NEW r \in Seq(R)
            PROVE  Account(r, d) \in Seq(Notable)
        <5>1. PICK q \in Seq(Notable) : q = Events(r)
          BY <4>1, EventsAre
        <5>2. PICK I : I = OfSubject(r, d)
          OBVIOUS
        <5>3. I \subseteq 1 .. Len(q)
          BY <4>1, <5>1, <5>2, EventsAre
        <5>4. At(q, I) \in Seq(Notable)
          BY <5>3, AtPicks
        <5> QED BY <5>1, <5>2, <5>4 DEF Account
      <4> QED BY <4>1, <2>0, EntriesAre
    <3>2. Beginning(Account(disk_slow, d), Account(reported, d), SlowCap)
      BY DEF NotablesIInv, Charged
    <3> QED BY <3>1, <3>2, <2>0, BeginningIs
  <2>2. ASSUME NEW i \in DOMAIN disk_slow, disk_slow[i].victim
        PROVE  \E f \in frozen : /\ disk_slow[i].event.end <= f.end + Edge
                                 /\ disk_slow[i].event.end - disk_slow[i].event.dur >= f.start - Edge
    <3>1. i \in 1 .. Len(disk_slow)
      BY <2>0, LenProperties
    <3>2. disk_slow[i].event \in Excused
      BY <3>1, <2>2 DEF NotablesIInv, Discounts
    <3> QED BY <3>2 DEF Excused
  <2> QED BY <2>1, <2>2, Zenon DEF OnlyVictimsDiscounted, Account
<1> QED BY <1>1, NotablesInvariant, PTL

(* The roll-up lines and what is held for the next one account for every   *)
(* folded event of a subject and for the worst of them (src/quiet.rs).     *)
THEOREM FoldedAreCounted == Spec => []FoldedAreSummarised
<1>1. NotablesIInv => FoldedAreSummarised
  <2> SUFFICES ASSUME NotablesIInv, NEW s \in Subjects
               PROVE  /\ Cardinality(Folded(s)) = quiet[s].held.count
                                                  + SumOver(LinesOf(rollups, s), Counts(rollups))
                      /\ Max({reported[i].event.dur : i \in Folded(s)} \cup {0})
                           = Max(Worsts(rollups, s) \cup {quiet[s].held.worst, 0})
    BY Zenon DEF FoldedAreSummarised, LinesOf, Counts, Worsts
  <2>1. Balanced(reported, quiet[s].held, s, Total(rollups, s), Worsts(rollups, s))
    BY DEF NotablesIInv, Balances, TotalsNow, WorstsNow
  <2>2. PICK F : F = Folded(s) /\ F = FoldedIn(reported, s)
    BY Zenon DEF Folded, FoldedIn
  <2>3. reported \in Seq(Entry) /\ rollups \in Seq(Rolled) /\ quiet \in [Subjects -> Habit]
    BY DEF NotablesIInv, NotablesTypes
  <2>4. PICK W \in SUBSET Nat : W = Worsts(rollups, s) /\ IsFiniteSet(W)
    BY <2>3, LinesAre
  <2>5. PICK h \in Nat : h = quiet[s].held.worst
    BY <2>3 DEF Habit, Held
  <2>6. F \in SUBSET (1 .. Len(reported)) /\ IsFiniteSet(F)
    <3>1. PICK n \in Nat : n = Len(reported)
      BY <2>3, LenProperties
    <3>2. F \in SUBSET (1 .. n)
      BY <2>2, <2>3, <3>1, EventsAre, EntriesAre DEF FoldedIn
    <3>3. IsFiniteSet(1 .. n)
      BY FS_Interval
    <3> QED BY <3>1, <3>2, <3>3, FS_Subset
  <2>7. PICK f : f = [i \in F |-> reported[i].event.dur]
    OBVIOUS
  <2>8. f \in [F -> Int] /\ \A i \in F : f[i] \in Nat
    <3>1. \A i \in F : reported[i] \in Entry
      BY <2>3, <2>6, ElementOfSeq
    <3>2. \A i \in F : reported[i].event.dur \in Nat
      BY <3>1, EntriesAre, NotableIs
    <3> QED BY <3>2, <2>7
  <2>9. PICK A : A = {f[i] : i \in F} \cup {0}
    OBVIOUS
  <2>10. A \subseteq Int /\ IsFiniteSet(A) /\ A # {}
    <3>1. {f[i] : i \in F} \subseteq Int /\ IsFiniteSet({f[i] : i \in F})
      BY <2>6, <2>8, ImageFinite
    <3>2. PICK X : X = {f[i] : i \in F}
      OBVIOUS
    <3>3. IsFiniteSet(X \cup {0})
      BY <3>1, <3>2, FS_AddElement
    <3> QED BY <3>1, <3>2, <3>3, <2>9
  <2>11. PICK B : B = W \cup {h, 0}
    OBVIOUS
  <2>12. B \subseteq Int /\ IsFiniteSet(B) /\ B # {}
    <3>1. PICK Y : Y = W \cup {h}
      OBVIOUS
    <3>2. IsFiniteSet(Y)
      BY <3>1, <2>4, FS_AddElement
    <3>3. IsFiniteSet(Y \cup {0})
      BY <3>2, FS_AddElement
    <3>4. B = Y \cup {0}
      BY <3>1, <2>11
    <3> QED BY <3>3, <3>4, <2>11
  <2>13. Max(A) \in A /\ (\A y \in A : y <= Max(A)) /\ Max(B) \in B /\ \A y \in B : y <= Max(B)
    BY <2>10, <2>12, MaxIsGreatest
  <2>14. PICK x \in A : x = Max(A) /\ \A y \in A : y <= x
    BY <2>13
  <2>15. PICK z \in B : z = Max(B) /\ \A y \in B : y <= z
    BY <2>13
  <2>16. \A i \in F : f[i] <= h \/ \E w \in W : f[i] <= w
    BY <2>1, <2>2, <2>4, <2>5, <2>7 DEF Balanced
  <2>17. \A w \in W \cup {h} : w = 0 \/ \E i \in F : f[i] = w
    BY <2>1, <2>2, <2>4, <2>5, <2>7 DEF Balanced
  <2>18. x <= z
    <3>1. CASE x = 0
      BY <3>1, <2>11, <2>15
    <3>2. CASE x # 0
      <4>1. PICK i \in F : x = f[i]
        BY <3>2, <2>9, <2>14
      <4>2. PICK w \in W \cup {h} : x <= w
        BY <4>1, <2>16
      <4>3. w \in B /\ w \in Nat
        BY <2>11
      <4> QED BY <4>2, <4>3, <2>10, <2>12, <2>15
    <3> QED BY <3>1, <3>2
  <2>19. z <= x
    <3>1. z = 0 \/ \E i \in F : f[i] = z
      BY <2>11, <2>17
    <3>2. z \in A
      BY <3>1, <2>9
    <3> QED BY <3>2, <2>14
  <2>20. x = z
    <3>1. x \in Int /\ z \in Int
      BY <2>10, <2>12
    <3> QED BY <3>1, <2>18, <2>19
  <2>21. {reported[i].event.dur : i \in Folded(s)} \cup {0} = A
    BY <2>2, <2>7, <2>9
  <2>22. Max({reported[i].event.dur : i \in Folded(s)} \cup {0}) = Max(Worsts(rollups, s) \cup {quiet[s].held.worst, 0})
    BY <2>4, <2>5, <2>11, <2>14, <2>15, <2>20, <2>21, Zenon
  <2>23. Cardinality(Folded(s)) = quiet[s].held.count + SumOver(LinesOf(rollups, s), Counts(rollups))
    BY <2>1, <2>2 DEF Balanced, Total
  <2> QED BY <2>22, <2>23
<1> QED BY <1>1, NotablesInvariant, PTL

-----------------------------------------------------------------------------
(* The comparison of two runs (Baseline).  What a whole file says of its    *)
(* run, and that the newest file of a PC that has no twin is that of its    *)
(* last run.                                                                *)

Counted(t) == t.watched \ Logged

Truths == [rates : [Problems -> Nat], watched : SUBSET Problems, length : Nat \ {0}, whole : BOOLEAN]

(* The numbers of a run, as they were saved. *)
RecordOf(rec, t) ==
  /\ rec.seconds = t.length
  /\ rec.stalls = SumOver(Counted(t), [p \in Problems |-> t.rates[p] * t.length])
  /\ \A f \in rec.findings :
       \/ f.looks_back /\ \E l \in Logged : f.key = [what |-> Program[l]]
       \/ /\ f.looks_back = FALSE
          /\ \E p \in Counted(t) :
               /\ t.rates[p] > 0 /\ f.key = [what |-> Program[p]] /\ f.value = t.rates[p] * t.length
               /\ \A q \in Counted(t) : Program[q] = Program[p] => t.rates[q] <= t.rates[p]
  /\ \A p \in Counted(t) : t.rates[p] > 0 => \E f \in rec.findings : f.key = [what |-> Program[p]]

(* The newest file of this PC. *)
Newest(c, f) ==
  /\ f \in folder /\ f.rec.machine = Machine[c]
  /\ \A g \in folder : g.rec.machine = Machine[c] => g.rec.time < f.rec.time \/ g.rec = f.rec

BaselineTypes ==
  /\ day \in Nat /\ rates \in [PCs -> [Problems -> Nat]]
  /\ DOMAIN last = PCs /\ \A c \in PCs : last[c] = None \/ last[c] \in Truths
  /\ \A f \in folder : f.rec.time \in Nat

LastIsSaved ==
  \A c \in PCs : HasNoTwin(c) /\ last[c] # None /\ last[c].whole =>
    \E f \in folder : Newest(c, f) /\ RecordOf(f.rec, last[c])

(* The inductive invariant. *)
BaselineInv == BaselineTypes /\ LastIsSaved /\ ChangeIsReal

(* Some problem is rarer with u than with t. *)
Rarer(t, u) == \E p \in Problems \ Logged : u.rates[p] < t.rates[p]

LEMMA GoneIsRarer ==
  ASSUME NEW t \in Truths, NEW u \in Truths, t.watched = u.watched,
         NEW prev, NEW new, RecordOf(prev, t), RecordOf(new, u),
         NEW f \in prev.findings, ~f.looks_back, \A g \in new.findings : g.key # f.key
  PROVE  Rarer(t, u)
<1>1. PICK p \in Counted(t) : t.rates[p] > 0 /\ f.key = [what |-> Program[p]]
  BY DEF RecordOf
<1>2. p \in Counted(u) /\ p \in Problems \ Logged
  BY DEF Counted, Truths
<1>3. ~(u.rates[p] > 0)
  BY <1>1, <1>2 DEF RecordOf
<1>4. u.rates[p] \in Nat /\ t.rates[p] \in Nat
  BY <1>2 DEF Truths
<1> QED BY <1>1, <1>2, <1>3, <1>4 DEF Rarer

(* How the counts of two runs are made comparable. *)
Comparable(s, a, b) == s = <<a, b>> \/ (a = b /\ s = <<1, 1>>)

LEMMA ScaledLess ==
  ASSUME NEW r \in Nat, NEW s \in Nat, NEW a \in Nat \ {0}, NEW b \in Nat \ {0},
         NEW k, Comparable(k, a, b)
  PROVE  /\ (r * b) * k[1] \in Nat /\ (s * a) * k[2] \in Nat
         /\ r <= s => (r * b) * k[1] <= (s * a) * k[2]
         /\ s <= r => (s * a) * k[2] <= (r * b) * k[1]
<1>1. PICK m \in Nat : (r * b) * k[1] = r * m /\ (s * a) * k[2] = s * m
  <2>1. CASE k = <<a, b>>
    <3>1. (r * b) * a = r * (a * b) /\ (s * a) * b = s * (a * b) /\ a * b \in Nat
      OBVIOUS
    <3> QED BY <2>1, <3>1
  <2>2. CASE a = b /\ k = <<1, 1>>
    <3>1. (r * b) * 1 = r * b /\ (s * a) * 1 = s * b
      BY <2>2
    <3> QED BY <2>2, <3>1
  <2> QED BY <2>1, <2>2 DEF Comparable
<1>2. r * m \in Nat /\ s * m \in Nat
  OBVIOUS
<1>3. ASSUME r <= s PROVE r * m <= s * m
  <2>1. PICK d \in Nat : s = r + d
    <3>1. s - r \in Nat /\ s = r + (s - r)
      BY <1>3
    <3> QED BY <3>1
  <2>2. s * m = r * m + d * m /\ d * m \in Nat
    BY <2>1
  <2> QED BY <1>2, <2>2
<1>4. ASSUME s <= r PROVE s * m <= r * m
  <2>1. PICK d \in Nat : r = s + d
    <3>1. r - s \in Nat /\ r = s + (r - s)
      BY <1>4
    <3> QED BY <3>1
  <2>2. r * m = s * m + d * m /\ d * m \in Nat
    BY <2>1
  <2> QED BY <1>2, <2>2
<1> QED BY <1>1, <1>2, <1>3, <1>4

(* What is classified as better is less, what is classified as worse more. *)
LEMMA ClassifiedIs ==
  ASSUME NEW before \in Nat, NEW after \in Nat, NEW k, k[1] \in Nat, k[2] \in Nat
  PROVE  /\ classify(before, after, k) = "better" => after * k[1] < before * k[2]
         /\ classify(before, after, k) = "worse" => before * k[2] < after * k[1]
<1>1. PICK x \in Nat, y \in Nat : x = before * k[2] /\ y = after * k[1]
  OBVIOUS
<1>2. classify(before, after, k)
        = IF Apart(x, y) <= k[1] \/ Apart(x, y) * 100 <= NoiseShare * Longer(x, y) THEN "same"
          ELSE IF y < x THEN "better" ELSE "worse"
  BY <1>1 DEF classify
<1>3. x = y => Apart(x, y) <= k[1]
  BY DEF Apart
<1> QED BY <1>1, <1>2, <1>3

LEMMA ScalesAre ==
  ASSUME NEW t \in Truths, NEW u \in Truths, NEW prev, NEW new, RecordOf(prev, t), RecordOf(new, u),
         t.length = u.length \/ Apart(t.length, u.length) * 100 > SameLength * Longer(t.length, u.length)
  PROVE  /\ Comparable(scales(prev, new), t.length, u.length)
         /\ scales(prev, new)[1] \in Nat /\ scales(prev, new)[2] \in Nat
<1>1. PICK a \in Nat \ {0}, b \in Nat \ {0} : a = t.length /\ b = u.length
  BY DEF Truths
<1>2. Length(prev) = a /\ Length(new) = b
  BY <1>1 DEF RecordOf, Length, Longer
<1>3. scales(prev, new) = IF Apart(a, b) * 100 <= SameLength * Longer(a, b) THEN <<1, 1>> ELSE <<a, b>>
  BY <1>2 DEF scales
<1>4. Apart(a, b) * 100 \in Nat /\ SameLength * Longer(a, b) \in Nat
  <2>1. Apart(a, b) \in Nat /\ Longer(a, b) \in Nat
    BY DEF Apart, Longer
  <2> QED BY <2>1, BaselineAssumption
<1>5. a # b => ~(Apart(a, b) * 100 <= SameLength * Longer(a, b))
  BY <1>1, <1>4
<1> QED BY <1>1, <1>3, <1>5 DEF Comparable

(* The worst problem of a subject is rarer, or more frequent. *)
LEMMA MovedIs ==
  ASSUME NEW t \in Truths, NEW u \in Truths, t.watched = u.watched,
         NEW prev, NEW new, RecordOf(prev, t), RecordOf(new, u),
         NEW o \in prev.findings, NEW n \in new.findings, o.key = n.key, ~n.looks_back,
         NEW k, Comparable(k, t.length, u.length), k[1] \in Nat, k[2] \in Nat
  PROVE  /\ classify(o.value, n.value, k) = "better" => Rarer(t, u)
         /\ classify(o.value, n.value, k) = "worse" => Rarer(u, t)
<1>1. PICK q \in Counted(u) : /\ n.key = [what |-> Program[q]] /\ n.value = u.rates[q] * u.length
                              /\ \A p \in Counted(u) : Program[p] = Program[q] => u.rates[p] <= u.rates[q]
  BY DEF RecordOf
<1>2. Counted(t) = Counted(u) /\ Counted(u) \subseteq Problems \ Logged
  BY DEF Counted, Truths
<1>3. ~(\E l \in Logged : o.key = [what |-> Program[l]])
  <2> SUFFICES ASSUME NEW l \in Logged, o.key = [what |-> Program[l]] PROVE FALSE
    OBVIOUS
  <2>1. [what |-> Program[l]] = [what |-> Program[q]]
    BY <1>1
  <2>2. Program[l] = Program[q]
    BY <2>1
  <2> QED BY <1>2, <2>2, BaselineAssumption
<1>4. PICK p \in Counted(t) : /\ o.key = [what |-> Program[p]] /\ o.value = t.rates[p] * t.length
                              /\ \A r \in Counted(t) : Program[r] = Program[p] => t.rates[r] <= t.rates[p]
  BY <1>3 DEF RecordOf
<1>5. Program[p] = Program[q]
  <2>1. o.key.what = Program[p] /\ n.key.what = Program[q]
    BY <1>1, <1>4
  <2> QED BY <2>1
<1>6. PICK a \in Nat \ {0}, b \in Nat \ {0}, r \in Nat, s \in Nat :
        a = t.length /\ b = u.length /\ r = u.rates[q] /\ s = t.rates[p]
  BY <1>2 DEF Truths
<1>7. o.value = s * a /\ n.value = r * b /\ s * a \in Nat /\ r * b \in Nat
  BY <1>1, <1>4, <1>6
<1>8. /\ (r * b) * k[1] \in Nat /\ (s * a) * k[2] \in Nat
      /\ r <= s => (r * b) * k[1] <= (s * a) * k[2]
      /\ s <= r => (s * a) * k[2] <= (r * b) * k[1]
  BY <1>6, ScaledLess
<1>9. /\ classify(o.value, n.value, k) = "better" => r < s
      /\ classify(o.value, n.value, k) = "worse" => s < r
  BY <1>7, <1>8, ClassifiedIs
<1>10. /\ u.rates[p] \in Nat /\ u.rates[p] <= r
       /\ t.rates[q] \in Nat /\ t.rates[q] <= s
  BY <1>1, <1>2, <1>4, <1>5, <1>6 DEF Truths
<1> QED BY <1>2, <1>6, <1>9, <1>10 DEF Rarer

(* Fewer stalls in all is some problem that is rarer. *)
LEMMA FewerIsRarer ==
  ASSUME NEW t \in Truths, NEW u \in Truths, t.watched = u.watched,
         NEW prev, NEW new, RecordOf(prev, t), RecordOf(new, u),
         NEW k, Comparable(k, t.length, u.length), k[1] \in Nat, k[2] \in Nat
  PROVE  /\ prev.stalls \in Nat /\ new.stalls \in Nat
         /\ classify(prev.stalls, new.stalls, k) = "better" => Rarer(t, u)
         /\ classify(prev.stalls, new.stalls, k) = "worse" => Rarer(u, t)
<1>1. PICK S : S = Counted(t) /\ S = Counted(u) /\ S \subseteq Problems \ Logged /\ IsFiniteSet(S)
  <2>1. Counted(t) = Counted(u) /\ Counted(t) \in SUBSET Problems /\ Counted(t) \subseteq Problems \ Logged
    BY DEF Counted, Truths
  <2> QED BY <2>1, FS_Subset, BaselineAssumption
<1>2. PICK a \in Nat \ {0}, b \in Nat \ {0} : a = t.length /\ b = u.length
  BY DEF Truths
<1>3. PICK f, g : f = [p \in Problems |-> t.rates[p] * t.length] /\ g = [p \in Problems |-> u.rates[p] * u.length]
  OBVIOUS
<1>4. \A p \in S : /\ t.rates[p] \in Nat /\ u.rates[p] \in Nat
                   /\ f[p] = t.rates[p] * a /\ g[p] = u.rates[p] * b
                   /\ f[p] \in Nat /\ g[p] \in Nat
  BY <1>1, <1>2, <1>3 DEF Truths
<1>5. prev.stalls = SumOver(S, f) /\ new.stalls = SumOver(S, g)
  BY <1>1, <1>3 DEF RecordOf
<1>6. SumOver(S, f) \in Nat /\ SumOver(S, g) \in Nat
  BY <1>1, <1>4, SumNat
<1>7. ~Rarer(t, u) => \A p \in S : f[p] * k[2] <= g[p] * k[1]
  <2> SUFFICES ASSUME ~Rarer(t, u), NEW p \in S PROVE f[p] * k[2] <= g[p] * k[1]
    OBVIOUS
  <2>1. PICK r \in Nat, s \in Nat : r = u.rates[p] /\ s = t.rates[p] /\ s <= r
    BY <1>1, <1>4 DEF Rarer
  <2>2. (s * a) * k[2] <= (r * b) * k[1]
    BY <1>2, <2>1, ScaledLess
  <2> QED BY <1>4, <2>1, <2>2
<1>8. ~Rarer(u, t) => \A p \in S : g[p] * k[1] <= f[p] * k[2]
  <2> SUFFICES ASSUME ~Rarer(u, t), NEW p \in S PROVE g[p] * k[1] <= f[p] * k[2]
    OBVIOUS
  <2>1. PICK r \in Nat, s \in Nat : r = u.rates[p] /\ s = t.rates[p] /\ r <= s
    BY <1>1, <1>4 DEF Rarer
  <2>2. (r * b) * k[1] <= (s * a) * k[2]
    BY <1>2, <2>1, ScaledLess
  <2> QED BY <1>4, <2>1, <2>2
<1>9. ~Rarer(t, u) => SumOver(S, f) * k[2] <= SumOver(S, g) * k[1]
  BY <1>1, <1>4, <1>7, SumScaled
<1>10. ~Rarer(u, t) => SumOver(S, g) * k[1] <= SumOver(S, f) * k[2]
  BY <1>1, <1>4, <1>8, SumScaled
<1>11. PICK m \in Nat, n \in Nat : m = SumOver(S, f) /\ n = SumOver(S, g)
  BY <1>6
<1>12. /\ classify(m, n, k) = "better" => n * k[1] < m * k[2]
       /\ classify(m, n, k) = "worse" => m * k[2] < n * k[1]
       /\ m * k[2] \in Nat /\ n * k[1] \in Nat
  BY ClassifiedIs
<1> QED BY <1>5, <1>9, <1>10, <1>11, <1>12

(* What is said of two runs that can be compared is so. *)
LEMMA ComparedRightly ==
  ASSUME NEW t \in Truths, NEW u \in Truths, t.watched = u.watched,
         NEW prev, NEW new, RecordOf(prev, t), RecordOf(new, u),
         t.length = u.length \/ Apart(t.length, u.length) * 100 > SameLength * Longer(t.length, u.length)
  PROVE  /\ compare(prev, new) \in {"better", "mixed"} => Rarer(t, u)
         /\ compare(prev, new) \in {"worse", "mixed"} => Rarer(u, t)
<1> DEFINE scale  == scales(prev, new)
           keys   == {f.key : f \in prev.findings \cup new.findings}
           of(rec, k) == {f \in rec.findings : f.key = k}
           worth(k) == /\ \E f \in of(prev, k) \cup of(new, k) : f.severity >= WorthTelling
                       /\ \A f \in (IF of(new, k) # {} THEN of(new, k) ELSE of(prev, k)) : ~f.looks_back
           gone   == {k \in keys : worth(k) /\ of(new, k) = {}}
           fresh  == {k \in keys : worth(k) /\ of(prev, k) = {}}
           change(k) == LET o == CHOOSE f \in of(prev, k) : TRUE n == CHOOSE f \in of(new, k) : TRUE
                        IN classify(o.value, n.value, IF n.looks_back THEN <<1, 1>> ELSE scale)
           moved(what) == {k \in keys \ (gone \cup fresh) :
                             of(prev, k) # {} /\ of(new, k) # {} /\ worth(k) /\ change(k) = what}
           down == gone \cup moved("better")
           up   == fresh \cup moved("worse")
<1>1. compare(prev, new)
        = CASE down = {} /\ up = {} -> classify(prev.stalls, new.stalls, scale)
            [] down # {} /\ up = {} -> "better"
            [] down = {} /\ up # {} -> "worse"
            [] OTHER                -> "mixed"
  BY DEF compare
<1>2. Comparable(scale, t.length, u.length) /\ scale[1] \in Nat /\ scale[2] \in Nat
  BY ScalesAre
<1>3. ASSUME NEW k \in gone PROVE Rarer(t, u)
  <2>1. of(new, k) = {} /\ \E f \in of(prev, k) : ~f.looks_back
    <3>1. k \in keys /\ worth(k) /\ of(new, k) = {}
      OBVIOUS
    <3>2. \A f \in of(prev, k) : ~f.looks_back
      BY <3>1
    <3>3. \E f \in of(prev, k) : TRUE
      BY <3>1
    <3> QED BY <3>1, <3>2, <3>3
  <2>2. PICK f \in prev.findings : f.key = k /\ ~f.looks_back /\ \A g \in new.findings : g.key # f.key
    BY <2>1
  <2> QED BY <2>2, GoneIsRarer
<1>4. ASSUME NEW k \in fresh PROVE Rarer(u, t)
  <2>1. of(prev, k) = {} /\ \E f \in of(new, k) : ~f.looks_back
    <3>1. k \in keys /\ worth(k) /\ of(prev, k) = {}
      OBVIOUS
    <3>2. \E f \in of(new, k) : TRUE
      BY <3>1
    <3>3. \A f \in of(new, k) : ~f.looks_back
      BY <3>1, <3>2
    <3> QED BY <3>1, <3>2, <3>3
  <2>2. PICK f \in new.findings : f.key = k /\ ~f.looks_back /\ \A g \in prev.findings : g.key # f.key
    BY <2>1
  <2> QED BY <2>2, GoneIsRarer
<1>5. ASSUME NEW what, NEW k \in moved(what)
      PROVE  \E o \in prev.findings, n \in new.findings :
               o.key = n.key /\ ~n.looks_back /\ classify(o.value, n.value, scale) = what
  <2>1. of(prev, k) # {} /\ of(new, k) # {} /\ worth(k) /\ change(k) = what
    OBVIOUS
  <2>2. \A f \in of(new, k) : ~f.looks_back
    BY <2>1
  <2>3. PICK o, n : o = (CHOOSE f \in of(prev, k) : TRUE) /\ n = (CHOOSE f \in of(new, k) : TRUE)
    OBVIOUS
  <2>4. o \in of(prev, k) /\ n \in of(new, k)
    BY <2>1, <2>3
  <2>5. change(k) = classify(o.value, n.value, IF n.looks_back THEN <<1, 1>> ELSE scale)
    BY <2>3
  <2>6. ~n.looks_back
    BY <2>2, <2>4
  <2>7. classify(o.value, n.value, scale) = what
    BY <2>1, <2>5, <2>6
  <2> QED BY <2>4, <2>6, <2>7
<1> HIDE DEF scale, keys, of, worth, gone, fresh, change, moved
<1>6. \A k \in moved("better") : Rarer(t, u)
  BY <1>2, <1>5, MovedIs
<1>7. \A k \in moved("worse") : Rarer(u, t)
  BY <1>2, <1>5, MovedIs
<1>8. (down # {} => Rarer(t, u)) /\ (up # {} => Rarer(u, t))
  BY <1>3, <1>4, <1>6, <1>7
<1> HIDE DEF down, up
<1>9. /\ classify(prev.stalls, new.stalls, scale) = "better" => Rarer(t, u)
      /\ classify(prev.stalls, new.stalls, scale) = "worse" => Rarer(u, t)
  BY <1>2, FewerIsRarer
<1>10. classify(prev.stalls, new.stalls, scale) # "mixed"
  BY DEF classify
<1>11. CASE down = {} /\ up = {}
  BY <1>1, <1>9, <1>10, <1>11
<1>12. CASE down # {} /\ up = {}
  BY <1>1, <1>8, <1>12
<1>13. CASE down = {} /\ up # {}
  BY <1>1, <1>8, <1>13
<1>14. CASE down # {} /\ up # {}
  BY <1>8, <1>14
<1> QED BY <1>11, <1>12, <1>13, <1>14

(* What a run saves of itself is so. *)
LEMMA SavedIs ==
  ASSUME BaselineTypes, NEW c \in PCs, NEW length \in Lengths, NEW watched \in Watches, NEW pids,
         NEW t, t.rates = rates[c], t.watched = watched, t.length = length,
         NEW rec, rec = record_of(c, length, watched, FindingsOf(c, length, watched, pids))
  PROVE  RecordOf(rec, t) /\ rec.machine = Machine[c] /\ rec.time = day
<1> DEFINE F(p) == [key |-> [what |-> Program[p], pid |-> <<p, pids>>], severity |-> rates[c][p],
                    value |-> rates[c][p] * length, looks_back |-> FALSE]
           L(p) == [key |-> [what |-> Program[p], pid |-> <<p, 0>>], severity |-> WorthTelling,
                    value |-> LookBack, looks_back |-> TRUE]
<1>1. PICK found : found = FindingsOf(c, length, watched, pids)
  OBVIOUS
<1>2. /\ \A f \in found : \/ \E p \in watched \ Logged : rates[c][p] > 0 /\ f = F(p)
                          \/ \E p \in Logged : f = L(p)
      /\ \A p \in watched \ Logged : rates[c][p] > 0 => F(p) \in found
  BY <1>1 DEF FindingsOf
<1>3. PICK kept : kept = {f \in found : \A g \in found : stable_key(g.key) = stable_key(f.key) => g.severity <= f.severity}
  OBVIOUS
<1>4. /\ rec.machine = Machine[c] /\ rec.time = day /\ rec.seconds = length
      /\ rec.stalls = SumOver(watched \ Logged, [p \in Problems |-> rates[c][p] * length])
      /\ rec.findings = {[f EXCEPT !.key = stable_key(f.key)] : f \in kept}
  BY <1>1, <1>3 DEF record_of
<1>5. Counted(t) = watched \ Logged /\ watched \subseteq Problems /\ \A p \in Problems : rates[c][p] \in Nat
  BY BaselineAssumption DEF Counted, BaselineTypes
<1>6. \A p : /\ F(p).key.what = Program[p] /\ F(p).severity = rates[c][p] /\ stable_key(F(p).key) = [what |-> Program[p]]
             /\ L(p).key.what = Program[p] /\ stable_key(L(p).key) = [what |-> Program[p]]
             /\ L(p).looks_back = TRUE /\ F(p).looks_back = FALSE
             /\ [F(p) EXCEPT !.key = stable_key(F(p).key)]
                  = [key |-> [what |-> Program[p]], severity |-> rates[c][p], value |-> rates[c][p] * length, looks_back |-> FALSE]
             /\ [L(p) EXCEPT !.key = stable_key(L(p).key)]
                  = [key |-> [what |-> Program[p]], severity |-> WorthTelling, value |-> LookBack, looks_back |-> TRUE]
  <2> TAKE p
  <2>1. stable_key(F(p).key) = [what |-> Program[p]] /\ stable_key(L(p).key) = [what |-> Program[p]]
    BY DEF stable_key
  <2>2. /\ F(p).key.what = Program[p] /\ F(p).severity = rates[c][p] /\ F(p).looks_back = FALSE
        /\ L(p).key.what = Program[p] /\ L(p).looks_back = TRUE
    OBVIOUS
  <2>3. \A k : [F(p) EXCEPT !.key = k]
                = [key |-> k, severity |-> rates[c][p], value |-> rates[c][p] * length, looks_back |-> FALSE]
    <3> TAKE k
    <3>1. PICK f : f = F(p)
      OBVIOUS
    <3>2. f = [key |-> f.key, severity |-> f.severity, value |-> f.value, looks_back |-> f.looks_back]
      BY <3>1
    <3>3. [f EXCEPT !.key = k] = [key |-> k, severity |-> f.severity, value |-> f.value, looks_back |-> f.looks_back]
      BY <3>2
    <3>4. /\ f.severity = F(p).severity /\ f.value = F(p).value /\ f.looks_back = F(p).looks_back
      BY <3>1
    <3> QED BY <3>1, <3>3, <3>4
  <2>4. \A k : [L(p) EXCEPT !.key = k]
                = [key |-> k, severity |-> WorthTelling, value |-> LookBack, looks_back |-> TRUE]
    <3> TAKE k
    <3>1. PICK f : f = L(p)
      OBVIOUS
    <3>2. f = [key |-> f.key, severity |-> f.severity, value |-> f.value, looks_back |-> f.looks_back]
      BY <3>1
    <3>3. [f EXCEPT !.key = k] = [key |-> k, severity |-> f.severity, value |-> f.value, looks_back |-> f.looks_back]
      BY <3>2
    <3>4. /\ f.severity = L(p).severity /\ f.value = L(p).value /\ f.looks_back = L(p).looks_back
      BY <3>1
    <3> QED BY <3>1, <3>3, <3>4
  <2> HIDE DEF F, L
  <2> QED BY <2>1, <2>2, <2>3, <2>4
<1>7. \A p, q : [what |-> Program[p]] = [what |-> Program[q]] => Program[p] = Program[q]
  <2> TAKE p, q
  <2>1. [what |-> Program[p]].what = Program[p] /\ [what |-> Program[q]].what = Program[q]
    OBVIOUS
  <2> QED BY <2>1
<1> HIDE DEF F, L
<1>8. ASSUME NEW f \in rec.findings
      PROVE  \/ f.looks_back /\ \E l \in Logged : f.key = [what |-> Program[l]]
             \/ /\ f.looks_back = FALSE
                /\ \E p \in Counted(t) :
                     /\ t.rates[p] > 0 /\ f.key = [what |-> Program[p]] /\ f.value = t.rates[p] * t.length
                     /\ \A q \in Counted(t) : Program[q] = Program[p] => t.rates[q] <= t.rates[p]
  <2>1. PICK g \in kept : f = [g EXCEPT !.key = stable_key(g.key)]
    BY <1>4
  <2>2. g \in found /\ \A h \in found : stable_key(h.key) = stable_key(g.key) => h.severity <= g.severity
    BY <1>3
  <2>3. CASE \E p \in Logged : g = L(p)
    BY <1>6, <2>1, <2>3
  <2>4. ASSUME NEW p \in watched \ Logged, rates[c][p] > 0, g = F(p)
        PROVE  /\ f.looks_back = FALSE /\ t.rates[p] > 0 /\ f.key = [what |-> Program[p]]
               /\ f.value = t.rates[p] * t.length
               /\ \A q \in Counted(t) : Program[q] = Program[p] => t.rates[q] <= t.rates[p]
    <3>1. f = [key |-> [what |-> Program[p]], severity |-> rates[c][p], value |-> rates[c][p] * length, looks_back |-> FALSE]
      BY <1>6, <2>1, <2>4
    <3>2. ASSUME NEW q \in Counted(t), Program[q] = Program[p] PROVE t.rates[q] <= t.rates[p]
      <4>1. q \in watched \ Logged /\ rates[c][q] \in Nat /\ rates[c][p] \in Nat
        BY <1>5
      <4>2. rates[c][q] > 0 => F(q) \in found /\ stable_key(F(q).key) = stable_key(g.key)
        <5>1. stable_key(F(q).key) = [what |-> Program[q]] /\ stable_key(g.key) = [what |-> Program[p]]
          BY <1>6, <2>4
        <5> QED BY <1>2, <3>2, <4>1, <5>1
      <4>3. rates[c][q] > 0 => F(q).severity <= g.severity
        BY <2>2, <4>2
      <4>4. F(q).severity = rates[c][q] /\ g.severity = rates[c][p]
        BY <1>6, <2>4
      <4> QED BY <1>5, <2>4, <4>1, <4>3, <4>4
    <3> QED BY <2>4, <3>1, <3>2
  <2> QED BY <1>2, <1>5, <2>2, <2>3, <2>4
<1>9. ASSUME NEW p \in Counted(t), t.rates[p] > 0 PROVE \E f \in rec.findings : f.key = [what |-> Program[p]]
  <2>1. PICK Q : Q = {q \in watched \ Logged : Program[q] = Program[p]}
    OBVIOUS
  <2>2. PICK I : I = {rates[c][q] : q \in Q}
    OBVIOUS
  <2>3. IsFiniteSet(I)
    <3>1. Q \in SUBSET Problems
      BY <1>5, <2>1
    <3>2. IsFiniteSet(Q)
      BY <3>1, FS_Subset, BaselineAssumption
    <3>3. PICK f \in [Q -> Int] : f = [q \in Q |-> rates[c][q]]
      <4>1. \A q \in Q : rates[c][q] \in Int
        BY <1>5, <3>1
      <4> QED BY <4>1
    <3>4. I = {f[q] : q \in Q}
      BY <2>2, <3>3
    <3> QED BY <3>2, <3>4, ImageFinite
  <2>4. I \subseteq Int /\ I # {} /\ p \in Q
    BY <1>5, <1>9, <2>1, <2>2
  <2>5. PICK q \in Q : \A r \in Q : rates[c][r] <= rates[c][q]
    BY <2>2, <2>3, <2>4, MaxIsGreatest
  <2>6. q \in watched \ Logged /\ rates[c][q] > 0 /\ Program[q] = Program[p]
    <3>1. rates[c][p] <= rates[c][q] /\ rates[c][p] \in Nat /\ rates[c][q] \in Nat /\ rates[c][p] > 0
      BY <1>5, <1>9, <2>1, <2>4, <2>5
    <3> QED BY <2>1, <3>1
  <2>7. F(q) \in found
    BY <1>2, <2>6
  <2>8. ASSUME NEW h \in found, stable_key(h.key) = stable_key(F(q).key) PROVE h.severity <= F(q).severity
    <3>1. CASE \E l \in Logged : h = L(l)
      <4>1. PICK l \in Logged : h = L(l)
        BY <3>1
      <4>2. Program[l] = Program[q]
        <5>1. [what |-> Program[l]] = [what |-> Program[q]]
          BY <1>6, <2>8, <4>1
        <5> QED BY <1>7, <5>1
      <4> QED BY <1>5, <2>6, <4>2, BaselineAssumption
    <3>2. ASSUME NEW r \in watched \ Logged, h = F(r) PROVE h.severity <= F(q).severity
      <4>1. Program[r] = Program[q]
        <5>1. [what |-> Program[r]] = [what |-> Program[q]]
          BY <1>6, <2>8, <3>2
        <5> QED BY <1>7, <5>1
      <4> QED BY <1>6, <2>1, <2>5, <2>6, <3>2, <4>1
    <3> QED BY <1>2, <3>1, <3>2
  <2>9. F(q) \in kept
    BY <1>3, <2>7, <2>8
  <2>10. PICK f \in rec.findings : f = [F(q) EXCEPT !.key = stable_key(F(q).key)]
    BY <1>4, <2>9
  <2>11. f.key = [what |-> Program[q]]
    BY <1>6, <2>10
  <2> QED BY <2>6, <2>10, <2>11
<1> QED BY <1>4, <1>5, <1>8, <1>9 DEF RecordOf

(* Of what may be compared with, the newest file is that of the last run. *)
LEMMA FoundIsLast ==
  ASSUME BaselineTypes, NEW c \in PCs, NEW f, Newest(c, f), NEW new, new.machine = Machine[c], new.time = day,
         \A g \in folder : g.rec.machine = Machine[c] => g.rec.time < day,
         NEW prev \in find_baseline(new)
  PROVE  prev = f.rec
<1>1. PICK g \in folder : prev = g.rec /\ usable(g.rec, new)
  BY DEF find_baseline
<1>2. /\ g.rec.machine = Machine[c] /\ new.time - g.rec.time <= MaxAge
      /\ g.rec.time \in Nat /\ f.rec.time \in Nat /\ day \in Nat /\ f \in folder
  BY <1>1 DEF usable, BaselineTypes, Newest
<1>3. g.rec.time < f.rec.time \/ g.rec = f.rec
  BY <1>1, <1>2 DEF Newest
<1>4. usable(f.rec, new)
  BY <1>1, <1>2, <1>3, BaselineAssumption DEF usable, Newest
<1>5. f.rec.time <= prev.time
  BY <1>2, <1>4 DEF find_baseline
<1> QED BY <1>1, <1>2, <1>3, <1>5

(* A run keeps the invariant: its file, if it got one, is the newest of its *)
(* PC, and what it says is so.                                              *)
LEMMA BaselineRun ==
  ASSUME BaselineInv, NEW c \in PCs, NEW length \in Lengths, NEW watched \in Watches, NEW pids,
         Run(c, length, watched, pids)
  PROVE  BaselineInv'
<1>1. PICK new, how, t :
        /\ new = record_of(c, length, watched, FindingsOf(c, length, watched, pids))
        /\ t = [rates |-> rates[c], watched |-> watched, length |-> length, whole |-> how = "whole"]
        /\ \A f \in folder : f.rec.machine = Machine[c] => f.rec.time < day
        /\ folder' = CASE how = "whole" -> folder \cup {[path |-> Cardinality(folder) + 1, rec |-> new]}
                       [] how = "cut"   -> folder \cup {[path |-> Cardinality(folder) + 1, rec |-> Cut(new)]}
                       [] OTHER         -> folder
        /\ last' = IF how = "not at all" THEN last ELSE [last EXCEPT ![c] = t]
        /\ IF find_baseline(new) = {} THEN spoken' = None
           ELSE \E prev \in find_baseline(new) :
             spoken' = [verdict |-> compare(prev, new), pc |-> c, then |-> last[c], now |-> t]
        /\ UNCHANGED <<day, rates, bad, changes>>
  BY DEF Run
<1>2. RecordOf(new, t) /\ new.machine = Machine[c] /\ new.time = day
  <2>1. t.rates = rates[c] /\ t.watched = watched /\ t.length = length /\ BaselineTypes
    BY <1>1 DEF BaselineInv
  <2>2. new = record_of(c, length, watched, FindingsOf(c, length, watched, pids))
    BY <1>1
  <2> QED BY <2>1, <2>2, SavedIs
<1>3. t \in Truths
  BY <1>1, BaselineAssumption DEF Truths, BaselineInv, BaselineTypes
<1>4. /\ day' = day /\ rates' = rates /\ DOMAIN last = PCs
      /\ \A d \in PCs : last'[d] = IF d = c /\ how # "not at all" THEN t ELSE last[d]
      /\ DOMAIN last' = PCs
  BY <1>1 DEF BaselineInv, BaselineTypes
<1>5. PICK rec : /\ rec.machine = Machine[c] /\ rec.time = day
                 /\ how = "whole" => rec = new
                 /\ folder' = folder \/ folder' = folder \cup {[path |-> Cardinality(folder) + 1, rec |-> rec]}
                 /\ how = "whole" => folder' = folder \cup {[path |-> Cardinality(folder) + 1, rec |-> rec]}
                 /\ how = "not at all" => folder' = folder
  <2>1. CASE how = "whole"
    BY <1>1, <1>2, <2>1
  <2>2. CASE how = "cut"
    <3>1. Cut(new).machine = Machine[c] /\ Cut(new).time = day
      <4>1. PICK s, n, fs : new = [machine |-> Machine[c], time |-> day, seconds |-> s, stalls |-> n, findings |-> fs]
        BY <1>1 DEF record_of
      <4>2. PICK a : a = [new EXCEPT !.seconds = 0]
        OBVIOUS
      <4>3. PICK b : b = [a EXCEPT !.stalls = 0]
        OBVIOUS
      <4>4. a = [machine |-> Machine[c], time |-> day, seconds |-> 0, stalls |-> n, findings |-> fs]
        BY <4>1, <4>2
      <4>5. b = [machine |-> Machine[c], time |-> day, seconds |-> 0, stalls |-> 0, findings |-> fs]
        BY <4>3, <4>4
      <4>6. Cut(new) = [b EXCEPT !.findings = {}]
        BY <4>2, <4>3 DEF Cut
      <4> QED BY <4>5, <4>6
    <3>2. folder' = folder \cup {[path |-> Cardinality(folder) + 1, rec |-> Cut(new)]}
      BY <1>1, <2>2
    <3> QED BY <2>2, <3>1, <3>2
  <2>3. CASE how \notin {"whole", "cut"}
    BY <1>1, <1>2, <2>3
  <2> QED BY <2>1, <2>2, <2>3
<1>6. PICK mine : mine = [path |-> Cardinality(folder) + 1, rec |-> rec]
  OBVIOUS
<1>7. mine.rec = rec /\ \A f \in folder' : f \in folder \/ f = mine
  BY <1>5, <1>6
<1>8. BaselineTypes'
  <2>1. day' \in Nat /\ rates' \in [PCs -> [Problems -> Nat]]
    BY <1>4 DEF BaselineInv, BaselineTypes
  <2>2. \A d \in PCs : last'[d] = None \/ last'[d] \in Truths
    BY <1>3, <1>4 DEF BaselineInv, BaselineTypes
  <2>3. \A f \in folder' : f.rec.time \in Nat
    BY <1>5, <1>7 DEF BaselineInv, BaselineTypes
  <2> QED BY <1>4, <2>1, <2>2, <2>3 DEF BaselineTypes
<1>9. LastIsSaved'
  <2> SUFFICES ASSUME NEW d \in PCs, HasNoTwin(d), last'[d] # None, last'[d].whole
               PROVE  \E f \in folder' : Newest(d, f)' /\ RecordOf(f.rec, last'[d])
    BY DEF LastIsSaved
  <2>1. CASE d = c /\ how # "not at all"
    <3>1. last'[d] = t /\ how = "whole"
      BY <1>1, <1>4, <2>1
    <3>2. mine \in folder' /\ mine.rec = new
      BY <1>5, <1>6, <1>7, <3>1
    <3>3. \A g \in folder' : g.rec.machine = Machine[c] => g.rec.time < new.time \/ g.rec = new
      BY <1>1, <1>2, <1>7, <3>2
    <3>4. Newest(d, mine)'
      BY <1>2, <2>1, <3>2, <3>3 DEF Newest
    <3> QED BY <1>2, <3>1, <3>2, <3>4
  <2>2. CASE ~(d = c /\ how # "not at all")
    <3>1. last'[d] = last[d]
      BY <1>4, <2>2
    <3>2. PICK f \in folder : Newest(d, f) /\ RecordOf(f.rec, last[d])
      BY <3>1 DEF BaselineInv, LastIsSaved
    <3>3. f \in folder'
      BY <1>5
    <3>4. ASSUME NEW g \in folder', g.rec.machine = Machine[d] PROVE g.rec.time < f.rec.time \/ g.rec = f.rec
      <4>1. g \in folder
        <5> SUFFICES ASSUME g \notin folder PROVE FALSE
          OBVIOUS
        <5>1. g.rec.machine = Machine[c] /\ folder' # folder
          BY <1>5, <1>7
        <5>2. d # c
          BY <1>5, <2>2, <5>1
        <5> QED BY <3>4, <5>1, <5>2 DEF HasNoTwin
      <4> QED BY <3>2, <3>4, <4>1 DEF Newest
    <3>5. Newest(d, f)'
      BY <3>2, <3>3, <3>4 DEF Newest
    <3> QED BY <3>1, <3>2, <3>3, <3>5
  <2> QED BY <2>1, <2>2
<1>10. ChangeIsReal'
  <2> SUFFICES ASSUME /\ spoken' # None /\ spoken'.then # None /\ HasNoTwin(spoken'.pc)
                      /\ spoken'.then.whole /\ spoken'.then.watched = spoken'.now.watched
                      /\ \/ spoken'.then.length = spoken'.now.length
                         \/ Apart(spoken'.then.length, spoken'.now.length) * 100
                              > SameLength * Longer(spoken'.then.length, spoken'.now.length)
               PROVE  /\ spoken'.verdict \in {"better", "mixed"} => Fell'
                      /\ spoken'.verdict \in {"worse", "mixed"} => Rose'
    BY DEF ChangeIsReal
  <2>1. PICK prev \in find_baseline(new) : spoken' = [verdict |-> compare(prev, new), pc |-> c, then |-> last[c], now |-> t]
    BY <1>1
  <2>2. PICK u : u = last[c] /\ u \in Truths /\ u.whole
    <3>1. last[c] # None /\ last[c].whole
      BY <2>1
    <3> QED BY <3>1 DEF BaselineInv, BaselineTypes
  <2>3. /\ spoken'.verdict = compare(prev, new) /\ spoken'.pc = c /\ spoken'.then = u /\ spoken'.now = t
    BY <2>1, <2>2
  <2>4. PICK f \in folder : Newest(c, f) /\ RecordOf(f.rec, u)
    BY <2>2, <2>3 DEF BaselineInv, LastIsSaved
  <2>5. prev = f.rec
    BY <1>1, <1>2, <2>4, FoundIsLast DEF BaselineInv
  <2>6. /\ compare(prev, new) \in {"better", "mixed"} => Rarer(u, t)
        /\ compare(prev, new) \in {"worse", "mixed"} => Rarer(t, u)
    BY <1>2, <1>3, <2>2, <2>3, <2>4, <2>5, ComparedRightly
  <2>7. (Rarer(u, t) => Fell') /\ (Rarer(t, u) => Rose')
    <3>1. \A p \in Problems \ Logged : t.rates[p] \in Nat /\ u.rates[p] \in Nat
      BY <1>3, <2>2 DEF Truths
    <3> QED BY <2>3, <3>1 DEF Rarer, Fell, Rose
  <2> QED BY <2>3, <2>6, <2>7
<1> QED BY <1>8, <1>9, <1>10 DEF BaselineInv

LEMMA BaselineStays ==
  ASSUME BaselineInv, rates' \in [PCs -> [Problems -> Nat]], day' \in Nat, UNCHANGED <<folder, last, spoken>>
  PROVE  BaselineInv'
<1>1. BaselineTypes'
  BY DEF BaselineInv, BaselineTypes
<1>2. LastIsSaved'
  BY DEF BaselineInv, LastIsSaved, Newest
<1>3. ChangeIsReal'
  BY DEF BaselineInv, ChangeIsReal, Fell, Rose
<1> QED BY <1>1, <1>2, <1>3 DEF BaselineInv

(* The inductive invariant holds: whatever is whole and newest of a PC with *)
(* no twin is what its last run really was (find_baseline, attach).         *)
THEOREM BaselineInvariant == BaselineSpec => []BaselineInv
<1>1. BaselineInit => BaselineInv
  <2> SUFFICES ASSUME BaselineInit PROVE BaselineInv
    OBVIOUS
  <2>1. BaselineTypes
    BY BaselineAssumption DEF BaselineInit, BaselineTypes
  <2>2. LastIsSaved /\ ChangeIsReal
    BY DEF BaselineInit, LastIsSaved, ChangeIsReal
  <2> QED BY <2>1, <2>2 DEF BaselineInv
<1>2. BaselineInv /\ [BaselineNext]_baselineVars => BaselineInv'
  <2> SUFFICES ASSUME BaselineInv, [BaselineNext]_baselineVars PROVE BaselineInv'
    OBVIOUS
  <2>1. rates \in [PCs -> [Problems -> Nat]] /\ day \in Nat
    BY DEF BaselineInv, BaselineTypes
  <2>2. CASE DayPasses
    BY <2>1, <2>2, BaselineStays DEF DayPasses
  <2>3. ASSUME NEW c \in PCs, NEW p \in Problems, NEW r \in 0 .. MaxRate, Turns(c, p, r) PROVE BaselineInv'
    <3>1. rates' = [rates EXCEPT ![c][p] = r] /\ UNCHANGED <<day, folder, last, spoken>> /\ r \in Nat
      BY <2>3, BaselineAssumption DEF Turns
    <3>2. rates' \in [PCs -> [Problems -> Nat]]
      BY <2>1, <3>1
    <3> QED BY <2>1, <3>1, <3>2, BaselineStays
  <2>4. ASSUME NEW c \in PCs, NEW length \in Lengths, NEW watched \in Watches, NEW pids \in {1, 2},
               Run(c, length, watched, pids)
        PROVE  BaselineInv'
    BY <2>4, BaselineRun
  <2>5. CASE UNCHANGED baselineVars
    BY <2>1, <2>5, BaselineStays DEF baselineVars
  <2> QED BY <2>2, <2>3, <2>4, <2>5 DEF BaselineNext
<1> QED BY <1>1, <1>2, PTL DEF BaselineSpec

(* Nothing is called better, worse or mixed of a PC with no twin unless     *)
(* some problem really became rarer or more frequent, for every number of   *)
(* problems, lengths, PCs, process IDs and lost files.                      *)
THEOREM ChangeReal == BaselineSpec => []ChangeIsReal
<1>1. BaselineInv => ChangeIsReal
  BY DEF BaselineInv
<1> QED BY <1>1, BaselineInvariant, PTL
=============================================================================
