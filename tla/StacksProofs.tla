---------------------------- MODULE StacksProofs ----------------------------
(***************************************************************************)
(* What Stacks keeps true for every number of processors, threads and      *)
(* IRPs, for every cap and keep time, and whatever stacks come late or not *)
(* at all: a stack is reported with the request or the wait it was walked  *)
(* for, and a wait that is said to be covered has its stack.               *)
(***************************************************************************)
EXTENDS Stacks, Lemmas

Pending ==
  [ts : Int, tids : SUBSET StackTids, kind : StackKinds, want : BOOLEAN,
   key : StackTids \cup Irps, since : Int]

(* The records of a ring. *)
RequestRec == [ts : Int, irp : Irps, what : {"NoInit", "NoStack", "Found"}, stack : Int, from : Int]
WalkRec    == [ts : Int, tid : StackTids \cup Irps, since : Int, stack : Int]
RecOf(k)   == IF k = "DiskInit" THEN RequestRec ELSE WalkRec

Wait == [tid : StackTids, since : Int, ts : Int, worth : BOOLEAN, walked : BOOLEAN]

(* The types the arguments rest on. *)
ClockTypes == stack_ts \in Nat /\ pruned_at \in Nat /\ pruned_at <= stack_ts

RingTypes ==
  /\ DOMAIN stack_log = StackKinds /\ \A k \in StackKinds : stack_log[k] \in Seq(RecOf(k))
  /\ stack_head \in [StackKinds -> Nat] /\ \A k \in StackKinds : stack_head[k] <= Len(stack_log[k])
  /\ lost_until \in [StackKinds -> Int]

WorldTypes ==
  /\ DOMAIN io_init \subseteq Irps /\ issued \in [Irps -> Int]
  /\ DOMAIN off_at \subseteq StackTids /\ asleep \in [StackTids -> [since : Int, worth : BOOLEAN]]
  /\ waits \subseteq Wait

StackTypes == ClockTypes /\ RingTypes /\ WorldTypes

(* What is known about an outstanding request is about it. *)
OutIsOwn ==
  \A irp \in DOMAIN io_init :
    /\ io_init[irp] \in [ts : Int, stack : Int]
    /\ io_init[irp].ts = issued[irp] /\ io_init[irp].stack \in {Never, issued[irp]}

(* Every slow request ever filed with a stack was filed with its own. *)
FoundIsOwn ==
  \A i \in 1 .. Len(stack_log["DiskInit"]) :
    stack_log["DiskInit"][i].what = "Found" => stack_log["DiskInit"][i].stack = stack_log["DiskInit"][i].from

(* The threads taken to be waiting are, since then; those left out have    *)
(* been waiting for longer than switches are kept.                         *)
OffIsAsleep ==
  \A t \in StackTids :
    /\ t \in DOMAIN off_at => asleep[t].since # Never /\ off_at[t].since = asleep[t].since /\ off_at[t].worth = asleep[t].worth
    /\ asleep[t].since # Never /\ asleep[t].since >= pruned_at - InKeep => t \in DOMAIN off_at

(* A thread's waits follow one another. *)
WaitsInTurn ==
  /\ \A t \in StackTids : asleep[t].since <= stack_ts
  /\ \A w \in waits :
       /\ w.since < w.ts /\ w.ts <= stack_ts
       /\ asleep[w.tid].since # Never => w.ts <= asleep[w.tid].since
  /\ \A v, w \in waits : v.tid = w.tid /\ v.since = w.since => v.ts = w.ts

(* A wait whose stack should be kept and has not left the window of time. *)
Due(w) == w.worth /\ w.ts - w.since >= KeepWait /\ w.since >= pruned_at - InKeep

(* An event that may still get a stack knows which wait it ended. *)
PendsOwn(p) ==
  /\ p.ts <= stack_ts
  /\ p.kind = "CSwitch" /\ p.want => \E w \in waits : w.tid = p.key /\ w.since = p.since /\ w.ts = p.ts
  /\ \A w \in waits : w.ts = p.ts =>
       /\ p.kind = "CSwitch"
       /\ w.tid = p.key /\ Due(w) => p.want /\ p.since = w.since

OwnPending == {p \in Pending : PendsOwn(p)}

PendingIsOwn == per_cpu \in [Cpus -> Seq(OwnPending)]

(* A switch-in stack ever filed is that of a wait; a fault's is of none. *)
SwitchInsAreWaits ==
  \A i \in 1 .. Len(stack_log["CSwitch"]) :
    /\ stack_log["CSwitch"][i].ts = stack_log["CSwitch"][i].stack
    /\ \E w \in waits : /\ w.tid = stack_log["CSwitch"][i].tid /\ w.since = stack_log["CSwitch"][i].since
                        /\ w.ts = stack_log["CSwitch"][i].stack

FaultsAreNoWaits ==
  \A i \in 1 .. Len(stack_log["Fault"]) :
    /\ stack_log["Fault"][i].ts <= stack_ts
    /\ \A w \in waits : w.ts # stack_log["Fault"][i].ts

(* The stack of a wait that came and was not lost is in its ring. *)
WalkedAreHeld ==
  \A w \in waits :
    w.walked /\ Due(w) /\ lost_until["CSwitch"] < w.since =>
      \E i \in stack_head["CSwitch"] + 1 .. Len(stack_log["CSwitch"]) :
        stack_log["CSwitch"][i] = [ts |-> w.ts, tid |-> w.tid, since |-> w.since, stack |-> w.ts]

StacksInv ==
  /\ StackTypes
  /\ OutIsOwn /\ FoundIsOwn
  /\ OffIsAsleep /\ WaitsInTurn /\ PendingIsOwn
  /\ SwitchInsAreWaits /\ FaultsAreNoWaits /\ WalkedAreHeld

-----------------------------------------------------------------------------
(* Records have a time. *)
LEMMA RecordsHaveTime == \A k \in StackKinds : \A r \in RecOf(k) : r.ts \in Int
  BY DEF RecOf, RequestRec, WalkRec

(* What the pruning an event brings about leaves of the rings: they lose   *)
(* records from the front, each older than the ring is kept.               *)
LEMMA PrunedHeads ==
  ASSUME StackTypes, NEW ts \in Nat, NEW k \in StackKinds
  PROVE  /\ stack_prune(ts).head \in [StackKinds -> Nat]
         /\ stack_head[k] <= stack_prune(ts).head[k] /\ stack_prune(ts).head[k] <= Len(stack_log[k])
         /\ \A i \in stack_head[k] + 1 .. stack_prune(ts).head[k] :
              StackPruneDue(ts) /\ stack_log[k][i].ts < ts - StackKeep(k)
<1>1. \A j \in StackKinds : /\ stack_log[j] \in Seq(RecOf(j)) /\ Len(stack_log[j]) \in Nat
                            /\ stack_head[j] \in Nat /\ stack_head[j] <= Len(stack_log[j])
  BY LenProperties DEF StackTypes, RingTypes
<1>2. CASE ~StackPruneDue(ts)
  BY <1>1, <1>2 DEF stack_prune, StackTypes, RingTypes
<1>3. CASE StackPruneDue(ts)
  <2>1. stack_prune(ts).head = [j \in StackKinds |-> PruneOne(stack_log[j], stack_head[j], ts - StackKeep(j))]
    BY <1>3 DEF stack_prune
  <2>2. ASSUME NEW j \in StackKinds
        PROVE  /\ PruneOne(stack_log[j], stack_head[j], ts - StackKeep(j)) \in stack_head[j] .. Len(stack_log[j])
               /\ DropsTo(stack_log[j], stack_head[j], ts - StackKeep(j), PruneOne(stack_log[j], stack_head[j], ts - StackKeep(j)))
    <3>1. ts - StackKeep(j) \in Int
      BY StacksAssumption DEF StackKeep
    <3> QED BY <3>1, <1>1, RecordsHaveTime, PruneOneSpec
  <2> QED BY <1>1, <1>3, <2>1, <2>2 DEF DropsTo
<1> QED BY <1>2, <1>3

(* ... and of the two maps: some entries, as they were; of the waiting     *)
(* threads those that have not waited for longer than switches are kept.   *)
LEMMA PrunedMaps ==
  ASSUME StackTypes, NEW ts \in Nat
  PROVE  /\ DOMAIN stack_prune(ts).init \subseteq DOMAIN io_init
         /\ \A x \in DOMAIN stack_prune(ts).init : stack_prune(ts).init[x] = io_init[x]
         /\ DOMAIN stack_prune(ts).off \subseteq DOMAIN off_at
         /\ \A x \in DOMAIN stack_prune(ts).off : stack_prune(ts).off[x] = off_at[x]
         /\ \A x \in DOMAIN off_at \ DOMAIN stack_prune(ts).off :
              StackPruneDue(ts) /\ ~(off_at[x].since >= ts - InKeep)
  BY DEF stack_prune, Since, Restrict

(* Time and the mark of the last pruning only go on. *)
LEMMA EventClock ==
  ASSUME ClockTypes, NEW ts \in Nat, ts = stack_ts + 1, StackEvent(ts)
  PROVE  /\ ClockTypes' /\ stack_ts' = ts /\ stack_ts < ts
         /\ pruned_at <= pruned_at'
         /\ StackPruneDue(ts) => pruned_at' = ts
  BY DEF ClockTypes, StackEvent

(* The world only ever adds a wait that ends now and has no stack yet. *)
NewWaits(ts) ==
  /\ waits \subseteq waits' /\ waits' \subseteq Wait
  /\ \A w \in waits' \ waits : w.ts = ts /\ ~w.walked

(* An event that pushes nothing on the rings of switch-ins and faults      *)
(* leaves what they hold true.                                             *)
LEMMA QuietRings ==
  ASSUME StacksInv, NEW ts \in Nat, ts = stack_ts + 1, StackEvent(ts), NewWaits(ts),
         \A k \in {"CSwitch", "Fault"} :
           /\ stack_log'[k] = stack_log[k] /\ lost_until'[k] = lost_until[k]
           /\ stack_head'[k] = stack_prune(ts).head[k]
  PROVE  SwitchInsAreWaits' /\ FaultsAreNoWaits' /\ WalkedAreHeld'
<1>1. /\ StackTypes /\ SwitchInsAreWaits /\ FaultsAreNoWaits /\ WalkedAreHeld /\ WaitsInTurn
      /\ \A k \in {"CSwitch", "Fault"} : stack_log'[k] = stack_log[k] /\ Len(stack_log[k]) \in Nat
  BY LenProperties DEF StacksInv, StackTypes, RingTypes, StackKinds
<1>2. /\ stack_ts' = ts /\ stack_ts < ts /\ stack_ts \in Nat
      /\ pruned_at <= pruned_at' /\ pruned_at \in Nat /\ pruned_at' \in Nat
      /\ StackPruneDue(ts) => pruned_at' = ts
  BY <1>1, EventClock DEF StackTypes, ClockTypes
<1>3. SwitchInsAreWaits'
  BY <1>1 DEF SwitchInsAreWaits, NewWaits
<1>4. FaultsAreNoWaits'
  <2> SUFFICES ASSUME NEW i \in 1 .. Len(stack_log["Fault"])
               PROVE  /\ stack_log["Fault"][i].ts <= stack_ts'
                      /\ \A w \in waits' : w.ts # stack_log["Fault"][i].ts
    BY <1>1 DEF FaultsAreNoWaits
  <2>1. /\ stack_log["Fault"][i].ts <= stack_ts
        /\ \A w \in waits : w.ts # stack_log["Fault"][i].ts
    BY <1>1 DEF FaultsAreNoWaits
  <2>2. stack_log["Fault"][i].ts \in Int
    BY <1>1, RecordsHaveTime, ElementOfSeq DEF StackTypes, RingTypes, StackKinds
  <2>3. ASSUME NEW w \in waits' PROVE w.ts # stack_log["Fault"][i].ts
    BY <1>2, <2>1, <2>2 DEF NewWaits
  <2> QED BY <1>2, <2>1, <2>2, <2>3
<1>5. WalkedAreHeld'
  <2> SUFFICES ASSUME NEW w \in waits', w.walked, Due(w)', lost_until["CSwitch"] < w.since
               PROVE  \E i \in stack_head'["CSwitch"] + 1 .. Len(stack_log["CSwitch"]) :
                        stack_log["CSwitch"][i] = [ts |-> w.ts, tid |-> w.tid, since |-> w.since, stack |-> w.ts]
    BY <1>1 DEF WalkedAreHeld
  <2>1. w \in waits /\ w \in Wait
    BY DEF NewWaits
  <2>2. /\ InKeep \in Nat /\ w.since \in Int /\ w.ts \in Int /\ w.since < w.ts
        /\ w.since >= pruned_at' - InKeep /\ w.worth /\ w.ts - w.since >= KeepWait
    BY <1>1, <2>1, StacksAssumption DEF Due, Wait, WaitsInTurn
  <2>3. Due(w)
    BY <1>2, <2>2 DEF Due
  <2>4. PICK i \in stack_head["CSwitch"] + 1 .. Len(stack_log["CSwitch"]) :
          stack_log["CSwitch"][i] = [ts |-> w.ts, tid |-> w.tid, since |-> w.since, stack |-> w.ts]
    BY <1>1, <2>1, <2>3 DEF WalkedAreHeld
  <2>5. /\ stack_head["CSwitch"] \in Nat /\ stack_prune(ts).head["CSwitch"] \in Nat
        /\ \A j \in stack_head["CSwitch"] + 1 .. stack_prune(ts).head["CSwitch"] :
             StackPruneDue(ts) /\ stack_log["CSwitch"][j].ts < ts - StackKeep("CSwitch")
    BY <1>1, PrunedHeads DEF StackKinds, StackTypes, RingTypes
  <2>6. ~(i <= stack_prune(ts).head["CSwitch"])
    <3>1. SUFFICES ASSUME i <= stack_prune(ts).head["CSwitch"] PROVE FALSE
      OBVIOUS
    <3>2. i \in stack_head["CSwitch"] + 1 .. stack_prune(ts).head["CSwitch"]
      BY <3>1, <2>4, <2>5
    <3>3. StackPruneDue(ts) /\ w.ts < ts - InKeep
      BY <3>2, <2>4, <2>5 DEF StackKeep
    <3> QED BY <3>3, <1>2, <2>2
  <2> QED BY <1>1, <2>4, <2>5, <2>6
<1> QED BY <1>3, <1>4, <1>5

(* An event that may get a stack takes its place behind the others; what   *)
(* the others know of their waits stays true.                              *)
LEMMA PendStep ==
  ASSUME StacksInv, NEW ts \in Nat, ts = stack_ts + 1, StackEvent(ts), NewWaits(ts),
         NEW cpu \in Cpus, NEW p \in Pending, PendsOwn(p)',
         per_cpu' = per_cpu \/ per_cpu' = pend(cpu, p)
  PROVE  PendingIsOwn'
<1>1. StackTypes /\ per_cpu \in [Cpus -> Seq(OwnPending)] /\ WaitsInTurn
  BY DEF StacksInv, PendingIsOwn
<1>2. /\ stack_ts' = ts /\ stack_ts < ts /\ stack_ts \in Nat /\ InKeep \in Nat
      /\ pruned_at <= pruned_at' /\ pruned_at \in Nat /\ pruned_at' \in Nat
  BY <1>1, EventClock, StacksAssumption DEF StackTypes, ClockTypes
<1>3. ASSUME NEW q \in OwnPending PROVE q \in OwnPending'
  <2>1. q \in Pending /\ q.ts \in Int /\ q.ts <= stack_ts
    BY DEF OwnPending, Pending, PendsOwn
  <2>2. \A w \in waits' : w.ts = q.ts => w \in waits
    BY <1>2, <2>1 DEF NewWaits
  <2>3. \A w \in waits' : Due(w)' => Due(w)
    BY <1>2 DEF Due, NewWaits, Wait
  <2>4. PendsOwn(q)'
    BY <1>2, <2>1, <2>2, <2>3 DEF PendsOwn, NewWaits, OwnPending
  <2> QED BY <2>1, <2>4 DEF OwnPending
<1>4. p \in OwnPending'
  BY DEF OwnPending
<1>5. per_cpu \in [Cpus -> Seq(OwnPending')]
  <2>1. ASSUME NEW c \in Cpus PROVE per_cpu[c] \in Seq(OwnPending')
    BY <1>1, <1>3, SeqMonotonic
  <2> QED BY <1>1, <2>1
<1>6. CASE per_cpu' = per_cpu
  BY <1>5, <1>6 DEF PendingIsOwn
<1>7. CASE per_cpu' = pend(cpu, p)
  <2> DEFINE s == per_cpu[cpu]
             new == IF Len(s) >= Slots THEN Append(Tail(s), p) ELSE Append(s, p)
  <2>1. per_cpu' = [per_cpu EXCEPT ![cpu] = new]
    BY <1>7 DEF pend
  <2>2. new \in Seq(OwnPending')
    <3>1. s \in Seq(OwnPending') /\ Len(s) \in Nat
      BY <1>5, LenProperties
    <3>2. CASE Len(s) >= Slots
      <4>1. s # <<>>
        BY <3>1, <3>2, StacksAssumption
      <4>2. Tail(s) \in Seq(OwnPending')
        BY <3>1, <4>1, HeadTailProperties
      <4> QED BY <4>2, <3>2, <1>4, AppendProperties
    <3>3. CASE ~(Len(s) >= Slots)
      BY <3>1, <3>3, <1>4, AppendProperties
    <3> QED BY <3>2, <3>3
  <2> HIDE DEF new
  <2> QED BY <1>5, <2>1, <2>2 DEF PendingIsOwn
<1> QED BY <1>6, <1>7

(* An event that lets no thread go or come leaves the waiting as it was,   *)
(* but for what the pruning forgets.                                       *)
LEMMA NobodyMoves ==
  ASSUME StacksInv, NEW ts \in Nat, ts = stack_ts + 1, StackEvent(ts),
         off_at' = stack_prune(ts).off, UNCHANGED <<asleep, waits>>
  PROVE  OffIsAsleep' /\ WaitsInTurn' /\ NewWaits(ts) /\ DOMAIN off_at' \subseteq StackTids
<1>1. StackTypes /\ OffIsAsleep /\ WaitsInTurn /\ asleep \in [StackTids -> [since : Int, worth : BOOLEAN]]
  BY DEF StacksInv, StackTypes, WorldTypes
<1>2. /\ stack_ts' = ts /\ stack_ts < ts /\ stack_ts \in Nat /\ InKeep \in Nat
      /\ pruned_at <= pruned_at' /\ pruned_at \in Nat /\ pruned_at' \in Nat
      /\ StackPruneDue(ts) => pruned_at' = ts
  BY <1>1, EventClock, StacksAssumption DEF StackTypes, ClockTypes
<1>3. ASSUME NEW t \in StackTids, asleep[t].since # Never, asleep[t].since >= pruned_at' - InKeep
      PROVE  t \in DOMAIN off_at'
  <2>1. asleep[t].since \in Int
    BY <1>1
  <2>2. t \in DOMAIN off_at /\ off_at[t].since = asleep[t].since
    BY <1>1, <1>2, <1>3, <2>1 DEF OffIsAsleep
  <2> QED BY <1>1, <1>2, <1>3, <2>1, <2>2, PrunedMaps
<1>4. OffIsAsleep'
  BY <1>1, <1>3, PrunedMaps DEF OffIsAsleep
<1>5. WaitsInTurn'
  <2>1. \A t \in StackTids : asleep[t].since \in Int
    BY <1>1
  <2>2. \A w \in waits : w.ts \in Int
    BY <1>1 DEF StackTypes, WorldTypes, Wait
  <2> QED BY <1>1, <1>2, <2>1, <2>2 DEF WaitsInTurn
<1>6. DOMAIN off_at' \subseteq StackTids
  BY <1>1, PrunedMaps DEF StackTypes, WorldTypes
<1> QED BY <1>1, <1>4, <1>5, <1>6 DEF NewWaits, StackTypes, WorldTypes

(* An event that starts or ends no request leaves what is known of the     *)
(* outstanding ones, but for what the pruning forgets.                     *)
LEMMA NoRequest ==
  ASSUME StacksInv, NEW ts \in Nat, io_init' = stack_prune(ts).init, UNCHANGED issued
  PROVE  OutIsOwn' /\ DOMAIN io_init' \subseteq Irps
  BY PrunedMaps DEF StacksInv, OutIsOwn, StackTypes, WorldTypes

(* An event that pushes on no ring leaves their types. *)
LEMMA NothingPushed ==
  ASSUME StacksInv, NEW ts \in Nat, stack_head' = stack_prune(ts).head, UNCHANGED <<stack_log, lost_until>>
  PROVE  RingTypes' /\ FoundIsOwn'
<1>1. StackTypes /\ FoundIsOwn
  BY DEF StacksInv
<1>2. stack_head' \in [StackKinds -> Nat] /\ \A k \in StackKinds : stack_head'[k] <= Len(stack_log[k])
  <2>1. "CSwitch" \in StackKinds
    BY DEF StackKinds
  <2> QED BY <1>1, <2>1, PrunedHeads
<1> QED BY <1>1, <1>2 DEF StackTypes, RingTypes, FoundIsOwn

(* on_fault, on_ready and every event that is none of Stacks' own.         *)
LEMMA CalmStep ==
  ASSUME StacksInv, NEW ts \in Nat, ts = stack_ts + 1, StackEvent(ts),
         NEW cpu \in Cpus, NEW p \in Pending, per_cpu' = per_cpu \/ per_cpu' = pend(cpu, p),
         p.ts = ts, p.kind # "CSwitch",
         io_init' = stack_prune(ts).init, off_at' = stack_prune(ts).off, stack_head' = stack_prune(ts).head,
         UNCHANGED <<stack_log, lost_until, world>>
  PROVE  StacksInv'
<1>1. OffIsAsleep' /\ WaitsInTurn' /\ NewWaits(ts) /\ DOMAIN off_at' \subseteq StackTids
  BY NobodyMoves DEF world
<1>2. OutIsOwn' /\ DOMAIN io_init' \subseteq Irps
  BY NoRequest DEF world
<1>3. RingTypes' /\ FoundIsOwn'
  BY NothingPushed
<1>4. SwitchInsAreWaits' /\ FaultsAreNoWaits' /\ WalkedAreHeld'
  BY <1>1, QuietRings
<1>5. ClockTypes' /\ stack_ts' = ts /\ stack_ts < ts /\ stack_ts \in Nat
  BY EventClock DEF StacksInv, StackTypes, ClockTypes
<1>6. PendsOwn(p)'
  <2>1. \A w \in waits' : w.ts # p.ts
    <3>1. \A w \in waits : w.ts \in Int /\ w.ts <= stack_ts
      BY DEF StacksInv, StackTypes, WorldTypes, Wait, WaitsInTurn
    <3> QED BY <3>1, <1>5 DEF world
  <2> QED BY <2>1, <1>5 DEF PendsOwn
<1>7. PendingIsOwn'
  BY <1>1, <1>6, PendStep
<1>8. WorldTypes'
  BY <1>1, <1>2 DEF StacksInv, StackTypes, WorldTypes, world
<1> QED BY <1>1, <1>2, <1>3, <1>4, <1>5, <1>7, <1>8 DEF StacksInv, StackTypes

(* A hard fault ends. *)
LEMMA FaultStep ==
  ASSUME StacksInv, NEW ts \in Nat, ts = stack_ts + 1, NEW cpu \in Cpus, NEW start \in Int,
         NEW tid \in StackTids, on_fault(ts, cpu, start, tid)
  PROVE  StacksInv'
<1> DEFINE p == Wants(ts, {tid}, "Fault", ts - start >= KeepWait, tid, start)
<1>1. p \in Pending /\ p.ts = ts /\ p.kind # "CSwitch"
  BY DEF Wants, Pending, StackKinds
<1>2. per_cpu' = pend(cpu, p) /\ StackEvent(ts)
  BY DEF on_fault, Pends
<1> HIDE DEF p
<1>3. /\ io_init' = stack_prune(ts).init /\ off_at' = stack_prune(ts).off /\ stack_head' = stack_prune(ts).head
      /\ UNCHANGED <<stack_log, lost_until, world>>
  BY DEF on_fault
<1> QED BY <1>1, <1>2, <1>3, CalmStep

(* A thread readies another. *)
LEMMA ReadyStep ==
  ASSUME StacksInv, NEW ts \in Nat, ts = stack_ts + 1, NEW cpu \in Cpus,
         NEW by \in StackTids, NEW tid \in StackTids, on_ready(ts, cpu, by, tid)
  PROVE  StacksInv'
<1> DEFINE b == stack_prune(ts)
           want == tid \in DOMAIN b.off /\ ts - b.off[tid].since >= KeepWait /\ b.off[tid].worth
           p == Wants(ts, {by, tid}, "Ready", want, tid, IF want THEN b.off[tid].since ELSE Never)
<1>1. want \in BOOLEAN /\ (want => b.off[tid].since \in Int)
  <2>1. \A t \in DOMAIN b.off : b.off[t] = off_at[t] /\ t \in DOMAIN off_at /\ t \in StackTids
    BY PrunedMaps DEF StacksInv, StackTypes, WorldTypes
  <2>2. \A t \in DOMAIN off_at : off_at[t].since = asleep[t].since /\ off_at[t].worth = asleep[t].worth /\ asleep[t] \in [since : Int, worth : BOOLEAN]
    BY DEF StacksInv, StackTypes, WorldTypes, OffIsAsleep
  <2> HIDE DEF b
  <2>3. tid \in DOMAIN b.off => b.off[tid].since \in Int /\ b.off[tid].worth \in BOOLEAN
    BY <2>1, <2>2
  <2> QED BY <2>3
<1>2. per_cpu' = pend(cpu, p) /\ StackEvent(ts)
  BY DEF on_ready, Pends
<1>3. /\ io_init' = b.init /\ off_at' = b.off /\ stack_head' = b.head
      /\ UNCHANGED <<stack_log, lost_until, world>>
  BY DEF on_ready
<1>4. p \in Pending /\ p.ts = ts /\ p.kind # "CSwitch"
  <2> HIDE DEF want
  <2> QED BY <1>1 DEF Wants, Pending, StackKinds, Never
<1> HIDE DEF p
<1> QED BY <1>2, <1>3, <1>4, CalmStep

(* Any other event. *)
LEMMA OtherStep ==
  ASSUME StacksInv, NEW ts \in Nat, ts = stack_ts + 1, on_other(ts)
  PROVE  StacksInv'
<1>1. PICK cpu \in Cpus, tid \in StackTids : TRUE
  BY StacksAssumption
<1>2. PICK p \in Pending : p = Wants(ts, {tid}, "Fault", FALSE, tid, ts)
  <2>1. Wants(ts, {tid}, "Fault", FALSE, tid, ts) \in Pending
    BY DEF Wants, Pending, StackKinds
  <2> QED BY <2>1
<1>3. p.ts = ts /\ p.kind # "CSwitch"
  BY <1>2 DEF Wants
<1>4. /\ StackEvent(ts) /\ per_cpu' = per_cpu
      /\ io_init' = stack_prune(ts).init /\ off_at' = stack_prune(ts).off /\ stack_head' = stack_prune(ts).head
      /\ UNCHANGED <<stack_log, lost_until, world>>
  BY DEF on_other
<1> QED BY <1>3, <1>4, CalmStep

(* A switch: `old` may begin to wait, and whoever comes back has waited    *)
(* since it went.                                                          *)
LEMMA SwitchWaits ==
  ASSUME StacksInv, NEW ts \in Nat, ts = stack_ts + 1, NEW cpu \in Cpus,
         NEW old \in StackTids, NEW new \in StackTids, NEW sleeps \in BOOLEAN, NEW worth \in BOOLEAN,
         on_switch(ts, cpu, old, new, sleeps, worth)
  PROVE  /\ OffIsAsleep' /\ WaitsInTurn' /\ NewWaits(ts) /\ DOMAIN off_at' \subseteq StackTids
         /\ asleep' \in [StackTids -> [since : Int, worth : BOOLEAN]]
<1> DEFINE b == stack_prune(ts)
           w0 == [tid |-> new, since |-> asleep[new].since, ts |-> ts, worth |-> asleep[new].worth, walked |-> FALSE]
<1>1. /\ StackTypes /\ OffIsAsleep /\ WaitsInTurn /\ asleep \in [StackTids -> [since : Int, worth : BOOLEAN]]
      /\ \A w \in waits : w \in Wait /\ w.ts \in Int /\ w.since \in Int /\ w.tid \in StackTids
  BY DEF StacksInv, StackTypes, WorldTypes, Wait
<1>2. /\ old # new /\ asleep[old].since = Never /\ StackEvent(ts)
      /\ off_at' = IF sleeps THEN Put(Drop(b.off, new), old, [since |-> ts, worth |-> worth]) ELSE Drop(b.off, new)
      /\ asleep' = [asleep EXCEPT ![new] = Awake,
                                  ![old] = IF sleeps THEN [since |-> ts, worth |-> worth] ELSE @]
      /\ waits' = IF asleep[new].since = Never THEN waits ELSE waits \cup {w0}
  BY DEF on_switch, off_after
<1>3. /\ stack_ts' = ts /\ stack_ts < ts /\ stack_ts \in Nat /\ InKeep \in Nat
      /\ pruned_at <= pruned_at' /\ pruned_at \in Nat /\ pruned_at' \in Nat
      /\ StackPruneDue(ts) => pruned_at' = ts
  BY <1>1, <1>2, EventClock, StacksAssumption DEF StackTypes, ClockTypes
<1>4. /\ asleep'[new] = Awake
      /\ asleep'[old] = IF sleeps THEN [since |-> ts, worth |-> worth] ELSE asleep[old]
      /\ \A t \in StackTids \ {old, new} : asleep'[t] = asleep[t]
      /\ asleep' \in [StackTids -> [since : Int, worth : BOOLEAN]]
  <2> DEFINE x == IF sleeps THEN [since |-> ts, worth |-> worth] ELSE asleep[old]
  <2>1. Awake \in [since : Int, worth : BOOLEAN] /\ x \in [since : Int, worth : BOOLEAN]
    BY <1>1 DEF Awake, Never
  <2>2. asleep' = [asleep EXCEPT ![new] = Awake, ![old] = x]
    BY <1>1, <1>2
  <2> HIDE DEF x
  <2>3. /\ asleep'[new] = Awake /\ asleep'[old] = x
        /\ \A t \in StackTids \ {old, new} : asleep'[t] = asleep[t]
        /\ asleep' \in [StackTids -> [since : Int, worth : BOOLEAN]]
    BY <1>1, <1>2, <2>1, <2>2
  <2> QED BY <2>3 DEF x
<1>5. /\ DOMAIN off_at' = IF sleeps THEN (DOMAIN b.off \ {new}) \cup {old} ELSE DOMAIN b.off \ {new}
      /\ \A t \in DOMAIN off_at' : off_at'[t] = IF sleeps /\ t = old THEN [since |-> ts, worth |-> worth] ELSE b.off[t]
  <2> HIDE DEF b
  <2> QED BY <1>2 DEF Put, Drop, Restrict
<1>6. /\ DOMAIN b.off \subseteq DOMAIN off_at /\ old \notin DOMAIN off_at
      /\ \A t \in DOMAIN b.off : b.off[t] = off_at[t]
      /\ \A t \in DOMAIN off_at \ DOMAIN b.off : StackPruneDue(ts) /\ ~(off_at[t].since >= ts - InKeep)
      /\ DOMAIN off_at \subseteq StackTids
  BY <1>1, <1>2, PrunedMaps DEF OffIsAsleep, StackTypes, WorldTypes
<1> HIDE DEF b
<1>7. OffIsAsleep'
  <2> SUFFICES ASSUME NEW t \in StackTids
               PROVE  /\ t \in DOMAIN off_at' => /\ asleep'[t].since # Never
                                                 /\ off_at'[t].since = asleep'[t].since
                                                 /\ off_at'[t].worth = asleep'[t].worth
                      /\ asleep'[t].since # Never /\ asleep'[t].since >= pruned_at' - InKeep => t \in DOMAIN off_at'
    BY DEF OffIsAsleep
  <2>1. CASE t = new
    BY <1>2, <1>4, <1>5, <2>1 DEF Awake, Never
  <2>2. CASE t = old
    BY <1>2, <1>3, <1>4, <1>5, <1>6, <2>2 DEF Never
  <2>3. CASE t # new /\ t # old
    <3>1. asleep'[t] = asleep[t] /\ asleep[t].since \in Int
      BY <1>1, <1>4, <2>3
    <3>2. /\ t \in DOMAIN off_at' <=> t \in DOMAIN b.off
          /\ t \in DOMAIN off_at' => off_at'[t] = b.off[t]
      BY <1>5, <2>3
    <3>3. t \in DOMAIN off_at => asleep[t].since # Never /\ off_at[t].since = asleep[t].since /\ off_at[t].worth = asleep[t].worth
      BY <1>1 DEF OffIsAsleep
    <3>4. asleep[t].since # Never /\ asleep[t].since >= pruned_at - InKeep => t \in DOMAIN off_at
      BY <1>1 DEF OffIsAsleep
    <3>5. ASSUME asleep[t].since # Never, asleep[t].since >= pruned_at' - InKeep PROVE t \in DOMAIN b.off
      BY <3>1, <3>3, <3>4, <3>5, <1>3, <1>6
    <3> QED BY <3>1, <3>2, <3>3, <3>5, <1>6
  <2> QED BY <2>1, <2>2, <2>3
<1>8. w0.tid = new /\ w0.since = asleep[new].since /\ w0.ts = ts /\ w0 \in Wait /\ ~w0.walked
  BY <1>1 DEF Wait
<1> HIDE DEF w0
<1>9. NewWaits(ts)
  BY <1>1, <1>2, <1>8 DEF NewWaits
<1>10. WaitsInTurn'
  <2>1. \A t \in StackTids : asleep'[t].since <= stack_ts'
    <3>1. \A t \in StackTids : asleep[t].since \in Int /\ asleep[t].since <= stack_ts
      BY <1>1 DEF WaitsInTurn
    <3> QED BY <3>1, <1>3, <1>4 DEF Awake, Never
  <2>2. \A t \in StackTids : asleep[t].since \in Int /\ asleep[t].since <= stack_ts
    BY <1>1 DEF WaitsInTurn
  <2>3. ASSUME NEW w \in waits'
        PROVE  /\ w.since < w.ts /\ w.ts <= stack_ts'
               /\ asleep'[w.tid].since # Never => w.ts <= asleep'[w.tid].since
    <3>1. CASE w \in waits
      <4>1. /\ w.since < w.ts /\ w.ts <= stack_ts
            /\ asleep[w.tid].since # Never => w.ts <= asleep[w.tid].since
        BY <1>1, <3>1 DEF WaitsInTurn
      <4> QED BY SMTT(30), <4>1, <3>1, <1>1, <1>3, <1>4, <2>2 DEF Awake
    <3>2. CASE w \notin waits
      <4>1. w = w0 /\ asleep[new].since # Never
        BY <1>2, <3>2
      <4> QED BY <4>1, <1>3, <1>4, <1>8, <2>2 DEF Awake
    <3> QED BY <3>1, <3>2
  <2>4. ASSUME NEW v \in waits', NEW w \in waits', v.tid = w.tid, v.since = w.since
        PROVE  v.ts = w.ts
    <3>1. \A x \in waits : x.tid = new /\ asleep[new].since # Never => x.since < asleep[new].since
      <4>1. \A x \in waits : x.since < x.ts /\ (asleep[x.tid].since # Never => x.ts <= asleep[x.tid].since)
        BY <1>1 DEF WaitsInTurn
      <4> QED BY <4>1, <1>1, <2>2
    <3>2. CASE v \in waits /\ w \in waits
      BY <1>1, <2>4, <3>2 DEF WaitsInTurn
    <3>3. CASE v \notin waits \/ w \notin waits
      <4>1. \A x \in waits' : x \notin waits => x = w0 /\ asleep[new].since # Never
        BY <1>2
      <4> QED BY <4>1, <3>1, <3>3, <2>4, <1>1, <1>8, <2>2
    <3> QED BY <3>2, <3>3
  <2> QED BY <2>1, <2>3, <2>4 DEF WaitsInTurn
<1>11. DOMAIN off_at' \subseteq StackTids
  BY <1>5, <1>6
<1> QED BY <1>4, <1>7, <1>9, <1>10, <1>11

(* ... and whose stack the switch-in may be knows that wait.               *)
LEMMA SwitchStep ==
  ASSUME StacksInv, NEW ts \in Nat, ts = stack_ts + 1, NEW cpu \in Cpus,
         NEW old \in StackTids, NEW new \in StackTids, NEW sleeps \in BOOLEAN, NEW worth \in BOOLEAN,
         on_switch(ts, cpu, old, new, sleeps, worth)
  PROVE  StacksInv'
<1> DEFINE b == stack_prune(ts)
           back == new \in DOMAIN b.off
           want == back /\ ts - b.off[new].since >= KeepWait /\ b.off[new].worth
           from == IF back THEN b.off[new].since ELSE Never
<1>1. /\ OffIsAsleep' /\ WaitsInTurn' /\ NewWaits(ts) /\ DOMAIN off_at' \subseteq StackTids
      /\ asleep' \in [StackTids -> [since : Int, worth : BOOLEAN]]
  BY SwitchWaits
<1>2. /\ StackEvent(ts)
      /\ per_cpu' = per_cpu \/ per_cpu' = pend(cpu, Wants(ts, {old, new}, "CSwitch", want, new, from))
  BY DEF on_switch, Pends
<1>3. /\ io_init' = b.init /\ stack_head' = b.head /\ UNCHANGED <<stack_log, lost_until, issued>>
      /\ waits' = IF asleep[new].since = Never THEN waits
                  ELSE waits \cup {[tid |-> new, since |-> asleep[new].since, ts |-> ts,
                                    worth |-> asleep[new].worth, walked |-> FALSE]}
  BY DEF on_switch
<1>4. /\ StackTypes /\ OffIsAsleep /\ asleep[new] \in [since : Int, worth : BOOLEAN]
      /\ \A w \in waits : w.ts \in Int /\ w.ts <= stack_ts
  BY DEF StacksInv, StackTypes, WorldTypes, WaitsInTurn, Wait
<1>5. /\ ClockTypes' /\ stack_ts' = ts /\ stack_ts < ts /\ stack_ts \in Nat /\ InKeep \in Nat
      /\ pruned_at <= pruned_at' /\ pruned_at \in Nat /\ pruned_at' \in Nat
      /\ StackPruneDue(ts) => pruned_at' = ts
  BY <1>2, <1>4, EventClock, StacksAssumption DEF StackTypes, ClockTypes
<1>6. back => /\ asleep[new].since # Never /\ b.off[new].since = asleep[new].since
              /\ b.off[new].worth = asleep[new].worth
  BY <1>4, PrunedMaps DEF OffIsAsleep
<1>7. asleep[new].since # Never /\ asleep[new].since >= pruned_at' - InKeep => back
  BY <1>4, <1>5, PrunedMaps DEF OffIsAsleep
<1> HIDE DEF b
<1>8. want \in BOOLEAN
  BY <1>4, <1>6
<1> HIDE DEF want
<1>9. from \in Int /\ (back => from = asleep[new].since)
  <2>1. asleep[new].since \in Int
    BY <1>4
  <2> HIDE DEF back
  <2>2. CASE back
    BY <2>1, <2>2, <1>6
  <2>3. CASE ~back
    BY <2>3 DEF Never
  <2> QED BY <2>2, <2>3
<1> HIDE DEF back, from
<1>p. PICK p \in Pending : p = Wants(ts, {old, new}, "CSwitch", want, new, from)
  <2>1. Wants(ts, {old, new}, "CSwitch", want, new, from) \in Pending
    BY <1>8, <1>9 DEF Wants, Pending, StackKinds
  <2> QED BY <2>1
<1>q. p.ts = ts /\ p.kind = "CSwitch" /\ p.key = new /\ p.want = want /\ (back => p.since = asleep[new].since)
  BY <1>9, <1>p DEF Wants
<1>10. PendsOwn(p)'
  <2>1. \A w \in waits' : w.ts = ts =>
          /\ asleep[new].since # Never
          /\ w.tid = new /\ w.since = asleep[new].since /\ w.worth = asleep[new].worth
    BY <1>3, <1>4, <1>5
  <2>2. want => \E w \in waits' : w.tid = new /\ w.since = asleep[new].since /\ w.ts = ts
    <3>1. SUFFICES ASSUME want PROVE \E w \in waits' : w.tid = new /\ w.since = asleep[new].since /\ w.ts = ts
      OBVIOUS
    <3>2. asleep[new].since # Never
      BY <3>1, <1>6 DEF want
    <3> DEFINE w0 == [tid |-> new, since |-> asleep[new].since, ts |-> ts,
                      worth |-> asleep[new].worth, walked |-> FALSE]
    <3>3. w0 \in waits' /\ w0.tid = new /\ w0.since = asleep[new].since /\ w0.ts = ts
      BY <1>3, <3>2
    <3> QED BY <3>3
  <2>3. ASSUME NEW w \in waits', w.ts = ts, Due(w)' PROVE want /\ back
    <3>1. asleep[new].since # Never /\ w.since = asleep[new].since /\ w.worth = asleep[new].worth
      BY <2>1, <2>3
    <3>2. w.worth /\ w.ts - w.since >= KeepWait /\ w.since >= pruned_at' - InKeep
      BY <2>3 DEF Due
    <3>3. back
      BY <1>7, <3>1, <3>2
    <3> QED BY <1>6, <2>3, <3>1, <3>2, <3>3 DEF want
  <2>4. p.ts <= stack_ts'
    BY <1>5, <1>q
  <2>5. p.want => back
    BY <1>q DEF want
  <2> QED BY <2>1, <2>2, <2>3, <2>4, <2>5, <1>q DEF PendsOwn
<1>11. PendingIsOwn'
  BY <1>1, <1>2, <1>p, <1>10, PendStep
<1>12. OutIsOwn' /\ DOMAIN io_init' \subseteq Irps
  BY <1>3, NoRequest DEF b
<1>13. RingTypes' /\ FoundIsOwn'
  BY <1>3, NothingPushed DEF b
<1>14. SwitchInsAreWaits' /\ FaultsAreNoWaits' /\ WalkedAreHeld'
  BY <1>1, <1>2, <1>3, QuietRings DEF b
<1>15. WorldTypes'
  BY <1>1, <1>3, <1>4, <1>12 DEF StackTypes, WorldTypes, NewWaits
<1> QED BY <1>1, <1>5, <1>11, <1>12, <1>13, <1>14, <1>15 DEF StacksInv, StackTypes

(* The start of a request takes the IRP's place in the map, or the map is  *)
(* full and does not know the IRP.                                         *)
LEMMA InitStep ==
  ASSUME StacksInv, NEW ts \in Nat, ts = stack_ts + 1, NEW cpu \in Cpus,
         NEW irp \in Irps, NEW tid \in StackTids, on_disk_init(ts, cpu, irp, tid)
  PROVE  StacksInv'
<1> DEFINE b == stack_prune(ts)
           full == Cardinality(DOMAIN b.init) >= InitCap /\ irp \notin DOMAIN b.init
<1>1. /\ StackEvent(ts) /\ issued' = [issued EXCEPT ![irp] = ts]
      /\ io_init' = IF full THEN b.init ELSE Put(b.init, irp, [ts |-> ts, stack |-> Never])
      /\ per_cpu' = pend(cpu, Wants(ts, {tid}, "DiskInit", ~full, irp, ts))
      /\ off_at' = b.off /\ stack_head' = b.head
      /\ UNCHANGED <<stack_log, lost_until, asleep, waits>>
  BY DEF on_disk_init, Pends
<1>2. OffIsAsleep' /\ WaitsInTurn' /\ NewWaits(ts) /\ DOMAIN off_at' \subseteq StackTids
  BY <1>1, NobodyMoves
<1>3. RingTypes' /\ FoundIsOwn'
  BY <1>1, NothingPushed
<1>4. SwitchInsAreWaits' /\ FaultsAreNoWaits' /\ WalkedAreHeld'
  BY <1>1, <1>2, QuietRings
<1>5. ClockTypes' /\ stack_ts' = ts /\ stack_ts < ts /\ stack_ts \in Nat
  BY <1>1, EventClock DEF StacksInv, StackTypes, ClockTypes
<1>6. /\ DOMAIN b.init \subseteq Irps /\ issued \in [Irps -> Int]
      /\ \A x \in DOMAIN b.init : /\ b.init[x] \in [ts : Int, stack : Int]
                                  /\ b.init[x].ts = issued[x] /\ b.init[x].stack \in {Never, issued[x]}
  BY PrunedMaps DEF StacksInv, StackTypes, WorldTypes, OutIsOwn
<1> HIDE DEF b
<1>7. OutIsOwn' /\ DOMAIN io_init' \subseteq Irps
  <2>1. CASE full
    BY <1>1, <1>6, <2>1 DEF OutIsOwn
  <2>2. CASE ~full
    <3>1. io_init' = Put(b.init, irp, [ts |-> ts, stack |-> Never])
      BY <1>1, <2>2
    <3>2. /\ DOMAIN io_init' = DOMAIN b.init \cup {irp}
          /\ io_init'[irp] = [ts |-> ts, stack |-> Never] /\ Never \in Int
          /\ \A x \in DOMAIN b.init \ {irp} : io_init'[x] = b.init[x]
      BY <3>1 DEF Put, Never
    <3> HIDE DEF full
    <3> QED BY <1>1, <1>6, <3>2 DEF OutIsOwn
  <2> QED BY <2>1, <2>2
<1>8. PICK p \in Pending : p = Wants(ts, {tid}, "DiskInit", ~full, irp, ts)
  <2>1. full \in BOOLEAN
    OBVIOUS
  <2> HIDE DEF full
  <2>2. Wants(ts, {tid}, "DiskInit", ~full, irp, ts) \in Pending
    BY <2>1 DEF Wants, Pending, StackKinds
  <2> QED BY <2>2
<1> HIDE DEF full
<1>p. p.ts = ts /\ p.kind = "DiskInit"
  BY <1>8 DEF Wants
<1>9. PendsOwn(p)'
  <2>1. \A w \in waits' : w.ts # p.ts
    <3>1. \A w \in waits : w.ts \in Int /\ w.ts <= stack_ts
      BY DEF StacksInv, StackTypes, WorldTypes, Wait, WaitsInTurn
    <3> QED BY <3>1, <1>1, <1>5, <1>p
  <2> QED BY <2>1, <1>5, <1>p DEF PendsOwn
<1>10. PendingIsOwn'
  BY <1>1, <1>2, <1>8, <1>9, PendStep
<1>11. WorldTypes'
  BY <1>1, <1>2, <1>6, <1>7 DEF StacksInv, StackTypes, WorldTypes
<1> QED BY <1>2, <1>3, <1>4, <1>5, <1>7, <1>10, <1>11 DEF StacksInv, StackTypes

(* push_capped: the record goes to the end of its ring, and the record at  *)
(* the front, never the new one, goes if the ring is full and is dated.    *)
LEMMA PushStack ==
  ASSUME RingTypes, NEW k \in StackKinds, NEW r \in RecOf(k),
         NEW h \in [StackKinds -> Nat], \A j \in StackKinds : h[j] <= Len(stack_log[j]),
         push_stack(k, r, h)
  PROVE  /\ RingTypes'
         /\ stack_log' = [stack_log EXCEPT ![k] = Append(stack_log[k], r)]
         /\ \A j \in StackKinds \ {k} :
              stack_log'[j] = stack_log[j] /\ stack_head'[j] = h[j] /\ lost_until'[j] = lost_until[j]
         /\ stack_log'[k] = Append(stack_log[k], r)
         /\ stack_head'[k] <= Len(stack_log[k]) /\ lost_until[k] <= lost_until'[k]
         /\ \/ stack_head'[k] = h[k]
            \/ stack_head'[k] = h[k] + 1 /\ stack_log[k][h[k] + 1].ts <= lost_until'[k]
<1> DEFINE lg == Append(stack_log[k], r)
           over == Len(lg) - h[k] > RingCap
<1>1. /\ stack_log' = [stack_log EXCEPT ![k] = lg]
      /\ stack_head' = IF over THEN [h EXCEPT ![k] = @ + 1] ELSE h
      /\ lost_until' = IF over THEN [lost_until EXCEPT ![k] = Max2(@, lg[h[k] + 1].ts)] ELSE lost_until
  BY DEF push_stack
<1>2. /\ lg \in Seq(RecOf(k)) /\ Len(lg) = Len(stack_log[k]) + 1 /\ Len(stack_log[k]) \in Nat
      /\ \A i \in 1 .. Len(stack_log[k]) : lg[i] = stack_log[k][i] /\ stack_log[k][i].ts \in Int
  BY PushSpec, RecordsHaveTime DEF RingTypes
<1>3. /\ DOMAIN stack_log = StackKinds /\ \A j \in StackKinds : stack_log[j] \in Seq(RecOf(j))
      /\ lost_until \in [StackKinds -> Int] /\ h[k] \in Nat /\ h[k] <= Len(stack_log[k])
  BY DEF RingTypes
<1> HIDE DEF lg
<1>4. /\ DOMAIN stack_log' = StackKinds /\ stack_log'[k] = lg
      /\ \A j \in StackKinds \ {k} : stack_log'[j] = stack_log[j]
  BY <1>1, <1>3
<1>5. CASE over
  <2>1. h[k] + 1 \in 1 .. Len(stack_log[k])
    BY <1>2, <1>3, <1>5, StacksAssumption
  <2>2. lg[h[k] + 1] = stack_log[k][h[k] + 1] /\ stack_log[k][h[k] + 1].ts \in Int
    BY <1>2, <2>1
  <2>3. lost_until' = [lost_until EXCEPT ![k] = Max2(lost_until[k], stack_log[k][h[k] + 1].ts)]
    BY <1>1, <1>5, <2>2
  <2>4. stack_head' = [h EXCEPT ![k] = h[k] + 1]
    BY <1>1, <1>5
  <2> HIDE DEF over
  <2>5. /\ lost_until' \in [StackKinds -> Int]
        /\ lost_until[k] <= lost_until'[k] /\ stack_log[k][h[k] + 1].ts <= lost_until'[k]
        /\ \A j \in StackKinds \ {k} : lost_until'[j] = lost_until[j]
    BY <1>3, <2>2, <2>3 DEF Max2
  <2>6. /\ stack_head' \in [StackKinds -> Nat] /\ stack_head'[k] = h[k] + 1
        /\ \A j \in StackKinds \ {k} : stack_head'[j] = h[j]
    BY <1>3, <2>4
  <2>7. ASSUME NEW j \in StackKinds
        PROVE  stack_log'[j] \in Seq(RecOf(j)) /\ stack_head'[j] <= Len(stack_log'[j])
    <3>1. CASE j = k
      BY <1>2, <1>3, <1>4, <2>1, <2>6, <3>1
    <3>2. CASE j # k
      BY <1>3, <1>4, <2>6, <3>2
    <3> QED BY <3>1, <3>2
  <2> QED BY <1>1, <1>2, <1>4, <2>1, <2>5, <2>6, <2>7 DEF RingTypes, lg
<1>6. CASE ~over
  <2>1. stack_head' = h /\ lost_until' = lost_until
    BY <1>1, <1>6
  <2> HIDE DEF over
  <2>2. ASSUME NEW j \in StackKinds
        PROVE  stack_log'[j] \in Seq(RecOf(j)) /\ stack_head'[j] <= Len(stack_log'[j])
    <3>1. CASE j = k
      BY <1>2, <1>3, <1>4, <2>1, <3>1
    <3>2. CASE j # k
      BY <1>3, <1>4, <2>1, <3>2
    <3> QED BY <3>1, <3>2
  <2> QED BY <1>1, <1>2, <1>3, <1>4, <2>1, <2>2 DEF RingTypes, lg
<1> QED BY <1>5, <1>6

(* The end of a request takes with it what is known about it.              *)
LEMMA DoneStep ==
  ASSUME StacksInv, NEW ts \in Nat, ts = stack_ts + 1, NEW irp \in Irps, on_disk_done(ts, irp)
  PROVE  StacksInv'
<1> DEFINE b == stack_prune(ts)
           what == CASE irp \notin DOMAIN b.init -> "NoInit"
                     [] irp \in DOMAIN b.init /\ b.init[irp].stack = Never -> "NoStack"
                     [] OTHER -> "Found"
           stack == IF what = "Found" THEN b.init[irp].stack ELSE Never
           slow == ts - issued[irp] >= IoWarn
           r == [ts |-> ts, irp |-> irp, what |-> what, stack |-> stack, from |-> issued[irp]]
<1>1. /\ StackEvent(ts) /\ issued' = [issued EXCEPT ![irp] = Never]
      /\ io_init' = Drop(b.init, irp) /\ off_at' = b.off
      /\ IF slow THEN push_stack("DiskInit", r, b.head)
         ELSE stack_head' = b.head /\ UNCHANGED <<stack_log, lost_until>>
      /\ UNCHANGED <<per_cpu, walks, asleep, waits>>
  BY DEF on_disk_done
<1>2. OffIsAsleep' /\ WaitsInTurn' /\ NewWaits(ts) /\ DOMAIN off_at' \subseteq StackTids
  BY <1>1, NobodyMoves
<1>3. ClockTypes' /\ stack_ts' = ts /\ stack_ts < ts /\ stack_ts \in Nat
  BY <1>1, EventClock DEF StacksInv, StackTypes, ClockTypes
<1>4. /\ DOMAIN b.init \subseteq Irps /\ issued \in [Irps -> Int]
      /\ \A x \in DOMAIN b.init : /\ b.init[x] \in [ts : Int, stack : Int]
                                  /\ b.init[x].ts = issued[x] /\ b.init[x].stack \in {Never, issued[x]}
  BY PrunedMaps DEF StacksInv, StackTypes, WorldTypes, OutIsOwn
<1>5. /\ RingTypes /\ FoundIsOwn /\ "DiskInit" \in StackKinds
      /\ b.head \in [StackKinds -> Nat] /\ \A j \in StackKinds : b.head[j] <= Len(stack_log[j])
  <2>1. "DiskInit" \in StackKinds
    BY DEF StackKinds
  <2> QED BY <2>1, PrunedHeads DEF StacksInv, StackTypes
<1> HIDE DEF b
<1>6. OutIsOwn' /\ DOMAIN io_init' \subseteq Irps
  <2>1. /\ DOMAIN io_init' = DOMAIN b.init \ {irp}
        /\ \A x \in DOMAIN b.init \ {irp} : io_init'[x] = b.init[x]
    BY <1>1 DEF Drop, Restrict
  <2> QED BY <1>1, <1>4, <2>1 DEF OutIsOwn
<1>7. what \in {"NoInit", "NoStack", "Found"} /\ (what = "Found" => stack = issued[irp]) /\ stack \in Int
  <2>1. CASE irp \notin DOMAIN b.init
    BY <2>1 DEF Never
  <2>2. CASE irp \in DOMAIN b.init /\ b.init[irp].stack = Never
    BY <2>2 DEF Never
  <2>3. CASE irp \in DOMAIN b.init /\ b.init[irp].stack # Never
    BY <1>4, <2>3
  <2> QED BY <2>1, <2>2, <2>3
<1> HIDE DEF what, stack, slow
<1>8. r \in RecOf("DiskInit")
  BY <1>4, <1>7 DEF RecOf, RequestRec
<1>9. /\ RingTypes' /\ FoundIsOwn'
      /\ \A k \in {"CSwitch", "Fault"} :
           stack_log'[k] = stack_log[k] /\ lost_until'[k] = lost_until[k] /\ stack_head'[k] = b.head[k]
  <2>1. CASE ~slow
    BY <1>1, <2>1, NothingPushed DEF StacksInv, b
  <2>2. CASE slow
    <3>1. push_stack("DiskInit", r, b.head)
      BY <1>1, <2>2
    <3>r. r.what = what /\ r.stack = stack /\ r.from = issued[irp]
      OBVIOUS
    <3> HIDE DEF r
    <3>2. /\ RingTypes' /\ stack_log'["DiskInit"] = Append(stack_log["DiskInit"], r)
          /\ \A j \in StackKinds \ {"DiskInit"} :
               stack_log'[j] = stack_log[j] /\ stack_head'[j] = b.head[j] /\ lost_until'[j] = lost_until[j]
      BY <3>1, <1>5, <1>8, PushStack
    <3>3. stack_log["DiskInit"] \in Seq(RecOf("DiskInit"))
      BY <1>5 DEF RingTypes
    <3>4. FoundIsOwn'
      BY <3>r, <3>2, <3>3, <1>5, <1>7, <1>8, PushSpec DEF FoundIsOwn
    <3> QED BY <3>2, <3>4 DEF StackKinds
  <2> QED BY <2>1, <2>2
<1>10. SwitchInsAreWaits' /\ FaultsAreNoWaits' /\ WalkedAreHeld'
  BY <1>1, <1>2, <1>9, QuietRings DEF b
<1>11. PendingIsOwn'
  <2>1. PICK cpu \in Cpus, tid \in StackTids : TRUE
    BY StacksAssumption
  <2>2. PICK p \in Pending : p = Wants(ts, {tid}, "Fault", FALSE, tid, ts)
    <3>1. Wants(ts, {tid}, "Fault", FALSE, tid, ts) \in Pending
      BY DEF Wants, Pending, StackKinds
    <3> QED BY <3>1
  <2>3. p.ts = ts /\ p.kind = "Fault"
    BY <2>2 DEF Wants
  <2>4. PendsOwn(p)'
    <3>1. \A w \in waits : w.ts \in Int /\ w.ts <= stack_ts
      BY DEF StacksInv, StackTypes, WorldTypes, Wait, WaitsInTurn
    <3> QED BY <3>1, <2>3, <1>1, <1>3 DEF PendsOwn
  <2> QED BY <1>1, <1>2, <2>2, <2>4, PendStep
<1>12. WorldTypes'
  <2>1. issued' \in [Irps -> Int]
    BY <1>1, <1>4 DEF Never
  <2> QED BY <1>1, <1>2, <1>6, <2>1 DEF StacksInv, StackTypes, WorldTypes
<1> QED BY <1>2, <1>3, <1>6, <1>9, <1>10, <1>11, <1>12 DEF StacksInv, StackTypes

(* The event a stack is taken to belong to is pending, and has its time.   *)
LEMMA TakeSpec ==
  ASSUME PendingIsOwn, NEW cpu \in Cpus, NEW raw, NEW x \in take(cpu, raw)
  PROVE  /\ x[1] \in Cpus /\ x[2] \in 1 .. Len(per_cpu[x[1]])
         /\ per_cpu[x[1]][x[2]] \in OwnPending /\ per_cpu[x[1]][x[2]].ts = raw.ts
<1> DEFINE hits(c) == {i \in DOMAIN per_cpu[c] : per_cpu[c][i].ts = raw.ts /\ raw.tid \in per_cpu[c][i].tids}
           on == IF hits(cpu) # {} THEN {cpu} ELSE {c \in Cpus : hits(c) # {}}
<1>1. \A S : S \subseteq Nat /\ S # {} => Min(S) \in S
  BY LeastNatural DEF Min
<1>2. on # {} /\ x = <<Min(on), Min(hits(Min(on)))>>
  BY DEF take
<1>3. on \subseteq Cpus /\ \A c \in on : hits(c) # {}
  OBVIOUS
<1>4. Min(on) \in on /\ Min(on) \in Cpus
  <2> HIDE DEF on
  <2> QED BY <1>1, <1>2, <1>3, StacksAssumption
<1>5. PICK c \in Cpus : c = Min(on) /\ hits(c) # {}
  <2> HIDE DEF on, hits
  <2> QED BY <1>3, <1>4
<1>6. per_cpu[c] \in Seq(OwnPending) /\ Len(per_cpu[c]) \in Nat /\ DOMAIN per_cpu[c] = 1 .. Len(per_cpu[c])
  BY LenProperties DEF PendingIsOwn
<1>7. hits(c) \subseteq Nat
  BY <1>6
<1>8. PICK i \in hits(c) : i = Min(hits(c))
  <2> HIDE DEF hits
  <2> QED BY <1>1, <1>5, <1>7
<1>9. x[1] = c /\ x[2] = i
  <2> HIDE DEF hits, on
  <2> QED BY <1>2, <1>5, <1>8
<1>10. i \in 1 .. Len(per_cpu[c]) /\ per_cpu[c][i].ts = raw.ts
  BY <1>6, <1>8
<1> QED BY <1>6, <1>9, <1>10, ElementOfSeq

(* What comes of the waits when the stack of the event p arrives: they are *)
(* the same, but p's may be known to have been walked.                     *)
SameWait(v, w) == v.tid = w.tid /\ v.since = w.since /\ v.ts = w.ts /\ v.worth = w.worth

WalkedBy(p) ==
  /\ waits' \subseteq Wait
  /\ \A v \in waits' : \E w \in waits : SameWait(v, w) /\ (v.walked => w.walked \/ (w.ts = p.ts /\ w.tid = p.key))
  /\ \A w \in waits : \E v \in waits' : SameWait(v, w)

LEMMA WaitsWalked ==
  ASSUME waits \subseteq Wait, NEW p,
         waits' = {IF w.ts = p.ts /\ w.tid = p.key THEN [w EXCEPT !.walked = TRUE] ELSE w : w \in waits}
  PROVE  WalkedBy(p)
<1> DEFINE Walk(w) == IF w.ts = p.ts /\ w.tid = p.key THEN [w EXCEPT !.walked = TRUE] ELSE w
<1>1. waits' = {Walk(w) : w \in waits}
  OBVIOUS
<1>2. ASSUME NEW w \in waits
      PROVE  /\ Walk(w) \in Wait /\ SameWait(Walk(w), w)
             /\ Walk(w).walked => w.walked \/ (w.ts = p.ts /\ w.tid = p.key)
  BY DEF Wait, SameWait
<1> HIDE DEF Walk
<1> QED BY <1>1, <1>2 DEF WalkedBy

(* VecDeque::remove: a sequence without its n-th member.                   *)
LEMMA WithoutOne ==
  ASSUME NEW T, NEW s, Len(s) \in Nat, \A i \in 1 .. Len(s) : s[i] \in T, NEW n \in 1 .. Len(s)
  PROVE  [i \in 1 .. Len(s) - 1 |-> IF i < n THEN s[i] ELSE s[i + 1]] \in Seq(T)
<1> DEFINE cut == [i \in 1 .. Len(s) - 1 |-> IF i < n THEN s[i] ELSE s[i + 1]]
           m == Len(s)
<1>1. m - 1 \in Nat
  OBVIOUS
<1>2. ASSUME NEW i \in 1 .. m - 1 PROVE cut[i] \in T
  <2>1. i \in 1 .. m /\ i + 1 \in 1 .. m
    BY <1>1
  <2>2. s[i] \in T /\ s[i + 1] \in T
    BY <2>1
  <2>3. cut[i] = IF i < n THEN s[i] ELSE s[i + 1]
    OBVIOUS
  <2> QED BY <2>2, <2>3
<1>3. cut \in [1 .. m - 1 -> T]
  BY <1>2
<1> HIDE DEF cut
<1>4. cut \in Seq(T)
  BY <1>1, <1>3
<1> QED BY <1>4 DEF cut

(* A stack arrives that belongs to p: what it is filed with is p's own.    *)
LEMMA WalkStep ==
  ASSUME StacksInv, NEW raw, NEW cpu \in Cpus, on_stack(raw, cpu), take(cpu, raw) # {}
  PROVE  StacksInv'
<1> DEFINE at == CHOOSE x \in take(cpu, raw) : TRUE
<1>1. PICK c \in Cpus, n \in 1 .. Len(per_cpu[at[1]]), p \in OwnPending :
        c = at[1] /\ n = at[2] /\ p = per_cpu[at[1]][at[2]] /\ p.ts = raw.ts
  <2>1. at \in take(cpu, raw)
    OBVIOUS
  <2>2. PendingIsOwn
    BY DEF StacksInv
  <2> HIDE DEF at
  <2> QED BY <2>1, <2>2, TakeSpec
<1> DEFINE r == [ts |-> p.ts, tid |-> p.key, since |-> p.since, stack |-> raw.ts]
<1>2. /\ per_cpu' = [per_cpu EXCEPT ![c] = [i \in 1 .. Len(@) - 1 |-> IF i < n THEN @[i] ELSE @[i + 1]]]
      /\ waits' = {IF w.ts = p.ts /\ w.tid = p.key THEN [w EXCEPT !.walked = TRUE] ELSE w : w \in waits}
      /\ IF p.kind = "DiskInit" /\ p.want
         THEN /\ io_init' = IF StillOut(p.key, p) THEN [io_init EXCEPT ![p.key].stack = raw.ts] ELSE io_init
              /\ UNCHANGED stackRings
         ELSE /\ UNCHANGED io_init
              /\ IF p.want THEN push_stack(p.kind, r, stack_head) ELSE UNCHANGED stackRings
      /\ UNCHANGED <<stack_ts, pruned_at, off_at, issued, asleep>>
  BY <1>1 DEF on_stack
<1>n. n \in 1 .. Len(per_cpu[c])
  BY <1>1
<1> HIDE DEF at
<1>3. /\ StackTypes /\ ClockTypes /\ RingTypes /\ WorldTypes /\ OutIsOwn /\ FoundIsOwn /\ OffIsAsleep /\ WaitsInTurn
      /\ per_cpu \in [Cpus -> Seq(OwnPending)]
      /\ SwitchInsAreWaits /\ FaultsAreNoWaits /\ WalkedAreHeld
  BY DEF StacksInv, StackTypes, PendingIsOwn
<1>4. WalkedBy(p)
  BY <1>2, <1>3, WaitsWalked DEF WorldTypes
<1>5. p \in Pending /\ PendsOwn(p) /\ p.ts \in Int
  BY DEF OwnPending, Pending
<1>6. r \in WalkRec /\ r.ts = p.ts /\ r.tid = p.key /\ r.since = p.since /\ r.stack = p.ts
  BY <1>1, <1>5 DEF WalkRec, Pending
<1>7. /\ RingTypes'
      /\ \A k \in StackKinds :
           \/ /\ stack_log'[k] = stack_log[k] /\ stack_head'[k] = stack_head[k] /\ lost_until'[k] = lost_until[k]
              /\ ~(k = p.kind /\ p.want /\ k # "DiskInit")
           \/ /\ k = p.kind /\ p.want /\ k # "DiskInit"
              /\ stack_log'[k] = Append(stack_log[k], r)
              /\ stack_head'[k] <= Len(stack_log[k]) /\ lost_until[k] <= lost_until'[k]
              /\ \/ stack_head'[k] = stack_head[k]
                 \/ stack_head'[k] = stack_head[k] + 1 /\ stack_log[k][stack_head[k] + 1].ts <= lost_until'[k]
  <2>1. CASE p.want /\ p.kind # "DiskInit"
    <3>1. p.kind \in StackKinds /\ r \in RecOf(p.kind) /\ push_stack(p.kind, r, stack_head)
      BY <1>2, <1>5, <1>6, <2>1 DEF Pending, RecOf
    <3>2. stack_head \in [StackKinds -> Nat] /\ \A j \in StackKinds : stack_head[j] <= Len(stack_log[j])
      BY <1>3 DEF RingTypes
    <3> HIDE DEF r
    <3>3. /\ RingTypes'
          /\ \A j \in StackKinds \ {p.kind} :
               stack_log'[j] = stack_log[j] /\ stack_head'[j] = stack_head[j] /\ lost_until'[j] = lost_until[j]
          /\ stack_log'[p.kind] = Append(stack_log[p.kind], r)
          /\ stack_head'[p.kind] <= Len(stack_log[p.kind]) /\ lost_until[p.kind] <= lost_until'[p.kind]
          /\ \/ stack_head'[p.kind] = stack_head[p.kind]
             \/ /\ stack_head'[p.kind] = stack_head[p.kind] + 1
                /\ stack_log[p.kind][stack_head[p.kind] + 1].ts <= lost_until'[p.kind]
      BY <1>3, <3>1, <3>2, PushStack
    <3> QED BY <2>1, <3>3
  <2>2. CASE ~(p.want /\ p.kind # "DiskInit")
    <3>1. UNCHANGED stackRings
      BY <1>2, <2>2
    <3> QED BY <3>1, <2>2, <1>3 DEF stackRings, RingTypes
  <2> QED BY <2>1, <2>2
<1> HIDE DEF r
<1>8. OutIsOwn' /\ DOMAIN io_init' = DOMAIN io_init
  <2>1. CASE io_init' = io_init
    BY <2>1, <1>2, <1>3 DEF OutIsOwn
  <2>2. CASE io_init' # io_init
    <3>1. StillOut(p.key, p) /\ io_init' = [io_init EXCEPT ![p.key].stack = raw.ts]
      BY <1>2, <2>2
    <3>2. /\ p.key \in DOMAIN io_init /\ io_init[p.key] \in [ts : Int, stack : Int]
          /\ io_init[p.key].ts = p.ts /\ issued[p.key] = p.ts
      BY <3>1, <1>3 DEF StillOut, OutIsOwn
    <3>3. /\ DOMAIN io_init' = DOMAIN io_init
          /\ io_init'[p.key] = [io_init[p.key] EXCEPT !.stack = p.ts]
          /\ \A x \in DOMAIN io_init \ {p.key} : io_init'[x] = io_init[x]
      BY <3>1, <3>2, <1>1
    <3>4. io_init'[p.key] \in [ts : Int, stack : Int] /\ io_init'[p.key].ts = p.ts /\ io_init'[p.key].stack = p.ts
      BY <3>2, <3>3, <1>5
    <3> QED BY <3>2, <3>3, <3>4, <1>2, <1>3 DEF OutIsOwn
  <2> QED BY <2>1, <2>2
<1>9. FoundIsOwn'
  <2>1. stack_log'["DiskInit"] = stack_log["DiskInit"]
    BY <1>7 DEF StackKinds
  <2> QED BY <2>1, <1>3 DEF FoundIsOwn
<1>10. OffIsAsleep' /\ ClockTypes' /\ WorldTypes'
  BY <1>2, <1>3, <1>4, <1>8 DEF OffIsAsleep, ClockTypes, WorldTypes, WalkedBy
<1>11. WaitsInTurn'
  <2>1. \A t \in StackTids : asleep'[t].since <= stack_ts'
    BY <1>2, <1>3 DEF WaitsInTurn
  <2>2. ASSUME NEW v \in waits'
        PROVE  /\ v.since < v.ts /\ v.ts <= stack_ts'
               /\ asleep'[v.tid].since # Never => v.ts <= asleep'[v.tid].since
    <3>1. PICK w \in waits : SameWait(v, w)
      BY <1>4 DEF WalkedBy
    <3> QED BY <3>1, <1>2, <1>3 DEF WaitsInTurn, SameWait
  <2>3. ASSUME NEW v \in waits', NEW u \in waits', v.tid = u.tid, v.since = u.since
        PROVE  v.ts = u.ts
    <3>1. PICK w \in waits : SameWait(v, w)
      BY <1>4 DEF WalkedBy
    <3>2. PICK x \in waits : SameWait(u, x)
      BY <1>4 DEF WalkedBy
    <3> QED BY <3>1, <3>2, <2>3, <1>3 DEF WaitsInTurn, SameWait
  <2> QED BY <2>1, <2>2, <2>3 DEF WaitsInTurn
<1>12. ASSUME NEW q \in OwnPending PROVE q \in OwnPending'
  <2>1. q \in Pending /\ PendsOwn(q)
    BY DEF OwnPending
  <2>2. q.kind = "CSwitch" /\ q.want => \E v \in waits' : v.tid = q.key /\ v.since = q.since /\ v.ts = q.ts
    BY <2>1, <1>4 DEF PendsOwn, WalkedBy, SameWait
  <2>3. ASSUME NEW v \in waits', v.ts = q.ts
        PROVE  q.kind = "CSwitch" /\ (v.tid = q.key /\ Due(v)' => q.want /\ q.since = v.since)
    <3>1. PICK w \in waits : SameWait(v, w)
      BY <1>4 DEF WalkedBy
    <3>2. Due(v)' => Due(w)
      BY <3>1, <1>2 DEF Due, SameWait
    <3> QED BY <3>1, <3>2, <2>1, <2>3 DEF PendsOwn, SameWait
  <2>4. q.ts <= stack_ts'
    BY <2>1, <1>2 DEF PendsOwn
  <2>5. PendsOwn(q)'
    BY <2>2, <2>3, <2>4 DEF PendsOwn
  <2> QED BY <2>1, <2>5 DEF OwnPending
<1>13. PendingIsOwn'
  <2> DEFINE s == per_cpu[c]
             cut == [i \in 1 .. Len(s) - 1 |-> IF i < n THEN s[i] ELSE s[i + 1]]
  <2>1. s \in Seq(OwnPending) /\ Len(s) \in Nat
    BY <1>3, LenProperties
  <2>2. \A i \in 1 .. Len(s) : s[i] \in OwnPending'
    BY <2>1, <1>12, ElementOfSeq
  <2>3. cut \in Seq(OwnPending')
    BY <1>n, <2>1, <2>2, WithoutOne
  <2>4. \A d \in Cpus : per_cpu[d] \in Seq(OwnPending')
    BY <1>3, <1>12, SeqMonotonic
  <2>5. per_cpu' = [per_cpu EXCEPT ![c] = cut]
    BY <1>2
  <2> HIDE DEF cut
  <2> QED BY <2>3, <2>4, <2>5, <1>3 DEF PendingIsOwn
<1>14. SwitchInsAreWaits'
  <2>1. "CSwitch" \in StackKinds /\ stack_log["CSwitch"] \in Seq(WalkRec)
    BY <1>3 DEF StackKinds, RingTypes, RecOf
  <2>2. ASSUME NEW i \in 1 .. Len(stack_log["CSwitch"]) PROVE
          /\ stack_log["CSwitch"][i].ts = stack_log["CSwitch"][i].stack
          /\ \E w \in waits' : /\ w.tid = stack_log["CSwitch"][i].tid /\ w.since = stack_log["CSwitch"][i].since
                               /\ w.ts = stack_log["CSwitch"][i].stack
    BY <1>3, <1>4 DEF SwitchInsAreWaits, WalkedBy, SameWait
  <2>3. CASE stack_log'["CSwitch"] = stack_log["CSwitch"]
    BY <2>2, <2>3 DEF SwitchInsAreWaits
  <2>4. CASE stack_log'["CSwitch"] # stack_log["CSwitch"]
    <3>1. p.kind = "CSwitch" /\ p.want /\ stack_log'["CSwitch"] = Append(stack_log["CSwitch"], r)
      BY <1>7, <2>1, <2>4
    <3>2. \E w \in waits' : w.tid = p.key /\ w.since = p.since /\ w.ts = p.ts
      BY <3>1, <1>4, <1>5 DEF PendsOwn, WalkedBy, SameWait
    <3> QED BY <2>1, <2>2, <3>1, <3>2, <1>6, PushSpec DEF SwitchInsAreWaits
  <2> QED BY <2>3, <2>4
<1>15. FaultsAreNoWaits'
  <2>1. "Fault" \in StackKinds /\ stack_log["Fault"] \in Seq(WalkRec)
    BY <1>3 DEF StackKinds, RingTypes, RecOf
  <2>2. ASSUME NEW i \in 1 .. Len(stack_log["Fault"]) PROVE
          /\ stack_log["Fault"][i].ts <= stack_ts'
          /\ \A w \in waits' : w.ts # stack_log["Fault"][i].ts
    <3>1. /\ stack_log["Fault"][i].ts <= stack_ts
          /\ \A w \in waits : w.ts # stack_log["Fault"][i].ts
      BY <1>3 DEF FaultsAreNoWaits
    <3>2. ASSUME NEW v \in waits' PROVE v.ts # stack_log["Fault"][i].ts
      BY <3>1, <1>4 DEF WalkedBy, SameWait
    <3> QED BY <3>1, <3>2, <1>2
  <2>3. CASE stack_log'["Fault"] = stack_log["Fault"]
    BY <2>2, <2>3 DEF FaultsAreNoWaits
  <2>4. CASE stack_log'["Fault"] # stack_log["Fault"]
    <3>1. p.kind = "Fault" /\ stack_log'["Fault"] = Append(stack_log["Fault"], r)
      BY <1>7, <2>1, <2>4
    <3>2. p.ts <= stack_ts' /\ \A w \in waits' : w.ts # p.ts
      BY <3>1, <1>2, <1>4, <1>5 DEF PendsOwn, WalkedBy, SameWait
    <3> QED BY <2>1, <2>2, <3>1, <3>2, <1>6, PushSpec DEF FaultsAreNoWaits
  <2> QED BY <2>3, <2>4
<1>16. WalkedAreHeld'
  <2> DEFINE lg == stack_log["CSwitch"]
             h == stack_head["CSwitch"]
  <2>1. /\ "CSwitch" \in StackKinds /\ lg \in Seq(WalkRec) /\ Len(lg) \in Nat /\ h \in Nat
        /\ lost_until["CSwitch"] \in Int /\ lost_until'["CSwitch"] \in Int /\ stack_head'["CSwitch"] \in Nat
    BY <1>3, <1>7, LenProperties DEF StackKinds, RingTypes, RecOf
  <2> SUFFICES ASSUME NEW v \in waits', v.walked, Due(v)', lost_until'["CSwitch"] < v.since
               PROVE  \E i \in stack_head'["CSwitch"] + 1 .. Len(stack_log'["CSwitch"]) :
                        stack_log'["CSwitch"][i] = [ts |-> v.ts, tid |-> v.tid, since |-> v.since, stack |-> v.ts]
    BY DEF WalkedAreHeld
  <2>2. PICK w \in waits : SameWait(v, w) /\ (w.walked \/ (w.ts = p.ts /\ w.tid = p.key))
    BY <1>4 DEF WalkedBy
  <2>3. Due(w) /\ w.since \in Int /\ w.ts \in Int /\ w.since < w.ts /\ lost_until'["CSwitch"] < w.since
    BY <1>2, <1>3, <2>2 DEF Due, SameWait, Wait, WorldTypes, WaitsInTurn
  <2> SUFFICES \E i \in stack_head'["CSwitch"] + 1 .. Len(stack_log'["CSwitch"]) :
                 stack_log'["CSwitch"][i] = [ts |-> w.ts, tid |-> w.tid, since |-> w.since, stack |-> w.ts]
    BY <2>2 DEF SameWait
  <2>4. CASE w.walked
    <3>1. lost_until["CSwitch"] < w.since
      BY <1>7, <2>1, <2>3
    <3>2. PICK i \in h + 1 .. Len(lg) :
            lg[i] = [ts |-> w.ts, tid |-> w.tid, since |-> w.since, stack |-> w.ts]
      BY <1>3, <2>3, <2>4, <3>1 DEF WalkedAreHeld
    <3>3. lg[i].ts = w.ts
      BY <3>2
    <3>4. CASE stack_log'["CSwitch"] = lg /\ stack_head'["CSwitch"] = h
      BY <3>2, <3>4
    <3>5. CASE /\ stack_log'["CSwitch"] = Append(lg, r)
               /\ \/ stack_head'["CSwitch"] = h
                  \/ stack_head'["CSwitch"] = h + 1 /\ lg[h + 1].ts <= lost_until'["CSwitch"]
      <4>1. i \in stack_head'["CSwitch"] + 1 .. Len(lg) + 1
        <5>1. CASE stack_head'["CSwitch"] = h
          BY <2>1, <3>2, <5>1
        <5>2. CASE stack_head'["CSwitch"] = h + 1 /\ lg[h + 1].ts <= lost_until'["CSwitch"]
          <6>1. i # h + 1
            BY <2>1, <2>3, <3>3, <5>2
          <6> QED BY <2>1, <3>2, <5>2, <6>1
        <5> QED BY <3>5, <5>1, <5>2
      <4>2. Append(lg, r)[i] = lg[i] /\ Len(Append(lg, r)) = Len(lg) + 1
        <5>1. i \in 1 .. Len(lg)
          BY <2>1, <3>2
        <5> HIDE DEF lg
        <5> QED BY <2>1, <5>1, <1>6, PushSpec
      <4> QED BY <3>2, <3>5, <4>1, <4>2
    <3> QED BY <1>7, <2>1, <3>4, <3>5
  <2>5. CASE w.ts = p.ts /\ w.tid = p.key
    <3>1. p.kind = "CSwitch" /\ p.want /\ p.since = w.since
      BY <1>5, <2>3, <2>5 DEF PendsOwn
    <3>2. stack_log'["CSwitch"] = Append(lg, r) /\ stack_head'["CSwitch"] <= Len(lg)
      BY <1>7, <2>1, <3>1
    <3>3. Append(lg, r)[Len(lg) + 1] = r /\ Len(Append(lg, r)) = Len(lg) + 1
      <4> HIDE DEF lg
      <4> QED BY <2>1, <1>6, PushSpec
    <3>4. r = [ts |-> w.ts, tid |-> w.tid, since |-> w.since, stack |-> w.ts]
      BY <1>1, <2>5, <3>1 DEF r
    <3>5. Len(lg) + 1 \in stack_head'["CSwitch"] + 1 .. Len(stack_log'["CSwitch"])
      BY <2>1, <3>2, <3>3
    <3> QED BY <3>2, <3>3, <3>4, <3>5
  <2> QED BY <2>2, <2>4, <2>5
<1> QED BY <1>7, <1>8, <1>9, <1>10, <1>11, <1>13, <1>14, <1>15, <1>16 DEF StacksInv, StackTypes

-----------------------------------------------------------------------------
(* Before the first event there is nothing to know.                        *)
LEMMA StacksStart == StacksInit => StacksInv
<1> SUFFICES ASSUME StacksInit PROVE StacksInv
  OBVIOUS
<1>1. StackTypes
  <2>1. \A k \in StackKinds : <<>> \in Seq(RecOf(k)) /\ Len(<<>>) = 0
    BY EmptySeq
  <2>2. ClockTypes /\ RingTypes
    BY <2>1 DEF StacksInit, ClockTypes, RingTypes, Never
  <2>3. WorldTypes
    BY DEF StacksInit, WorldTypes, NoInitEver, Never, Awake
  <2> QED BY <2>2, <2>3 DEF StackTypes
<1>2. OutIsOwn /\ OffIsAsleep /\ WaitsInTurn
  BY DEF StacksInit, OutIsOwn, OffIsAsleep, WaitsInTurn, NoInitEver, Never, Awake
<1>3. PendingIsOwn
  <2>1. <<>> \in Seq(OwnPending)
    BY EmptySeq
  <2> QED BY <2>1 DEF StacksInit, PendingIsOwn
<1>4. FoundIsOwn /\ SwitchInsAreWaits /\ FaultsAreNoWaits /\ WalkedAreHeld
  <2>1. \A k \in StackKinds : Len(stack_log[k]) = 0
    BY DEF StacksInit
  <2> QED BY <2>1 DEF StacksInit, StackKinds, FoundIsOwn, SwitchInsAreWaits, FaultsAreNoWaits, WalkedAreHeld
<1> QED BY <1>1, <1>2, <1>3, <1>4 DEF StacksInv

(* The invariant is about what a stack of no pending event leaves alone.   *)
LEMMA NothingOwn ==
  ASSUME StacksInv,
         UNCHANGED <<stack_ts, pruned_at, per_cpu, io_init, off_at, stack_log, stack_head, lost_until,
                     issued, asleep, waits>>
  PROVE  StacksInv'
<1>1. StackTypes' /\ OutIsOwn' /\ FoundIsOwn'
  BY DEF StacksInv, StackTypes, ClockTypes, RingTypes, WorldTypes, OutIsOwn, FoundIsOwn
<1>2. OffIsAsleep' /\ WaitsInTurn'
  BY DEF StacksInv, OffIsAsleep, WaitsInTurn
<1>3. PendingIsOwn'
  <2>1. \A p \in Pending : PendsOwn(p)' <=> PendsOwn(p)
    BY DEF PendsOwn, Due
  <2>2. OwnPending' = OwnPending
    BY <2>1 DEF OwnPending
  <2> QED BY <2>2 DEF StacksInv, PendingIsOwn
<1>4. SwitchInsAreWaits' /\ FaultsAreNoWaits' /\ WalkedAreHeld'
  BY DEF StacksInv, SwitchInsAreWaits, FaultsAreNoWaits, WalkedAreHeld, Due
<1> QED BY <1>1, <1>2, <1>3, <1>4 DEF StacksInv

(* Every handler keeps the invariant.                                      *)
LEMMA StacksKeepIt == StacksInv /\ [StacksNext]_stackVars => StacksInv'
<1> SUFFICES ASSUME StacksInv, [StacksNext]_stackVars PROVE StacksInv'
  OBVIOUS
<1>1. stack_ts \in Nat /\ KeepWait \in Nat
  BY StacksAssumption DEF StacksInv, StackTypes, ClockTypes
<1>2. ASSUME NEW ts \in {stack_ts + 1}, NEW cpu \in Cpus, NEW irp \in Irps, NEW tid \in StackTids,
             on_disk_init(ts, cpu, irp, tid)
      PROVE  StacksInv'
  BY <1>1, <1>2, InitStep
<1>3. ASSUME NEW ts \in {stack_ts + 1}, NEW irp \in Irps, on_disk_done(ts, irp)
      PROVE  StacksInv'
  BY <1>1, <1>3, DoneStep
<1>4. ASSUME NEW ts \in {stack_ts + 1}, NEW cpu \in Cpus, NEW tid \in StackTids,
             NEW start \in {ts, Max2(ts - KeepWait, 0)}, on_fault(ts, cpu, start, tid)
      PROVE  StacksInv'
  <2>1. ts \in Nat /\ start \in Int
    BY <1>1 DEF Max2
  <2> QED BY <1>1, <1>4, <2>1, FaultStep
<1>5. ASSUME NEW ts \in {stack_ts + 1}, NEW cpu \in Cpus, NEW old \in StackTids, NEW new \in StackTids,
             NEW sleeps \in BOOLEAN, NEW worth \in BOOLEAN, on_switch(ts, cpu, old, new, sleeps, worth)
      PROVE  StacksInv'
  BY <1>1, <1>5, SwitchStep
<1>6. ASSUME NEW ts \in {stack_ts + 1}, NEW cpu \in Cpus, NEW by \in StackTids, NEW tid \in StackTids,
             on_ready(ts, cpu, by, tid)
      PROVE  StacksInv'
  BY <1>1, <1>6, ReadyStep
<1>7. ASSUME NEW ts \in {stack_ts + 1}, on_other(ts)
      PROVE  StacksInv'
  BY <1>1, <1>7, OtherStep
<1>8. ASSUME NEW raw, NEW cpu \in Cpus, on_stack(raw, cpu)
      PROVE  StacksInv'
  <2>1. CASE take(cpu, raw) # {}
    BY <1>8, <2>1, WalkStep
  <2>2. CASE take(cpu, raw) = {}
    <3>1. UNCHANGED <<stack_ts, pruned_at, per_cpu, io_init, off_at, stackRings, issued, asleep, waits>>
      BY <1>8, <2>2 DEF on_stack
    <3> QED BY <3>1, NothingOwn DEF stackRings
  <2> QED BY <2>1, <2>2
<1>9. CASE UNCHANGED stackVars
  BY <1>9, NothingOwn DEF stackVars, stackRings, world
<1> QED BY <1>2, <1>3, <1>4, <1>5, <1>6, <1>7, <1>8, <1>9 DEF StacksNext, StackStep

(* What is pending, in a ring or known of a request or a waiting thread is *)
(* always about the event, the request or the wait it was made for.        *)
THEOREM StacksInvariant == StacksSpec => []StacksInv
  BY StacksStart, StacksKeepIt, PTL DEF StacksSpec

(* The issuing stack reported with a slow request is the one walked when   *)
(* that very request was started, though Windows reuses IRPs at once and a *)
(* stack may come after its request is over (slow_io_stack).               *)
THEOREM IssuingOwn == StacksSpec => []IssuingStackIsItsOwn
<1>1. StacksInv => IssuingStackIsItsOwn
  <2> SUFFICES ASSUME StacksInv, NEW r \in StackHeld("DiskInit"), r.what = "Found" PROVE r.stack = r.from
    BY DEF IssuingStackIsItsOwn
  <2>1. "DiskInit" \in StackKinds /\ stack_head["DiskInit"] \in Nat /\ FoundIsOwn
    BY DEF StacksInv, StackTypes, RingTypes, StackKinds
  <2>2. PICK i \in stack_head["DiskInit"] + 1 .. Len(stack_log["DiskInit"]) : r = stack_log["DiskInit"][i]
    BY DEF StackHeld
  <2> QED BY <2>1, <2>2 DEF FoundIsOwn
<1> QED BY <1>1, StacksInvariant, PTL

(* A record of a ring is one of those ever pushed on it.                   *)
LEMMA HeldIsLogged ==
  ASSUME StacksInv, NEW k \in StackKinds, NEW s \in StackHeld(k)
  PROVE  \E i \in 1 .. Len(stack_log[k]) : s = stack_log[k][i]
<1>1. stack_head[k] \in Nat
  BY DEF StacksInv, StackTypes, RingTypes
<1>2. PICK i \in stack_head[k] + 1 .. Len(stack_log[k]) : s = stack_log[k][i]
  BY DEF StackHeld
<1> QED BY <1>1, <1>2

(* The switch-in stack wait_stack answers with is that of this very wait,  *)
(* never of the thread's next one, however close it came.                  *)
THEOREM WaitStackOwn == StacksSpec => []WaitStackIsItsOwn
<1>1. StacksInv => WaitStackIsItsOwn
  <2> SUFFICES ASSUME StacksInv PROVE WaitStackIsItsOwn
    OBVIOUS
  <2>0. "CSwitch" \in StackKinds /\ "Fault" \in StackKinds
    BY DEF StackKinds
  <2>1. ASSUME NEW s \in StackHeld("CSwitch")
        PROVE  s.ts = s.stack /\ \E w \in waits : w.tid = s.tid /\ w.since = s.since /\ w.ts = s.stack
    BY <2>0, HeldIsLogged DEF StacksInv, SwitchInsAreWaits
  <2>2. ASSUME NEW w \in waits, NEW s \in wait_stack(w.tid, w.since, w.ts), s \in StackHeld("CSwitch")
        PROVE  s.stack = w.ts
    <3>1. PICK v \in waits : v.tid = s.tid /\ v.since = s.since /\ v.ts = s.stack
      BY <2>1, <2>2
    <3>2. CASE s.tid = w.tid /\ s.since = w.since
      BY <3>1, <3>2 DEF StacksInv, WaitsInTurn
    <3>3. CASE s \in StackHeld("Fault")
      <4>1. v.ts # s.ts
        BY <3>3, <2>0, HeldIsLogged DEF StacksInv, FaultsAreNoWaits
      <4> QED BY <4>1, <3>1, <2>1, <2>2
    <3> QED BY <3>2, <3>3 DEF wait_stack
  <2> QED BY <2>1, <2>2 DEF WaitStackIsItsOwn
<1> QED BY <1>1, StacksInvariant, PTL

(* Where the switch-ins are said to cover a wait, its stack, if it came,   *)
(* is the answer (switch_ins_cover).                                       *)
THEOREM SwitchInsHonest == StacksSpec => []SwitchInsCoverHonestly
<1>1. StacksInv => SwitchInsCoverHonestly
  <2> SUFFICES ASSUME StacksInv, NEW w \in waits, w.worth, w.walked, w.ts - w.since >= KeepWait,
                      w.since >= pruned_at - InKeep, switch_ins_cover(w.since)
               PROVE  \E s \in wait_stack(w.tid, w.since, w.ts) : s.stack = w.ts
    BY DEF SwitchInsCoverHonestly
  <2>1. PICK i \in stack_head["CSwitch"] + 1 .. Len(stack_log["CSwitch"]) :
          stack_log["CSwitch"][i] = [ts |-> w.ts, tid |-> w.tid, since |-> w.since, stack |-> w.ts]
    BY DEF StacksInv, WalkedAreHeld, Due, switch_ins_cover
  <2>2. PICK s \in StackHeld("CSwitch") : s.tid = w.tid /\ s.since = w.since /\ s.ts = w.ts /\ s.stack = w.ts
    BY <2>1 DEF StackHeld
  <2>3. s.ts >= w.ts
    BY <2>2 DEF StacksInv, StackTypes, WorldTypes, Wait
  <2> QED BY <2>2, <2>3 DEF wait_stack
<1> QED BY <1>1, StacksInvariant, PTL

=============================================================================
