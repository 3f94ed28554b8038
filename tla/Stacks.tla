------------------------------- MODULE Stacks -------------------------------
(***************************************************************************)
(* Call stacks (stacks.rs).  Windows logs the stack of an event as an      *)
(* event of its own, right after it and most of the time on the same       *)
(* processor.  The callback keeps a few events per processor that may      *)
(* still get a stack, decides with each event whether its stack will be    *)
(* worth keeping, and files the stack when it comes: with the outstanding  *)
(* disk request, or in one of four rings.                                  *)
(*                                                                         *)
(* A stack's frames are abstracted to the time stamp of the event it was   *)
(* walked for, which is what Windows puts in it; two events never share a  *)
(* time stamp here.  Sizes, frame counts and the samples for --debug are   *)
(* left out.                                                               *)
(***************************************************************************)
EXTENDS Rings, FiniteSets, FiniteSetsExt, Functions

CONSTANTS
  StackTids, Cpus, Irps,
  Sets,         \* what the session may be asked for: sets of kinds
  Slots,        \* PENDING_PER_CPU
  InitCap,      \* IO_INIT_CAP
  RingCap,      \* SLOW_IO_CAP, FAULT_CAP, switch_cap, ready_cap
  KeepWait,     \* KEEP_WAIT_MS
  IoWarn,       \* Shared::io_warn
  FaultLate,    \* FAULT_LATE_MS
  Slack,        \* the millisecond wait_stack allows
  RunKeep,         \* Shared::keep
  InKeep,   \* SWITCH_KEEP_MS
  StackPruneEvery,   \* keep / 8
  MaxWalks,     \* bound: stacks under way at a time
  MaxStackTs         \* bound: the newest trace time

StackKinds == {"CSwitch", "Ready", "DiskInit", "Fault"}

Never == -1

ASSUME StacksAssumption ==
  /\ Sets \subseteq SUBSET StackKinds /\ StackTids # {} /\ Cpus # {} /\ Cpus \subseteq Nat
  /\ Slots \in Nat \ {0} /\ InitCap \in Nat /\ RingCap \in Nat \ {0}
  /\ KeepWait \in Nat /\ IoWarn \in Nat /\ RunKeep \in Nat /\ InKeep \in Nat

VARIABLES
  stack_ts, pruned_at,
  set,           \* StackState.set: the kinds of event that carry a stack
  per_cpu,       \* [Cpus -> Seq(Pending)]
  io_init,       \* outstanding requests whose start was seen: a function on Irps
  off_at,        \* threads in a wait: a function on StackTids
  stack_log,     \* [StackKinds -> Seq]: slow_io, faults, switch_ins, readies...
  stack_head,    \* ...and what was popped from each
  lost_until,    \* [StackKinds -> Int]
  issued,        \* Windows: [Irps -> when the outstanding request was started]
  asleep,        \* Windows: [StackTids -> [since, worth]]
  walks,         \* stacks that are still to come
  waits          \* waits that are over: tid, since, ts, worth, walked

stackRings == <<stack_log, stack_head, lost_until>>
world == <<issued, asleep, waits>>
stackVars == <<stack_ts, pruned_at, set, per_cpu, io_init, off_at, stackRings, world, walks>>

Awake == [since |-> Never, worth |-> FALSE]
NoInitEver == [x \in {} |-> 0]

(* A request may have been started before the trace was. *)
StacksInit ==
  /\ stack_ts = 0 /\ pruned_at = 0 /\ set \in Sets
  /\ per_cpu = [c \in Cpus |-> <<>>] /\ io_init = NoInitEver /\ off_at = NoInitEver
  /\ stack_log = [k \in StackKinds |-> <<>>] /\ stack_head = [k \in StackKinds |-> 0]
  /\ lost_until = [k \in StackKinds |-> Never]
  /\ issued \in [Irps -> {Never, 0}] /\ asleep = [t \in StackTids |-> Awake]
  /\ walks = {} /\ waits = {}

-----------------------------------------------------------------------------
Has(k) == k \in set

(* StackState::prune, as part of the Inner::prune that this event brings   *)
(* about when one is due: the rings and the two maps it leaves.            *)
StackPruneDue(ts) == ts - pruned_at > StackPruneEvery
StackKeep(k) == IF k \in {"CSwitch", "Ready"} THEN InKeep ELSE RunKeep

Since(f, cut, age(_)) == Restrict(f, {x \in DOMAIN f : age(f[x]) >= cut})

stack_prune(ts) ==
  IF ~StackPruneDue(ts) THEN [head |-> stack_head, init |-> io_init, off |-> off_at]
  ELSE [head |-> [k \in StackKinds |-> PruneOne(stack_log[k], stack_head[k], ts - StackKeep(k))],
        init |-> Since(io_init, ts - RunKeep, LAMBDA v : v.ts),
        off  |-> Since(off_at, ts - InKeep, LAMBDA v : v.since)]

(* An event at a later time, before its handler. *)
StackEvent(ts) ==
  /\ ts <= MaxStackTs /\ stack_ts' = ts
  /\ pruned_at' = IF StackPruneDue(ts) THEN ts ELSE pruned_at

pend(cpu, p) ==
  [per_cpu EXCEPT ![cpu] = IF Len(@) >= Slots THEN Append(Tail(@), p) ELSE Append(@, p)]

(* The event is pending, and Windows may or may not walk its stack. *)
Pends(cpu, p) ==
  /\ per_cpu' = pend(cpu, p)
  /\ \/ \E t \in p.tids : Cardinality(walks) < MaxWalks /\ walks' = walks \cup {[ts |-> p.ts, tid |-> t]}
     \/ walks' = walks

Wants(ts, tids, kind, want, key, since) ==
  [ts |-> ts, tids |-> tids, kind |-> kind, want |-> want, key |-> key, since |-> since]

(* Mutated: what the cap throws away is not dated. *)
PushUndated(k, r, h) ==
  LET lg == Append(stack_log[k], r)
  IN /\ stack_log' = [stack_log EXCEPT ![k] = lg]
     /\ stack_head' = IF Len(lg) - h[k] > RingCap THEN [h EXCEPT ![k] = @ + 1] ELSE h
     /\ UNCHANGED lost_until

(* push_capped on ring k, whose head is h. *)
push_stack(k, r, h) ==
  LET lg   == Append(stack_log[k], r)
      over == Len(lg) - h[k] > RingCap
  IN /\ stack_log' = [stack_log EXCEPT ![k] = lg]
     /\ stack_head' = IF over THEN [h EXCEPT ![k] = @ + 1] ELSE h
     /\ lost_until' = IF over THEN [lost_until EXCEPT ![k] = Max2(@, lg[h[k] + 1].ts)] ELSE lost_until

Put(f, x, v) == [y \in DOMAIN f \cup {x} |-> IF y = x THEN v ELSE f[y]]
Drop(f, x) == Restrict(f, DOMAIN f \ {x})

-----------------------------------------------------------------------------
(* ReadInit, WriteInit, FlushInit. *)
on_disk_init(ts, cpu, irp, tid) ==
  /\ Has("DiskInit") /\ issued[irp] = Never /\ StackEvent(ts)
  /\ issued' = [issued EXCEPT ![irp] = ts]
  /\ LET b    == stack_prune(ts)
         full == Cardinality(DOMAIN b.init) >= InitCap /\ irp \notin DOMAIN b.init
     IN /\ io_init' = IF full THEN b.init ELSE Put(b.init, irp, [ts |-> ts, stack |-> Never])
        /\ Pends(cpu, Wants(ts, {tid}, "DiskInit", ~full, irp, ts))
        /\ off_at' = b.off /\ stack_head' = b.head
  /\ UNCHANGED <<stack_log, lost_until, asleep, waits>>

(* A request completes.  What is known about its issuing stack is kept if  *)
(* it was slow; `from` is when it was really started.                      *)
on_disk_done(ts, irp) ==
  /\ Has("DiskInit") /\ issued[irp] # Never /\ StackEvent(ts)
  /\ issued' = [issued EXCEPT ![irp] = Never]
  /\ LET b     == stack_prune(ts)
         what  == CASE irp \notin DOMAIN b.init -> "NoInit"
                    [] irp \in DOMAIN b.init /\ b.init[irp].stack = Never -> "NoStack"
                    [] OTHER -> "Found"
         stack == IF what = "Found" THEN b.init[irp].stack ELSE Never
         slow  == ts - issued[irp] >= IoWarn
     IN /\ io_init' = Drop(b.init, irp) /\ off_at' = b.off
        /\ IF slow
           THEN push_stack("DiskInit", [ts |-> ts, irp |-> irp, what |-> what, stack |-> stack,
                                        from |-> issued[irp]], b.head)
           ELSE stack_head' = b.head /\ UNCHANGED <<stack_log, lost_until>>
  /\ UNCHANGED <<per_cpu, walks, asleep, waits>>

(* A hard fault of `tid` that began at `start` is over. *)
on_fault(ts, cpu, start, tid) ==
  /\ Has("Fault") /\ asleep[tid].since = Never /\ StackEvent(ts)
  /\ LET b == stack_prune(ts)
     IN io_init' = b.init /\ off_at' = b.off /\ stack_head' = b.head
  /\ Pends(cpu, Wants(ts, {tid}, "Fault", ts - start >= KeepWait, tid, start))
  /\ UNCHANGED <<stack_log, lost_until, world>>

(* Mutated: the thread that comes back is still taken to be waiting. *)
OffAtStays(off, ts, old, new, sleeps, worth) ==
  IF sleeps THEN Put(off, old, [since |-> ts, worth |-> worth]) ELSE off

(* Who is waiting, and since when, after a switch. *)
off_after(off, ts, old, new, sleeps, worth) ==
  IF sleeps THEN Put(Drop(off, new), old, [since |-> ts, worth |-> worth]) ELSE Drop(off, new)

(* `old` goes, into a wait or not, and `new` comes. *)
on_switch(ts, cpu, old, new, sleeps, worth) ==
  /\ Has("CSwitch") \/ Has("Ready")
  /\ old # new /\ asleep[old].since = Never /\ StackEvent(ts)
  /\ LET b    == stack_prune(ts)
         back == new \in DOMAIN b.off
         want == back /\ ts - b.off[new].since >= KeepWait /\ b.off[new].worth
     IN /\ io_init' = b.init /\ stack_head' = b.head
        /\ off_at' = off_after(b.off, ts, old, new, sleeps, worth)
        /\ IF Has("CSwitch")
           THEN Pends(cpu, Wants(ts, {old, new}, "CSwitch", want, new, IF back THEN b.off[new].since ELSE Never))
           ELSE UNCHANGED <<per_cpu, walks>>
  /\ asleep' = [asleep EXCEPT ![new] = Awake,
                              ![old] = IF sleeps THEN [since |-> ts, worth |-> worth] ELSE @]
  /\ waits' = IF asleep[new].since = Never THEN waits
              ELSE waits \cup {[tid |-> new, since |-> asleep[new].since, ts |-> ts,
                                worth |-> asleep[new].worth, walked |-> FALSE]}
  /\ UNCHANGED <<stack_log, lost_until, issued>>

(* `by` readies `tid`, which goes on waiting for a processor. *)
on_ready(ts, cpu, by, tid) ==
  /\ Has("Ready") /\ by # tid /\ asleep[by].since = Never /\ asleep[tid].since # Never /\ StackEvent(ts)
  /\ LET b    == stack_prune(ts)
         want == tid \in DOMAIN b.off /\ ts - b.off[tid].since >= KeepWait /\ b.off[tid].worth
     IN /\ io_init' = b.init /\ off_at' = b.off /\ stack_head' = b.head
        /\ Pends(cpu, Wants(ts, {by, tid}, "Ready", want, tid, IF want THEN b.off[tid].since ELSE Never))
  /\ UNCHANGED <<stack_log, lost_until, world>>

(* Any other event, and any of a kind that was not asked for. *)
on_other(ts) ==
  /\ StackEvent(ts)
  /\ LET b == stack_prune(ts)
     IN io_init' = b.init /\ off_at' = b.off /\ stack_head' = b.head
  /\ UNCHANGED <<per_cpu, walks, stack_log, lost_until, world>>

(* take: the event a stack belongs to, on its own processor if it can be,  *)
(* as the processor and the position.                                      *)
take(cpu, raw) ==
  LET hits(c) == {i \in DOMAIN per_cpu[c] : per_cpu[c][i].ts = raw.ts /\ raw.tid \in per_cpu[c][i].tids}
      on == IF hits(cpu) # {} THEN {cpu} ELSE {c \in Cpus : hits(c) # {}}
  IN {<<c, Min(hits(c))>> : c \in IF on = {} THEN {} ELSE {Min(on)}}

(* Mutated: the stack goes to whatever request has the pointer now. *)
FilesAnyway(irp, p) == irp \in DOMAIN io_init

(* The outstanding request a start's stack still belongs to. *)
StillOut(irp, p) == irp \in DOMAIN io_init /\ io_init[irp].ts = p.ts

(* A stack arrives on processor cpu. *)
on_stack(raw, cpu) ==
  /\ raw \in walks /\ walks' = walks \ {raw}
  /\ IF take(cpu, raw) = {}
     THEN UNCHANGED <<per_cpu, io_init, stackRings, waits>>
     ELSE LET at == CHOOSE x \in take(cpu, raw) : TRUE
              p  == per_cpu[at[1]][at[2]]
          IN /\ per_cpu' = [per_cpu EXCEPT ![at[1]] = [i \in 1 .. Len(@) - 1 |-> IF i < at[2] THEN @[i] ELSE @[i + 1]]]
             /\ waits' = {IF w.ts = p.ts /\ w.tid = p.key THEN [w EXCEPT !.walked = TRUE] ELSE w : w \in waits}
             /\ IF p.kind = "DiskInit" /\ p.want
                THEN /\ io_init' = IF StillOut(p.key, p) THEN [io_init EXCEPT ![p.key].stack = raw.ts] ELSE io_init
                     /\ UNCHANGED stackRings
                ELSE /\ UNCHANGED io_init
                     /\ IF p.want
                        THEN push_stack(p.kind, [ts |-> p.ts, tid |-> p.key, since |-> p.since, stack |-> raw.ts], stack_head)
                        ELSE UNCHANGED stackRings
  /\ UNCHANGED <<stack_ts, pruned_at, off_at, issued, asleep>>

StackStep ==
  \/ \E ts \in {stack_ts + 1}, cpu \in Cpus :
       \/ \E irp \in Irps, tid \in StackTids : on_disk_init(ts, cpu, irp, tid)
       \/ \E irp \in Irps : on_disk_done(ts, irp)
       \/ \E tid \in StackTids, start \in {ts, Max2(ts - KeepWait, 0)} : on_fault(ts, cpu, start, tid)
       \/ \E old, new \in StackTids, sleeps, worth \in BOOLEAN :
            (worth => sleeps) /\ on_switch(ts, cpu, old, new, sleeps, worth)
       \/ \E by, tid \in StackTids : on_ready(ts, cpu, by, tid)
       \/ on_other(ts)
  \/ \E raw \in walks, cpu \in Cpus : on_stack(raw, cpu)

StacksNext == StackStep /\ UNCHANGED set

StacksSpec == StacksInit /\ [][StacksNext]_stackVars

-----------------------------------------------------------------------------
(* What the analyzer reads.                                                *)

StackHeld(k) == {stack_log[k][i] : i \in stack_head[k] + 1 .. Len(stack_log[k])}

slow_io_stack(end, irp) == {r \in StackHeld("DiskInit") : r.ts = end /\ r.irp = irp}

switch_ins_cover(since) == Has("CSwitch") /\ lost_until["CSwitch"] < since

(* wait_stack for a wait of tid that began at off and ended at woke: the   *)
(* stack of this very wait, or of a fault that spans it.                   *)
wait_stack(tid, off, woke) ==
  LET ins   == {s \in StackHeld("CSwitch") : s.tid = tid /\ s.since = off /\ s.ts >= woke}
      spans == {f \in StackHeld("Fault") : /\ f.tid = tid /\ f.since <= off + Slack
                                           /\ f.ts >= woke - Slack /\ f.ts <= woke + FaultLate}
      dist(f) == IF f.ts >= woke THEN f.ts - woke ELSE woke - f.ts
  IN IF ins # {} THEN ins ELSE {f \in spans : \A g \in spans : dist(f) <= dist(g)}

-----------------------------------------------------------------------------
(* "The issuing stack" (slow_io_stack): IRPs are reused at once and a      *)
(* stack may come after its request is over, but the stack reported with a *)
(* slow request was walked when that very request was started.             *)
IssuingStackIsItsOwn ==
  \A r \in StackHeld("DiskInit") : r.what = "Found" => r.stack = r.from

(* "A switch-in stack must name exactly that wait, so the thread's next    *)
(* wait, however close, is never taken for this one" (wait_stack).         *)
WaitStackIsItsOwn ==
  /\ \A r \in StackHeld("CSwitch") : \E w \in waits : w.tid = r.tid /\ w.since = r.since /\ w.ts = r.stack
  /\ \A w \in waits : \A s \in wait_stack(w.tid, w.since, w.ts) : s \in StackHeld("CSwitch") => s.stack = w.ts

(* "Do the switch-in stacks honestly cover a wait that began at since?"    *)
(* If they do, the rings' window reaches back to it and its stack came in  *)
(* time, then the stack is there.                                          *)
SwitchInsCoverHonestly ==
  \A w \in waits :
    w.worth /\ w.walked /\ w.ts - w.since >= KeepWait
    /\ w.since >= pruned_at - InKeep /\ switch_ins_cover(w.since)
      => \E s \in wait_stack(w.tid, w.since, w.ts) : s.stack = w.ts

=============================================================================
