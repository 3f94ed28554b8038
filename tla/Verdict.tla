------------------------------ MODULE Verdict ------------------------------
(***************************************************************************)
(* What a stall is blamed on (analyze.rs: look, verdict_kernel,            *)
(* verdict_sched, verdict_freeze, pegged_cores, continuity; intr.rs,       *)
(* diskwait.rs).  The code sees DPC and ISR records, profiler samples, slow*)
(* requests and hard faults; a small world of processors does one thing   *)
(* per slot of the stall makes them here, and `track` remembers it.        *)
(*                                                                         *)
(* One stall per processor over one window of StallLen slots, each of Unit *)
(* ticks; one profiler sample per processor and slot.  Named assumption: a *)
(* processor that is neither held nor dark runs one ordinary DPC in every  *)
(* slot.  That may be too few for the "did DPCs keep running" check, whose *)
(* slices the slots do not line up with.                                   *)
(***************************************************************************)
EXTENDS Integers, FiniteSets, FiniteSetsExt, Sequences

CONSTANTS
  Cpus, Modules,
  Clock,        \* where ordinary DPCs, the timer's among them, come from
  Doings,       \* [kind, mod, prog]: what a processor may be does, kind being one of
                \*   "idle", "page" (idle, its probe waiting for a hard fault), "runs",
                \*   "calls" (kernel code of mod for prog), "spins" (the same at raised IRQL),
                \*   "long" (one DPC, over prog), "storm" (one DPC after the other), "nests" (DPCs and their ISRs), "dark"
  Requests,     \* slow disk requests there may be: sets of [disk, from, to]
  Refs,         \* what every source may have done before: [Modules \cup {Clock} -> counts per slot]
  Verdicts,     \* what the scheduler trace may have said of the probes, or "none"
  StallLen, Unit,
  CoverRule, ShareRule, SliceShare, PagingCover, Saturated, PeggedBusy, OthersIdle, DarkBelow, \* per cent
  MinSamples, MinDpcs, MinExpected, \* the fewest that count
  Slices,       \* SLICES
  SliceLen, MinRefEvents, SteadyShare, SilentBelow, ReducedBelow,  \* the reference window
  Lead, Slack,  \* TRIGGER_LEAD_MS, EDGE_SLACK_MS
  MaxTurns      \* bound: how often a processor turns to something else

Kinds == {"idle", "page", "runs", "calls", "spins", "long", "storm", "nests", "dark"}

(* An ordinary DPC takes a small part of its slot and is over before the   *)
(* slot's sample; and the idle thread is no driver's code.                 *)
ASSUME VerdictAssumption ==
  /\ StallLen \in Nat \ {0} /\ Unit \in Nat /\ Unit >= 4 /\ MaxTurns \in Nat
  /\ IsFiniteSet(Cpus) /\ Cpus # {}
  /\ \A d \in Doings : d.kind \in Kinds /\ d.mod # Clock /\ (d.kind \in {"idle", "page"} => d.prog = "Idle")
  /\ CoverRule \in Nat /\ CoverRule * Unit > 100
  /\ PeggedBusy \in 0 .. 100 /\ ShareRule \in 0 .. PeggedBusy
  /\ SliceShare \in 0 .. 100 /\ MinDpcs \in Nat /\ Slices \in Nat \ {0}

VARIABLES does, track, turns, ref, request, verdict
verdictVars == <<does, track, turns, ref, request, verdict>>

Unsaid == [is |-> "nothing yet"]

VerdictInit ==
  /\ does \in [Cpus -> Doings] /\ track = [c \in Cpus |-> <<>>] /\ turns = 0
  /\ ref \in Refs /\ request \in Requests /\ verdict = Unsaid

-----------------------------------------------------------------------------
(* The world (external).                                                   *)
Lasted == Len(track[CHOOSE c \in Cpus : TRUE])

Turn(c, d) ==
  /\ turns < MaxTurns /\ d # does[c] /\ 0 < Lasted /\ Lasted < StallLen
  /\ turns' = turns + 1 /\ does' = [does EXCEPT ![c] = d]
  /\ UNCHANGED <<track, ref, request, verdict>>

Slot ==
  /\ Lasted < StallLen
  /\ track' = [c \in Cpus |-> Append(track[c], does[c])]
  /\ UNCHANGED <<does, turns, ref, request, verdict>>

-----------------------------------------------------------------------------
(* The records.                                                            *)
Slots == 0 .. StallLen - 1
AtSlot(c, i) == track[c][i + 1]
End == StallLen * Unit
AtLevel(c, i) == AtSlot(c, i).kind \in {"idle", "page", "runs", "calls"}

Exec(from, to, mod, isr) == [from |-> from, to |-> to, mod |-> mod, isr |-> isr]

(* The slots one long DPC runs through, from the one it begins in. *)
Through(c, i) ==
  Max({j \in Slots : i <= j /\ \A k \in i .. j : AtSlot(c, k) = AtSlot(c, i)})

ExecsAt(c, i) ==
  LET d == AtSlot(c, i) from == i * Unit
  IN CASE AtLevel(c, i)    -> {Exec(from, from + 1, Clock, FALSE)}
       [] d.kind = "storm" -> {Exec(t, t + 1, d.mod, FALSE) : t \in from .. from + Unit - 1}
       [] d.kind = "nests" -> {Exec(from, from + Unit, d.mod, FALSE), Exec(from + 1, from + Unit, d.mod, TRUE)}
       [] d.kind = "long" /\ (i = 0 \/ AtSlot(c, i - 1) # d)
                           -> {Exec(from, (Through(c, i) + 1) * Unit, d.mod, FALSE)}
       [] OTHER            -> {}

Execs(c) == UNION {ExecsAt(c, i) : i \in Slots}

(* A sample lands in every slot, unless interrupts are off. *)
Sampled == {s \in Cpus \X Slots : AtSlot(s[1], s[2]).kind # "dark"}
SampleTick(i) == i * Unit + Unit \div 2
IdleSample(s) == AtSlot(s[1], s[2]).prog = "Idle"
SampleMod(s) == AtSlot(s[1], s[2]).mod

Percent(n, whole, share) == n * 100 >= share * whole
Half(n) == n * 2 >= Cardinality(Cpus)      \* n >= stalls.len().div_ceil(2)

-----------------------------------------------------------------------------
(* Mutated: nested intervals are summed. *)
Summed(spans) == MapThenSumSet(LAMBDA e : e.to - e.from, spans)

(* The ticks covered by possibly overlapping intervals. *)
union_len(spans) == Cardinality(UNION {e.from .. e.to - 1 : e \in spans})

slice_of(t) == (t * Slices) \div End
slices_covered(dpcs) == Cardinality({slice_of(e.from) : e \in dpcs})

(* Mutated: nothing is made of the DPCs that ran. *)
NeverKept(c) == FALSE

(* dpcs_kept_running: in most slices, and enough of them. *)
kept(c) ==
  LET dpcs == {e \in Execs(c) : ~e.isr}
  IN Cardinality(dpcs) >= MinDpcs /\ Percent(slices_covered(dpcs), Slices, SliceShare)

ExecsOf(c, m) == {e \in Execs(c) : e.mod = m}
CoveredBy(m) == {c \in Cpus : Percent(union_len(ExecsOf(c, m)), End, CoverRule)}
TimeOf(m) == SumFunction([c \in Cpus |-> union_len(ExecsOf(c, m))])

(* The module blamed: on half the stalled processors, on most of them, for longest. *)
blame ==
  LET able == {m \in Modules \cup {Clock} : Half(Cardinality(CoveredBy(m)))}
      most == {m \in able : \A o \in able : Cardinality(CoveredBy(o)) <= Cardinality(CoveredBy(m))}
  IN {m \in most : \A o \in most : TimeOf(o) <= TimeOf(m)}

could_be_held == Cardinality({c \in Cpus : ~kept(c)}) * 2 >= Cardinality(Cpus)

(* sample_breakdown: the first of each list, when its share is enough. *)
ProcOf(p) == Cardinality({s \in Sampled : AtSlot(s[1], s[2]).prog = p})
ModOf(m) == Cardinality({s \in Sampled : SampleMod(s) = m /\ ~IdleSample(s)})
Progs == {AtSlot(s[1], s[2]).prog : s \in Sampled}
FirstProc == {p \in Progs : \A q \in Progs : ProcOf(q) <= ProcOf(p)}
FirstMod == {m \in Modules : ModOf(m) > 0 /\ \A o \in Modules : ModOf(o) <= ModOf(m)}
Enough(n) == Percent(n, Cardinality(Sampled), ShareRule) /\ Cardinality(Sampled) >= MinSamples

(* probe_paging: on how many processors a fault of the probe covers the stall. *)
paging ==
  LET on == {c \in Cpus : Percent(Cardinality({i \in Slots : AtSlot(c, i).kind = "page"}), StallLen, PagingCover)}
  IN on # {} /\ Half(Cardinality(on))

-----------------------------------------------------------------------------
(* continuity and intr::flow: how a source did against its usual rate.     *)
Count(m) == SumFunction([c \in Cpus |-> Cardinality(ExecsOf(c, m))])
RefLen == Len(ref[Clock])
RefEvents(m) == SumFunction(ref[m])
slices == RefLen \div SliceLen
slices_seen(m) == Cardinality({(i - 1) \div SliceLen : i \in {j \in DOMAIN ref[m] : ref[m][j] > 0}})
steady(m) == slices >= 2 /\ RefEvents(m) >= MinRefEvents /\ Percent(slices_seen(m), slices, SteadyShare)

(* The events expected in the stall, times RefLen. *)
expected(m) == RefEvents(m) * StallLen

flow(m) ==
  IF ~steady(m) \/ expected(m) < MinExpected * RefLen THEN "cannot say"
  ELSE LET seen == Count(m) * RefLen
       IN IF ~Percent(seen, expected(m), SilentBelow) THEN "silent"
          ELSE IF ~Percent(seen, expected(m), ReducedBelow) THEN "reduced" ELSE "continued"

silent == {m \in Modules : flow(m) = "silent"}
continued == {m \in Modules : flow(m) = "continued"}
timer == flow(Clock)

-----------------------------------------------------------------------------
(* diskwait::explain: the request that covers the delay, or the probe's own fault. *)
Overlap(r) == LET from == Max({r.from, 0}) to == Min({r.to, End}) IN IF to > from THEN to - from ELSE 0
role_in(r) ==
  IF r.from <= -Lead /\ r.to >= End - Slack THEN "trigger"
  ELSE IF r.from >= -Lead /\ r.to <= End + Slack THEN "victim" ELSE "overlap"

disk_waits ==
  LET covers == {r \in request : Overlap(r) * 2 >= End}
      before(r, q) == role_in(q) = "trigger" /\ role_in(r) # "trigger"
      longer(r, q) == (role_in(q) = "trigger") = (role_in(r) = "trigger") /\ q.to - q.from > r.to - r.from
  IN {r \in covers : ~\E q \in covers : before(r, q) \/ longer(r, q)}

own_fault == \E c \in Cpus : Percent(Cardinality({i \in Slots : AtSlot(c, i).kind = "page"}), StallLen, PagingCover)

not_woken_culprit(probes, fallback) ==
  CASE probes = "not woken" -> "nothing woke the thread"
    [] probes = "queued"    -> "given no processor"
    [] OTHER                -> fallback

Culprit(is, who) == [is |-> is, who |-> who]

(* verdict_kernel *)
kernel_culprits(profile, probes) ==
  LET mods == {m \in FirstMod : Enough(ModOf(m)) /\ could_be_held}
      procs == {p \in FirstProc : Enough(ProcOf(p)) /\ p # "Idle" /\ could_be_held}
      wanted == Cardinality(Cpus) * StallLen
      dark == profile /\ could_be_held /\ wanted >= 3 /\ ~Percent(Cardinality(Sampled), wanted, DarkBelow)
  IN CASE paging        -> {Culprit("paging", "")}
       [] blame # {}    -> {Culprit("driver", m) : m \in blame}
       [] dark          -> {Culprit("went dark", "")}
       [] mods # {}     -> {Culprit("driver at raised IRQL", m) : m \in mods}
       [] procs # {}    -> {Culprit("process at raised IRQL", p) : p \in procs}
       [] ~could_be_held -> {Culprit(not_woken_culprit(probes, "not woken"), "")}
       [] OTHER         -> {Culprit("unexplained", "")}

-----------------------------------------------------------------------------
(* core_loads: idle is the idle thread with no DPC or ISR over it.         *)
On(c) == {s \in Sampled : s[1] = c}

(* Mutated: what the records say of interrupts is not looked at. *)
NeverIn(s) == FALSE

in_spans(s) == \E e \in Execs(s[1]) : e.from <= SampleTick(s[2]) /\ SampleTick(s[2]) <= e.to

ReallyIdle(c) == {s \in On(c) : IdleSample(s) /\ ~in_spans(s)}
idle_samples(S) == SumFunction([c \in S |-> Cardinality(ReallyIdle(c))])
samples(S) == SumFunction([c \in S |-> Cardinality(On(c))])
saturated == ~Percent(idle_samples(Cpus), samples(Cpus), Saturated) \/ Sampled = {}

pegged_cores ==
  LET judged == {c \in Cpus : Cardinality(On(c)) >= MinSamples}
      hot    == {c \in judged : Percent(Cardinality(On(c)) - Cardinality(ReallyIdle(c)), Cardinality(On(c)), PeggedBusy)}
      rest   == judged \ hot
      few    == Max({Cardinality(judged) \div 4, 1})
  IN IF rest # {} /\ Cardinality(hot) <= few /\ Percent(idle_samples(rest), samples(rest), OthersIdle) THEN hot ELSE {}

(* The samples in a driver's code, and those of a program outside of it.   *)
Within(c) == {s \in On(c) : in_spans(s)}
ThreadOf(c, p) == {s \in On(c) \ Within(c) : AtSlot(c, s[2]).prog = p}

(* How long m's code ran between the first and the last sample. *)
TimeBetween(c, m) ==
  LET ticks == {SampleTick(s[2]) : s \in On(c)}
  IN MapThenSumSet(LAMBDA e : Max({0, Min({e.to, Max(ticks)}) - Max({e.from, Min(ticks)})}), ExecsOf(c, m))

core_holder(c) ==
  LET enough(S) == Percent(Cardinality(S), Cardinality(On(c)), ShareRule)
      mods  == {e.mod : e \in Execs(c)}
      progs == {p \in Progs \ {"Idle"} : enough(ThreadOf(c, p))}
  IN IF enough(Within(c))
     THEN {Culprit("driver", m) : m \in {n \in mods : \A o \in mods : TimeBetween(c, o) <= TimeBetween(c, n)}}
     ELSE IF progs = {} THEN {Culprit("unnamed", "")}
     ELSE {Culprit("program", p) :
             p \in {q \in progs : \A o \in progs : Cardinality(ThreadOf(c, o)) <= Cardinality(ThreadOf(c, q))}}

(* verdict_sched *)
sched_culprits(profile, probes) ==
  LET busy == Progs \ {"Idle"}
      top  == {p \in busy : \A q \in busy : ProcOf(q) <= ProcOf(p)}
  IN CASE ~profile \/ Sampled = {} -> {Culprit("starved", "")}
       [] saturated         -> {Culprit("process", p) : p \in IF top = {} THEN {"?"} ELSE top}
       [] disk_waits # {}   -> {Culprit("disk", r.disk) : r \in disk_waits}
       [] own_fault         -> {Culprit("paging", "")}
       [] OTHER             -> {Culprit(not_woken_culprit(probes, "idle CPUs"), "")}

-----------------------------------------------------------------------------
Say(culprit, more) == verdict' = [is |-> "said", culprit |-> culprit, silent |-> silent, more |-> more]

Judge ==
  /\ Lasted = StallLen /\ verdict = Unsaid
  /\ \E profile \in BOOLEAN, probes \in Verdicts :
       \/ \E k \in kernel_culprits(profile, probes) : Say(k, {})
       \/ \E k \in sched_culprits(profile, probes) :
            IF ~profile \/ saturated \/ pegged_cores = {} THEN Say(k, {})
            ELSE \E c \in pegged_cores : \E h \in core_holder(c) : Say(k, {<<c, h>>})
  /\ UNCHANGED <<does, track, turns, ref, request>>

(* verdict_freeze: what held part of it, what kept going, what coincided.  *)
JudgeFreeze ==
  /\ Lasted = StallLen /\ verdict = Unsaid
  /\ \E holding \in (IF blame = {} THEN {"none"} ELSE blame) :
       Say(Culprit("whole-PC freeze", ""),
           {[holding |-> holding, dpcs_kept_running |-> Cardinality({c \in Cpus : ~kept(c)}) * 2 < Cardinality(Cpus),
             continued |-> continued, timer |-> timer, roles |-> {role_in(r) : r \in disk_waits}]})
  /\ UNCHANGED <<does, track, turns, ref, request>>

VerdictNext ==
  \/ Slot
  \/ \E c \in Cpus, d \in Doings : Turn(c, d)
  \/ Judge \/ JudgeFreeze

VerdictSpec == VerdictInit /\ [][VerdictNext]_verdictVars

-----------------------------------------------------------------------------
Said == verdict # Unsaid
Spent(c, kinds) == Cardinality({i \in Slots : AtSlot(c, i).kind \in kinds})

(* A driver is said to have kept the processors in its DPC and ISR code,   *)
(* or to have held part of a freeze, only if its code really took up that  *)
(* share of the time on at least half of the stalled processors, however   *)
(* its interrupts nested and whatever they interrupted.                    *)
Took(m) == Half(Cardinality({c \in Cpus :
             Percent(Cardinality({i \in Slots : ~AtLevel(c, i) /\ AtSlot(c, i).kind \notin {"spins", "dark"} /\ AtSlot(c, i).mod = m}),
                     StallLen, CoverRule)}))

BlameIsEarned ==
  Said => /\ verdict.culprit.is = "driver" => Took(verdict.culprit.who)
          /\ verdict.culprit.is = "whole-PC freeze" =>
               \A f \in verdict.more : f.holding # "none" => Took(f.holding)

(* Nothing is said to have been at raised IRQL, on the strength of the     *)
(* samples, when DPCs could run on most of the stalled processors: on half *)
(* of them at least the slots in which one could begin lie in too few of   *)
(* the slices, or are fewer than the DPCs it takes to tell.  The latter is *)
(* how it comes out in a short stall that a few DPCs run right through.    *)
FreeSlots(c) == {i \in Slots : AtSlot(c, i).kind \notin {"spins", "dark", "long"}}
NobodyIsFramed ==
  (Said /\ verdict.culprit.is \in {"driver at raised IRQL", "process at raised IRQL", "went dark"}) =>
    Half(Cardinality({c \in Cpus :
      \/ Cardinality(FreeSlots(c)) < MinDpcs
      \/ ~Percent(Cardinality({slice_of(i * Unit) : i \in FreeSlots(c)}), Slices, SliceShare)}))

(* "mostly P" is said of a busy core only when P itself was running there  *)
(* for that share of it, not just interrupted there; and a core is called  *)
(* busy with nothing to name only when it was not simply idle.             *)
CoreHolderIsReal ==
  (Said /\ verdict.culprit.is # "whole-PC freeze") =>
    \A m \in verdict.more :
      LET c == m[1] h == m[2]
      IN /\ h.is = "program" =>
              Percent(Cardinality({i \in Slots : AtSlot(c, i).kind \in {"runs", "calls", "spins"} /\ AtSlot(c, i).prog = h.who}),
                      Cardinality(On(c)), ShareRule)
         /\ Percent(StallLen - Spent(c, {"idle", "page"}), StallLen, ShareRule)

(* "a driver that naturally fires in bursts raises no alarm": a source     *)
(* that is said to have stopped was never as quiet for as long before.     *)
BurstsRaiseNoAlarm ==
  Said => \A m \in verdict.silent :
    \A i \in 1 .. RefLen - StallLen + 1 :
      Percent(SumFunction([j \in i .. i + StallLen - 1 |-> ref[m][j]]) * RefLen, expected(m), SilentBelow)

(* "When they did, nothing may claim that the CPU was held at raised       *)
(* IRQL": code named as having been at raised IRQL ran where no DPCs did.  *)
KeptMeansNotHeld ==
  (Said /\ verdict.culprit.is = "driver at raised IRQL") =>
    \E c \in Cpus : ~kept(c) /\ \E i \in Slots : AtSlot(c, i).mod = verdict.culprit.who

(* "No DPC ran on the stalled CPU(s) while it did, so it was at raised     *)
(* IRQL" (verdict_kernel).                                                 *)
NoDpcRan ==
  (Said /\ verdict.culprit.is = "driver at raised IRQL") =>
    \A c \in Cpus, i \in Slots :
      AtSlot(c, i).mod = verdict.culprit.who => \A e \in Execs(c) : e.isr \/ e.from \div Unit # i
=============================================================================
