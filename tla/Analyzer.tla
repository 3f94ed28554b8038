------------------------------ MODULE Analyzer ------------------------------
(***************************************************************************)
(* From late wake-ups to incidents and answered marks (src/analyze.rs      *)
(* `Analyzer::tick`, fed by the probes of src/probe.rs, driven and finally *)
(* flushed by `run_inner` in src/engine.rs).                               *)
(*                                                                         *)
(* The pinned kernel probes run in a child process and report through a    *)
(* pipe; the scheduler probe is a thread of this process and reports       *)
(* straight into the channel.  The analyzer drains the channel about ten   *)
(* times a second, clusters what it has, pairs the two views of one event, *)
(* waits for the trace to catch up and files incidents.  A person may flag *)
(* a moment at any time.                                                   *)
(*                                                                         *)
(* One tick is three steps, because the clock, the trace and the probes go *)
(* on while it runs: it reads the clock when it drains the channel, the    *)
(* clock and the trace again when it looks at the marks, and the trace     *)
(* once more when it files incidents.  `report_notables`, which runs       *)
(* between the first two, is modelled in Notables.                         *)
(*                                                                         *)
(* `drained` and `woke` are history: everything ever received, and the     *)
(* last time each probe reported.                                          *)
(***************************************************************************)
EXTENDS Integers, FiniteSets, Sequences, SequencesExt, Selections

CONSTANTS
  Cpus,         \* the logical processors, one kernel probe each
  KernelEvery,  \* PROBE_MS: the kernel probes' interval
  SchedEvery,   \* the scheduler probe's interval
  StallMin,     \* stall_ms: a shorter kernel lateness is minor
  SchedMin,     \* sched_stall_ms
  MaxLate,      \* bound: longest lateness (run() ignores any over 10 s)
  MaxDelay,     \* the child's pipe: longest time a report is under way
  Gap,          \* the 2 ms that still join two stalls
  Slack,        \* TWIN_SLACK_MS
  CaughtUp,     \* the 50 ms the trace must be past the end
  RipeAge,      \* 300 ms
  GiveUp,       \* 4000 ms
  TwinWait,     \* TWIN_WAIT_MS
  FreezeMin,    \* FREEZE_MS
  RefLen,       \* REF_MS
  RefClear,     \* the 200 ms kept clear after the previous incident
  RefMin,       \* REF_MIN_MS
  MarkBefore,   \* MARK_BEFORE_MS
  MarkAfter,    \* MARK_AFTER_MS
  MarkRipe,     \* 1000 ms
  MarkGiveUp,   \* 5000 ms
  MarkMin,      \* MARK_MIN_MS
  MinorKeep,    \* MINOR_KEEP_MS
  TickGap,      \* longest time between two ticks
  StopWait,     \* the 1200 ms run_inner sleeps before the final analysis
  MaxNow,       \* bound: the clock
  MaxStalls,    \* bound: reports
  MaxMarks      \* bound: flagged moments

ASSUME AnalyzerAssumption ==
  /\ Cpus # {} /\ IsFiniteSet(Cpus) /\ Cpus \subseteq Nat \ {0}
  /\ {KernelEvery, SchedEvery, MaxDelay, Gap, Slack, CaughtUp, RipeAge, GiveUp, TwinWait,
      RefLen, RefClear, MarkBefore, MarkAfter, MarkRipe, MarkGiveUp, MinorKeep, TickGap,
      StopWait, MaxNow} \subseteq Nat
  /\ Slack + MaxDelay <= TwinWait /\ Slack < StopWait /\ MaxDelay < StopWait
  /\ MarkBefore + MarkGiveUp + TickGap + StopWait + 1 <= MinorKeep

NoCpu  == 0     \* the unpinned scheduler probe
Probes == Cpus \cup {NoCpu}
Kinds  == {"Kernel", "Scheduler"}

(* A late wake-up; the probe that is late names its kind. *)
Stall == [kind : Kinds, cpu : Probes, start : Nat, end : Nat, minor : BOOLEAN]

VARIABLES
  now, latest_ts,         \* the clock, and the newest event the trace delivered
  woke, wire,             \* each probe's last report; reports in the child's pipe
  rx,                     \* the channel into the analyzer
  pending, minor,         \* Analyzer.pending (a set), Analyzer.minor (a queue)
  drained,                \* every report the analyzer has received
  incidents,              \* Analyzer.incidents
  MARKS,                  \* flagged moments not yet picked up...
  marks_pending,          \* ...picked up...
  examined,               \* ...and answered by analyze_mark
  pc, tick_now, force,    \* where a tick is, the clock it read, its argument
  phase, stop_at          \* run_inner: running, stopping, flushed, done

clockVars == <<now, latest_ts>>
probeVars == <<woke, wire>>
stallVars == <<pending, minor, drained>>
markVars  == <<marks_pending, examined>>
tickVars  == <<pc, tick_now, force>>
runVars   == <<phase, stop_at>>
vars == <<clockVars, probeVars, rx, stallVars, incidents, MARKS, markVars, tickVars, runVars>>

len(s) == s.end - s.start

Init ==
  /\ now = 0 /\ latest_ts = 0
  /\ woke = [p \in Probes |-> 0] /\ wire = <<>> /\ rx = <<>>
  /\ pending = {} /\ minor = <<>> /\ drained = {} /\ incidents = <<>>
  /\ MARKS = <<>> /\ marks_pending = <<>> /\ examined = <<>>
  /\ pc = "idle" /\ tick_now = 0 /\ force = FALSE
  /\ phase = "running" /\ stop_at = 0

-----------------------------------------------------------------------------
(* The world outside the analyzer.                                         *)

(* Time passes.  A report does not stay in the pipe for longer than        *)
(* MaxDelay, and the monitoring loop is not starved for longer than        *)
(* TickGap.                                                                *)
Advance ==
  /\ phase # "done"
  /\ \A i \in DOMAIN wire : now < wire[i].end + MaxDelay
  /\ phase = "running" => now < MaxNow /\ now < tick_now + TickGap
  /\ phase # "running" => now < stop_at + StopWait + 1
  /\ now' = now + 1
  /\ UNCHANGED <<latest_ts, probeVars, rx, stallVars, incidents, MARKS, markVars, tickVars, runVars>>

(* ETW delivers a batch of events. *)
Trace(ts) ==
  /\ phase # "done"
  /\ latest_ts < ts /\ ts <= now
  /\ latest_ts' = ts
  /\ UNCHANGED <<now, probeVars, rx, stallVars, incidents, MARKS, markVars, tickVars, runVars>>

(* mark_now: the person feels something. *)
mark_now ==
  /\ phase # "done"
  /\ Len(MARKS) + Len(marks_pending) + Len(examined) < MaxMarks
  /\ MARKS' = Append(MARKS, now)
  /\ UNCHANGED <<clockVars, probeVars, rx, stallVars, incidents, markVars, tickVars, runVars>>

Kind(p)     == IF p = NoCpu THEN "Scheduler" ELSE "Kernel"
Every(p)    == IF p = NoCpu THEN SchedEvery ELSE KernelEvery
Short(p, d) == d < (IF p = NoCpu THEN SchedMin ELSE StallMin)

(* run: a probe wakes up late.  The wait it was in began after its last    *)
(* report and, once probe_stop is set, before that.                        *)
run(p, start) ==
  /\ Len(wire) + Len(rx) + Cardinality(drained) < MaxStalls
  /\ start >= woke[p] + Every(p) /\ start < now /\ now - start <= MaxLate
  /\ \/ phase = "running"
     \/ phase \in {"stopping", "flushed"} /\ p = NoCpu /\ start <= stop_at + Every(p)
  /\ LET s == [kind |-> Kind(p), cpu |-> p, start |-> start, end |-> now,
               minor |-> Short(p, now - start)]
     IN IF p = NoCpu THEN rx' = Append(rx, s) /\ wire' = wire
                     ELSE wire' = Append(wire, s) /\ rx' = rx
  /\ woke' = [woke EXCEPT ![p] = now]
  /\ UNCHANGED <<clockVars, stallVars, incidents, MARKS, markVars, tickVars, runVars>>

(* The probe-reader thread: one line of the child's output. *)
probe_reader ==
  /\ wire # <<>>
  /\ wire' = Tail(wire)
  /\ rx' = Append(rx, Head(wire))
  /\ UNCHANGED <<clockVars, woke, stallVars, incidents, MARKS, markVars, tickVars, runVars>>

(* The end of monitoring: the probes are told to stop and the child is     *)
(* waited for; what it had not written yet is gone.                        *)
Stop ==
  /\ phase = "running" /\ pc = "idle"
  /\ phase' = "stopping" /\ stop_at' = now
  /\ \E n \in 0 .. Len(wire) : wire' = SubSeq(wire, 1, n)
  /\ UNCHANGED <<clockVars, woke, rx, stallVars, incidents, MARKS, markVars, tickVars>>

-----------------------------------------------------------------------------
(* tick, first step: drain the channel and let old minor reports go.       *)
expire_minor(q, t) == At(q, {i \in DOMAIN q : \E j \in 1 .. i : q[j].end >= t - MinorKeep})

(* When run_inner calls tick, and with which argument. *)
MayTick(f) ==
  \/ phase = "running" /\ ~f
  \/ phase = "stopping" /\ f /\ now >= stop_at + StopWait
  \/ phase = "flushed" /\ f

tick(f) ==
  /\ pc = "idle" /\ MayTick(f)
  /\ minor' = expire_minor(minor \o At(rx, {i \in DOMAIN rx : rx[i].minor}), now)
  /\ pending' = pending \cup {s \in ToSet(rx) : ~s.minor}
  /\ drained' = drained \cup ToSet(rx)
  /\ rx' = <<>>
  /\ pc' = "marks" /\ tick_now' = now /\ force' = f
  /\ UNCHANGED <<clockVars, probeVars, incidents, MARKS, markVars, runVars>>

-----------------------------------------------------------------------------
(* tick, second step: process_marks.                                       *)

In(x, from, to)       == x >= from /\ x <= to
Overlaps(s, from, to) == s.end >= from /\ s.start <= to

(* The three answers analyze_mark has for a moment t. *)
full_stall(t) ==
  \/ \E i \in DOMAIN incidents : ~incidents[i].marked
                                   /\ In(incidents[i].start, t - MarkBefore, t + MarkAfter)
  \/ \E s \in pending : In(s.start, t - MarkBefore, t + MarkAfter)

(* Mutated: a blip counts only when it began in the window. *)
InWindowByStart(t) ==
  {s \in ToSet(minor) : /\ s.kind = "Kernel" /\ len(s) >= MarkMin
                        /\ In(s.start, t - MarkBefore, t + MarkAfter)}

in_window(t) ==
  {s \in ToSet(minor) : /\ s.kind = "Kernel" /\ len(s) >= MarkMin
                        /\ Overlaps(s, t - MarkBefore, t + MarkAfter)}

Verdict(t) == CASE full_stall(t) -> "stall"
                [] ~full_stall(t) /\ in_window(t) = {} -> "clean"
                [] OTHER -> "blip"

(* The marked incident a "blip" answer files: the longest blip and whatever *)
(* hit other processors at the same instant.                                *)
MarkIncident(t) ==
  LET worst == CHOOSE s \in in_window(t) : \A u \in in_window(t) : len(s) >= len(u)
      c     == {s \in in_window(t) : s.start <= worst.end + Gap /\ s.end >= worst.start - Gap}
  IN [class |-> "Kernel", stalls |-> c, start |-> Min({s.start : s \in c}),
      dur |-> len(worst), marked |-> TRUE, ref_from |-> 0, ref_to |-> 0]

MarkIsRipe(t) ==
  \/ force
  \/ latest_ts > t + MarkAfter + CaughtUp /\ now - t > MarkRipe
  \/ now - t > MarkGiveUp

(* analyze_mark, once for each ripe moment of a line.  The answers do not   *)
(* depend on each other: full_stall leaves the marked incidents out.        *)
Answers(all) ==
  LET ripe  == {i \in DOMAIN all : MarkIsRipe(all[i])}
      asked == At(all, ripe)
      blips == At(all, {i \in ripe : Verdict(all[i]) = "blip"})
  IN /\ marks_pending' = At(all, DOMAIN all \ ripe)
     /\ examined' = examined \o [i \in DOMAIN asked |-> [t |-> asked[i], verdict |-> Verdict(asked[i])]]
     /\ incidents' = incidents \o [i \in DOMAIN blips |-> MarkIncident(blips[i])]

(* Mutated: what has just been flagged goes to the front of the line. *)
NewMarksFirst ==
  /\ pc = "marks"
  /\ Answers(MARKS \o marks_pending)
  /\ MARKS' = <<>>
  /\ pc' = "stalls"
  /\ UNCHANGED <<clockVars, probeVars, rx, stallVars, tick_now, force, runVars>>

process_marks ==
  /\ pc = "marks"
  /\ Answers(marks_pending \o MARKS)
  /\ MARKS' = <<>>
  /\ pc' = "stalls"
  /\ UNCHANGED <<clockVars, probeVars, rx, stallVars, tick_now, force, runVars>>

-----------------------------------------------------------------------------
(* tick, third step: cluster, pair, and file what is ripe.                 *)

span_of(c) == [start |-> Min({s.start : s \in c}), end |-> Max({s.end : s \in c})]

(* Stalls, joined in order of their start as long as each begins no later   *)
(* than Gap past everything joined so far.  A cluster begins where every    *)
(* earlier stall is over.                                                   *)
Leads(P, x)   == \A u \in P : u.start < x => u.end + Gap < x
Starts(P)     == {u.start : u \in {s \in P : Leads(P, s.start)}}
Cluster(P, x) == {s \in P : s.start >= x /\ \A y \in Starts(P) : y > x => s.start < y}

OfKind(kind)   == {s \in pending : s.kind = kind}
Clusters(kind) == {Cluster(OfKind(kind), x) : x \in Starts(OfKind(kind))}

ByStart(S) ==
  LET starts == {span_of(c).start : c \in S}
  IN [n \in 1 .. Cardinality(S) |-> CHOOSE c \in S : span_of(c).start = Nth(starts, n)]

Apart(a, b)   == IF a >= b THEN a - b ELSE b - a
is_twin(a, b) == Apart(a.start, b.start) <= Slack /\ Apart(a.end, b.end) <= Slack

(* Each kernel cluster in turn takes the first scheduler cluster left that  *)
(* is its twin.                                                             *)
Takes(k, left) ==
  LET twins == {c \in left : is_twin(span_of(k), span_of(c))}
  IN {c \in twins : \A d \in twins : span_of(c).start <= span_of(d).start}

LeftAfter(ks) ==
  LET left[i \in 0 .. Len(ks)] == IF i = 0 THEN Clusters("Scheduler")
                                          ELSE left[i - 1] \ Takes(ks[i], left[i - 1])
  IN left

Groups ==
  LET ks   == ByStart(Clusters("Kernel"))
      left == LeftAfter(ks)
      rest == ByStart(left[Len(ks)])
  IN [i \in DOMAIN ks |-> [kernel |-> ks[i], sched |-> UNION Takes(ks[i], left[i - 1])]]
     \o [i \in DOMAIN rest |-> [kernel |-> {}, sched |-> rest[i]]]

(* Mutated: a lone view is filed without waiting for its twin. *)
ReadyAlone(g) ==
  LET age == tick_now - span_of(g.kernel \cup g.sched).end
  IN force \/ (latest_ts > tick_now - age + CaughtUp /\ age > RipeAge) \/ age > GiveUp

(* Mutated: the last analysis waits for the trace like any other. *)
ReadyUnforced(g) ==
  LET age    == tick_now - span_of(g.kernel \cup g.sched).end
      ripe   == \/ latest_ts > tick_now - age + CaughtUp /\ age > RipeAge
                \/ age > GiveUp
      paired == g.kernel # {} /\ g.sched # {}
  IN ripe /\ (paired \/ age > TwinWait)

Ready(g) ==
  LET age    == tick_now - span_of(g.kernel \cup g.sched).end
      ripe   == \/ latest_ts > tick_now - age + CaughtUp /\ age > RipeAge
                \/ age > GiveUp
      paired == g.kernel # {} /\ g.sched # {}
  IN force \/ (ripe /\ (paired \/ age > TwinWait))

freeze_cpu_floor(n) == IF n <= 4 THEN n ELSE Max({(n * 3 + 3) \div 4, 4})

Worst(g) == Max({len(s) : s \in g.kernel \cup g.sched})
Over(g)  == span_of(g.kernel \cup g.sched).start + Worst(g)

(* analyze: one group becomes one incident.  Its interrupt rates are       *)
(* compared with the stretch [ref_from, ref_to) before it.                 *)
analyze(g, prev_end) ==
  LET all   == g.kernel \cup g.sched
      span  == span_of(all)
      cpus  == {s.cpu : s \in g.kernel}
      class == CASE g.kernel = {} -> "Starvation"
                 [] g.kernel # {} /\ Cardinality(cpus) >= freeze_cpu_floor(Cardinality(Cpus))
                      /\ Worst(g) >= FreezeMin -> "Freeze"
                 [] OTHER -> "Kernel"
  IN [class |-> class, stalls |-> all, start |-> span.start, dur |-> Worst(g), marked |-> FALSE,
      ref_from |-> Max({span.start - RefLen, prev_end + RefClear}), ref_to |-> span.start]

(* What the groups add to the incidents, each looking back at the one before. *)
Analyzed(groups) ==
  LET last == IF incidents = <<>> THEN -RefClear ELSE incidents[Len(incidents)].start + incidents[Len(incidents)].dur
  IN [i \in DOMAIN groups |-> analyze(groups[i], IF i = 1 THEN last ELSE Over(groups[i - 1]))]

ReadyGroups == LET groups == Groups IN At(groups, {i \in DOMAIN groups : Ready(groups[i])})

(* Mutated: the groups that are not ready are not put back. *)
TickForgetsWaiting ==
  /\ pc = "stalls"
  /\ \E ready \in {ReadyGroups} : incidents' = incidents \o Analyzed(ready)
  /\ pending' = {}
  /\ pc' = "idle"
  /\ phase' = CASE phase = "running" -> "running"
                [] phase = "stopping" -> "flushed"
                [] phase = "flushed" -> "done"
  /\ UNCHANGED <<clockVars, probeVars, rx, minor, drained, MARKS, markVars, tick_now, force, stop_at>>

tick_stalls ==
  /\ pc = "stalls"
  /\ \E ready \in {ReadyGroups} :
        /\ incidents' = incidents \o Analyzed(ready)
        /\ pending' = pending \ UNION {g.kernel \cup g.sched : g \in ToSet(ready)}
  /\ pc' = "idle"
  /\ phase' = CASE phase = "running" -> "running"
                [] phase = "stopping" -> "flushed"
                [] phase = "flushed" -> "done"
  /\ UNCHANGED <<clockVars, probeVars, rx, minor, drained, MARKS, markVars, tick_now, force, stop_at>>

-----------------------------------------------------------------------------
Tick == (\E f \in BOOLEAN : tick(f)) \/ process_marks \/ tick_stalls

Next ==
  \/ Advance
  \/ \E ts \in 1 .. now : Trace(ts)
  \/ mark_now
  \/ \E p \in Probes : \E start \in woke[p] .. now : run(p, start)
  \/ probe_reader
  \/ Stop
  \/ Tick

(* The loop thread keeps running once the run is being stopped, the clock  *)
(* goes on and the reader thread empties the pipe.                         *)
Fairness == WF_vars(Tick) /\ WF_vars(Advance) /\ WF_vars(probe_reader)

Spec == Init /\ [][Next]_vars /\ Fairness

-----------------------------------------------------------------------------
Incident == [class : {"Freeze", "Kernel", "Starvation"}, stalls : SUBSET Stall, start : Nat,
             dur : Nat, marked : BOOLEAN, ref_from : Int, ref_to : Nat]

IsSeqOf(q, S) == \A i \in DOMAIN q : q[i] \in S

TypeOK ==
  /\ now \in Nat /\ latest_ts \in 0 .. now
  /\ woke \in [Probes -> 0 .. now]
  /\ IsSeqOf(wire, Stall) /\ IsSeqOf(rx, Stall) /\ IsSeqOf(minor, Stall)
  /\ pending \subseteq Stall /\ drained \subseteq Stall
  /\ \A i \in DOMAIN incidents :
       /\ incidents[i].class \in {"Freeze", "Kernel", "Starvation"}
       /\ incidents[i].stalls \subseteq drained /\ incidents[i].stalls # {}
       /\ incidents[i].dur > 0
  /\ IsSeqOf(MARKS, 0 .. now) /\ IsSeqOf(marks_pending, 0 .. now)
  /\ pc \in {"idle", "marks", "stalls"} /\ tick_now \in 0 .. now /\ force \in BOOLEAN
  /\ phase \in {"running", "stopping", "flushed", "done"} /\ stop_at \in 0 .. now

Filed == {i \in DOMAIN incidents : ~incidents[i].marked}
Lone(i, kind) == \A s \in incidents[i].stalls : s.kind = kind

(* A full stall the analyzer has received is waiting or in exactly one     *)
(* incident, however often it went back to `pending` and whatever it was   *)
(* clustered with meanwhile.                                               *)
StallsConserved ==
  /\ pending \cup UNION {incidents[i].stalls : i \in Filed} = {s \in drained : ~s.minor}
  /\ \A i \in Filed : /\ incidents[i].stalls \cap pending = {}
                      /\ \A j \in Filed : i # j => incidents[i].stalls \cap incidents[j].stalls = {}

(* Somebody else's report that began when c or d did. *)
Company(c, d) ==
  \E u \in drained \ (c \cup d) :
    ~u.minor /\ (Apart(u.start, span_of(c).start) <= Slack \/ Apart(u.start, span_of(d).start) <= Slack)

(* "So it becomes one incident with one verdict and one tally row": an     *)
(* event seen by both kinds of probe is never filed once by each, as long  *)
(* as the pipe is not slower than TwinWait allows for, and not when the    *)
(* run is stopped in the middle of it either.  Only where a third report   *)
(* began with it may a view have been paired elsewhere.                    *)
TwinsCountedOnce ==
  \A i, j \in Filed :
    Lone(i, "Kernel") /\ Lone(j, "Scheduler")
      /\ is_twin(span_of(incidents[i].stalls), span_of(incidents[j].stalls)) =>
        Company(incidents[i].stalls, incidents[j].stalls)

(* The same without the exception. *)
TwinsNeverApart ==
  \A i, j \in Filed :
    Lone(i, "Kernel") /\ Lone(j, "Scheduler") =>
      ~is_twin(span_of(incidents[i].stalls), span_of(incidents[j].stalls))

(* The flagged moments in the order of their answers-to-be. *)
MarkLine == [i \in DOMAIN examined |-> examined[i].t] \o marks_pending \o MARKS

(* A flagged moment keeps its place from the moment it is flagged until it *)
(* is answered: none is lost, answered twice or overtaken.                 *)
MarksKeptInLine == [][IsPrefix(MarkLine, MarkLine')]_vars

Disturbs(s, t) == /\ s.kind = "Kernel" /\ len(s) >= MarkMin
                  /\ Overlaps(s, t - MarkBefore, t + MarkAfter)

Clears(P) == \A i \in DOMAIN examined' \ DOMAIN examined :
               examined'[i].verdict = "clean" => \A s \in P : ~Disturbs(s, examined'[i].t)

(* A clean answer contradicts no interruption in the flagged window that   *)
(* the analyzer has ever received from a kernel probe: what it had already *)
(* let go by then (`minor` is kept for MINOR_KEEP_MS only) is too old to   *)
(* matter.                                                                 *)
CleanMeansNoBlip == [][Clears({s \in drained : s.minor})]_vars

(* "A full stall in the window already has (or will get) its own entry and *)
(* verdict" (analyze_mark), so a moment with a full stall in its window is *)
(* not found clean.                                                        *)
CleanMeansNoStall == [][Clears({s \in drained : ~s.minor})]_vars

(* Once the run is being stopped it ends with every received stall filed   *)
(* and every mark that was picked up answered.                             *)
StopReportsAll ==
  (phase = "stopping") ~> (phase = "done" /\ pending = {} /\ marks_pending = <<>>)

(* "The reference window for interrupt rates never reaches back into the   *)
(* previous incident" (analyze).                                           *)
ReferenceIsClear ==
  \A i \in Filed :
    i > 1 /\ incidents[i].ref_to - incidents[i].ref_from >= RefMin =>
      \A s \in incidents[i - 1].stalls :
        s.end <= incidents[i].ref_from \/ s.start >= incidents[i].ref_to

=============================================================================
