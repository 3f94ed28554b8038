------------------------------ MODULE Notables ------------------------------
(***************************************************************************)
(* Individually bad events on their way from the trace to the event log    *)
(* and to the drive they are counted against (src/analyze.rs               *)
(* `report_notables`, `explain_cause` and `mark_victims`, src/quiet.rs,    *)
(* `push_notable` in src/etw/events.rs).                                   *)
(*                                                                         *)
(* The ETW callback queues an event when it sees one.  Each tick takes the *)
(* queue, holds back everything from the first slow disk request on that   *)
(* the traces have not got past yet, and reports the rest: every request   *)
(* is remembered for its drive, and every event gets a line of its own, is *)
(* folded into its subject's roll-up, or is suppressed by the limit on     *)
(* lines per second.  Later in the same tick a whole-PC freeze that is     *)
(* ripe marks the remembered requests that fell into it as its victims.    *)
(*                                                                         *)
(* Subjects are disks and drivers; an event's subject says whether it is a *)
(* disk request.  `reported` is history: what became of each event.        *)
(***************************************************************************)
EXTENDS SequencesExt, Selections, Sums

CONSTANTS
  Disks, Drivers,   \* the subjects of slow requests and of long DPC/ISR runs
  Durations,        \* how long an event may take
  Switches,         \* whether context switches are recorded (not in light mode)
  StorageTrace,     \* whether the storage port session runs
  NotableCap,       \* push_notable: 2000
  SlowCap,          \* explain_cause: 4096
  Need,             \* LOOK_AFTER_MS + 50 ms
  StorNeed,         \* MATCH_SLOP_MS
  FlushWait,        \* FLUSH_WAIT_MS
  GiveUp,           \* 4000 ms
  CaughtUp,         \* tick: the trace must be 50 ms past a freeze
  FreezeAge,        \* tick: 300 ms, or TWIN_WAIT_MS for a freeze seen once
  Edge,             \* TRIGGER_LEAD_MS and EDGE_SLACK_MS, both 50 ms
  ShowFirst,        \* SHOW_FIRST
  OutlierFactor,    \* OUTLIER_FACTOR
  RollupEvery,      \* ROLLUP_EVERY_MS
  WindowLen,        \* 1000 ms
  WindowMax,        \* 6 lines
  MaxNow,           \* bound: the clock
  MaxEvents,        \* bound: notable events
  MaxFreezes        \* bound: freezes

Subjects == Disks \cup Drivers

ASSUME NotablesAssumption ==
  /\ Disks \cap Drivers = {} /\ Subjects # {} /\ IsFiniteSet(Subjects)
  /\ Durations \subseteq Nat \ {0}
  /\ ShowFirst \in Nat \ {0} /\ OutlierFactor \in Nat \ {0, 1} /\ SlowCap \in Nat
  /\ Switches \in BOOLEAN /\ StorageTrace \in BOOLEAN

VARIABLES
  now, latest_ts, stor_latest_ts,   \* the clock, and how far each trace has come
  notable, notable_dropped,         \* Inner.notable, and what did not fit
  pushed,                           \* notable events seen so far
  ios,                              \* slow requests in Inner.ios
  held_notables,
  disk_slow,                        \* Analyzer.disk_slow, all disks together
  quiet,                            \* Quieter.subjects
  window_start, in_window,          \* notable_window_start, notable_in_window
  reported,                         \* what became of each event, in order
  rollups,                          \* the roll-up lines printed
  stopped,                          \* freezes the probes have reported
  frozen,                           \* freezes that have been filed
  pc, tick_now,
  flushes                           \* last calls so far; the run makes two

clockVars == <<now, latest_ts, stor_latest_ts>>
queueVars == <<notable, notable_dropped, pushed, ios>>
logVars   == <<quiet, window_start, in_window, reported, rollups>>
tickVars  == <<pc, tick_now, flushes>>
done      == flushes = 2
vars == <<clockVars, queueVars, held_notables, disk_slow, logVars, stopped, frozen, tickVars>>

NoRollup == [count |-> 0, worst |-> 0, since |-> 0]
Fresh    == [shown |-> 0, worst_shown |-> 0, held |-> NoRollup, last_rollup |-> 0]

Init ==
  /\ now = 0 /\ latest_ts = 0 /\ stor_latest_ts = 0
  /\ notable = <<>> /\ notable_dropped = 0 /\ pushed = 0 /\ ios = {}
  /\ held_notables = <<>> /\ disk_slow = <<>>
  /\ quiet = [s \in Subjects |-> Fresh]
  /\ window_start = 0 /\ in_window = 0
  /\ reported = <<>> /\ rollups = <<>>
  /\ stopped = {} /\ frozen = {}
  /\ pc = "idle" /\ tick_now = 0 /\ flushes = 0

-----------------------------------------------------------------------------
(* The clock and the two trace sessions, each with buffers of its own.     *)
Advance ==
  /\ ~done /\ now < MaxNow
  /\ now' = now + 1
  /\ UNCHANGED <<latest_ts, stor_latest_ts, queueVars, held_notables, disk_slow, logVars,
                 stopped, frozen, tickVars>>

Trace(ts) ==
  /\ ~done /\ latest_ts < ts /\ ts <= now
  /\ latest_ts' = ts
  /\ UNCHANGED <<now, stor_latest_ts, queueVars, held_notables, disk_slow, logVars,
                 stopped, frozen, tickVars>>

StorTrace(ts) ==
  /\ ~done /\ StorageTrace /\ stor_latest_ts < ts /\ ts <= now
  /\ stor_latest_ts' = ts
  /\ UNCHANGED <<now, latest_ts, queueVars, held_notables, disk_slow, logVars,
                 stopped, frozen, tickVars>>

(* handle_event on a DPC, ISR or disk request over its warning limit: the  *)
(* request joins the ring, and push_notable queues the event or counts it  *)
(* as dropped.                                                             *)
handle_event(subject, ts, d) ==
  /\ ~done /\ pushed < MaxEvents
  /\ latest_ts <= ts /\ ts <= now /\ d <= ts
  /\ pushed' = pushed + 1
  /\ latest_ts' = ts
  /\ LET n == [id |-> pushed + 1, subject |-> subject, end |-> ts, dur |-> d]
     IN /\ ios' = IF subject \in Disks THEN ios \cup {n} ELSE ios
        /\ \/ /\ Len(notable) < NotableCap
              /\ notable' = Append(notable, n) /\ UNCHANGED notable_dropped
           \/ /\ Len(notable) >= NotableCap
              /\ notable_dropped' = notable_dropped + 1 /\ UNCHANGED notable
  /\ UNCHANGED <<now, stor_latest_ts, held_notables, disk_slow, logVars, stopped, frozen, tickVars>>

(* The probes report that every processor was held from `start` until now. *)
Freeze(start) ==
  /\ ~done /\ start < now /\ Cardinality(stopped \cup frozen) < MaxFreezes
  /\ \A f \in stopped \cup frozen : f.end < start
  /\ stopped' = stopped \cup {[start |-> start, end |-> now]}
  /\ UNCHANGED <<clockVars, queueVars, held_notables, disk_slow, logVars, frozen, tickVars>>

-----------------------------------------------------------------------------
(* Quieter (src/quiet.rs). *)

IsOutlier(q, d) == q.shown >= ShowFirst /\ d >= q.worst_shown * OutlierFactor

Showing(q, d) == q.shown < ShowFirst \/ IsOutlier(q, d)

(* Mutated: the roll-up keeps the latest folded event, not the worst. *)
OfferKeepsLatest(q, d, t) ==
  IF Showing(q, d)
  THEN [q EXCEPT !.shown = @ + 1, !.worst_shown = IF d > @ THEN d ELSE @,
                 !.last_rollup = IF q.shown = 0 THEN t ELSE @]
  ELSE [q EXCEPT !.held = [count |-> @.count + 1, worst |-> d,
                           since |-> IF @.count = 0 THEN t ELSE @.since]]

offer(q, d, t) ==
  IF Showing(q, d)
  THEN [q EXCEPT !.shown = @ + 1, !.worst_shown = IF d > @ THEN d ELSE @,
                 !.last_rollup = IF q.shown = 0 THEN t ELSE @]
  ELSE [q EXCEPT !.held = [count |-> @.count + 1,
                           worst |-> IF d > @.worst THEN d ELSE @.worst,
                           since |-> IF @.count = 0 THEN t ELSE @.since]]

due(q, t, every) == q.held.count > 0 /\ t - q.last_rollup >= every

(* caught_up (src/storport/mod.rs), and what holds a slow request back. *)
caught_up(to) == stor_latest_ts >= to \/ now - to > FlushWait

waiting(n) ==
  /\ n.subject \in Disks
  /\ \/ Switches /\ latest_ts < n.end + Need
     \/ StorageTrace /\ ~caught_up(n.end + StorNeed)
  /\ now - n.end < GiveUp

SlowOn(slow, disk) == Cardinality({i \in DOMAIN slow : slow[i].event.subject = disk})

(* One event is reported: explained, then offered to the quieter, then     *)
(* counted against the limit on lines per second.                          *)
report_one(acc, n) ==
  LET q       == acc.quiet[n.subject]
      shows   == Showing(q, n.dur)
      anew    == now - acc.window_start > WindowLen
      lines   == (IF anew THEN 0 ELSE acc.in_window) + 1
      outcome == CASE ~shows -> "folded"
                   [] shows /\ lines > WindowMax -> "suppressed"
                   [] OTHER -> "shown"
  IN [quiet        |-> [acc.quiet EXCEPT ![n.subject] = offer(q, n.dur, now)],
      window_start |-> IF shows /\ anew THEN now ELSE acc.window_start,
      in_window    |-> IF shows THEN lines ELSE acc.in_window,
      reported     |-> Append(acc.reported, [event |-> n, outcome |-> outcome]),
      disk_slow    |-> IF n.subject \in Disks /\ SlowOn(acc.disk_slow, n.subject) < SlowCap
                       THEN Append(acc.disk_slow, [event |-> n, victim |-> FALSE])
                       ELSE acc.disk_slow]

(* The roll-up lines due at the end of a report, and the quieter after it. *)
Due(q, last_call) == {s \in Subjects : IF last_call THEN q[s].held.count > 0
                                                    ELSE due(q[s], now, RollupEvery)}

(* `due` sorts them by when they began; a tie goes by name, left open here. *)
Orders(q, S) ==
  {o \in [1 .. Cardinality(S) -> S] :
     \A i, j \in DOMAIN o : i < j => o[i] # o[j] /\ q[o[i]].held.since <= q[o[j]].held.since}

RollupLines(q, order, last_call) ==
  [i \in DOMAIN order |-> [subject |-> order[i], count |-> q[order[i]].held.count,
                           worst |-> q[order[i]].held.worst, at |-> now, final |-> last_call]]

RolledUp(q, S) ==
  [s \in Subjects |-> IF s \in S THEN [q[s] EXCEPT !.held = NoRollup, !.last_rollup = now]
                                 ELSE q[s]]

(* Mutated: only the events that wait themselves are held. *)
HoldsOnlyWaiting(all, last_call) ==
  {i \in DOMAIN all : ~last_call /\ waiting(all[i])}

(* What a report holds back: everything from the first event that waits on, *)
(* as positions in `all`.                                                   *)
HeldBack(all, last_call) ==
  {i \in DOMAIN all : ~last_call /\ \E j \in 1 .. i : waiting(all[j])}

(* The loop over what is not held back: what it has changed after each of  *)
(* the events q.                                                           *)
Reporting(q) ==
  LET acc[k \in 0 .. Len(q)] ==
        IF k = 0 THEN [quiet |-> quiet, window_start |-> window_start, in_window |-> in_window,
                       reported |-> reported, disk_slow |-> disk_slow]
        ELSE report_one(acc[k - 1], q[k])
  IN acc

(* tick, first step: report_notables. *)
report_notables(last_call) ==
  /\ ~done /\ pc = "idle" /\ (flushes > 0 => last_call)
  /\ LET all  == held_notables \o notable
         hold == HeldBack(all, last_call)
         told == At(all, DOMAIN all \ hold)
         acc  == Reporting(told)[Len(told)]
         S    == Due(acc.quiet, last_call)
     IN /\ held_notables' = At(all, hold)
        /\ window_start' = acc.window_start /\ in_window' = acc.in_window
        /\ reported' = acc.reported /\ disk_slow' = acc.disk_slow
        /\ \E order \in Orders(acc.quiet, S) :
             rollups' = rollups \o RollupLines(acc.quiet, order, last_call)
        /\ quiet' = RolledUp(acc.quiet, S)
  /\ notable' = <<>>
  /\ tick_now' = now
  /\ pc' = IF last_call THEN "last_stalls" ELSE "stalls"
  /\ UNCHANGED <<clockVars, notable_dropped, pushed, ios, stopped, frozen, flushes>>

-----------------------------------------------------------------------------
(* tick, last step: the freezes that are ripe are filed, and mark_victims  *)
(* runs for each.                                                          *)
(* Mutated: anything over when the freeze is over is its victim. *)
RoleByEnd(f, n) == IF n.end <= f.end + Edge THEN "Victim" ELSE "Overlap"

role_of(f, n) ==
  LET start   == n.end - n.dur
      trigger == start <= f.start - Edge /\ n.end >= f.end - Edge
      within  == start >= f.start - Edge /\ n.end <= f.end + Edge
  IN CASE trigger -> "Trigger" [] within /\ ~trigger -> "Victim" [] OTHER -> "Overlap"

(* What the freeze's evidence holds of the requests: the ones that began   *)
(* before it was over.                                                     *)
Evidence(f) == {n \in ios : n.end - n.dur <= f.end}

Ripe(f) ==
  \/ pc = "last_stalls"
  \/ latest_ts > f.end + CaughtUp /\ tick_now - f.end > FreezeAge
  \/ tick_now - f.end > GiveUp

mark_victims(F) ==
  [i \in DOMAIN disk_slow |->
     [disk_slow[i] EXCEPT !.victim = @ \/ \E f \in F : \E n \in Evidence(f) :
        /\ role_of(f, n) = "Victim"
        /\ n.subject = disk_slow[i].event.subject
        /\ n.end = disk_slow[i].event.end /\ n.dur = disk_slow[i].event.dur]]

tick_freezes ==
  /\ pc \in {"stalls", "last_stalls"}
  /\ LET F == {f \in stopped : Ripe(f)}
     IN /\ disk_slow' = mark_victims(F)
        /\ frozen' = frozen \cup F
        /\ stopped' = stopped \ F
  /\ pc' = "idle"
  /\ flushes' = IF pc = "last_stalls" THEN flushes + 1 ELSE flushes
  /\ UNCHANGED <<clockVars, queueVars, held_notables, logVars, tick_now>>

-----------------------------------------------------------------------------
Next ==
  \/ Advance
  \/ \E ts \in 1 .. now : Trace(ts) \/ StorTrace(ts)
  \/ \E s \in Subjects, ts \in 1 .. now, d \in Durations : handle_event(s, ts, d)
  \/ \E start \in 0 .. now : Freeze(start)
  \/ \E last_call \in BOOLEAN : report_notables(last_call)
  \/ tick_freezes

Spec == Init /\ [][Next]_vars

-----------------------------------------------------------------------------
Notable == [id : Nat, subject : Subjects, end : Nat, dur : Durations]

TypeOK ==
  /\ now \in Nat /\ latest_ts \in 0 .. now /\ stor_latest_ts \in 0 .. now
  /\ notable \in Seq(Notable) /\ Len(notable) <= NotableCap /\ held_notables \in Seq(Notable)
  /\ notable_dropped \in Nat /\ pushed \in Nat /\ ios \subseteq Notable
  /\ \A i \in DOMAIN disk_slow : disk_slow[i].event \in ios
  /\ \A s \in Subjects : quiet[s].shown \in Nat /\ quiet[s].held.count \in Nat
  /\ in_window \in Nat /\ window_start \in 0 .. now /\ tick_now \in 0 .. now
  /\ pc \in {"idle", "stalls", "last_stalls"} /\ flushes \in 0 .. 2

Events(q) == [i \in DOMAIN q |-> q[i].event]
Line      == Events(reported) \o held_notables \o notable
OfSubject(q, s)  == {i \in DOMAIN q : q[i].event.subject = s}
Folded(s) == {i \in OfSubject(reported, s) : reported[i].outcome = "folded"}

(* "Everything after the first such event waits with it, so the event log  *)
(* stays in order" (held_notables): however long events are held, they are *)
(* reported in the order they were queued, and none is lost or reported    *)
(* twice except what the queue had no room for.                            *)
LogInOrder ==
  /\ \A i, j \in DOMAIN Line : i < j => Line[i].id < Line[j].id
  /\ Len(Line) + notable_dropped = pushed

(* "Held for at most a few seconds, like a stall" (report_notables): after *)
(* a tick's report nothing is held that is GiveUp old, not even an event   *)
(* that is only held because it came after one that waits.                 *)
HoldIsBounded ==
  pc = "stalls" => \A i \in DOMAIN held_notables : tick_now - held_notables[i].end < GiveUp

(* "Nothing is lost" (src/quiet.rs): the roll-up lines and what is still   *)
(* held for the next one account for every folded event of a subject, and  *)
(* for the worst of them.                                                  *)
FoldedAreSummarised ==
  \A s \in Subjects :
    LET lines  == {i \in DOMAIN rollups : rollups[i].subject = s}
        counts == [i \in DOMAIN rollups |-> rollups[i].count]
        worsts == {rollups[i].worst : i \in lines} \cup {quiet[s].held.worst, 0}
    IN /\ Cardinality(Folded(s)) = quiet[s].held.count + SumOver(lines, counts)
       /\ Max({reported[i].event.dur : i \in Folded(s)} \cup {0}) = Max(worsts)

(* A drive is charged once with each of its slow requests that has been    *)
(* reported, in that order and up to the limit; and a request is taken off *)
(* its account only for a freeze that has been filed and that it did not   *)
(* begin before: whatever ended after a freeze it preceded may be what     *)
(* caused it.                                                              *)
OnlyVictimsDiscounted ==
  /\ \A d \in Disks :
       LET charged == At(Events(disk_slow), OfSubject(disk_slow, d))
           all     == At(Events(reported), OfSubject(reported, d))
       IN charged = SubSeq(all, 1, Min({Len(all), SlowCap}))
  /\ \A i \in DOMAIN disk_slow :
       disk_slow[i].victim =>
         \E f \in frozen : /\ disk_slow[i].event.end <= f.end + Edge
                           /\ disk_slow[i].event.end - disk_slow[i].event.dur >= f.start - Edge

(* "The whole machine was stopped, so of course its request took that      *)
(* long, and counting it against its drive invents a second problem out of *)
(* the first one" (src/diskwait.rs): while monitoring, every request that  *)
(* is remembered for its drive and fell into a freeze that has been filed  *)
(* is marked as that freeze's victim.                                      *)
VictimsAreDiscounted ==
  flushes = 0 /\ pc = "idle" =>
    \A i \in DOMAIN disk_slow : \A f \in frozen :
      disk_slow[i].event \in Evidence(f) /\ role_of(f, disk_slow[i].event) = "Victim"
        => disk_slow[i].victim

=============================================================================
