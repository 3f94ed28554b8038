------------------------------ MODULE GpuTrace ------------------------------
(***************************************************************************)
(* The graphics trace (gputrace/mod.rs, gputrace/events.rs).  A session of *)
(* its own delivers display refreshes, presents and residency operations;  *)
(* each goes to a ring with a cap and a short history, and the analyzer    *)
(* asks for one window of time when a flagged moment is examined.          *)
(*                                                                         *)
(* A ring is everything pushed on it (gpu_log) and how much was popped     *)
(* from its front (gpu_head), as in Rings.  Time is in whole ticks; how    *)
(* many bytes are to be trimmed and which display a frame is for are left  *)
(* out.                                                                    *)
(*                                                                         *)
(* Each processor has buffers of its own, so an event may be delivered     *)
(* after one that is newer by up to GpuDisorder; those of one thread come  *)
(* in order.  ETW may lose any event, and a residency event that arrives   *)
(* may be unreadable.                                                      *)
(***************************************************************************)
EXTENDS Rings, Selections, Sums, FiniteSetsExt, SequencesExt

CONSTANTS
  Pids, GpuTids,
  GpuCap,         \* [GpuRings -> Nat]: refresh_cap, present_cap, residency_cap
  GpuKeep,        \* GPU_KEEP_MS
  GpuPruneEvery,  \* keep / 8
  HalfMs,         \* two refreshes closer than this are one
  MaxResident,    \* MAX_RESIDENT_MS
  GapMin,         \* GAP_MIN_MS
  GapFactor,      \* GAP_FACTOR
  GpuDisorder,    \* how late an event may be delivered
  GpuStep,        \* bound: the longest silence between two events
  MaxGpuTs,       \* bound: the newest trace time
  GpuEvents,      \* bound: the records pushed on one ring
  MaxOps          \* bound: the operations of one thread

GpuRings == {"refresh", "presents", "residency"}
None == -1

ASSUME GpuTraceAssumption ==
  /\ GpuCap \in [GpuRings -> Nat \ {0}] /\ GpuKeep \in Nat /\ GpuPruneEvery \in Nat
  /\ HalfMs \in Nat \ {0} /\ MaxResident \in Nat /\ GpuDisorder \in Nat
  /\ MaxResident + GpuDisorder <= GpuKeep
  /\ GpuStep \in Nat

VARIABLES
  gpu_latest, gpu_last_prune,
  gpu_log, gpu_head,   \* the three rings
  gpu_lost,            \* refresh_lost_until, present_lost_until, residency_lost_until
  starts,              \* [GpuTids -> when the open MakeResident began, or None]
  ticks,               \* Windows: every refresh the provider logged
  open,                \* Windows: [GpuTids -> the operation under way, or Idle]
  done                 \* Windows: [GpuTids -> its operations that are over, in order]

traceVars == <<gpu_latest, gpu_last_prune, gpu_log, gpu_head, gpu_lost, starts, ticks>>
gpuVars   == <<traceVars, open, done>>

(* No operation.  Of one under way it is known when it began and whether   *)
(* that event was read.                                                    *)
Idle == [from |-> None, read |-> FALSE]

(* An operation may be under way when the session starts. *)
GpuInit ==
  /\ gpu_latest = 0 /\ gpu_last_prune = 0
  /\ gpu_log = [r \in GpuRings |-> <<>>] /\ gpu_head = [r \in GpuRings |-> 0]
  /\ gpu_lost = [r \in GpuRings |-> None]
  /\ starts = [t \in GpuTids |-> None] /\ ticks = {}
  /\ open \in [GpuTids -> {Idle, [from |-> 0, read |-> FALSE]}]
  /\ done = [t \in GpuTids |-> <<>>]

-----------------------------------------------------------------------------
(* maybe_prune and GpuInner::prune: what this event leaves of the rings    *)
(* and of the open operations.                                             *)
GpuPruneDue(ts) == ts > gpu_latest /\ ts - gpu_last_prune > GpuPruneEvery

pruned_heads(ts) ==
  IF GpuPruneDue(ts)
  THEN [r \in GpuRings |-> PruneOne(gpu_log[r], gpu_head[r], ts - GpuKeep)]
  ELSE gpu_head

pruned_starts(ts) ==
  [t \in GpuTids |-> IF GpuPruneDue(ts) /\ starts[t] < ts - GpuKeep THEN None ELSE starts[t]]

maybe_prune(ts) ==
  /\ gpu_latest' = Max2(gpu_latest, ts)
  /\ gpu_last_prune' = IF GpuPruneDue(ts) THEN ts ELSE gpu_last_prune

(* push_refresh, push_present, push_residency. *)
gpu_push(r, rec, heads) ==
  LET lg   == Append(gpu_log[r], rec)
      over == Len(lg) - heads[r] > GpuCap[r]
  IN /\ Len(lg) <= GpuEvents
     /\ gpu_log' = [gpu_log EXCEPT ![r] = lg]
     /\ gpu_head' = IF over THEN [heads EXCEPT ![r] = @ + 1] ELSE heads
     /\ gpu_lost' = IF over THEN [gpu_lost EXCEPT ![r] = Max2(@, lg[heads[r] + 1].ts)] ELSE gpu_lost

(* VSyncDPC and its two siblings: several of them fire for one refresh. *)
on_refresh(ts) ==
  /\ maybe_prune(ts) /\ starts' = pruned_starts(ts)
  /\ ticks' = ticks \cup {ts}
  /\ LET heads == pruned_heads(ts)
         n     == Len(gpu_log["refresh"])
         same  == n > heads["refresh"] /\ ts - gpu_log["refresh"][n].ts < HalfMs
     IN IF same THEN gpu_head' = heads /\ UNCHANGED <<gpu_log, gpu_lost>>
        ELSE gpu_push("refresh", [ts |-> ts], heads)
  /\ UNCHANGED <<open, done>>

on_present(ts, pid) ==
  /\ maybe_prune(ts) /\ starts' = pruned_starts(ts)
  /\ gpu_push("presents", [ts |-> ts, pid |-> pid], pruned_heads(ts))
  /\ UNCHANGED <<ticks, open, done>>

(* A thread begins an operation and ends it: what Windows does, whether or *)
(* not the event is delivered and read.                                    *)
begins(ts, tid, read) ==
  /\ open[tid] = Idle /\ Len(done[tid]) < MaxOps
  /\ done[tid] # <<>> => ts >= Last(done[tid]).to
  /\ open' = [open EXCEPT ![tid] = [from |-> ts, read |-> read]]
  /\ UNCHANGED done

ends(ts, tid, read) ==
  /\ open[tid] # Idle /\ ts >= open[tid].from
  /\ open' = [open EXCEPT ![tid] = Idle]
  /\ done' = [done EXCEPT ![tid] = Append(@, [from |-> open[tid].from, to |-> ts,
                                             start |-> open[tid].read, stop |-> read])]

lost(ts, tid) == (begins(ts, tid, FALSE) \/ ends(ts, tid, FALSE)) /\ UNCHANGED traceVars

(* What an event that cannot be read changes: it drives the pruning. *)
only_prune(ts) ==
  /\ maybe_prune(ts) /\ starts' = pruned_starts(ts) /\ gpu_head' = pruned_heads(ts)
  /\ UNCHANGED <<gpu_log, gpu_lost, ticks>>

on_resident_start(ts, tid) ==
  /\ begins(ts, tid, TRUE)
  /\ maybe_prune(ts)
  /\ starts' = [pruned_starts(ts) EXCEPT ![tid] = ts]
  /\ gpu_head' = pruned_heads(ts)
  /\ UNCHANGED <<gpu_log, gpu_lost, ticks>>

(* Mutated: the stop event leaves the start behind. *)
StartStays(b, tid) == b

taken(b, tid) == [b EXCEPT ![tid] = None]

resident_dur(b, tid, ts) == IF b[tid] # None /\ ts - b[tid] < MaxResident THEN ts - b[tid] ELSE 0

on_resident_stop(ts, tid) ==
  /\ ends(ts, tid, TRUE)
  /\ maybe_prune(ts)
  /\ LET b == pruned_starts(ts)
     IN /\ starts' = taken(b, tid)
        /\ gpu_push("residency", [ts |-> ts, dur |-> resident_dur(b, tid, ts),
                                  tid |-> tid, own |-> Len(done[tid]) + 1], pruned_heads(ts))
  /\ UNCHANGED ticks

(* Either of the two when its layout, or the stop's status, could not be   *)
(* worked out: a stop then returns before it takes the start away.         *)
unreadable(ts, tid) ==
  /\ begins(ts, tid, FALSE) \/ ends(ts, tid, FALSE)
  /\ only_prune(ts)

(* Any other event that is not understood. *)
on_unknown(ts) == only_prune(ts) /\ UNCHANGED <<open, done>>

EventTimes ==
  {ts \in Max2(0, gpu_latest - GpuDisorder) .. gpu_latest + GpuStep : ts <= MaxGpuTs}

GpuNext ==
  \E ts \in EventTimes :
    \/ on_refresh(ts) \/ on_unknown(ts)
    \/ \E pid \in Pids : on_present(ts, pid)
    \/ \E tid \in GpuTids : \/ on_resident_start(ts, tid) \/ on_resident_stop(ts, tid)
                            \/ unreadable(ts, tid) \/ lost(ts, tid)

GpuSpec == GpuInit /\ [][GpuNext]_gpuVars

-----------------------------------------------------------------------------
(* What the analyzer reads.                                                *)

(* The cadence of a sorted list of times: the middle gap, the longest one, *)
(* and when the first of that length ended.                                *)
cadence(times) ==
  LET n     == Len(times) - 1
      gap   == [i \in 1 .. n |-> times[i + 1] - times[i]]
      worst == Max({gap[i] : i \in 1 .. n})
  IN [count |-> n + 1, typical |-> SortSeq(gap, <)[(n \div 2) + 1], worst |-> worst,
      worst_at |-> times[1 + Min({i \in 1 .. n : gap[i] = worst})]]

(* None under three of them. *)
cadences(times) == IF Len(times) < 3 THEN {} ELSE {cadence(times)}

stalled(c) == c.worst >= Max2(GapMin, c.typical * GapFactor)

(* The records of ring r that lie in a window, and when some of them were. *)
GpuHeld(r) == gpu_head[r] + 1 .. Len(gpu_log[r])
held_in(r, from, to) == {i \in GpuHeld(r) : gpu_log[r][i].ts >= from /\ gpu_log[r][i].ts <= to}
Times(r, I) == LET recs == At(gpu_log[r], I) IN [n \in 1 .. Len(recs) |-> recs[n].ts]

(* Mutated: only what a cap threw away disqualifies a window. *)
CoversUnlessCapped(r, from) == gpu_lost[r] < from

gpu_covers(r, from) ==
  /\ gpu_lost[r] < from
  /\ gpu_head[r] < Len(gpu_log[r]) /\ gpu_log[r][gpu_head[r] + 1].ts <= from

(* The programs whose cadence can be told, and the one that is taken: the  *)
(* most frames, then the lowest pid.                                       *)
frames(pid, from, to) ==
  Cardinality({i \in held_in("presents", from, to) : gpu_log["presents"][i].pid = pid})

drawing(from, to) == {p \in Pids : frames(p, from, to) >= 3}

program(from, to) ==
  {p \in drawing(from, to) : \A q \in drawing(from, to) \ {p} :
     \/ frames(p, from, to) > frames(q, from, to)
     \/ frames(p, from, to) = frames(q, from, to) /\ p < q}

gpu_window(from, to) ==
  [refresh_covered |-> gpu_covers("refresh", from),
   present_covered |-> gpu_covers("presents", from),
   display |-> IF gpu_covers("refresh", from)
               THEN cadences(Times("refresh", held_in("refresh", from, to))) ELSE {},
   program |-> IF gpu_covers("presents", from) THEN program(from, to) ELSE {},
   residency |-> LET ops == held_in("residency", from, to)
                 IN SumOver(ops, [i \in ops |-> gpu_log["residency"][i].dur])]

-----------------------------------------------------------------------------
Windows == {w \in (0 .. MaxGpuTs) \X (0 .. MaxGpuTs) : w[1] < w[2] /\ w[2] <= gpu_latest}

(* "Whether the picture actually stopped updating" (gputrace/mod.rs): when *)
(* window() reports a cadence of the displays, its longest gap is a real   *)
(* one, no refresh came inside it, and no longer gap between two refreshes *)
(* of the window went unreported, whatever the caps and the age limit have *)
(* thrown away and however many events one refresh logs.  A refresh within *)
(* HalfMs after a record, or delivered late, is taken for the record's:    *)
(* the gap may begin with one HalfMs late and end with one GpuDisorder     *)
(* early.                                                                  *)
DisplayStopIsReal ==
  \A w \in {v \in Windows : gpu_covers("refresh", v[1])} : \A c \in gpu_window(w[1], w[2]).display :
    /\ {t \in ticks : t >= c.worst_at - c.worst + HalfMs /\ t < c.worst_at - GpuDisorder} = {}
    /\ \A a, b \in {t \in ticks : t >= w[1] + HalfMs /\ t <= w[2] - GpuDisorder} :
         a < b /\ (\A t \in ticks : t <= a \/ t >= b) => b - a <= Max2(c.worst, GpuDisorder)

(* Of thread tid's first n operations, the start of e-th is the last event *)
(* that was read.                                                          *)
LastRead(tid, e, n) ==
  /\ done[tid][e].start /\ ~done[tid][e].stop
  /\ \A j \in e + 1 .. n : ~done[tid][j].start /\ ~done[tid][j].stop

(* ResidentRec.dur is "start to stop": whichever events of a thread were   *)
(* lost or unreadable, an operation whose start was read is timed from it, *)
(* unless it is too long to be believed; and one whose start was not read  *)
(* has no time at all, or the time since the last event of the thread that *)
(* was read, if that is the start of an operation whose stop was not.  No  *)
(* single event that is missed gives a time that is not an operation's.    *)
ResidencyIsItsOwn ==
  \A i \in DOMAIN gpu_log["residency"] :
    LET r == gpu_log["residency"][i]
        o == done[r.tid][r.own]
    IN /\ o.start => r.dur = IF o.to - o.from < MaxResident THEN o.to - o.from ELSE 0
       /\ ~o.start => \/ r.dur = 0
                      \/ \E e \in 1 .. r.own - 1 :
                           /\ LastRead(r.tid, e, r.own - 1)
                           /\ r.dur = o.to - done[r.tid][e].from /\ r.dur < MaxResident

(* "0 when the start was not seen" (ResidentRec.dur in gputrace/mod.rs):   *)
(* not so when the stop before it was missed as well.                      *)
DurationNeedsItsStart ==
  \A i \in DOMAIN gpu_log["residency"] :
    LET r == gpu_log["residency"][i] IN r.dur # 0 => done[r.tid][r.own].start

=============================================================================
