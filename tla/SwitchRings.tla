---------------------------- MODULE SwitchRings ----------------------------
(***************************************************************************)
(* The rings of recent kernel events that the ETW callback fills and the   *)
(* analyzer reads (src/state.rs `Inner`, filled by `handle_event` in       *)
(* src/etw/events.rs).  Context switches and thread wake-ups are kept for  *)
(* SWITCH_KEEP_MS and capped by count; DPC/ISR runs, hard faults, disk     *)
(* requests and CPU samples are kept for `Shared::keep` with no count cap. *)
(*                                                                         *)
(* A ring is a suffix of everything ever pushed on it: log[k] is the whole *)
(* history of ring k and head[k] how many records were popped from its     *)
(* front, so the ring itself is log[k][head[k]+1 .. Len(log[k])].  Keeping *)
(* the popped prefix is what lets a property ask whether an answer read    *)
(* from the ring leaves something out.                                     *)
(*                                                                         *)
(* Every operation runs under the one mutex around `Inner`, so each is one *)
(* step.  Times are ticks of trace time.                                   *)
(***************************************************************************)
EXTENDS Integers, Sequences, Rings

CONSTANTS
  Tids,        \* thread ids
  LongKinds,   \* the rings kept for LongKeep: exec, fault, io, sample
  SwitchCap,   \* switch_cap.max(SWITCH_CAP)
  ReadyCap,    \* ready_cap.max(READY_CAP)
  SwitchKeep,  \* SWITCH_KEEP_MS
  LongKeep,    \* Shared::keep
  PruneEvery,  \* keep / 8
  Disorder,    \* ETW: how far behind the newest one an event may be stamped
  Slop,        \* the millisecond switch_window widens its search by
  LookBefore,  \* stuck_records: before (READY_BEFORE_MS)
  LookAfter,   \* stuck_records: after (LOOK_AFTER_MS)
  MaxTs,       \* bound: the newest trace time
  MaxEvents    \* bound: events delivered

Capped == {"switch", "ready"}
Kinds  == Capped \cup LongKinds

ASSUME RingAssumption ==
  /\ Capped \cap LongKinds = {} /\ Tids # {}
  /\ SwitchCap \in Nat \ {0} /\ ReadyCap \in Nat \ {0}
  /\ SwitchKeep \in Nat /\ LongKeep \in Nat /\ SwitchKeep <= LongKeep
  /\ PruneEvery \in Nat
  /\ Disorder \in Nat /\ Slop \in Nat /\ Disorder <= SwitchKeep
  /\ LookBefore \in Nat /\ LookAfter \in Nat
  /\ MaxTs \in Nat /\ MaxEvents \in Nat

None == -1     \* ring_lost_until = None; every real trace time is positive

Rec == [ts : Nat, tid : Tids]

Cap(k)  == IF k = "switch" THEN SwitchCap ELSE ReadyCap
Keep(k) == IF k \in Capped THEN SwitchKeep ELSE LongKeep

VARIABLES
  log,                 \* [Kinds -> Seq(Rec)]: all that was pushed, in order
  head,                \* [Kinds -> Nat]: how much of it was popped again
  latest_ts,           \* newest event timestamp seen
  last_prune,          \* latest_ts at the last prune
  ring_lost_until,     \* newest record the count cap threw away, or None
  switches_overflowed, \* the count cap threw something away
  events               \* events delivered

vars == <<log, head, latest_ts, last_prune, ring_lost_until,
          switches_overflowed, events>>

(* The ring itself, as positions in the history. *)
Held(k)   == head[k] + 1 .. Len(log[k])
Popped(k) == 1 .. head[k]
FrontOf(k)  == log[k][head[k] + 1]

Init ==
  /\ log = [k \in Kinds |-> <<>>]
  /\ head = [k \in Kinds |-> 0]
  /\ latest_ts = 0
  /\ last_prune = 0
  /\ ring_lost_until = None
  /\ switches_overflowed = FALSE
  /\ events = 0

-----------------------------------------------------------------------------
(* Mutated: every ring is cut at the switches' shorter window. *)
PruneAllShort(now) == [k \in Kinds |-> PruneOne(log[k], head[k], now - SwitchKeep)]

prune(now) == [k \in Kinds |-> PruneOne(log[k], head[k], now - Keep(k))]

(* handle_event, up to the match: the newest timestamp moves on, and with  *)
(* it, every so often, the whole set of rings is pruned.                   *)
Advances(ts)   == ts > latest_ts
PruneDue(ts)   == Advances(ts) /\ ts - last_prune > PruneEvery
HeadsAfter(ts) == IF PruneDue(ts) THEN prune(ts) ELSE head

(* push_back on a ring without a count cap. *)
push_long(k, r) ==
  /\ log' = [log EXCEPT ![k] = Append(@, r)]
  /\ head' = HeadsAfter(r.ts)
  /\ UNCHANGED <<ring_lost_until, switches_overflowed>>

(* push_switch / push_ready: push, then drop from the front if the cap is  *)
(* exceeded, remembering the newest record ever dropped this way.          *)
push_capped(k, r) ==
  LET lg == Append(log[k], r)
      h  == HeadsAfter(r.ts)
      over == Len(lg) - h[k] > Cap(k)
  IN /\ log' = [log EXCEPT ![k] = lg]
     /\ head' = IF over THEN [h EXCEPT ![k] = @ + 1] ELSE h
     /\ ring_lost_until' = IF over THEN Max2(ring_lost_until, lg[h[k] + 1].ts)
                                   ELSE ring_lost_until
     /\ switches_overflowed' = (switches_overflowed \/ over)

(* One event delivered by ETW, as the whole of handle_event treats it. *)
handle_event(k, r) ==
  /\ events < MaxEvents
  /\ r.ts >= latest_ts - Disorder
  /\ events' = events + 1
  /\ latest_ts' = Max2(latest_ts, r.ts)
  /\ last_prune' = IF PruneDue(r.ts) THEN r.ts ELSE last_prune
  /\ IF k \in Capped THEN push_capped(k, r) ELSE push_long(k, r)

(* An event that is counted and moves the clock on but is kept in no ring: *)
(* thread starts, file names, a DPC whose duration was rejected.           *)
handle_other(ts) ==
  /\ events < MaxEvents
  /\ ts >= latest_ts - Disorder
  /\ events' = events + 1
  /\ latest_ts' = Max2(latest_ts, ts)
  /\ last_prune' = IF PruneDue(ts) THEN ts ELSE last_prune
  /\ head' = HeadsAfter(ts)
  /\ UNCHANGED <<log, ring_lost_until, switches_overflowed>>

Next ==
  \/ \E k \in Kinds, ts \in 1 .. MaxTs, tid \in Tids :
       handle_event(k, [ts |-> ts, tid |-> tid])
  \/ \E ts \in 1 .. MaxTs : handle_other(ts)

Spec == Init /\ [][Next]_vars

-----------------------------------------------------------------------------
(* What the analyzer reads, under the same lock.                           *)

(* Mutated: a loss at the very start of the window is let through. *)
CoverAtTheEdge(from) ==
  /\ ring_lost_until = None \/ ring_lost_until <= from
  /\ Held("switch") # {} /\ FrontOf("switch").ts <= from
  /\ Held("ready") # {}

switches_cover(from) ==
  /\ ring_lost_until = None \/ ring_lost_until < from
  /\ Held("switch") # {} /\ FrontOf("switch").ts <= from
  /\ Held("ready") # {}

partition_point(k, t) == PartitionPoints(log[k], head[k], t)

(* Mutated: the search is not widened for events out of order. *)
WindowAsSearched(k, from, to) ==
  {{i \in a + 1 .. b : log[k][i].ts >= from /\ log[k][i].ts <= to} :
     a \in partition_point(k, from), b \in partition_point(k, to + 1)}

(* The positions switch_window(from, to) may copy out of ring k. *)
switch_window(k, from, to) ==
  {{i \in a + 1 .. b : log[k][i].ts >= from /\ log[k][i].ts <= to} :
     a \in partition_point(k, from - Slop), b \in partition_point(k, to + Slop + 1)}

(* stuck_records(start, end): when it answers at all, and the positions of *)
(* the wake-ups and of the switch-outs it hands out.                       *)
stuck_covered(start, end) == switches_cover(start) /\ latest_ts >= end + LookAfter

(* Mutated: the end of the search is exclusive. *)
ReadiesShort(end) ==
  {a + 1 .. b : a \in partition_point("ready", end - LookBefore),
                b \in partition_point("ready", end + LookAfter)}

stuck_readies(end) ==
  {a + 1 .. b : a \in partition_point("ready", end - LookBefore),
                b \in partition_point("ready", end + LookAfter + 1)}

stuck_switches(start, end, woken) ==
  {{i \in a + 1 .. b : log["switch"][i].tid \in woken} :
     a \in partition_point("switch", start),
     b \in partition_point("switch", end + LookAfter + 1)}

-----------------------------------------------------------------------------
TypeOK ==
  /\ log \in [Kinds -> Seq(Rec)]
  /\ head \in [Kinds -> Nat]
  /\ \A k \in Kinds : head[k] <= Len(log[k])
  /\ latest_ts \in Nat /\ last_prune \in Nat
  /\ ring_lost_until \in Nat \cup {None}
  /\ switches_overflowed \in BOOLEAN
  /\ events \in Nat

(* Everything pushed on ring k with a timestamp in [from, to], popped or not. *)
Pushed(k, from, to) ==
  {i \in 1 .. Len(log[k]) : log[k][i].ts >= from /\ log[k][i].ts <= to}

(* When switches_cover(from) says yes, no context switch and no wake-up    *)
(* from `from` on has left its ring, whether it was the clock or the count *)
(* cap that popped records: "a missing wake-up record reverses a           *)
(* conclusion" (switches_cover in src/state.rs).                           *)
CoverIsHonest ==
  \A from \in 1 .. MaxTs :
    switches_cover(from) =>
      \A k \in Capped : \A i \in Popped(k) : log[k][i].ts < from

(* Whatever the binary search settles on, switch_window returns exactly    *)
(* the records of a covered window, with events out of order by as much as *)
(* the search is widened.                                                  *)
WindowIsComplete ==
  \A from \in 1 .. MaxTs : \A to \in from .. MaxTs :
    switches_cover(from) =>
      \A k \in Capped : \A w \in switch_window(k, from, to) : w = Pushed(k, from, to)

InOrder(k) ==
  \A j \in 1 .. Len(log[k]) : \A i \in 1 .. j : log[k][i].ts <= log[k][j].ts

(* What stuck_records hands out about one request is every wake-up around  *)
(* its end and every switch-out of those threads since its start.  Unlike  *)
(* switch_window it does not widen its search, so this is claimed only     *)
(* while the events happened to arrive in order.                           *)
StuckRecordsComplete ==
  \A start \in 1 .. MaxTs : \A end \in start + LookBefore .. MaxTs :
    stuck_covered(start, end) /\ (\A k \in Capped : InOrder(k)) =>
      \A rd \in stuck_readies(end) :
        /\ rd = Pushed("ready", end - LookBefore, end + LookAfter)
        /\ LET woken == {log["ready"][i].tid : i \in rd}
           IN \A sw \in stuck_switches(start, end, woken) :
                sw = {i \in Pushed("switch", start, end + LookAfter) :
                        log["switch"][i].tid \in woken}

(* A record is popped only for a reason that is on record: it had left its *)
(* ring's own time window at the last prune, or the count cap dropped it,  *)
(* which was admitted, and ring_lost_until is at least as new.             *)
DropsAreAccounted ==
  \A k \in Kinds : \A i \in Popped(k) :
    \/ log[k][i].ts < last_prune - Keep(k)
    \/ k \in Capped /\ switches_overflowed /\ log[k][i].ts <= ring_lost_until

(* ring_lost_until is not pessimistic: it is the time of a record that was *)
(* really dropped, so an overflow never disqualifies more than it must.    *)
LostIsTight ==
  ring_lost_until # None =>
    \E k \in Capped : \E i \in Popped(k) : log[k][i].ts = ring_lost_until

(* Both bounds on memory: the count caps hold, and no ring reaches back    *)
(* further than its time window plus one pruning interval.                 *)
RingsBounded ==
  \A k \in Kinds :
    /\ k \in Capped => Len(log[k]) - head[k] <= Cap(k)
    /\ Held(k) # {} => FrontOf(k).ts >= latest_ts - Keep(k) - PruneEvery - Disorder

=============================================================================
