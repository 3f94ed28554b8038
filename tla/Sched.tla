------------------------------- MODULE Sched -------------------------------
(***************************************************************************)
(* What the scheduler did (switches.rs): why a measuring thread was late   *)
(* (classify_probe), what held its processor meanwhile (held_by), and who  *)
(* was kept waiting (waits).  The code sees nothing but CSwitch and        *)
(* ReadyThread records; here a small scheduler makes them, and what really *)
(* happened is remembered beside them.                                     *)
(*                                                                         *)
(* Priorities and the wording of wait reasons are left out.  A thread id   *)
(* may be given to a new thread once the old one has terminated.  Running  *)
(* and waiting take a tick at least; being put on a processor may not.     *)
(***************************************************************************)
EXTENDS Integers, FiniteSets, FiniteSetsExt, SequencesExt, Sums

CONSTANTS
  SchedThreads, \* thread ids, the probe among them
  Probe,        \* the measuring thread
  Procs,        \* processors; the probe is pinned to one of them
  Pin,
  IdleTid,      \* IDLE_TID
  Reasons,      \* what a thread waits for: a lock, a timer of its own
  Interval,     \* how long the probe asks to sleep
  OneMs,        \* on_time_slack: at least this
  SlackShare,   \* ...and at least this share of the stall (a twentieth)
  MinStall,     \* the lateness that makes a stall
  Jumps,        \* by how much time moves
  MaxRecords,   \* bound: records in the two streams
  MaxTick       \* bound: the clock

ASSUME SchedAssumption ==
  /\ Probe \in SchedThreads /\ Pin \in Procs /\ IdleTid \notin SchedThreads
  /\ Jumps \subseteq Nat /\ Interval \in Nat /\ OneMs \in Nat /\ SlackShare \in Nat \ {0} /\ MinStall \in Nat \ {0}

VARIABLES
  tick,
  sw, rd,       \* the CSwitch and ReadyThread records, in the order of their time stamps
  runs,         \* [Procs -> who is on the processor]
  state,        \* [SchedThreads -> [is, since, reason]]: what each thread is doing
  wanted,       \* when the probe asked to be woken, or None
  own,          \* what became of that wake-up: when readied, whether it ran and waited again
  stalls,       \* late wake-ups, with what really happened
  stretches     \* [tid, is, from, to, reason, on]: every finished stretch of being in one state

NoTime == -1
schedVars == <<tick, sw, rd, runs, state, wanted, own, stalls, stretches>>

NewWakeUp == [ready |-> NoTime, ran |-> NoTime, again |-> FALSE]

SchedInit ==
  /\ tick = 0 /\ sw = <<>> /\ rd = <<>>
  /\ runs = [c \in Procs |-> IF c = Pin THEN Probe ELSE IdleTid]
  /\ state = [t \in SchedThreads |-> IF t = Probe THEN [is |-> "running", since |-> 0, reason |-> "none"]
                                             ELSE [is |-> "ready", since |-> NoTime, reason |-> "none"]]
  /\ wanted = NoTime /\ own = NewWakeUp /\ stalls = {} /\ stretches = {}

-----------------------------------------------------------------------------
(* The scheduler (external), and the loop of the probe.                    *)

(* on_time_slack *)
slack_of(len) == IF len \div SlackShare > OneMs THEN len \div SlackShare ELSE OneMs

Room == Len(sw) + Len(rd) < MaxRecords
Doing(is, reason) == [is |-> is, since |-> tick, reason |-> reason]
Over(t) ==
  IF t = IdleTid THEN {}
  ELSE {[tid |-> t, is |-> state[t].is, from |-> state[t].since, to |-> tick, reason |-> state[t].reason,
         on |-> {c \in Procs : runs[c] = t}]}

Later ==
  /\ \E d \in Jumps : tick' = tick + d /\ tick' <= MaxTick
  /\ UNCHANGED <<sw, rd, runs, state, wanted, own, stalls, stretches>>

(* A thread is made runnable: a waiting one, or a new one. *)
Ready(t) ==
  /\ Room /\ state[t].is \in {"waiting", "gone"} /\ tick > state[t].since
  /\ t = Probe /\ ~own.again => tick >= wanted
  /\ rd' = Append(rd, [ts |-> tick, tid |-> t])
  /\ state' = [state EXCEPT ![t] = Doing("ready", "none")]
  /\ stretches' = IF state[t].is = "waiting" THEN stretches \cup Over(t) ELSE stretches
  /\ own' = IF t = Probe /\ own.ready = NoTime THEN [own EXCEPT !.ready = tick] ELSE own
  /\ UNCHANGED <<tick, sw, runs, wanted, stalls>>

(* The processor c goes to `new`, and the thread that had it becomes `is`. *)
Hand(c, new, is, reason) ==
  LET old == runs[c]
  IN /\ Room /\ new # old /\ (new # IdleTid => state[new].is = "ready") /\ (new = Probe => c = Pin)
     /\ IF old = IdleTid THEN is = "ready" ELSE tick > state[old].since
     /\ sw' = Append(sw, [ts |-> tick, cpu |-> c, new_tid |-> new, old_tid |-> old,
                          old_state |-> is, reason |-> reason])
     /\ runs' = [runs EXCEPT ![c] = new]
     /\ state' = [t \in SchedThreads |-> IF t = new THEN Doing("running", "none")
                                    ELSE IF t = old THEN Doing(is, reason) ELSE state[t]]
     /\ stretches' = stretches \cup Over(new) \cup Over(old)
     /\ UNCHANGED <<tick, rd>>

Switch(c, new, is, reason) ==
  /\ Hand(c, new, is, reason)
  /\ runs[c] = Probe => wanted # NoTime /\ is # "gone"
  /\ own' = [own EXCEPT !.ran   = IF new = Probe THEN tick ELSE @,
                        !.again = IF runs[c] = Probe /\ is = "waiting" THEN TRUE ELSE @]
  /\ UNCHANGED <<wanted, stalls>>

(* The probe's loop: it reads the clock, reports how late it was, asks to  *)
(* be woken again and sleeps.                                              *)
ProbeLoop(c, new) ==
  /\ runs[c] = Probe /\ Hand(c, new, "waiting", "timer")
  /\ stalls' = IF wanted = NoTime \/ tick - wanted < MinStall THEN stalls
               ELSE stalls \cup {[start |-> wanted, end |-> tick, own |-> own]}
  /\ wanted' = tick + Interval /\ own' = NewWakeUp

SchedNext ==
  \/ Later
  \/ \E t \in SchedThreads : Ready(t)
  \/ \E c \in Procs, new \in SchedThreads \cup {IdleTid} :
       \/ \E r \in Reasons : Switch(c, new, "waiting", r)
       \/ Switch(c, new, "ready", "none")
       \/ Switch(c, new, "gone", "none")
       \/ ProbeLoop(c, new)

SchedSpec == SchedInit /\ [][SchedNext]_schedVars

-----------------------------------------------------------------------------
(* held_by: how long each thread had the processor c between from and to,  *)
(* and what may be said of it.                                             *)

(* Mutated: who came at the very instant is not seen. *)
CameBefore(c, ts) == {i \in DOMAIN sw : sw[i].cpu = c /\ sw[i].ts < ts}

OnCpu(c, ts) == {i \in DOMAIN sw : sw[i].cpu = c /\ sw[i].ts <= ts}

(* The switches after each of which a thread had it in that time. *)
Spans(c, from, to) ==
  (IF OnCpu(c, from) = {} THEN {} ELSE {Max(OnCpu(c, from))})
    \cup {i \in DOMAIN sw : sw[i].cpu = c /\ sw[i].ts > from /\ sw[i].ts <= to}

held(c, from, to, t) ==
  LET spans    == Spans(c, from, to)
      began(i) == Max({from, sw[i].ts})
      until(i) == Min({to} \cup {sw[j].ts : j \in {k \in spans : k > i}})
  IN SumOver({i \in spans : sw[i].new_tid = t}, [i \in spans |-> until(i) - began(i)])

(* The threads that had it longest: any of them may be the one named. *)
holders(c, from, to, exclude) ==
  LET others == {t \in SchedThreads \ {exclude} : held(c, from, to, t) > 0}
  IN {t \in others : \A u \in others : held(c, from, to, t) >= held(c, from, to, u)}

held_by(c, from, to, exclude) ==
  IF to <= from THEN "unknown"
  ELSE IF 10 * held(c, from, to, IdleTid) >= 9 * (to - from) THEN "idle"
  ELSE IF holders(c, from, to, exclude) # {} THEN "thread" ELSE "unknown"

(* The records that may be the wake-up of window w. *)
ReadyIn(w, slack) ==
  {i \in DOMAIN rd : rd[i].tid = Probe /\ rd[i].ts >= w.start - slack /\ rd[i].ts <= w.end + slack}

classify_probe(w) ==
  LET slack == slack_of(w.end - w.start)
      ran   == {i \in DOMAIN sw : sw[i].new_tid = Probe /\ sw[i].ts > w.start - slack /\ sw[i].ts <= w.end + slack}
      ready == rd[Min(ReadyIn(w, slack))].ts
      off   == {i \in DOMAIN sw : /\ sw[i].old_tid = Probe /\ sw[i].old_state = "waiting"
                                  /\ sw[i].ts > ready /\ sw[i].ts < w.end}
      ranAt == IF ran = {} THEN w.end ELSE sw[Max(ran)].ts
  IN IF w.end <= w.start \/ ReadyIn(w, slack) = {} THEN [is |-> "unknown", instead |-> "unknown"]
     ELSE IF ready > w.start + slack THEN [is |-> "late", instead |-> "unknown"]
     ELSE IF off # {} THEN [is |-> "blocked", instead |-> "unknown"]
     ELSE [is |-> "queued", instead |-> held_by(Pin, ready, ranAt, Probe)]

(* How many of the late wake-ups came out each way. *)
count_outcomes(ws) ==
  LET out(w)  == classify_probe(w)
      many(k) == Cardinality({w \in ws : out(w).is = k})
  IN [late |-> many("late"), queued |-> many("queued"), blocked |-> many("blocked"),
      on_idle_cpu |-> Cardinality({w \in ws : out(w).is = "queued" /\ out(w).instead = "idle"})]

(* judge_probes: nothing is said when the records do not cover them. *)
judge_probes(ws, cover) == IF cover THEN count_outcomes(ws) ELSE count_outcomes({})

judged(v) == v.late + v.queued + v.blocked

(* ProbeVerdict::overall: one word for all of them, "none" when nothing    *)
(* could be judged.                                                        *)
overall(v) ==
  IF judged(v) = 0 THEN "none"
  ELSE IF v.late = judged(v) THEN "late"
  ELSE IF v.queued = judged(v) THEN "queued"
  ELSE IF v.blocked = judged(v) THEN "blocked" ELSE "mixed"

(* print_probes: what the event log says of them, in which kind of stall.  *)
print_probes(v, class) ==
  {s \in {"nothing woke them", "no processor", "only the idle thread", "ran and waited again", "nobody was woken"} :
     CASE s = "nothing woke them"    -> v.late > 0
       [] s = "no processor"         -> v.queued > 0
       [] s = "only the idle thread" -> v.on_idle_cpu > 0
       [] s = "ran and waited again" -> v.blocked > 0
       [] OTHER -> class = "freeze" /\ v.late > 0 /\ v.late = judged(v)}

-----------------------------------------------------------------------------
(* merged: the two streams in one, a tie going to the wake-up. *)
Sooner(a, b) ==
  \/ a.ts < b.ts
  \/ a.ts = b.ts /\ (a.rank < b.rank \/ (a.rank = b.rank /\ a.i < b.i))

Wakings  == {[ts |-> rd[i].ts, rank |-> 0, i |-> i] : i \in DOMAIN rd}
Switches == {[ts |-> sw[i].ts, rank |-> 1, i |-> i] : i \in DOMAIN sw}
merged(from, to) == {s \in Wakings \cup Switches : s.ts >= from /\ s.ts <= to}

Unseen == [ready |-> NoTime, blocked |-> NoTime, reason |-> "none"]
NoWait == [ready |-> 0, ready_cpu |-> Pin, ready_from |-> NoTime, ready_to |-> NoTime, blocked |-> 0, reason |-> "none"]

(* One wake-up record, and one switch record: what is known of each thread *)
(* (live) and the worst stretches so far (worst).                          *)
StepReady(acc, r) ==
  LET l    == acc.live[r.tid]
      span == r.ts - l.blocked
  IN [live  |-> [acc.live EXCEPT ![r.tid] = [ready |-> IF l.ready = NoTime THEN r.ts ELSE l.ready,
                                             blocked |-> NoTime, reason |-> "none"]],
      worst |-> IF l.blocked = NoTime \/ span <= acc.worst[r.tid].blocked THEN acc.worst
                ELSE [acc.worst EXCEPT ![r.tid].blocked = span, ![r.tid].reason = l.reason]]

SwitchedIn(acc, s) ==
  LET l    == acc.live[s.new_tid]
      span == s.ts - l.ready
  IN IF s.new_tid = IdleTid THEN acc
     ELSE [live  |-> [acc.live EXCEPT ![s.new_tid] = Unseen],
           worst |-> IF l.ready = NoTime \/ span <= acc.worst[s.new_tid].ready THEN acc.worst
                     ELSE [acc.worst EXCEPT ![s.new_tid] =
                             [@ EXCEPT !.ready = span, !.ready_cpu = s.cpu, !.ready_from = l.ready, !.ready_to = s.ts]]]

(* Mutated: a thread that is not waiting is taken to be runnable. *)
OutIfNotWaiting(l, s) ==
  IF s.old_state = "waiting" THEN [Unseen EXCEPT !.blocked = s.ts, !.reason = s.reason]
  ELSE [Unseen EXCEPT !.ready = s.ts]

Out(l, s) ==
  CASE s.old_state = "waiting" -> [Unseen EXCEPT !.blocked = s.ts, !.reason = s.reason]
    [] s.old_state = "ready"   -> [Unseen EXCEPT !.ready = s.ts]
    [] OTHER                   -> Unseen

SwitchedOut(acc, s) ==
  IF s.old_tid = IdleTid THEN acc ELSE [acc EXCEPT !.live[s.old_tid] = Out(@, s)]

Record(acc, m) ==
  IF m.rank = 0 THEN StepReady(acc, rd[m.i]) ELSE SwitchedOut(SwitchedIn(acc, sw[m.i]), sw[m.i])

NothingSeen == [live |-> [t \in SchedThreads |-> Unseen], worst |-> [t \in SchedThreads |-> NoWait]]

waits(from, to) ==
  LET steps   == merged(from, to)
      last(S) == CHOOSE s \in S : \A r \in S \ {s} : Sooner(r, s)
      acc[S \in SUBSET steps] == IF S = {} THEN NothingSeen ELSE Record(acc[S \ {last(S)}], last(S))
  IN acc[steps].worst

-----------------------------------------------------------------------------
(* What really happened to a late wake-up. *)
Happened(w) ==
  LET slack == slack_of(w.end - w.start)
  IN IF w.own.ready > w.start + slack THEN "late"
     ELSE IF w.own.again THEN "blocked" ELSE "queued"

(* The slack before the window reaches back to no earlier wake-up, as it   *)
(* never does while it is shorter than the sleep.                          *)
Clear(w) ==
  \A i \in DOMAIN rd :
    rd[i].tid = Probe /\ rd[i].ts >= w.start - slack_of(w.end - w.start) => rd[i].ts >= w.start

(* The moments between two instants at which another thread had the        *)
(* processor of the probe.                                                 *)
Busy(from, to) ==
  {n \in from .. to - 1 : \E x \in stretches : /\ x.is = "running" /\ x.tid # Probe /\ Pin \in x.on
                                               /\ x.from <= n /\ n < x.to}

(* "A thread made READY on time and left in the queue is a scheduler or    *)
(* platform anomaly - and if the processor was idle throughout, a plain    *)
(* one" (switches.rs): whichever late wake-ups are judged together, what   *)
(* the event log says of them is what happened to each of them, and the    *)
(* processor is called idle only when others had it for a tenth of the     *)
(* wait at most.  A wake-up whose slack reaches back to an earlier one may *)
(* be taken for it (PreviousWakeUpIsIgnored).                              *)
LatenessIsTold ==
  \A ws \in SUBSET {w \in stalls : Clear(w)} :
    LET v    == judge_probes(ws, TRUE)
        says == print_probes(v, "freeze")
    IN /\ overall(v) \in {"late", "queued", "blocked"} => \A w \in ws : Happened(w) = overall(v)
       /\ "nobody was woken" \in says => \A w \in ws : Happened(w) = "late"
       /\ v.on_idle_cpu <= Cardinality({w \in ws :
            10 * Cardinality(Busy(w.own.ready, w.own.ran)) <= w.end + slack_of(w.end - w.start) - w.own.ready})

(* "The first thing that made it runnable at or after it was due. Anything *)
(* before that belongs to the previous wake-up" (classify_probe): a probe  *)
(* that nothing woke in time is never said to have been woken in time.     *)
PreviousWakeUpIsIgnored ==
  \A w \in stalls : Happened(w) = "late" => classify_probe(w).is \in {"late", "unknown"}

(* waits: every stretch it reports is one the thread really spent that     *)
(* way, so a reused id is never given another thread's wait.               *)
WaitsAreReal ==
  LET rows == waits(0, tick)
  IN \A t \in SchedThreads :
       /\ rows[t].ready > 0 => \E x \in stretches : /\ x.tid = t /\ x.is = "ready"
                                                     /\ x.from = rows[t].ready_from /\ x.to = rows[t].ready_to
                                                     /\ x.to - x.from = rows[t].ready
       /\ rows[t].blocked > 0 => \E x \in stretches : /\ x.tid = t /\ x.is = "waiting"
                                                       /\ x.to - x.from = rows[t].blocked /\ x.reason = rows[t].reason

=============================================================================
