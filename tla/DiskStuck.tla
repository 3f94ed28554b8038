----------------------------- MODULE DiskStuck -----------------------------
(***************************************************************************)
(* What is made of one slow disk request (diskstuck.rs, diskwhy.rs and     *)
(* Analyzer::explain_io): what it was, why it took so long, who was stuck  *)
(* behind it and who was stuck behind those.  The code sees the requests   *)
(* as they complete, the switches of threads into a wait and the wake-ups; *)
(* a small world of threads, drives and one lock makes those records here, *)
(* and what every thread really waited for is remembered beside them.      *)
(*                                                                         *)
(* A request is known by its drive, its issuer and its start.  Being woken *)
(* puts a thread back to work at once; it works for a tick at least before *)
(* it waits again.  A finished request wakes whoever waits for it, at once *)
(* or up to Lag later.  Paths, sizes and rates are left out.               *)
(***************************************************************************)
EXTENDS Integers, FiniteSets, FiniteSetsExt, SequencesExt

CONSTANTS
  Threads, Drives,
  Nobody,       \* no thread: a wake-up from a DPC, a lock that is free
  Program,      \* [Threads -> program], of which...
  Tool, System,  \* ...these two, the tool and Windows' own threads, are never named
  IoWarn,       \* the length at which a request is slow
  StuckMin,     \* STUCK_MIN_MS: the shortest wait that counts
  ReadyBefore, ReadyAfter,  \* how far from the completion a wake-up may be
  LockAfter,    \* LOCK_AFTER_MS: how soon the lock must be let go
  SleepGap,     \* SLEEP_GAP_MS: a drive silent for this long may sleep
  WakeMin,      \* WAKE_MIN_MS: what waking it takes at least
  Spinning,     \* the hard drives among them
  ThrashLook,   \* THRASH_LOOK_MS
  MinEach,      \* MIN_EACH
  MinFar,       \* MIN_FAR_SWITCHES
  BusyOthers,   \* requests of others at which the drive counts as busy
  RingKeep,     \* Shared::keep: how long completed requests are kept
  Lag,          \* the longest a wake-up follows its completion
  Ops,          \* kinds of request: "read", "write", "flush"
  MaxIos,       \* bound: requests
  MaxWaits,     \* bound: waits
  MaxClock      \* bound: the clock

ASSUME StuckAssumption ==
  /\ Nobody \notin Threads
  /\ StuckMin \in Nat \ {0} /\ ReadyBefore \in Nat /\ ReadyAfter \in Nat
  /\ ReadyBefore + ReadyAfter <= StuckMin
  /\ Lag \in Nat /\ Lag <= ReadyAfter /\ LockAfter \in Nat /\ SleepGap <= RingKeep

VARIABLES
  clock,
  completed,  \* completed requests, in the order of their completion
  under,    \* requests under way: [disk, tid, start, op]
  offs,     \* switches of a thread off its processor into a wait
  wakes,    \* wake-ups, with the thread that did it
  doing,    \* [Threads -> [why, what, since]]
  lock,     \* who holds the lock
  waited,   \* every finished wait: [tid, from, to, why, what, done]
  answers   \* what was said of each slow request

stuckVars == <<clock, completed, under, offs, wakes, doing, lock, waited, answers>>

Runs(t) == doing[t].why = "runs"
Busily(t) == Runs(t) /\ doing[t].since < clock
Starts(why, what) == [why |-> why, what |-> what, since |-> clock]

StuckInit ==
  /\ clock = 0 /\ completed = <<>> /\ under = {} /\ offs = <<>> /\ wakes = <<>>
  /\ doing = [t \in Threads |-> [why |-> "runs", what |-> Nobody, since |-> -1]]
  /\ lock = Nobody /\ waited = {} /\ answers = {}

-----------------------------------------------------------------------------
(* The world (external).                                                   *)

Lapse(t) == doing[t].what \notin under /\ doing[t].why = "disk"

(* Time passes, but not past the moment a wake-up is due. *)
Pass ==
  /\ clock < MaxClock /\ clock' = clock + 1
  /\ \A t \in Threads : Lapse(t) =>
       \E i \in DOMAIN completed : completed[i].req = doing[t].what /\ clock < completed[i].end + Lag
  /\ UNCHANGED <<completed, under, offs, wakes, doing, lock, waited, answers>>

Off(t, why, what) ==
  /\ Len(offs) < MaxWaits
  /\ offs' = Append(offs, [ts |-> clock, tid |-> t, reason |-> why])
  /\ doing' = [doing EXCEPT ![t] = Starts(why, what)]

(* A request is issued, and waited for or not. *)
Issue(t, d, op, waits) ==
  LET q == [disk |-> d, tid |-> t, start |-> clock, op |-> op]
  IN /\ Busily(t) /\ Cardinality(under) + Len(completed) < MaxIos /\ q \notin under
     /\ under' = under \cup {q}
     /\ IF waits THEN Off(t, "disk", q) ELSE UNCHANGED <<offs, doing>>
     /\ UNCHANGED <<clock, completed, wakes, lock, waited, answers>>

(* Somebody else needs what is already being read. *)
Join(t, q) ==
  /\ Busily(t) /\ q \in under /\ Off(t, "disk", q)
  /\ UNCHANGED <<clock, completed, under, wakes, lock, waited, answers>>

Take(t) ==
  /\ Busily(t) /\ lock = Nobody /\ lock' = t
  /\ UNCHANGED <<clock, completed, under, offs, wakes, doing, waited, answers>>

Block(t) ==
  /\ Busily(t) /\ lock \notin {t, Nobody} /\ Off(t, "lock", lock)
  /\ UNCHANGED <<clock, completed, under, wakes, lock, waited, answers>>

(* A window waits for a message. *)
AwaitMessage(t) ==
  /\ Busily(t) /\ lock # t /\ Off(t, "user", Nobody)
  /\ UNCHANGED <<clock, completed, under, wakes, lock, waited, answers>>

Finish(q) ==
  /\ q \in under /\ clock > q.start /\ under' = under \ {q}
  /\ completed' = Append(completed, [end |-> clock, dur |-> clock - q.start, req |-> q])
  /\ UNCHANGED <<clock, offs, wakes, doing, lock, waited, answers>>

(* Threads are made runnable, by another thread or by nobody in particular *)
Wake(t, by, done) ==
  /\ wakes' = Append(wakes, [ts |-> clock, tid |-> t, by |-> by])
  /\ doing' = [doing EXCEPT ![t] = Starts("runs", Nobody)]
  /\ waited' = waited \cup {[tid |-> t, from |-> doing[t].since, to |-> clock, why |-> doing[t].why,
                             what |-> doing[t].what, done |-> done]}

WakeFromDisk(t) ==
  /\ Lapse(t) /\ \E i \in DOMAIN completed : completed[i].req = doing[t].what /\ Wake(t, Nobody, completed[i].end)
  /\ UNCHANGED <<clock, completed, under, offs, lock, answers>>

Release(t) ==
  LET waiting == {u \in Threads : doing[u].why = "lock"}
  IN /\ Busily(t) /\ lock = t
     /\ IF waiting = {} THEN lock' = Nobody /\ UNCHANGED <<wakes, doing, waited>>
        ELSE \E u \in waiting : lock' = u /\ Wake(u, t, clock)
     /\ UNCHANGED <<clock, completed, under, offs, answers>>

Message(t, by) ==
  /\ doing[t].why = "user" /\ clock > doing[t].since /\ by # t /\ Busily(by)
  /\ Wake(t, by, clock)
  /\ UNCHANGED <<clock, completed, under, offs, lock, answers>>

-----------------------------------------------------------------------------
(* Who was stuck.                                                          *)
disk_wait(reason) == reason = "disk"
lock_wait(reason) == reason = "lock"
voluntary_wait(reason) == reason = "sleep"

(* The newest switch of t into a wait, at or before `at`. *)
Before(t, at) == {i \in DOMAIN offs : offs[i].tid = t /\ offs[i].ts <= at}
wait_before(t, at) == offs[Max(Before(t, at))]

Started(io) == io.end - io.dur
Apart(x, y) == IF x >= y THEN x - y ELSE y - x

(* Mutated: no other request is considered. *)
NoRival(slow, off, ts) == FALSE

(* Mutated: how close to the wake-up it completed is not looked at. *)
AnyRival(slow, off, ts) ==
  \E i \in DOMAIN completed :
    LET o == completed[i]
    IN o.req # slow.req /\ Started(o) <= off.ts /\ off.ts < o.end /\ o.end <= slow.end + ReadyAfter

(* Another request the thread may have waited for instead: under way when  *)
(* it went to sleep, and completed at least as close to its wake-up.       *)
rival(slow, off, ts) ==
  \E i \in DOMAIN completed :
    LET o == completed[i]
    IN /\ o.req # slow.req /\ Started(o) <= off.ts /\ off.ts < o.end
       /\ o.end <= slow.end + ReadyAfter
       /\ Apart(o.end, ts) <= Apart(slow.end, ts)

(* The wake-ups near the completion that ended a wait for it. *)
Stuck(slow, r) ==
  LET off == wait_before(r.tid, r.ts)
      issuer == r.tid = slow.req.tid
  IN /\ slow.end - ReadyBefore <= r.ts /\ r.ts <= slow.end + ReadyAfter
     /\ Before(r.tid, r.ts) # {}
     /\ Started(slow) <= off.ts /\ off.ts < slow.end
     /\ disk_wait(off.reason) \/ (issuer /\ ~voluntary_wait(off.reason))
     /\ rival(slow, off, r.ts) => issuer
     /\ r.ts - off.ts >= StuckMin

stuck_behind(slow) ==
  LET ends(t) == {i \in DOMAIN wakes : wakes[i].tid = t /\ Stuck(slow, wakes[i])}
      seen    == {t \in Threads : ends(t) # {}}
      first(t) == wakes[Min(ends(t))]
  IN {[tid |-> t, woke_at |-> first(t).ts, waited |-> first(t).ts - wait_before(t, first(t).ts).ts] : t \in seen}

(* Mutated: when the lock wait began is not looked at. *)
ChainAnyWait(slow, stuck, r) ==
  \E h \in stuck :
    /\ h.tid = r.by /\ h.woke_at <= r.ts /\ r.ts <= h.woke_at + LockAfter
    /\ \A s \in stuck : s.tid # r.tid
    /\ Before(r.tid, r.ts) # {}
    /\ LET off == wait_before(r.tid, r.ts)
       IN lock_wait(off.reason) /\ r.ts - off.ts >= StuckMin

(* The wake-up r, by a stuck thread that has just got going again, ended a *)
(* wait for a lock that was already on while that thread was stuck.        *)
Chain(slow, stuck, r) ==
  \E h \in stuck :
    /\ h.tid = r.by /\ h.woke_at <= r.ts /\ r.ts <= h.woke_at + LockAfter
    /\ \A s \in stuck : s.tid # r.tid
    /\ Before(r.tid, r.ts) # {}
    /\ LET off == wait_before(r.tid, r.ts)
       IN /\ Started(slow) <= off.ts /\ off.ts < h.woke_at
          /\ lock_wait(off.reason) /\ r.ts - off.ts >= StuckMin

lock_chains(slow, stuck) ==
  LET ends(t) == {i \in DOMAIN wakes : wakes[i].tid = t /\ Chain(slow, stuck, wakes[i])}
      first(t) == wakes[Min(ends(t))]
  IN {[waiter |-> t, holder |-> first(t).by, woke_at |-> first(t).ts,
       waited |-> first(t).ts - wait_before(t, first(t).ts).ts] : t \in {u \in Threads : ends(u) # {}}}

-----------------------------------------------------------------------------
(* Why it was slow: diskwhy::explain over the ring of completed requests,  *)
(* which the run's start is taken to vouch for.                            *)
Ring == {completed[i] : i \in {j \in DOMAIN completed : completed[j].end >= clock - RingKeep}}

cause(slow) ==
  LET mates   == {o \in Ring : o.req # slow.req /\ o.req.disk = slow.req.disk}
      others  == {o \in mates : Started(slow) < o.end /\ o.end <= slow.end}
      flying  == {o \in mates : Started(o) < Started(slow) /\ Started(slow) < o.end}
      quiet   == Max({0} \cup {o.end : o \in {p \in mates : p.end <= Started(slow)}})
      silent  == IF flying = {} /\ Started(slow) > quiet THEN Started(slow) - quiet ELSE 0
  IN CASE Cardinality(others) >= BusyOthers                -> [why |-> "busy", silent |-> 0]
       [] OTHER -> [why    |-> IF silent >= SleepGap /\ slow.dur >= WakeMin THEN "woke up"
                               ELSE IF slow.req.op = "flush" THEN "flush" ELSE "idle, slow",
                    silent |-> silent]

(* explain_cause: the answer in the event log, and, of a busy drive, who   *)
(* moved most.  Requests are taken to be of one size.                      *)
explain_cause(slow) ==
  LET c       == cause(slow)
      mates   == {o \in Ring : o.req # slow.req /\ o.req.disk = slow.req.disk
                                /\ Started(slow) < o.end /\ o.end <= slow.end}
      many(t) == Cardinality({o \in mates : o.req.tid = t})
      movers  == {o.req.tid : o \in mates}
  IN [why |-> c.why, silent |-> c.silent,
      mostly |-> IF c.why = "busy" THEN {t \in movers : \A u \in movers : many(t) >= many(u)} ELSE {}]

(* thrash: the processes a hard drive kept jumping between, by the order   *)
(* in which it completed their reads and writes.  Every thread is taken to *)
(* be a process of its own here, and to work far from all others.          *)
thrash(slow) ==
  LET look  == Max({slow.dur, ThrashLook})
      done  == SelectSeq(completed, LAMBDA o : /\ o.req.disk = slow.req.disk /\ o.req.op # "flush"
                                               /\ o.end > slow.end - look /\ o.end <= slow.end)
      whose(i) == done[i].req.tid
      big   == {t \in Threads : Cardinality({i \in DOMAIN done : whose(i) = t}) >= MinEach}
      far   == Cardinality({i \in 1 .. Len(done) - 1 : whose(i) # whose(i + 1)})
  IN IF /\ slow.req.disk \in Spinning /\ Cardinality(big) >= 2
        /\ far >= MinFar /\ 4 * far >= Len(done) - 1
     THEN big ELSE {}

(* by_program: the threads stuck, as programs somebody may be waiting for. *)
thread_program(t) == Program[t]
Named(t) == thread_program(t) \notin {Tool, System}

by_program(stuck) ==
  LET of(p) == {s \in stuck : thread_program(s.tid) = p}
  IN {[name |-> p, threads |-> Cardinality(of(p)), longest |-> Max({s.waited : s \in of(p)})] :
       p \in {thread_program(s.tid) : s \in {u \in stuck : Named(u.tid)}}}

(* explain_io, once the trace has reached far enough past the completion.  *)
explain_io(i) ==
  LET slow  == completed[i]
      stuck == stuck_behind(slow)
      ends  == slow.end + ReadyAfter + LockAfter
  IN /\ slow.dur >= IoWarn /\ clock > ends
     /\ \A a \in answers : a.slow # slow
     /\ \E covered \in BOOLEAN :
          answers' = answers \cup
            {[slow |-> slow, covered |-> covered, cause |-> explain_cause(slow), thrashers |-> thrash(slow),
              stuck   |-> IF covered THEN {s \in stuck : Named(s.tid)} ELSE {},
              victims |-> IF covered THEN by_program(stuck) ELSE {},
              chains  |-> IF covered THEN {c \in lock_chains(slow, stuck) : Named(c.waiter)} ELSE {}]}
     /\ UNCHANGED <<clock, completed, under, offs, wakes, doing, lock, waited>>

StuckNext ==
  \/ Pass
  \/ \E t \in Threads :
       \/ \E d \in Drives, op \in Ops, waits \in BOOLEAN : Issue(t, d, op, waits)
       \/ \E q \in under : Join(t, q)
       \/ Take(t) \/ Block(t) \/ AwaitMessage(t) \/ WakeFromDisk(t) \/ Release(t)
       \/ \E by \in Threads : Message(t, by)
  \/ \E q \in under : Finish(q)
  \/ \E i \in DOMAIN completed : explain_io(i)

StuckSpec == StuckInit /\ [][StuckNext]_stuckVars

-----------------------------------------------------------------------------
(* What a thread really waited for in the wait that ended at `to`. *)
Really(t, to) == CHOOSE w \in waited : w.tid = t /\ w.to = to

(* A thread is said to have been stuck behind a request only if it waited  *)
(* for that request, or had issued it itself.  Threads woken later than    *)
(* their completion may be taken for another's (rival compares closeness). *)
StuckIsReal ==
  \A a \in answers : \A s \in a.stuck :
    LET w == Really(s.tid, s.woke_at)
    IN \/ w.what = a.slow.req
       \/ s.tid = a.slow.req.tid
       \/ w.why = "disk" /\ w.to > w.done

(* Whoever waited long for a slow request, and for whom no other request   *)
(* completed as close to the wake-up, is named, whatever else the records  *)
(* hold, unless the records did not reach.                                 *)
EveryVictimIsNamed ==
  \A a \in answers : \A w \in waited :
    (a.covered /\ w.why = "disk" /\ w.what = a.slow.req /\ w.from < a.slow.end /\ w.to - w.from >= StuckMin /\ Named(w.tid)
       /\ \A i \in DOMAIN completed : completed[i].req # a.slow.req => Apart(completed[i].end, w.to) > Apart(a.slow.end, w.to))
      => /\ \E s \in a.stuck : s.tid = w.tid /\ s.waited = w.to - w.from
         /\ \E v \in a.victims : v.name = thread_program(w.tid) /\ v.longest >= w.to - w.from

(* "waited on a lock held by X, which was waiting on the drive" is said    *)
(* only when X held that lock before the request was over, and the thread  *)
(* did wait for it while X was away.                                       *)
ChainIsReal ==
  \A a \in answers : \A c \in a.chains :
    LET w == Really(c.waiter, c.woke_at)
        h == {u \in waited : u.tid = c.holder /\ u.why # "user" /\ u.to <= c.woke_at /\ u.to > w.from}
    IN w.why = "lock" /\ h # {} /\ c.waited = w.to - w.from

(* The drive is said to have been asleep, and for how long, only when it   *)
(* had been silent for as long (diskwhy.rs: "so silence is never assumed   *)
(* for a time nobody was watching").                                       *)
SilenceIsReal ==
  \A a \in answers : a.cause.why = "woke up" =>
    \A i \in DOMAIN completed :
      (completed[i].req.disk = a.slow.req.disk /\ completed[i].end <= Started(a.slow))
        => completed[i].end <= Started(a.slow) - a.cause.silent
=============================================================================
