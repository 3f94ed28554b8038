----------------------------- MODULE Foreground -----------------------------
(***************************************************************************)
(* Which program the person was using at a moment: the sampler of          *)
(* foreground.rs, the names of procs.rs, and `front_program` in analyze.rs *)
(* which asks them, some time after the moment.                            *)
(*                                                                         *)
(* The sampler reads the clock, then the window, then stores the sample:   *)
(* time may pass between any two.  Process ids are given out again.        *)
(***************************************************************************)
EXTENDS Integers, FiniteSets, FiniteSetsExt, Functions, SequencesExt

CONSTANTS
  FrontPids,    \* process ids
  Apps,         \* programs, the ones nobody "uses" among them
  NotUsed,      \* NOT_IN_USE, and what the names of Windows' own parts begin with
  SampleEvery,  \* SAMPLE_MS
  SampleLate,   \* how late the sampler's thread may be, on waking and in storing
  Stale,        \* STALE_MS
  MaxSamples,   \* MAX_SAMPLES
  NameRefresh,  \* refresh_if_older_than: one second
  Lags,         \* how long after a moment it is looked at
  Backs,        \* how far a moment reaches back
  MaxTime,      \* bound: the clock
  MaxChanges    \* bound: processes and windows coming and going

Nothing == "nothing"           \* no foreground window
Ours == "own"                  \* this tool's own window

(* A moment is looked at while the samples around it are still kept.       *)
ASSUME ForegroundAssumption ==
  /\ SampleEvery \in Nat \ {0} /\ SampleLate \in Nat
  /\ Stale \in Nat /\ SampleEvery + 2 * SampleLate <= Stale
  /\ MaxSamples \in Nat \ {0, 1} /\ NotUsed \subseteq Apps
  /\ \A n \in Lags :
       n \in Nat /\ SampleLate <= n /\ n <= (MaxSamples - MaxSamples \div 2) * SampleEvery
  /\ \A n \in Backs : n \in Nat
  /\ Nothing \notin FrontPids /\ Ours \notin FrontPids

VARIABLES
  time,
  lives,      \* [FrontPids -> the program with that id now, or "gone"]
  focus,      \* who really had the window: [at, who], the newest last
  had,        \* [FrontPids -> the programs that really had that id]
  due,        \* when the sampler wakes next
  reading,    \* the time of the sample it is taking, or NoSample
  fronts,     \* the Log: the samples
  names,      \* ProcNames: the program last seen with an id, or "unknown"
  refreshed,  \* last_refresh
  asked       \* what front_program said, with what was so

frontVars == <<time, lives, focus, had, due, reading, fronts, names, refreshed, asked>>

NoSample == -1
WhoIs == Last(focus).who
Changes == Len(focus) + FoldFunction(LAMBDA ps, n : n + Cardinality(ps), 0, had)

ForegroundInit ==
  /\ time = 0 /\ due = 0 /\ reading = NoSample /\ fronts = <<>> /\ asked = {}
  /\ \E p \in FrontPids, a \in Apps :
       /\ lives = [q \in FrontPids |-> IF q = p THEN a ELSE "gone"]
       /\ names = [q \in FrontPids |-> IF q = p THEN a ELSE "unknown"]
       /\ had = [q \in FrontPids |-> IF q = p THEN {a} ELSE {}]
       /\ focus = <<[at |-> 0, who |-> p]>>
  /\ refreshed = 0

-----------------------------------------------------------------------------
(* The desktop (external).                                                 *)

(* Time passes; the sampler's thread is not later than SampleLate. *)
TimePasses ==
  /\ time < MaxTime
  /\ IF reading = NoSample THEN time < due + SampleLate ELSE time < reading + SampleLate
  /\ time' = time + 1
  /\ UNCHANGED <<lives, focus, had, due, reading, fronts, names, refreshed, asked>>

BringToFront(who) ==
  /\ Changes < MaxChanges /\ who # WhoIs
  /\ who \in FrontPids => lives[who] # "gone"
  /\ focus' = Append(focus, [at |-> time, who |-> who])
  /\ UNCHANGED <<time, lives, had, due, reading, fronts, names, refreshed, asked>>

(* A process ends, and its window with it; another starts with its id.     *)
Replace(p, a) ==
  /\ Changes < MaxChanges /\ a # lives[p]
  /\ lives' = [lives EXCEPT ![p] = a]
  /\ had' = IF a = "gone" THEN had ELSE [had EXCEPT ![p] = @ \cup {a}]
  /\ focus' = IF WhoIs = p THEN Append(focus, [at |-> time, who |-> Nothing]) ELSE focus
  /\ UNCHANGED <<time, due, reading, fronts, names, refreshed, asked>>

-----------------------------------------------------------------------------
(* spawn: one turn of the sampler's loop, in two steps. *)
ReadClock ==
  /\ reading = NoSample /\ time >= due
  /\ reading' = time
  /\ UNCHANGED <<time, lives, focus, had, due, fronts, names, refreshed, asked>>

(* Past the limit the oldest half goes. *)
DropOldest(log) ==
  IF Len(log) >= MaxSamples THEN SubSeq(log, MaxSamples \div 2 + 1, Len(log)) ELSE log

(* sample_now and classify: a process, this tool, or nothing. *)
TakeSample ==
  /\ reading # NoSample
  /\ fronts' = Append(DropOldest(fronts), [ts |-> reading, front |-> WhoIs])
  /\ reading' = NoSample /\ due' = time + SampleEvery
  /\ UNCHANGED <<time, lives, focus, had, names, refreshed, asked>>

-----------------------------------------------------------------------------
floor_of(from, at) == Min({from, at}) - Stale

(* Mutated: however old, the last one known is taken. *)
AnySample(from, at) == {i \in DOMAIN fronts : fronts[i].ts <= at /\ fronts[i].front # Ours}

(* The fronts that can answer: the tool's own window is passed over. *)
Telling(from, at) ==
  {i \in DOMAIN fronts : fronts[i].ts <= at /\ fronts[i].ts >= floor_of(from, at) /\ fronts[i].front # Ours}

in_front(from, at) ==
  IF Telling(from, at) = {} THEN Nothing ELSE fronts[Max(Telling(from, at))].front

(* ProcNames::refresh, when an id is not known and the last is old enough. *)
Refreshes(p) == names[p] = "unknown" /\ time - refreshed >= NameRefresh
label(p) == IF Refreshes(p) /\ lives[p] # "gone" THEN lives[p] ELSE names[p]

usable(name) == name # "unknown" /\ name \notin NotUsed

front_program(from, at) ==
  LET p == in_front(from, at)
  IN IF p \in FrontPids /\ usable(label(p)) THEN label(p) ELSE Nothing

(* Who had the window between two instants. *)
Had(from, to) ==
  {focus[i].who : i \in {j \in DOMAIN focus : /\ focus[j].at <= to
                                              /\ j = Len(focus) \/ focus[j + 1].at >= from}}

(* A moment `at`, reaching back to `from`, is looked at. *)
Ask(from, at) ==
  LET p == in_front(from, at)
  IN /\ from >= 0 /\ time - at \in Lags
     /\ asked' = {[pid |-> p, says |-> front_program(from, at), alone |-> Had(floor_of(from, at), time),
                     before |-> Had(floor_of(from, at), at + SampleLate), early |-> floor_of(from, at) < 0]}
     /\ IF p \in FrontPids /\ Refreshes(p)
        THEN /\ names' = [q \in FrontPids |-> IF lives[q] # "gone" THEN lives[q] ELSE names[q]]
             /\ refreshed' = time
        ELSE UNCHANGED <<names, refreshed>>
     /\ UNCHANGED <<time, lives, focus, had, due, reading, fronts>>

ForegroundNext ==
  \/ TimePasses \/ ReadClock \/ TakeSample
  \/ \E who \in FrontPids \cup {Nothing, Ours} : BringToFront(who)
  \/ \E p \in FrontPids, a \in Apps \cup {"gone"} : Replace(p, a)
  \/ \E at \in 0 .. MaxTime, back \in Backs : Ask(at - back, at)

ForegroundSpec == ForegroundInit /\ [][ForegroundNext]_frontVars

-----------------------------------------------------------------------------
(* "Unknown is never turned into a name" (foreground.rs): the process      *)
(* named really had the window at the moment, or before it for no longer   *)
(* than a sample stays fresh, give or take how late the sampler was; it is *)
(* given its own program's name; and a program that alone had the window   *)
(* all that while, and that is not one nobody uses, is named.              *)
FrontIsReal ==
  \A a \in asked :
    /\ a.says # Nothing => a.pid \in a.before /\ a.says \in had[a.pid]
    /\ \A p \in FrontPids : \A app \in Apps \ NotUsed :
         a.alone = {p} /\ ~a.early /\ had[p] = {app} /\ names[p] # "unknown" => a.says = app

=============================================================================
