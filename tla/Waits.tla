------------------------------- MODULE Waits --------------------------------
(***************************************************************************)
(* Which programs were kept waiting at a moment that mattered              *)
(* (Analyzer::collect_waits), what the event log says of them              *)
(* (wait_lines), and the totals over the run.  The records are those of    *)
(* Sched; a thread id is looked up in tid_pid when the moment is looked    *)
(* at, so an id given to a new thread brings the new program's name.       *)
(*                                                                         *)
(* Programs are numbers, in the order of their names.  Which thread ended  *)
(* a block is left out, and so are the limits on threads and rows.         *)
(***************************************************************************)
EXTENDS Sched

CONSTANTS
  Owners,       \* [SchedThreads -> program]: whose the first threads are
  Newcomers,    \* programs that start threads later
  OwnTool,      \* this tool, whose threads are left out
  NoProgram,    \* nothing known to be in front
  HeldUp,       \* the reasons that count as being held up (held_up_wait)
  FeltReady,    \* FELT_READY_MS
  FeltBlocked,  \* FELT_BLOCKED_MS
  MaxBlocked,   \* MAX_BLOCKED_MS
  MaxLines,     \* programs the event log names
  Reaches,      \* how far back a moment reaches
  Fronts,       \* what may be in front, NoProgram among them
  MaxMoments    \* bound: moments looked at

ASSUME WaitsAssumption ==
  /\ IsFiniteSet(SchedThreads) /\ HeldUp \subseteq Reasons /\ FeltReady \in Nat \ {0} /\ FeltBlocked \in Nat \ {0}
  /\ MaxLines \in Nat \ {0} /\ Reaches \subseteq Nat /\ NoProgram \notin Newcomers \cup {Owners[t] : t \in SchedThreads}

VARIABLES
  pids,           \* tid_pid and the names: whose thread the id was, last known
  program_waits,  \* [program -> what it waited over the run]
  moments         \* the moments looked at: what was said, and what really happened

waitsVars == <<schedVars, pids, program_waits, moments>>

Programs == Newcomers \cup {Owners[t] : t \in SchedThreads}
Never == [ready |-> 0, instead |-> {}, idle |-> FALSE, blocked |-> 0, moments |-> 0, in_front |-> 0]

WaitsInit ==
  /\ SchedInit
  /\ pids = Owners /\ program_waits = [p \in Programs |-> Never] /\ moments = <<>>

(* A new thread announces whose it is as it starts.  Nothing is said after *)
(* the last moment of the bound, so nothing more is recorded.              *)
Kernel ==
  /\ Len(moments) < MaxMoments /\ SchedNext
  /\ \E p \in Newcomers :
       pids' = [t \in SchedThreads |-> IF state[t].is = "gone" /\ state'[t].is = "ready" THEN p ELSE pids[t]]
  /\ UNCHANGED <<program_waits, moments>>

-----------------------------------------------------------------------------
(* Mutated: a wait must be longer than the floor. *)
FeltIfLonger(w) ==
  [ready   |-> IF w.ready > FeltReady THEN w.ready ELSE 0,
   blocked |-> IF w.blocked > FeltBlocked /\ w.blocked <= MaxBlocked /\ w.reason \in HeldUp
               THEN w.blocked ELSE 0]

(* The floors and the ceiling: what of a thread's worst waits was felt. *)
felt(w) ==
  [ready   |-> IF w.ready >= FeltReady THEN w.ready ELSE 0,
   blocked |-> IF w.blocked >= FeltBlocked /\ w.blocked <= MaxBlocked /\ w.reason \in HeldUp
               THEN w.blocked ELSE 0]

(* The longest of each, over the threads ts: merge_wait. *)
merge_waits(rows, ts) ==
  LET ready   == Max({felt(rows[t]).ready : t \in ts})
      waiting == {t \in ts : ready > 0 /\ felt(rows[t]).ready = ready}
      took(t) == held_by(rows[t].ready_cpu, rows[t].ready_from, rows[t].ready_to, t)
      had(t)  == holders(rows[t].ready_cpu, rows[t].ready_from, rows[t].ready_to, t)
  IN [ready    |-> ready,
      instead  |-> UNION {{pids[u] : u \in had(t)} : t \in {x \in waiting : took(x) = "thread"}},
      idle     |-> \E t \in waiting : took(t) = "idle",
      blocked  |-> Max({felt(rows[t]).blocked : t \in ts})]

(* collect_waits: the programs of one window, the tool itself left out. *)
collect_waits(from, to) ==
  LET rows == waits(from, to)
      kept == {t \in SchedThreads : pids[t] # OwnTool /\ (felt(rows[t]).ready > 0 \/ felt(rows[t]).blocked > 0)}
  IN [p \in {pids[t] : t \in kept} |-> merge_waits(rows, {t \in kept : pids[t] = p})]

(* ...and the totals of the run with them. *)
add_waits(here, front) ==
  [p \in Programs |->
     IF p \notin DOMAIN here THEN program_waits[p]
     ELSE LET had == program_waits[p]
              now == here[p]
          IN [ready    |-> IF now.ready > had.ready THEN now.ready ELSE had.ready,
              instead  |-> IF now.ready > had.ready THEN now.instead ELSE had.instead,
              idle     |-> IF now.ready > had.ready THEN now.idle ELSE had.idle,
              blocked  |-> IF now.blocked > had.blocked THEN now.blocked ELSE had.blocked,
              moments  |-> had.moments + 1,
              in_front |-> IF p = front THEN had.in_front + 1 ELSE had.in_front]]

(* wait_lines: at most MaxLines programs, the one in front before all, the *)
(* others by how long they waited; and that the one in front did not.      *)
wait_lines(here, front) ==
  LET long(p)     == Max({here[p].ready, here[p].blocked})
      Ahead(p, q) == q # front /\ (p = front \/ long(p) > long(q) \/ (long(p) = long(q) /\ p < q))
      place(p)    == Cardinality({q \in DOMAIN here : Ahead(q, p)}) + 1
      lines       == Min({MaxLines, Cardinality(DOMAIN here)})
  IN [told   |-> [i \in 1 .. lines |-> CHOOSE p \in DOMAIN here : place(p) = i],
      denied |-> front # NoProgram /\ front \notin DOMAIN here]

-----------------------------------------------------------------------------
(* What really happened between from and to, whosever the thread ids were  *)
(* first: how long the threads of p were runnable, and held up.            *)
SpentReady(p, from, to) ==
  {x.to - x.from : x \in {y \in stretches : y.is = "ready" /\ Owners[y.tid] = p /\ y.from >= from /\ y.to <= to}}

SpentHeldUp(p, from, to) ==
  {x.to - x.from : x \in {y \in stretches : /\ y.is = "waiting" /\ Owners[y.tid] = p
                                            /\ y.from >= from /\ y.to <= to /\ y.reason \in HeldUp}}

(* An id that has changed hands speaks for neither program. *)
Reused == {t \in SchedThreads : pids[t] # Owners[t]}
Doubtful == UNION {{pids[t], Owners[t]} : t \in Reused}

(* A flagged moment, or a stall, reaching back to `from`, that the rings   *)
(* cover (gather_switches; SwitchRings says when they do).  Of one they do *)
(* not cover nothing is said or counted: nothing changes.                  *)
Felt(from, front) ==
  /\ Len(moments) < MaxMoments /\ from < tick
  /\ LET here == collect_waits(from, tick)
     IN /\ program_waits' = add_waits(here, front)
        /\ moments' = Append(moments,
             [front |-> front, lines |-> wait_lines(here, front), named |-> DOMAIN here, doubt |-> Doubtful,
              ready |-> [p \in Programs |-> SpentReady(p, from, tick)],
              held_up |-> [p \in Programs |-> SpentHeldUp(p, from, tick)]])
  /\ UNCHANGED <<schedVars, pids>>

WaitsNext ==
  \/ Kernel
  \/ \E reach \in Reaches, front \in Fronts : Felt(Max({0, tick - reach}), front)

WaitsSpec == WaitsInit /\ [][WaitsNext]_waitsVars

-----------------------------------------------------------------------------
Felts(waited, floor) == {n \in waited : n >= floor}
Certain(m) == Programs \ (m.doubt \cup {OwnTool})

(* What is said of the programs kept waiting is what happened (wait_lines, *)
(* collect_waits): every program named was really runnable, or held up,    *)
(* for long enough to be felt inside that moment; every program that was   *)
(* runnable that long is among them, and so never told that it was not     *)
(* kept waiting; the one in front comes first; and over the run each is    *)
(* counted once for every moment, at its longest.  Programs whose thread   *)
(* id changed hands are left out: "rare enough to accept" (switches.rs).   *)
KeptWaitingIsTold ==
  /\ \A i \in DOMAIN moments :
       LET m == moments[i]
       IN /\ \A p \in Certain(m) :
               /\ p \in m.named => Felts(m.ready[p], FeltReady) \cup Felts(m.held_up[p], FeltBlocked) # {}
               /\ Felts(m.ready[p], FeltReady) # {} => p \in m.named /\ ~(m.front = p /\ m.lines.denied)
          /\ m.front \in m.named => Head(m.lines.told) = m.front
  /\ \A p \in {q \in Programs \ {OwnTool} : \A i \in DOMAIN moments : q \in Certain(moments[i])} :
       LET felts == UNION {Felts(moments[i].ready[p], FeltReady) : i \in DOMAIN moments}
       IN /\ program_waits[p].ready = Max(felts \cup {0})
          /\ program_waits[p].moments = Cardinality({i \in DOMAIN moments : p \in moments[i].named})
          /\ program_waits[p].in_front <= program_waits[p].moments

(* "Reporting either as waiting would flag every program on the PC, so     *)
(* those reasons are dropped before anything is ranked" (voluntary_wait):  *)
(* a program held up for long enough is among those kept waiting, however  *)
(* long it also slept of its own accord.                                   *)
HeldUpIsTold ==
  \A i \in DOMAIN moments : \A p \in Certain(moments[i]) :
    \A n \in moments[i].held_up[p] : (n >= FeltBlocked /\ n <= MaxBlocked) => p \in moments[i].named

=============================================================================
