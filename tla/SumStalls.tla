------------------------------ MODULE SumStalls ------------------------------
(***************************************************************************)
(* The sections of the report about what stalled the PC: whole-PC freezes  *)
(* (summary/freezes.rs), the tally of blamed culprits, the flagged moments,*)
(* programs kept waiting, long interrupt handling and what keeps time      *)
(* (summary/stalls.rs), and efficiency cores (summary/hardware.rs).        *)
(*                                                                         *)
(* `run' is what the finished run hands over, `cx' the list being built    *)
(* and what one section leaves for a later one.  A run lasts one hour, so  *)
(* a rate per hour is a count; lengths are in milliseconds.                *)
(***************************************************************************)
EXTENDS Findings, FiniteSetsExt

CONSTANTS FeltMs, CrackleRate, CrackleMs, ShareMs, LeadRate, SuspectMs,  \* stall_severity: 100, 360, 5, 0.5%, 2, 50
          BadReady, BadBlocked, WaitRows,          \* BAD_READY_MS, BAD_BLOCKED_MS, rows.take(4)
          ExecWarn, ExecBad, ExecBadRate,          \* exec_warn and exec_severity's 4 ms and 60 per hour
          MinOnBehalf,                             \* MIN_ON_BEHALF_STALLS
          MaxQuietPollers, MinEvents,              \* MAX_QUIET_POLLERS, period::MIN_EVENTS
          EcoreMin                                 \* ECORE_MIN_STALLS

NoFreeze == [verdict |-> "no freeze"]

When(cond, evs) == IF cond THEN evs ELSE <<>>

Picked(incidents, Test(_)) == {i \in DOMAIN incidents : Test(incidents[i])}

\* Ctx::scheduler_usable: recorded, and not one event lost.
scheduler_usable(run) == run.switches /\ ~run.lost

-----------------------------------------------------------------------------
(* Whole-PC freezes.                                                       *)

FREEZE_KEY == <<"whole-PC freeze", "">>

Freezes(run) == {i \in DOMAIN run.incidents :
                   LET x == run.incidents[i] IN ~x.marked /\ x.class = "freeze" /\ x.freeze # NoFreeze}

\* What the processors were doing, said only of the freezes that were sampled.
idle_words(facts) ==
  LET measured == {i \in DOMAIN facts : facts[i].idle # "unsampled"}
      idle == {i \in measured : facts[i].idle = "idle"}
  IN  When(measured # {}, <<Ev(CASE idle = measured -> "processors were idle"
                                 [] idle = {} -> "processors were busy"
                                 [] OTHER -> "processors differed", Cardinality(measured))>>)

Judged(run, facts, v) ==
  IF scheduler_usable(run) THEN Cardinality({i \in DOMAIN facts : facts[i].verdict = v}) ELSE 0

\* What became of the measuring threads, from the context-switch trace alone.
probe_words(run, facts) ==
  LET queued == Judged(run, facts, "queued")
      held == Cardinality({i \in DOMAIN facts : facts[i].verdict = "queued" /\ facts[i].holding})
  IN  When(Judged(run, facts, "not woken") > 0, <<Ev("probes not woken", Judged(run, facts, "not woken"))>>)
      \o When(queued > 0, <<Ev(CASE held >= queued -> "probes queued, a driver holding"
                                 [] held > 0 -> "probes queued, some with a driver holding"
                                 [] OTHER -> "probes queued, nothing holding", queued)>>)
      \o When(Judged(run, facts, "blocked") > 0, <<Ev("probes blocked", Judged(run, facts, "blocked"))>>)

\* Which interrupt sources stopped; "it varies" is only said when it did.
interrupt_words(facts) ==
  LET silent == UNION {facts[i].silent : i \in DOMAIN facts}
      going == UNION {facts[i].continued : i \in DOMAIN facts}
      In_(s) == Cardinality({i \in DOMAIN facts : s \in facts[i].silent})
      varies == \/ Cardinality(silent) > 1 \/ silent \cap going # {}
                \/ \E s \in silent : In_(s) < Cardinality(DOMAIN facts)
      timed == {i \in DOMAIN facts : facts[i].timer # "unknown"}
      stopped == {i \in timed : facts[i].timer = "silent"}
  IN  When(silent # {}, <<Ev(IF varies THEN "devices went quiet, it varies" ELSE "a device went quiet", Cardinality(silent))>>)
      \o When(timed # {}, <<IF stopped # {} THEN Ev("timers stopped", Cardinality(stopped))
                                            ELSE Ev("timers kept running", Cardinality(timed))>>)

\* What coincided, per disk and without any; a request the freeze itself slowed does not count.
coincided_words(facts, Disks) ==
  LET With(d) == {i \in DOMAIN facts : facts[i].disk = d /\ facts[i].role # "victim"}
      alone == DOMAIN facts \ UNION {With(d) : d \in Disks}
      Tell(evs, d) == evs \o When(With(d) # {}, <<Ev("coincided with a disk", Cardinality(With(d)))>>)
  IN  FoldSet(LAMBDA d, evs : Tell(evs, d), <<>>, Disks)
      \o When(alone # {}, <<Ev("coincided with nothing", Cardinality(alone))>>)

whole_pc(run, cx) ==
  LET at == Freezes(run)
      facts == [i \in at |-> run.incidents[i].freeze]
      kept == {i \in at : facts[i].kept}
      evidence == idle_words(facts) \o probe_words(run, facts)
                  \o When(kept # {}, <<Ev("interrupt work kept running", Cardinality(kept))>>)
                  \o When(\E i \in at : facts[i].holding, <<Ev("a driver did hold the processors", 1)>>)
                  \o interrupt_words(facts) \o coincided_words(facts, run.disks)
                  \o <<Ev("what is not explained", 1)>>
      total == MapThenSumSet(LAMBDA i : run.incidents[i].dur, at)
      added == Notes(add(cx.found, cx.group, FREEZE_KEY, High, "whole_pc", Ev("freezes", Cardinality(at)), "freeze plan", total),
                     FREEZE_KEY, evidence)
      narrowed == IF Judged(run, facts, "not woken") > Judged(run, facts, "queued") + Judged(run, facts, "blocked")
                  THEN advise(added, FREEZE_KEY, "clock first") ELSE added
  IN  IF at = {} THEN cx
      ELSE [cx EXCEPT !.found = measure(narrowed, FREEZE_KEY, "freezes per hour", Cardinality(at))]

-----------------------------------------------------------------------------
(* Stalls by who was blamed.                                               *)

\* A verdict that rests on the context-switch trace falls back to the vaguer one.
Blamed(run, c) ==
  IF c[1] = "not woken" /\ ~scheduler_usable(run) THEN <<"not woken", "either">> ELSE c

\* procs::strip_pid: several processes of one program are one subject.
strip_pid(culprit) == culprit.key

\* How much of the PC a stall held, as a share of a quarter of its processors, in percent.
breadth(class, held, ncpu) ==
  IF class = "starvation" \/ ncpu = 0 \/ held = 0 THEN 100
  ELSE Milder((400 * held) \div Worse(ncpu, 4), 100)

Tallied(run) == Picked(run.incidents, LAMBDA x : ~x.marked /\ x.class # "freeze")

TallyOf(run, key) ==
  LET mine == {i \in Tallied(run) : Blamed(run, strip_pid(run.incidents[i].culprit)) = key}
      Dur(i) == run.incidents[i].dur
      Felt(i) == (Dur(i) * breadth(run.incidents[i].class, Cardinality(run.incidents[i].cpus), run.ncpu)) \div 100
  IN  [n |-> Cardinality(mine), total |-> MapThenSumSet(Dur, mine), worst |-> Max({Dur(i) : i \in mine}),
       felt_total |-> MapThenSumSet(Felt, mine), felt_worst |-> Max({Felt(i) : i \in mine}),
       busy |-> Cardinality({i \in mine : run.incidents[i].busy})]

stall_severity(t) ==
  CASE t.felt_worst >= FeltMs \/ (t.n >= CrackleRate /\ t.worst >= CrackleMs) \/ t.felt_total >= ShareMs -> High
    [] t.n >= LeadRate \/ t.worst >= SuspectMs -> Medium
    [] OTHER -> Low

\* The severity each kind of culprit may reach.
CulpritSeverity(key, t) ==
  CASE key[1] = "unexplained" /\ t.n < 3 -> Milder(stall_severity(t), Medium)
    [] key[1] = "CPU starvation" -> Medium
    [] key[1] = "idle delay" -> Milder(stall_severity(t), Medium)
    [] OTHER -> stall_severity(t)

\* Mutant of Culprits: the tally has no branch for a verdict added later.
CulpritsOfOld == {"driver", "CPU went dark", "process", "disk", "unexplained", "CPU starvation"}

Culprits == {"driver", "CPU went dark", "process", "disk", "waiting on paging", "not woken",
             "unexplained", "CPU starvation", "idle delay"}

\* One finding per culprit; a disk's belongs with the other waits, whatever the section's group.
Blame(run, fs, group, key) ==
  LET t == TallyOf(run, key)
      g == IF key[1] = "disk" THEN OneProgram ELSE group
      added == IF key[1] \in Culprits
               THEN add(fs, g, key, CulpritSeverity(key, t), "tally", Ev("blamed for stalls", t.n), "culprit", t.total)
               ELSE fs
      measured == measure(measure(added, key, "stalls blamed", t.n), key, "worst stall", t.worst)
  IN  IF t.busy > 0 THEN note(measured, key, Ev("one core busy", t.busy)) ELSE measured

tally(run, cx) ==
  LET keys == {Blamed(run, strip_pid(run.incidents[i].culprit)) : i \in Tallied(run)}
  IN  [cx EXCEPT !.found = FoldSet(LAMBDA k, fs : Blame(run, fs, cx.group, k), @, keys), !.tally = keys]

\* Every flagged moment has to show up somewhere: what the trace cannot name is "unexplained".
MarkedKey(key) == IF key[1] \in {"driver", "process", "CPU went dark"} THEN key ELSE <<"unexplained", "">>

flagged_moments(run, cx) ==
  LET marked == Picked(run.incidents, LAMBDA x : x.marked)
      Culprit(i) == strip_pid(run.incidents[i].culprit)
      Flag(fs, c) ==
        LET mine == {i \in marked : Culprit(i) = c}
            n == Cardinality(mine)
            worst == Max({run.incidents[i].dur : i \in mine})
            sev == IF MarkedKey(c) = c /\ c[1] # "unexplained"
                   THEN CASE n = 1 -> Low [] n = 2 -> Medium [] OTHER -> High
                   ELSE IF n >= 3 THEN Medium ELSE Low
        IN  measure(add(fs, cx.group, MarkedKey(c), sev, "flagged_moments", Ev("flagged moments", n), "culprit", worst * n),
                    MarkedKey(c), "moments you flagged", n)
      flagged == FoldSet(LAMBDA c, fs : Flag(fs, c), cx.found, {Culprit(i) : i \in marked})
  IN  [cx EXCEPT !.found =
         IF run.marks_clean = 0 THEN flagged
         ELSE advise(add(flagged, cx.group, <<"clean marks", "">>, Low, "flagged_moments",
                         Ev("clean marks", run.marks_clean), "look inside the app", 0),
                     <<"clean marks", "">>, "video memory running out")]

\* Stalls that kept landing on a hybrid processor's slow cores.
e_cores(run, cx) ==
  LET named == Picked(run.incidents, LAMBDA x : x.cpus # {})
      on_e == {i \in named : run.incidents[i].cpus \subseteq run.ecores}
  IN  IF \/ run.ecores = {} \/ 2 * Cardinality(run.ecores) > run.ncpu
         \/ Cardinality(named) < EcoreMin \/ 10 * Cardinality(on_e) < 8 * Cardinality(named)
      THEN cx
      ELSE [cx EXCEPT !.found = add(@, cx.group, <<"e-core stalls", "">>, Low, "e_cores",
                                    Ev("stalls on slow cores", Cardinality(on_e)), "efficiency mode", 0)]

-----------------------------------------------------------------------------
(* Programs kept waiting, long interrupt handling, on whose behalf.        *)

\* The program in front first, then the longest wait.
WaitsMore(a, b) == \/ a.front /\ ~b.front
                   \/ a.front = b.front /\ Worse(a.ready, a.blocked) > Worse(b.ready, b.blocked)

\* A symptom with no culprit: never above Medium.
one_program_waits(run, cx) ==
  LET rows == {w \in run.waits : Cardinality({v \in run.waits : WaitsMore(v, w)}) < WaitRows}
      Tell(fs, w) ==
        LET key == <<"waiting", w.name>>
            sev == IF w.ready >= BadReady \/ w.blocked >= BadBlocked THEN Medium ELSE Low
            ev == IF w.ready >= w.blocked THEN "ready with no processor" ELSE "blocked"
            advice == CASE w.ready < w.blocked -> "see the other findings"
                        [] w.instead = "idle" -> "nothing competed"
                        [] w.instead = "nobody" -> "monitor longer"
                        [] OTHER -> "the program that held it"
            added == add(fs, cx.group, key, sev, "one_program_waits", Ev(ev, w.moments), advice, Worse(w.ready, w.blocked))
            waited == IF w.ready > 0 THEN measure(added, key, "longest wait for a processor", w.ready) ELSE added
        IN  IF w.blocked > 0 THEN measure(waited, key, "longest block", w.blocked) ELSE waited
  IN  IF run.waits = {} \/ ~scheduler_usable(run) THEN cx
      ELSE [cx EXCEPT !.found = FoldSet(LAMBDA w, fs : Tell(fs, w), @, rows)]

exec_severity(d) ==
  CASE d.worst >= ExecBad /\ d.over >= ExecBadRate -> High
    [] d.over >= LeadRate \/ 2 * d.worst >= ExecBad -> Medium
    [] OTHER -> Low

long_dpc_isr(run, cx) ==
  LET Tell(fs, d) ==
        LET key == <<"driver", d.module>>
            added == add(fs, cx.group, key, exec_severity(d), "long_dpc_isr", Ev("long interrupt runs", d.over),
                         "culprit", d.worst * Worse(d.over, 1))
        IN  measure(measure(added, key, "worst DPC/ISR", d.worst), key, "long runs", d.over)
  IN  [cx EXCEPT !.found = FoldSet(LAMBDA d, fs : Tell(fs, d), @, {d \in run.drivers : d.worst >= ExecWarn}),
                 !.drivers = {d.module : d \in run.drivers}]

\* The one program a driver was working for in most of ALL its stalls.
worked_for(run, mine) ==
  LET names == {run.incidents[i].on_cpu : i \in mine} \ {"nobody"}
      For(p) == Cardinality({i \in mine : run.incidents[i].on_cpu = p})
      most == {p \in names : \A q \in names : For(p) >= For(q)}
  IN  IF Cardinality(mine) < MinOnBehalf \/ names = {} THEN 0
      ELSE LET n == For(CHOOSE p \in most : TRUE) IN IF 10 * n >= 6 * Cardinality(mine) THEN n ELSE 0

on_whose_behalf(run, cx) ==
  LET kernel == Picked(run.incidents, LAMBDA x : ~x.marked /\ x.class = "kernel" /\ x.culprit.key[1] = "driver")
      Mine(k) == {i \in kernel : strip_pid(run.incidents[i].culprit) = k}
      Tell(fs, k) == IF worked_for(run, Mine(k)) = 0 THEN fs ELSE note(fs, k, Ev("worked for a program", worked_for(run, Mine(k))))
  IN  [cx EXCEPT !.found = FoldSet(LAMBDA k, fs : Tell(fs, k), @, {strip_pid(run.incidents[i].culprit) : i \in kernel})]

-----------------------------------------------------------------------------
(* What keeps time.                                                        *)

\* period::detect over distinct seconds: most gaps are the median one, or twice it.
detect(times) ==
  LET Next_(t) == Min({u \in times : u > t})
      starts == times \ {Max(times)}
      Gap(t) == Next_(t) - t
      n == Cardinality(starts)
      median == CHOOSE m \in {Gap(t) : t \in starts} :
                  /\ Cardinality({t \in starts : Gap(t) < m}) <= n \div 2
                  /\ Cardinality({t \in starts : Gap(t) <= m}) > n \div 2
      Near(g, target) == 100 * (IF g > target THEN g - target ELSE target - g) <= 12 * target
      regular == {t \in starts : Near(Gap(t), median) \/ Near(Gap(t), 2 * median)}
  IN  Cardinality(times) >= MinEvents /\ 10 * Cardinality(regular) >= 7 * n

Starts(run, Test(_)) == {run.incidents[i].start : i \in Picked(run.incidents, LAMBDA x : ~x.marked /\ Test(x))}

\* The times of a culprit are looked up by the name the stall was filed under, not by
\* the one the tally fell back to.
periodicity(run, cx) ==
  LET timed == {k \in cx.tally : HasKey(cx.found, k) /\ detect(Starts(run, LAMBDA x : strip_pid(x.culprit) = k))}
      long == {m \in run.long_exec : HasKey(cx.found, <<"driver", m>>)}
      noted == FoldSet(LAMBDA m, fs : note(fs, <<"driver", m>>, Ev("keep time", 1)),
                 FoldSet(LAMBDA k, fs : note(fs, k, Ev("keep time", 1)), cx.found, timed), long)
      Polling(f) == IF Says(f, "keep time") THEN [f EXCEPT !.advice = Append(@, "polling")] ELSE f
  IN  [cx EXCEPT !.found =
         CASE timed \cup long # {} -> [i \in DOMAIN noted |-> Polling(noted[i])]
           [] timed \cup long = {} /\ detect(Starts(run, LAMBDA x : TRUE)) ->
                add(@, cx.group, <<"periodic", "">>, Medium, "periodicity", Ev("repeats", 1), "polling", 0)
           [] OTHER -> @]

\* Third-party drivers that wake on a steady beat and have no finding yet.
quiet_polling(run, cx) ==
  LET quiet == {b \in run.beats : b.author = "other" /\ b.steady /\ ~HasKey(cx.found, <<"driver", b.module>>)}
      said == {b \in quiet : Cardinality({c \in quiet : c.slices > b.slices}) < MaxQuietPollers}
      Tell(fs, b) ==
        LET key == <<"timer", b.module>>
            added == add(fs, cx.group, key, Low, "quiet_polling", Ev("wakes on a timer", b.slices), "nothing to change", 0)
        IN  IF b.module \in cx.drivers THEN note(added, key, Ev("interrupt runs", 1)) ELSE added
  IN  [cx EXCEPT !.found = FoldSet(LAMBDA b, fs : Tell(fs, b), @, said)]
=============================================================================
