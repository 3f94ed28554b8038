----------------------------- MODULE SumStorage -----------------------------
(***************************************************************************)
(* The sections of the report about disks and memory (summary/storage.rs): *)
(* paging, slow disks and why, what Windows logged, what the storage port  *)
(* driver saw live, and what each drive says about itself.                 *)
(*                                                                         *)
(* A disk of the run is a record: its slow requests and how many of them   *)
(* a whole-PC freeze explains, its main cause, what was stuck behind it,   *)
(* its call stacks, its storage-port split, its live totals and resets,    *)
(* its health items.                                                       *)
(***************************************************************************)
EXTENDS SumStalls

CONSTANTS PagingBad, PagingLead, PagingWorst,  \* paging_severity: 2% and 0.5% of the run, 200 ms
          PagingFloor,                         \* a second in all, or PagingWorst at once, is worth a finding
          SlowBad, SlowRate,                   \* 1000 ms, 12 per hour
          Repeated,                            \* REPEATED
          MostlyMin                            \* MOSTLY_MIN

-----------------------------------------------------------------------------
(* Paging.                                                                 *)

paging_severity(p) ==
  CASE p.total >= PagingBad -> High
    [] p.total >= PagingLead \/ p.max >= PagingWorst -> Medium
    [] OTHER -> Low

\* procs::label carries the process ID; the key the files were filed under keeps it.
Label(name, pid) == IF name = "System" THEN <<name, 0>> ELSE <<name, pid>>

process_name(label) == <<label[1], 0>>

\* dominant_file: a file that is at least half of a program's paging waits.
dominant_file(files) ==
  LET total == MapThenSumSet(LAMBDA f : f.wait, files)
  IN  total > 0 /\ \E f \in files : 2 * f.wait >= total

\* Paging waits of one program, all its processes together.
PagedBy(run, name) ==
  LET mine == {p \in run.paging : p.name = name}
  IN  [count |-> MapThenSumSet(LAMBDA p : p.count, mine), total |-> MapThenSumSet(LAMBDA p : p.total, mine),
       max |-> Max({p.max : p \in mine})]

\* The files are keyed by label (Ctx::new) and looked up by program name (paging).
FilesUnder(run, key) == UNION {p.files : p \in {q \in run.paging : Label(q.name, q.pid) = key}}

paging(run, cx) ==
  LET names == {p.name : p \in run.paging}
      Worth(n) == PagedBy(run, n).total >= PagingFloor \/ PagedBy(run, n).max >= PagingWorst
      Tell(fs, n) ==
        LET p == PagedBy(run, n)
            key == <<"paging", n>>
            mostly == dominant_file(FilesUnder(run, process_name(Label(n, 0))))
            added == add(fs, cx.group, key, paging_severity(p), "paging",
                         Ev(IF mostly THEN "hard faults, mostly one file" ELSE "hard faults", p.count),
                         IF run.memory_tight THEN "close programs" ELSE "probably loading", p.total)
        IN  measure(measure(added, key, "frozen waiting for memory", p.total), key, "longest wait", p.max)
  IN  [cx EXCEPT !.found = FoldSet(LAMBDA n, fs : Tell(fs, n), @, {n \in names : Worth(n)})]

-----------------------------------------------------------------------------
(* Slow disks.                                                             *)

\* Requests the whole-PC freeze slowed are not the drive's own, if every slow one was seen.
discount_victims(d) ==
  IF d.seen_all THEN [slow |-> d.slow - d.victims, worst |-> d.own_worst]
  ELSE [slow |-> d.slow, worst |-> d.worst]

LoggedIds(run, n) == {e.id : e \in {f \in run.log : f.disk = n}}

EntriesOf(run, n) == MapThenSumSet(LAMBDA e : e.times, {e \in run.log : e.disk = n})

logged_for(run, n) ==
  CASE LoggedIds(run, n) = {} -> "nothing"
    [] LoggedIds(run, n) = {157} /\ EntriesOf(run, n) < Repeated -> "disconnects"
    [] OTHER -> "errors"

\* What to try: the measured cause first, then the files, then what Windows logged.
disk_advice(d, cause, logged) ==
  LET main == CASE cause = "busy" -> <<"deal with the traffic">> [] cause = "woke up" -> <<"stop it sleeping">>
                [] cause = "flush" -> <<"who flushes">> [] OTHER -> <<>>
      hints == (IF "paging" \in d.hints THEN <<"memory ran out">> ELSE <<>>)
               \o (IF "paging" \in d.hints /\ d.spinning THEN <<"move the paging file">> ELSE <<>>)
               \o (IF "game" \in d.hints /\ d.spinning THEN <<"move the game">> ELSE <<>>)
      last == CASE logged = "errors" -> "back up now" [] logged = "disconnects" -> "check the cable"
                [] logged = "nothing" /\ cause \in {"busy", "woke up"} -> "if it stays slow, check health"
                [] OTHER -> "check health"
  IN  main \o hints \o <<last>>

\* Whole-PC freezes that coincided with a slow request to this disk.
freeze_sentence(run, n) ==
  LET hits == {i \in Freezes(run) : run.incidents[i].freeze.disk = n /\ run.incidents[i].freeze.role # "victim"}
  IN  When(hits # {}, <<Ev("freezes coincided", Cardinality(hits))>>)

\* Who was stuck behind the requests: the thread-switch part only when that trace is whole.
behind_sentences(d, sched) ==
  When(d.kinds > 0, <<Ev("what the requests were", d.kinds)>>)
  \o When(sched, When(d.stuck > 0, <<Ev("stuck behind them", d.stuck)>>)
                 \o When(d.stuck = 0 /\ d.checked > 0, <<Ev("nobody was stuck", d.checked)>>)
                 \o When(d.chains > 0, <<Ev("waited on a lock", d.chains)>>)
                 \o When(d.uncovered > 0, <<Ev("could not be checked", d.uncovered)>>))
  \o When(d.thrash > 0, <<Ev("head kept jumping", d.thrash)>>)

behind_advice(d) ==
  (IF d.spinning /\ d.code > 0 THEN <<"move programs to an SSD">> ELSE <<>>)
  \o (CASE d.thrash > 0 /\ d.thrashers > 1 -> <<"one at a time">>
        [] d.thrash > 0 /\ d.thrashers = 1 -> <<"pause it">>      \* the other one is Windows' own work
        [] OTHER -> <<>>)

\* What the call stacks said.
stack_sentences(d) ==
  (IF d.stacks > 0 THEN <<Ev(IF d.filters = 0 THEN "no filter in the path" ELSE "filters in the path", d.stacks)>>
   ELSE When(d.stackless > 0, <<Ev("no call stack arrived", d.stackless)>>))
  \o When(d.wait_stacks > 0, <<Ev("where they were blocked", d.wait_stacks)>>)

stack_advice(d) ==
  IF d.filters >= MostlyMin /\ 2 * d.filters >= d.stacks THEN <<"filter exclusions">> ELSE <<>>

\* Inside the drive or in Windows, from the storage port driver.
split_sentence(run, d) ==
  When(run.storage_trace, CASE d.split = "measured" -> <<Ev("where the time went", 1)>>
                            [] d.split = "not on storport" -> <<Ev("not measured", 1)>>
                            [] OTHER -> <<>>)

Advise(fs, key, items) == FoldLeft(LAMBDA acc, a : advise(acc, key, a), fs, items)

SlowDisk(run, fs, group, d) ==
  LET own == discount_victims(d)
      key == <<"disk", d.n>>
      sev == IF own.worst >= SlowBad \/ own.slow >= SlowRate THEN High ELSE Medium
      advice == disk_advice(d, d.cause, logged_for(run, d.n))
      added == add(fs, group, key, sev, "slow_disks", Ev("slow requests", own.slow), advice[1], own.worst * own.slow)
      introduced == IF HasKey(fs, key) THEN added ELSE Advise(added, key, Tail(advice))
      measured == measure(measure(introduced, key, "slow requests", own.slow), key, "worst wait", own.worst)
      stacked == d.stacks + d.stackless + d.wait_stacks > 0
  IN  Notes(Advise(measured, key, behind_advice(d) \o (IF stacked THEN stack_advice(d) ELSE <<>>)), key,
            When(d.cause # "unknown", <<Ev("why", 1)>>) \o When(d.files > 0, <<Ev("files that waited", d.files)>>)
            \o freeze_sentence(run, d.n) \o behind_sentences(d, scheduler_usable(run)) \o stack_sentences(d)
            \o split_sentence(run, d))

slow_disks(run, cx) ==
  LET slow == {d \in run.drives : d.slow > 0 /\ discount_victims(d).slow > 0}
  IN  [cx EXCEPT !.found = FoldSet(LAMBDA d, fs : SlowDisk(run, fs, cx.group, d), @, slow)]

-----------------------------------------------------------------------------
(* What Windows logged, saw live, and what the drives report.              *)

CONTROLLER == <<"storage controller", "">>

LogKey(e) == IF e.disk = "none" THEN CONTROLLER ELSE <<"disk", e.disk>>

Drive(run, n) == CHOOSE d \in run.drives : d.n = n

\* Old entries alone are a lead; entries of one (disk, event) are told together, lowest event first.
LogEntry(run, fs, group, e) ==
  LET key == LogKey(e)
      sev == CASE e.during > 0 -> High [] e.during = 0 /\ e.times >= Repeated -> Medium [] OTHER -> Low
      advice == IF key = CONTROLLER THEN <<"controller reset">> ELSE disk_advice(Drive(run, e.disk), "unknown", logged_for(run, e.disk))
      ev == Ev(IF e.id = 129 /\ e.during > 0 THEN "reset logged while monitoring" ELSE "event log", e.times)
      told == IF HasKey(fs, key) THEN note(fs, key, ev)
              ELSE Advise(add(fs, group, key, sev, "event_log", ev, advice[1], 0), key, Tail(advice))
  IN  measure(measure(told, key, "errors while monitoring", e.during), key, "in the last 7 days", e.times)

event_log(run, cx) ==
  LET Highest(S) == CHOOSE x \in S : \A y \in S : y.id <= x.id
  IN  [cx EXCEPT !.found = MapThenFoldSet(LAMBDA e, fs : LogEntry(run, fs, cx.group, e), @, LAMBDA e : e, Highest, run.log)]

Live(d) == d.retried > 0 \/ d.failed > 0 \/ d.resets > 0

\* A reset joins the drive's own finding, or else the one its event 129 made.
LiveDisk(run, fs, group, d) ==
  LET key == <<"disk", d.n>>
      ev == Ev(IF d.resets > 0 THEN "reset seen live" ELSE "retries seen live", Worse(d.resets, d.retried))
      told == CASE HasKey(fs, key) /\ d.resets > 0 -> advise(raise(note(fs, key, ev), key, High), key, "controller reset")
                [] HasKey(fs, key) /\ d.resets = 0 -> note(fs, key, ev)
                [] ~HasKey(fs, key) /\ d.resets > 0 /\ HasKey(fs, CONTROLLER) -> raise(note(fs, CONTROLLER, ev), CONTROLLER, High)
                [] ~HasKey(fs, key) /\ d.resets > 0 /\ ~HasKey(fs, CONTROLLER) ->
                     add(fs, group, key, High, "seen_live", ev, "controller reset", 0)
                [] ~HasKey(fs, key) /\ d.resets = 0 /\ d.retried > 0 -> add(fs, group, key, Low, "seen_live", ev, "early warning", 0)
                [] OTHER -> fs
  IN  IF d.resets > 0 THEN measure(told, key, "resets seen live", d.resets) ELSE told

seen_live(run, cx) ==
  IF ~run.storage_trace THEN cx
  ELSE [cx EXCEPT !.found = FoldSet(LAMBDA d, fs : LiveDisk(run, fs, cx.group, d), @, {d \in run.drives : d.addressed /\ Live(d)})]

\* What a drive's own counters say; a counter only counts against this run when it was
\* also read at the start of it (h.start).
health_findings(h, spinning) ==
  LET It(sev, advice) == <<[sev |-> sev, advice |-> advice]>>
      New(now, then) == h.start /\ now > then
      nvme == When(h.critical # {}, It(High, IF h.critical = {"temperature"} THEN "cool it" ELSE "replace it"))
              \o When(h.media > 0, It(Medium, "replace it")) \o When(h.used >= 100, It(Medium, "replace it"))
              \o CASE New(h.hot, h.hot0) -> It(High, "cool it")
                   [] ~New(h.hot, h.hot0) /\ h.temp >= 70 -> It(Medium, "cool it")
                   [] ~New(h.hot, h.hot0) /\ h.temp < 70 /\ h.hot > 0 -> It(Low, "cool it")
                   [] OTHER -> <<>>
      sata == When(h.bad + h.pending > 0, It(IF h.pending > 0 \/ h.bad >= 50 THEN High ELSE Medium, "replace it"))
              \o When(h.crc > 0, It(IF New(h.crc, h.crc0) THEN High ELSE Low, "replace the cable"))
              \o When(h.temp >= (IF spinning THEN 55 ELSE 70), It(Medium, "cool it"))
  IN  CASE h.kind = "nvme" -> nvme [] h.kind = "sata" -> sata [] OTHER -> <<>>

DriveHealth(fs, group, key, item) ==
  IF HasKey(fs, key) THEN advise(raise(note(fs, key, Ev("drive health", 1)), key, item.sev), key, item.advice)
  ELSE add(fs, group, key, item.sev, "drive_health", Ev("drive health", 1), item.advice, 0)

drive_health(run, cx) ==
  LET One(fs, d) == FoldLeft(LAMBDA acc, item : DriveHealth(acc, cx.group, <<"disk", d.n>>, item), fs, health_findings(d.health, d.spinning))
  IN  [cx EXCEPT !.found = FoldSet(LAMBDA d, fs : One(fs, d), @, run.drives)]
=============================================================================
