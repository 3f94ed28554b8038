----------------------------- MODULE SumSystem ------------------------------
(***************************************************************************)
(* The sections about the graphics card (summary/gpu.rs), the hardware and *)
(* its firmware (summary/hardware.rs), the cost of measuring               *)
(* (summary/details.rs), the devices behind the blamed drivers             *)
(* (summary/wording.rs) and what the PC is made of (summary/platform.rs).  *)
(***************************************************************************)
EXTENDS SumStorage

CONSTANTS VramClear,                   \* 80% of the card's memory
          GpuBound, GpuWaiting,        \* GPU_BOUND, GPU_WAITING
          GpuWorked,                   \* GPU_WORKED
          ThrottledMin,                \* three seconds, or a twentieth of the run
          OldYears                     \* OLD_DRIVER_YEARS

-----------------------------------------------------------------------------
(* Graphics.                                                               *)

\* Subjects are compared without regard to case: the log says "NVLDDMKM", the stalls "nvlddmkm.sys".
DriverKey(fs, file) == <<"driver", file>>

driver_resets(run, cx) ==
  LET Tell(fs, r) ==
        LET key == DriverKey(fs, r.driver)
            ev == Ev("driver was reset", r.times)
            sev == IF r.during > 0 THEN High ELSE Medium
            told == IF HasKey(fs, key) THEN advise(raise(note(fs, key, ev), key, sev), key, "graphics driver hung")
                    ELSE add(fs, cx.group, key, sev, "driver_resets", ev, "graphics driver hung", 0)
        IN  measure(measure(told, key, "resets while monitoring", r.during), key, "in the last 7 days", r.times)
  IN  [cx EXCEPT !.found = FoldSet(LAMBDA r, fs : Tell(fs, r), @, run.resets)]

\* The counter: video memory full in enough of the seconds.
vram_counter(g) ==
  IF g.full_seconds < ThrottledMin THEN <<>>
  ELSE <<[key |-> <<"gpu vram", g.card>>, sev |-> IF g.marks_while_full > 0 \/ g.spilled THEN High ELSE Medium,
          ev |-> Ev("video memory full", g.full_seconds)]>>

\* What the card was doing at the flagged moments.
at_the_marks(g) ==
  LET bound == {i \in DOMAIN g.busy : g.busy[i] >= GpuBound}
      waiting == {i \in DOMAIN g.busy : g.busy[i] < GpuWaiting}
      n == Len(g.busy)
  IN  CASE 2 * Cardinality(bound) > n -> <<[key |-> <<"gpu bound", "">>, sev |-> Medium, ev |-> Ev("flat out", Cardinality(bound))]>>
        [] 2 * Cardinality(bound) <= n /\ 2 * Cardinality(waiting) > n /\ g.peak_busy >= GpuWorked ->
             <<[key |-> <<"gpu waiting", "">>, sev |-> Low, ev |-> Ev("not the bottleneck", Cardinality(waiting))]>>
        [] OTHER -> <<>>

\* Windows asking for video memory to be freed: the card's own answer.
trims(g) ==
  IF g.trims = 0 THEN <<>>
  ELSE <<[key |-> <<"gpu vram", g.card>>, sev |-> IF g.trims_at_marks > 0 \/ g.failed > 0 THEN High ELSE Medium,
          ev |-> Ev("video memory ran out", g.trims)]>>

\* The picture stopping at a flagged moment the trace covers.
frames_stopped(g) ==
  IF g.stopped = 0 THEN <<>>
  ELSE <<[key |-> <<"gpu frames", "">>, sev |-> IF 2 * g.stopped > g.covered THEN Medium ELSE Low,
          ev |-> Ev("the picture stopped", g.stopped)]>>

gpu_findings(g) == vram_counter(g) \o at_the_marks(g) \o trims(g) \o frames_stopped(g)

\* Video memory can be ruled out only when neither the counter nor the card said otherwise.
vram_clear(g) ==
  /\ g.sampled /\ g.peak_memory < VramClear
  /\ \A i \in DOMAIN gpu_findings(g) : gpu_findings(g)[i].key[1] # "gpu vram"
  /\ g.trims = 0

graphics(run, cx) ==
  LET CLEAN == <<"clean marks", "">>
      added == FoldLeft(LAMBDA fs, f : measure(add(fs, cx.group, f.key, f.sev, "graphics", f.ev, f.key[1], 0), f.key, f.ev.what, f.ev.n),
                        cx.found, gpu_findings(run.gpu))
      Retire(f) == [f EXCEPT !.evidence = Append(@, Ev("video memory was not the problem", 1)),
                             !.advice = SelectSeq(@, LAMBDA a : a # "video memory running out")]
  IN  [cx EXCEPT !.found = IF vram_clear(run.gpu) THEN Edit(added, CLEAN, Retire) ELSE added]

-----------------------------------------------------------------------------
(* Hardware and firmware.                                                  *)

\* One finding per failing component; an error while monitoring is High whatever the component.
WheaFloor(e) == IF e.kind = "pcie" /\ e.times < 3 THEN Low ELSE Medium

\* Stalls within two seconds of an error.
coinciding(run, Test(_)) ==
  {i \in DOMAIN run.incidents : Test(run.incidents[i]) /\ \E e \in run.whea : run.incidents[i].start \in e.near}

whea(run, cx) ==
  LET Tell(fs, e) ==
        LET key == <<"whea", e.part>>
            ev == Ev("hardware errors", e.times)
            added == add(fs, cx.group, key, IF e.during > 0 THEN High ELSE WheaFloor(e), "whea", ev, "hardware", 0)
        IN  measure(measure(added, key, "errors while monitoring", e.during), key, "in the last 7 days", e.times)
      added == FoldSet(LAMBDA e, fs : Tell(fs, e), cx.found, run.whea)
      dark == coinciding(run, LAMBDA x : x.culprit.key[1] = "CPU went dark")
      Explain(f) == IF f.key[1] = "CPU went dark" THEN [f EXCEPT !.evidence = Append(@, Ev("firmware was handling an error", Cardinality(dark)))] ELSE f
  IN  [cx EXCEPT !.found = IF dark = {} THEN added ELSE [i \in DOMAIN added |-> Explain(added[i])]]

\* Someone holding the power button is not a crash by itself.
Crashes(run) == {s \in run.shutdowns : s.bugcheck \/ ~s.button}

FATAL == <<"whea", "fatal">>

unexpected_shutdowns(run, cx) ==
  LET n == Cardinality(Crashes(run))
      sev == IF n >= 2 THEN Medium ELSE Low
      ALONE == <<"unexpected shutdowns", "">>
  IN  CASE n = 0 -> cx
        [] n > 0 /\ HasKey(cx.found, FATAL) -> [cx EXCEPT !.found = note(@, FATAL, Ev("went down", n))]
        [] OTHER -> [cx EXCEPT !.found = measure(add(@, cx.group, ALONE, sev, "unexpected_shutdowns", Ev("went down", n), "power or heat", 0),
                                                 ALONE, "crashes in the last 7 days", n)]

THROTTLING == <<"throttling", "">>

cpu_throttling(run, cx) ==
  LET hits == {i \in DOMAIN run.incidents : run.incidents[i].start \in run.throttled_near}
      sev == IF run.throttled_most \/ (Cardinality(hits) >= 2 /\ 2 * Cardinality(hits) >= Len(run.incidents)) THEN High ELSE Medium
  IN  IF run.throttled < ThrottledMin THEN cx
      ELSE [cx EXCEPT !.found = measure(add(@, cx.group, THROTTLING, sev, "cpu_throttling", Ev("seconds throttled", run.throttled), "cool it", run.throttled),
                                        THROTTLING, "seconds throttled", run.throttled)]

\* Older entries only back up a throttling that was measured; one during the run stands by itself.
firmware_throttle(run, cx) ==
  LET caps == run.firmware_caps
      ev == Ev("firmware capped the speed", caps.times)
  IN  [cx EXCEPT !.found =
         CASE caps.times = 0 -> @
           [] caps.times > 0 /\ HasKey(@, THROTTLING) ->
                IF caps.during > 0 THEN raise(note(@, THROTTLING, ev), THROTTLING, High) ELSE note(@, THROTTLING, ev)
           [] caps.during > 0 /\ ~HasKey(@, THROTTLING) ->
                measure(measure(add(@, cx.group, THROTTLING, Medium, "firmware_throttle", ev, "cool it", 0),
                                THROTTLING, "firmware caps while monitoring", caps.during),
                        THROTTLING, "in the last 7 days", caps.times)
           [] OTHER -> @]

-----------------------------------------------------------------------------
(* The measurement itself, the devices behind the drivers, the platform.   *)

tool_cost(run, cx) ==
  LET KEY == <<"tool overhead", "">>
  IN  IF run.concerns = <<>> THEN cx
      ELSE [cx EXCEPT !.found = Notes(add(@, cx.group, KEY, Low, "tool_cost", Head(run.concerns), "close heavy programs", 0),
                                      KEY, Tail(run.concerns))]

\* The driver's device and age; "update it" goes in front of whatever was advised.
Dated(run, f) ==
  LET mine == {v \in run.devices : f.key = <<"driver", v.driver>>}
      v == CHOOSE w \in mine : TRUE
      about == [f EXCEPT !.evidence = Append(@, Ev("driver version and date", v.years)), !.title = "devices_behind_drivers"]
  IN  CASE mine = {} -> f
        [] mine # {} /\ v.years >= OldYears -> [about EXCEPT !.advice = <<"this driver is old">> \o @]
        [] OTHER -> about

devices_behind_drivers(run, cx) == [cx EXCEPT !.found = [i \in DOMAIN @ |-> Dated(run, @[i])]]

HW_TOOLS_KEY == <<"hardware-access tools", "">>

\* The findings a program that talks to the hardware directly could be context for.
CouldExplain(f) == \/ f.key = FREEZE_KEY \/ f.key[1] \in {"CPU went dark", "periodic", "timer"}
                   \/ Says(f, "keep time")

hardware_access(run, cx) ==
  LET added == add(cx.found, cx.group, HW_TOOLS_KEY, Low, "hardware_access", Ev("drivers that reach the hardware", run.hw_tools), "nothing by itself", 0)
      keys == {f.key : f \in {g \in Range(cx.found) : CouldExplain(g)}}
      said == Notes(added, HW_TOOLS_KEY, IF keys = {} THEN <<Ev("nothing points at them", 1)>> ELSE <<Ev("how it stops a PC", 1)>>)
      Context(fs, k) == advise(note(fs, k, Ev("context: hardware tools", run.hw_tools)), k, "exit the tools")
  IN  [cx EXCEPT !.found =
         CASE run.hw_tools > 0 -> FoldSet(LAMBDA k, fs : Context(fs, k), measure(said, HW_TOOLS_KEY, "hardware-access drivers", run.hw_tools), keys)
           [] run.hw_tools = 0 /\ run.sandboxed ->
                add(@, cx.group, HW_TOOLS_KEY, Low, "hardware_access", Ev("only the sandboxed driver", 1), "nothing to do", 0)
           [] OTHER -> @]

\* No finding of its own: context on whatever of Windows' network path is blamed.
network_filters(run, cx) ==
  LET Host(f) == f.key[1] = "driver" /\ f.key[2] \in run.net_hosts
      Context(f) == IF run.other_filters = 0 THEN [f EXCEPT !.evidence = Append(@, Ev("only Microsoft's filters", run.net_filters))]
                    ELSE [f EXCEPT !.evidence = Append(@, Ev("other vendors' filters", run.other_filters)),
                                   !.advice = IF "turn the filter off" \in Range(@) THEN @ ELSE Append(@, "turn the filter off")]
  IN  [cx EXCEPT !.found = IF run.net_filters = 0 THEN @ ELSE [i \in DOMAIN @ |-> IF Host(@[i]) THEN Context(@[i]) ELSE @[i]]]

legacy_interrupts(run, cx) ==
  LET KEY == <<"legacy interrupts", "">>
      n == Cardinality(run.legacy)
      added == Notes(add(cx.found, cx.group, KEY, Low, "legacy_interrupts", Ev("shared interrupts", n), "a current driver", 0),
                     KEY, <<Ev("no delay was measured", 1)>>)
      Mine(f) == f.key[1] = "driver" /\ \E v \in run.devices : v.driver = f.key[2] /\ v.device \in run.legacy
      Told(f) == IF Mine(f) THEN [f EXCEPT !.evidence = Append(@, Ev("its device shares an interrupt", 1))] ELSE f
  IN  IF run.legacy = {} THEN cx
      ELSE [cx EXCEPT !.found = [i \in DOMAIN added |-> Told(measure(added, KEY, "devices on a shared interrupt", n)[i])]]
=============================================================================
