----------------------------- MODULE MCSummary ------------------------------
(* Finished runs for Summary: a quiet PC, and families of runs that differ *)
(* from it in what one or two sections read.                               *)
EXTENDS Summary

NoHealth == [kind |-> "none"]

Nvme == [kind |-> "nvme", critical |-> {}, media |-> 0, used |-> 5, hot |-> 0, hot0 |-> 0, temp |-> 40, start |-> TRUE]

Sata == [kind |-> "sata", bad |-> 0, pending |-> 0, crc |-> 0, crc0 |-> 0, temp |-> 40, start |-> TRUE]

FineDrive == [n |-> "0", slow |-> 0, victims |-> 0, seen_all |-> TRUE, worst |-> 0, own_worst |-> 0,
              cause |-> "unknown", hints |-> {}, spinning |-> FALSE, kinds |-> 0, stuck |-> 0, checked |-> 0,
              chains |-> 0, uncovered |-> 0, thrash |-> 0, thrashers |-> 0, code |-> 0, stacks |-> 0,
              stackless |-> 0, filters |-> 0, wait_stacks |-> 0, files |-> 0, split |-> "unmeasured",
              addressed |-> TRUE, retried |-> 0, failed |-> 0, resets |-> 0, health |-> NoHealth]

FineGpu == [card |-> "gpu", full_seconds |-> 0, marks_while_full |-> 0, spilled |-> FALSE, busy |-> <<>>,
            peak_busy |-> 40, trims |-> 0, trims_at_marks |-> 0, failed |-> 0, stopped |-> 0, covered |-> 0,
            sampled |-> TRUE, peak_memory |-> 50]

Quiet == [events |-> 1, incidents |-> <<>>, switches |-> TRUE, lost |-> FALSE, ncpu |-> 4, disks |-> {"0"},
          marks_clean |-> 0, ecores |-> {}, waits |-> {}, drivers |-> {}, long_exec |-> {}, beats |-> {},
          paging |-> {}, memory_tight |-> FALSE, drives |-> {FineDrive}, log |-> {}, storage_trace |-> TRUE,
          resets |-> {}, gpu |-> FineGpu, whea |-> {}, shutdowns |-> {}, throttled |-> 0, throttled_near |-> {},
          throttled_most |-> FALSE, firmware_caps |-> [times |-> 0, during |-> 0], concerns |-> <<>>,
          devices |-> {}, hw_tools |-> 0, sandboxed |-> FALSE, net_hosts |-> {"ndis"}, net_filters |-> 0,
          other_filters |-> 0, legacy |-> {}]

(* Incidents. *)
Stall(class, key, start, dur) ==
  [class |-> class, culprit |-> [key |-> key, pid |-> 0], marked |-> FALSE, start |-> start, dur |-> dur,
   cpus |-> {0}, on_cpu |-> "nobody", busy |-> FALSE, freeze |-> NoFreeze]

Facts == [verdict |-> "none", holding |-> FALSE, kept |-> FALSE, idle |-> "idle", silent |-> {},
          continued |-> {}, timer |-> "unknown", disk |-> "none", role |-> "cause"]

FreezeWith(start, facts) == [Stall("freeze", <<"whole-PC freeze", "">>, start, 900) EXCEPT !.cpus = {0, 1, 2, 3}, !.freeze = facts]

Kinds(start) ==
  {Stall("kernel", <<"driver", "ndis">>, start, 20),
   [Stall("kernel", <<"driver", "ndis">>, start, 20) EXCEPT !.on_cpu = "game", !.busy = TRUE],
   Stall("kernel", <<"CPU went dark", "">>, start, 60),
   Stall("kernel", <<"not woken", "no timer">>, start, 20), Stall("starvation", <<"not woken", "no processor">>, start, 20),
   Stall("kernel", <<"unexplained", "">>, start, 400), Stall("starvation", <<"CPU starvation", "">>, start, 30),
   Stall("starvation", <<"disk", "0">>, start, 30), Stall("starvation", <<"waiting on paging", "">>, start, 30),
   Stall("starvation", <<"idle delay", "">>, start, 30), Stall("starvation", <<"process", "game">>, start, 30),
   [Stall("kernel", <<"driver", "ndis">>, start, 20) EXCEPT !.marked = TRUE],
   [Stall("kernel", <<"not woken", "either">>, start, 20) EXCEPT !.marked = TRUE],
   [Stall("kernel", <<"unexplained", "">>, start, 20) EXCEPT !.marked = TRUE],
   FreezeWith(start, [Facts EXCEPT !.verdict = "not woken", !.kept = TRUE, !.silent = {"usb"}, !.timer = "silent"]),
   FreezeWith(start, [Facts EXCEPT !.verdict = "queued", !.holding = TRUE, !.idle = "busy", !.continued = {"usb"}, !.timer = "running"]),
   FreezeWith(start, [Facts EXCEPT !.verdict = "blocked", !.idle = "unsampled", !.disk = "0"])}

Twos == {<<>>} \cup {<<a>> : a \in Kinds(10)} \cup {<<a, b>> : a \in Kinds(10), b \in Kinds(20)}

Threes == {<<a, b, c>> : a \in {k \in Kinds(10) : k.class # "kernel"}, b \in {k \in Kinds(20) : k.class = "kernel"}, c \in Kinds(30)}

Few == {<<>>, <<Stall("kernel", <<"driver", "ndis">>, 10, 20)>>, <<Stall("starvation", <<"disk", "0">>, 10, 30)>>,
        <<FreezeWith(10, [Facts EXCEPT !.disk = "0"])>>, <<Stall("kernel", <<"CPU went dark", "">>, 10, 60)>>}

(* What the other sections read. *)
StallRuns ==
  {[Quiet EXCEPT !.incidents = s, !.lost = l, !.ecores = e] : s \in Twos, l \in BOOLEAN, e \in {{}, {0}}}
  \cup {[Quiet EXCEPT !.incidents = s] : s \in Threes}
  \cup {[Quiet EXCEPT !.incidents = s, !.switches = w, !.drivers = d, !.waits = v, !.beats = b, !.long_exec = x] :
          s \in Few, w \in BOOLEAN,
          d \in {{}, {[module |-> "ndis", worst |-> 4, over |-> 70]}, {[module |-> "rgb", worst |-> 1, over |-> 1]}},
          v \in {{}, {[name |-> "game", ready |-> 60, blocked |-> 10, front |-> TRUE, moments |-> 2, instead |-> "idle"],
                      [name |-> "chat", ready |-> 0, blocked |-> 600, front |-> FALSE, moments |-> 1, instead |-> "nobody"]}},
          b \in {{}, {[module |-> "ndis", author |-> "other", steady |-> TRUE, slices |-> 9],
                      [module |-> "rgb", author |-> "other", steady |-> TRUE, slices |-> 8]}},
          x \in {{}, {"ndis"}}}

SlowDrive == [FineDrive EXCEPT !.slow = 2, !.worst = 900, !.own_worst = 300, !.kinds = 2, !.files = 1, !.split = "measured"]

Drives ==
  {FineDrive, SlowDrive,
   [SlowDrive EXCEPT !.victims = 2], [SlowDrive EXCEPT !.victims = 2, !.seen_all = FALSE],
   [SlowDrive EXCEPT !.victims = 1, !.cause = "busy", !.stuck = 2, !.checked = 2, !.chains = 1, !.stacks = 2, !.filters = 2, !.wait_stacks = 1],
   [SlowDrive EXCEPT !.cause = "woke up", !.spinning = TRUE, !.hints = {"paging", "game"}, !.checked = 1, !.uncovered = 1,
                     !.code = 1, !.thrash = 1, !.thrashers = 2, !.stackless = 1],
   [SlowDrive EXCEPT !.cause = "flush", !.worst = 1500, !.own_worst = 1500, !.thrash = 1, !.thrashers = 1]}

DiskLogs == {{}, {[disk |-> "0", id |-> 157, times |-> 1, during |-> 0]},
             {[disk |-> "0", id |-> 51, times |-> 5, during |-> 0], [disk |-> "0", id |-> 153, times |-> 1, during |-> 1]},
             {[disk |-> "none", id |-> 129, times |-> 1, during |-> 1]}, {[disk |-> "none", id |-> 129, times |-> 1, during |-> 0]}}

Healths == {NoHealth, Nvme, [Nvme EXCEPT !.critical = {"spare"}, !.media = 1], [Nvme EXCEPT !.hot = 2], [Nvme EXCEPT !.temp = 80, !.used = 100],
            [Nvme EXCEPT !.hot = 2, !.start = FALSE], Sata, [Sata EXCEPT !.bad = 1, !.crc = 2, !.crc0 = 2], [Sata EXCEPT !.pending = 1, !.crc = 2]}

DiskRuns ==
  {[Quiet EXCEPT !.incidents = s, !.drives = {[d EXCEPT !.resets = r, !.retried = t]}, !.log = g, !.lost = l, !.storage_trace = c] :
     s \in Few, d \in Drives, r \in 0..1, t \in 0..1, g \in DiskLogs, l \in BOOLEAN, c \in BOOLEAN}
  \cup {[Quiet EXCEPT !.drives = {[d EXCEPT !.health = h]}, !.log = g] : d \in {FineDrive, SlowDrive}, h \in Healths, g \in DiskLogs}

PagingRuns ==
  {[Quiet EXCEPT !.memory_tight = m, !.paging = P] : m \in BOOLEAN,
     P \in {{[name |-> n, pid |-> 7, count |-> 9, total |-> t, max |-> x, files |-> f]} :
              n \in {"game", "System"}, t \in {10, 1000, 20000, 90000}, x \in {10, 300},
              f \in {{}, {[file |-> "dll", wait |-> 10]}, {[file |-> "dll", wait |-> 4], [file |-> "db", wait |-> 3], [file |-> "ini", wait |-> 3]}}}}

Marks == {<<>>, <<[Stall("kernel", <<"unexplained", "">>, 10, 20) EXCEPT !.marked = TRUE]>>}

GpuRuns ==
  {[Quiet EXCEPT !.incidents = s, !.marks_clean = m, !.resets = r, !.drivers = d,
                 !.gpu = [FineGpu EXCEPT !.full_seconds = f, !.trims = t, !.stopped = p, !.covered = 2, !.busy = b, !.peak_busy = 95,
                                         !.peak_memory = y, !.sampled = (b # <<>>)]] :
     s \in Marks, m \in 0..1, r \in {{}, {[driver |-> "nv", times |-> 2, during |-> 0]}, {[driver |-> "nv", times |-> 2, during |-> 1]}},
     d \in {{}, {[module |-> "nv", worst |-> 4, over |-> 70]}},
     f \in {0, 5}, t \in 0..1, p \in {0, 1, 2}, b \in {<<>>, <<99, 98>>, <<10, 50>>, <<70, 80>>}, y \in {50, 95}}

Whea == [part |-> "fatal", kind |-> "fatal", times |-> 1, during |-> 0, near |-> {}]

HardwareRuns ==
  {[Quiet EXCEPT !.incidents = s, !.whea = w, !.shutdowns = c, !.throttled = t, !.throttled_most = h,
                 !.throttled_near = {10}, !.firmware_caps = f] :
     s \in Few, w \in {{}, {Whea}, {[Whea EXCEPT !.part = "pcie 1", !.kind = "pcie", !.times = 2]},
                       {[Whea EXCEPT !.part = "processor", !.kind = "processor", !.during = 1, !.near = {10}], Whea}},
     c \in {{}, {[id |-> 1, bugcheck |-> TRUE, button |-> FALSE]}, {[id |-> 1, bugcheck |-> FALSE, button |-> TRUE]},
            {[id |-> 1, bugcheck |-> FALSE, button |-> FALSE], [id |-> 2, bugcheck |-> TRUE, button |-> TRUE]}},
     t \in {0, 3}, h \in BOOLEAN, f \in {[times |-> 0, during |-> 0], [times |-> 1, during |-> 0], [times |-> 1, during |-> 1]}}

PlatformRuns ==
  {[Quiet EXCEPT !.incidents = s, !.concerns = o, !.devices = v, !.hw_tools = w, !.sandboxed = TRUE, !.net_filters = n,
                 !.other_filters = n - 1, !.legacy = g, !.drivers = d, !.beats = b] :
     s \in Few, o \in {<<>>, <<Ev("processor time", 1), Ev("events lost", 1)>>},
     v \in {{}, {[driver |-> "ndis", device |-> "card", years |-> 9]}, {[driver |-> "ndis", device |-> "card", years |-> 1]}},
     w \in 0..1, n \in {1, 2}, g \in {{}, {"card"}}, d \in {{}, {[module |-> "ndis", worst |-> 2, over |-> 3]}},
     b \in {{}, {[module |-> "rgb", author |-> "other", steady |-> TRUE, slices |-> 8]}}}

\* Many problems at once: more findings than fit the first screen.
CrowdedRuns ==
  {[Quiet EXCEPT !.incidents = s, !.drives = {d}, !.gpu = g, !.whea = w, !.throttled = t, !.concerns = o, !.paging = p, !.hw_tools = 1,
                 !.drivers = {[module |-> "nv", worst |-> 4, over |-> n]}, !.marks_clean = 1, !.events = e] :
     s \in {<<Stall("kernel", <<"driver", "ndis">>, 10, 20), FreezeWith(20, Facts)>>, <<Stall("kernel", <<"driver", "ndis">>, 10, 500)>>, <<>>},
     d \in {FineDrive, SlowDrive}, g \in {FineGpu, [FineGpu EXCEPT !.full_seconds = 5, !.spilled = TRUE, !.stopped = 1, !.covered = 2]},
     w \in {{}, {[Whea EXCEPT !.during = 1]}}, t \in {0, 3}, o \in {<<>>, <<Ev("processor time", 1)>>},
     p \in {{}, {[name |-> "game", pid |-> 7, count |-> 9, total |-> 90000, max |-> 300, files |-> {}]}}, n \in {1, 70}, e \in 0..1}

MCRuns == StallRuns \cup DiskRuns \cup PagingRuns \cup GpuRuns \cup HardwareRuns \cup PlatformRuns \cup CrowdedRuns

=============================================================================
