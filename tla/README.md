# A TLA+ development for WTFIsStalling

WTFIsStalling finds out why a Windows machine stalls. It measures how late
high-priority threads wake up, records kernel, storage and graphics events with
ETW, and names the likely cause of each stall. This directory holds a formal
model of the parts in which order, time and limits decide whether that answer is
right: TLA+ modules, TLC configurations and machine-checked proofs. Source paths
below are relative to the repository's `src/` crate directory.

- [1. The system](#1-the-system)
- [2. The modules and the code](#2-the-modules-and-the-code)
- [3. What the runs show](#3-what-the-runs-show)
- [4. What is proved](#4-what-is-proved)
- [5. Where the code and its words part](#5-where-the-code-and-its-words-part)
- [6. What is not modelled](#6-what-is-not-modelled)
- [7. Plan](#7-plan)

## 1. The system

### Threads and processes

One run of the tool is a process (console or window) with

- the *loop thread*, `engine::run_inner`, which starts everything, ticks the
  analyzer every 100 ms, and ends the run;
- one *consumer thread* per trace session (kernel, storage port, graphics), on
  which ETW calls back with events, slightly out of order and seconds late;
- one *kernel probe thread per processor* and one *scheduler probe thread*, which
  sleep and report how late they woke; in the usual set-up they live in a
  *child process* at real-time priority that writes its reports to a pipe, and a
  *reader thread* moves them into a channel;
- *samplers* for clock speed, graphics memory, the foreground window, cost;
- the *front end*: the window's message loop or the console's Ctrl-C handler,
  which share only the flags `STOP` and `RUNNING` and the list `MARKS` with the
  rest.

The trace state (`state::Shared`, `StorShared`, the graphics trace's) is behind one
mutex per session. The analyzer is owned by the loop thread and locks the trace state
in short sections.

### Components

| component | state | operations | hard because | correct when |
|---|---|---|---|---|
| event rings (`state.rs`, `etw/events.rs`) | one queue per kind of record, newest time, last prune, newest record dropped by a cap | handle_event, prune, switches_cover, switch_window, stuck_records | events out of order; two ways to lose a record; readers between any two events | a window that is vouched for is complete, every loss is on record, the memory is bounded |
| file names and waiting (same files) | name of each file object, waiting per file and process, caps | name events, create, request, fault, rundown | object addresses are recycled, names are evicted and arrive late | waiting is not handed to another file; who waited has a name at the end |
| call stacks (`stacks.rs`) | events that may still get a stack, per processor; stacks of outstanding requests; four rings | event, stack, disk start and end, wait, prune | a stack comes after its event and other events in between; IRPs and thread ids are reused | a stack is filed with its own request or wait, or not at all, and its loss is admitted |
| storage port trace (`storport/`) | ring of pieces, retries by IRP, totals | on_event, prune, split | a second session with its own buffers; IRP pointers are reused | a request is split from all of its own pieces and no others, or not at all |
| graphics trace (`gputrace/`) | rings of refreshes, presents and residency operations | events, prune, window | as the rings; starts and stops are matched by thread | a reported stop is one of the display, an operation is timed from its own start |
| latency probes (`probe.rs`) | last wake-up per thread, the child's pipe | report, reader | two views of one stall over two paths | every report arrives once |
| analyzer: incidents and marks (`analyze.rs`) | pending stalls, incidents, minor blips, flagged moments | tick, cluster, pair twins, file, analyze_mark, final tick | waits for the trace with give-up times; re-clusters what is not ready | each stall is filed once, a freeze seen twice is one incident, an "in the clear" contradicts no evidence, nothing is left at the end |
| analyzer: verdicts (`analyze.rs`, `intr.rs`, `diskwait.rs`) | none | look, verdict_kernel, verdict_sched, verdict_freeze, pegged_cores, continuity | many kinds of partial evidence, tested in an order | a driver that is blamed held a processor long enough, and an innocent one is not named |
| analyzer: notable events (`analyze.rs`, `quiet.rs`, `diskwait.rs`) | held events, the quieter's state per subject, lines this second, slow requests per drive | report_notables, offer, due, flush, mark_victims | two traces to wait for, three reasons not to print | order, nothing folded is forgotten, drives are charged with what is theirs |
| scheduler analysis (`switches.rs`) | none | classify_probe, held_by, waits, collect_waits | long pure functions over windows with open ends | what is said of a thread is what the scheduler did with it |
| disk analysis (`diskstuck.rs`, `diskwhy.rs`) | none | stuck_on, chains, explain_io | threads, drives and locks in one picture put together from records | who is called stuck was waiting for that request |
| foreground and process names (`foreground.rs`, `procs.rs`) | a sample per second, a name cache | sample, at, name | a process id is given out again; time passes between clock, window and store | the program named was in front about then |
| run-to-run comparison (`baseline/`) | the saved records | load, choose, save, compare | other PCs' files, files cut short, different lengths, process ids in keys | "new", "gone", "better", "worse" are so |
| summary (`summary/`) | the list of findings | two dozen sections in an order that matters; rank, verdict, first screen | a section that runs later can only add | every incident is counted once, no real finding is folded away |
| engine (`engine.rs`) | guard mutex, sessions, timer, child, threads | run, run_inner, stop | errors, panics and kills at any point | one run at a time; nothing stays behind |
| kernel and manifest sessions (`etw/mod.rs`, `etw/manifest.rs`) | Windows' sessions by name | start with fallbacks, take over, enable, stop, drop | names are machine wide and outlive a killed process | a leftover is taken over, a running session is not |
| samplers (`cpuclock.rs`, `gpu.rs`, `overhead.rs`) | a sample per second | append | - | not modelled |
| system inventory (`disks.rs`, `pci.rs`, ...) | tables read once | queries to Windows | input and output | not modelled |
| front ends (`bin/`) | RUNNING, controls | start, stop, mark, close | message loop against worker thread | the start and the end are modelled |

`PROJECT.json` lists the same components with their sources and status, and the
hazards of the code with the line at which each one bites.

## 2. The modules and the code

Each component module keeps the code's names for state and operations. Time is a
small natural number: one unit stands for "one of the code's thresholds apart", and every
threshold is a CONSTANT whose comment names the constant or literal in the code.
History variables and fields (what was ever received, issued or really waited) record
what the properties compare the code's state with; the modelled code never reads them.

Two kinds of module occur. *Machines* keep state and have one action per handler. The
*judges* (`Sched`, `Waits`, `Foreground`, `Verdict`, `DiskStuck`, `Summary`) model code
that is a pure function of records: there a small world (a scheduler, processors,
drives, a user) is the state, it writes the records the code reads, and the code's
functions are operators. What the world really did is the reference the properties compare
the answer with.

| module | models | notes |
|---|---|---|
| `Rings` | the suffix operations on a queue | a ring is `log` and `head`: everything ever pushed and how much of it was popped |
| `SwitchRings` | `state.rs` rings, prune and reads; `handle_event`'s ring part | one action per kind of event; reads are operators evaluated in every state, as each is a single locked section |
| `FileTally` | names, tallies, caps, rundown | maps are functions with changing domains; ties and hash order at a cap are nondeterministic |
| `Stacks` | `stacks.rs` | a stack is abstracted to the time stamp of the event it was walked for |
| `StorPort` | the storage session's ring, retries, split, the stop | events are buffered and delivered late; the wall clock runs on |
| `GpuTrace` | the graphics session's rings and what is read from them for a flagged moment | as `Rings` |
| `Selections` | picking the elements of a sequence at some positions, in their order | so that `filter`, `partition` and `retain` need no recursion |
| `Analyzer` | probes, pipe, channel, `tick`, marks, the end of the run | a tick is three steps (start, marks, stalls) with reports arriving in between |
| `IncidentLog` | the promise of the tick, abstractly | refined by `Analyzer` in `MCStop` |
| `Notables` | `report_notables`, the quieter, the line limit, slow requests and victims | freezes are reduced to the span the probes report |
| `Sched` | `switches.rs` | the world is a scheduler with its ready queue |
| `Waits` | collect_waits, wait_lines, the run's totals, the thread map | extends `Sched` |
| `Foreground` | sampler, name cache, front_program | process ids are reused |
| `Verdict` | look and the three verdicts, intr.rs, continuity, pegged cores, diskwait::explain | the world is what each processor does in each slot of the stall |
| `DiskStuck` | diskstuck.rs, diskwhy.rs, explain_io | the world is threads, drives and one lock |
| `Findings`, `SumStalls`, `SumStorage`, `SumSystem`, `Summary` | the list of findings; the sections; their order, ranking, verdict, first screen | one step is one section, over a family of finished runs |
| `Baseline` | save, choose, scale, compare | PCs share a folder; what is wrong with a PC is a rate per problem |
| `Lifecycle` | `engine::run`, both session kinds, front ends | one process is a program counter; the sessions and the mutex are Windows' |
| `MC*` | instances for TLC | `MCKernelTrace`, `MCManifestTraces`, `MCVerdicts` and `MCReport` explore components that share a consumer or a reader but no state: the *subject* is chosen at the start, the others stand still |
| `*Proofs` | theorems | see section 4 |
| `Sums` | `Iterator::sum` over a finite set | a recursive function, so that it can be proved about |
| `Lemmas` | facts about queues, selections, recursive functions, sums and finite sets of numbers | used by the proofs of several modules |

Some correspondences that are not obvious from the names:

- *Rings.* `VecDeque::push_back` and `pop_front` become `Append` to `log` and an
  increment of `head`; so "a record has left the ring" is a fact of the state and
  not of a behaviour. Searching a ring that is only nearly sorted is modelled by
  every answer a binary search may give: an index at which the predicate changes.
- *Out-of-order delivery.* ETW merges per-processor buffers; an event is stamped
  no more than `Disorder` behind the newest one. The code's own one-millisecond
  widening (`Slop`) is the constant it must be compared with.
- *Pipe and channel.* A report is under way for at most `MaxDelay`; the clock may
  not advance past that. This is the assumption that TWIN_WAIT_MS itself makes.
- *Ticks.* The loop is at most `TickGap` late. A stall of the whole machine stops
  this loop too, hence `TickGap` is larger than one unit.
- *Lifecycle.* `drop` of a session, of the timer and of the child is one step each of
  `unwind`; a killed process loses its mutex handle, its threads and its
  child, and leaves its sessions. The child's exit when its input ends is immediate
  in the model. `CreateMutex` failing altogether is left out.

Named assumptions on the environment, each an ASSUME or a guard of an environment action:

- `Verdict`: a processor that is neither held nor dark runs an ordinary DPC in every slot,
  which is what the code's "were DPCs still running" test supposes.
- `AnalyzerAssumption`: a report is in the pipe for a shorter time than the last analysis waits
  (`MaxDelay < StopWait`) and than the twin is waited for, less the slack (`Slack + MaxDelay <=
  TwinWait`, which is what TWIN_WAIT_MS is chosen for); minor reports are kept for longer than
  the oldest mark that may still ask for them can wait (30 s in the code against 3 s before the mark, 5 s of waiting and about
  2 s for the end of the run).
- `SchedAssumption` and `WaitsAssumption`: the probe is pinned to a processor, the clock never goes
  back, the threads are finitely many and the floors below which nothing is felt are above zero.
- `ForegroundAssumption`: two sampling intervals with their delays are shorter than
  the age at which a sample is not used any more, and what is asked about lies no further back
  than the samples that stay when the log is cut in half (one second and 200,000 samples in the
  code), but late enough for its sample to have been stored.
- `StuckAssumption`: a wait that is worth naming is longer than the stretch around a completion
  in which its wake-up is looked for (10 ms against 0.1 ms before and 1 ms after), and a
  wake-up is no later than that stretch allows.
- `StorPortAssumption`: events of the storage session are less out of order than the search
  widens.
- `VerdictAssumption`: an ordinary DPC takes less than `CoverRule` of a slot and is over before the
  slot's sample, and the shares are in the order they have in the code. Nothing is assumed of
  how many DPCs `MinDpcs` asks for: a stall may be too short to hold so many (the code asks for ten in
  six slices of ten), and the slots need not line up with the slices.
- `GpuTraceAssumption`: an operation that is too long to be believed is forgotten no sooner than it is that
  long, however late its stop is delivered (2 s against 10 s in the code). An event may be delivered after one that is newer
  by up to `GpuDisorder`, or not at all; those of one thread come in order, as a
  thread logs one after the other.
- `FileTallyAssumption`: the keys with a tally fit the map of names together with half a map of others (8,192
  and 20,000 against 40,000 in the code).
- `BaselineAssumption`: what the event log alone knows of (`Logged`) is about a subject of its own.
  Runs on one PC have times of their own, as seconds do in the code.
- `DiskStuck`: for thrashing each thread is a process, works far from the others, and requests
  have one size.

## 3. What the runs show

Deadlock is not checked in any run: the clocks and counters are bounded and
every behaviour ends when a bound is reached or the run of the tool is over.
Type invariants are either proved (section 4) or the runs would not evaluate; no run
spends a property on them.

| run | shows |
|---|---|
| `kernel_trace` | *Rings*, with events out of order by up to the search's widening: `switches_cover` vouches for no window from which a record was lost (`CoverIsHonest`); `switch_window` and `stuck_records` return all of such a window (`WindowIsComplete`, `StuckRecordsComplete`); what left a ring had left its time window or is covered by `ring_lost_until` (`DropsAreAccounted`). *File names*: waiting under a named key is its file's (`NamedWaitingIsItsOwn`); in the rundown files without a tally cost none that waited its name, although the map overflows, and those that waited without a name get theirs and keep it (`WaitersAreNamed`). *Call stacks*: a stack that came after other events of its processor is filed with its own request (`IssuingStackIsItsOwn`) or its own wait (`WaitStackIsItsOwn`), and the loss of stacks is admitted (`SwitchInsCoverHonestly`). |
| `manifest_traces` | *Storage*: while the session runs, a request that gets any answer but "not covered" has all of its pieces in it (`OwnPiecesSeen`), the time inside the drive is theirs alone although pointers are reused (`InsideIsOwnTime`), every retry is counted once (`RetriesConserved`). *Graphics*: a gap in the frames that is reported as a stop is one of the display and not of the trace, and no longer one goes unreported (`DisplayStopIsReal`), a residency operation whose start was read is timed from it, although stops are lost or unreadable and leave starts behind, and no single event that is missed gives another's time (`ResidencyIsItsOwn`). |
| `analyzer_twins` | Reports over two paths, in any order and delay: each stall received is pending or in exactly one incident (`StallsConserved`), and the kernel and scheduler views of one stall are one incident (`TwinsCountedOnce`). |
| `analyzer_marks` | Flagged moments are answered once and in order (`MarksKeptInLine`); a clean answer contradicts no short interruption received by then, although these are forgotten after MINOR_KEEP_MS (`CleanMeansNoBlip`). |
| `analyzer_stop` | A stop leads to the end of the run with nothing pending (`StopReportsAll`), and `Analyzer` implements `IncidentLog`, its liveness included (`PromiseKept`, a refinement: `incidents`, the pending stalls and the marks are mapped in `MCStop`). |
| `lifecycle` | Two processes, kills, panics, refusals, other tools: one run past the guard (`OneRunAtATime`), nothing outlives a run that was not killed (`NothingOutlivesRun`), leftovers are taken over (`LeftoversAreTakenOver`), a stop ends the run (`StopEndsRun`). |
| `verdicts` | Against what the scheduler, the processors, the drives and the person really did: why a measuring thread was late (`LatenessIsTold`), who waited (`WaitsAreReal`, `KeptWaitingIsTold`), which program was in front (`FrontIsReal`), who is blamed (`BlameIsEarned`), who is not (`NobodyIsFramed`), who kept a core busy (`CoreHolderIsReal`), who was stuck behind a request (`StuckIsReal`, `EveryVictimIsNamed`) and through whom (`ChainIsReal`). |
| `report` | *Lines*: the log is in order (`LogInOrder`), every folded event is in a roll-up (`FoldedAreSummarised`), only requests inside a filed freeze are discounted (`OnlyVictimsDiscounted`). *Findings*: every incident is counted by exactly one finding (`EveryMomentIsAccounted`), no real finding is folded away behind a lesser one (`NothingRealIsHidden`). *Comparison*: a change that is told is one (`ChangeIsReal`). |
| `analyzer_clean`, `analyzer_reference`, `same_rate`, `waits_held_up` | one disagreement each between a comment and the code: section 5 |

### Bounds

- `kernel_trace`: *rings*: five events over six instants with caps of two and windows of two
  and three: both ways of losing a record, and a loss before and after a prune,
  occur; two threads are enough to tell "the thread asked for" from another. *File names*: four
  keys against a map of three names and a tally of two, so that names are pushed out, also
  during the rundown, the rundown skips some and a cut happens; two files. *Stacks*: one processor with two slots for events that may still
  get a stack, one IRP and rings of one, so every cap is met; two threads.
  Keys and threads are interchangeable (symmetry, `Names` in `MCKernelTrace`).
- `manifest_traces`: two requests in turn on one IRP; either up to two pieces and
  no retry, or one piece and two retries and resets: what the three properties
  tell apart needs two of the one or of the other, never both. The ring holds one
  or two records, so a piece can be lost to the cap, to age or to the buffers. *Graphics*:
  one thread, caps of its own per ring (`MCGpuCap`), nine instants, events late by one: five refreshes of
  which one is too close to the one before, and a window that begins between the two. Refreshes and
  presents are explored without residency operations, and these without refreshes, since they
  share neither a ring nor a question. Three operations, the first perhaps begun before the session, over
  six instants: a start left behind by a missed stop, an operation whose own start is missed and a
  third one fit (3.0 million states in all).
- `analyzer_*`: up to four stalls and six to nine instants. Two views of one stall, a
  third stall that joins or separates them, and one give-up all fit. The runs differ in
  which thresholds are stretched: `analyzer_marks` makes kernel stalls
  minor and lets them be forgotten after six units, `analyzer_stop` is small because liveness is costly.
- `lifecycle`: two processes (one with a window), three runs, one kill, one panic,
  one session stopped from outside: a leftover is found by a third run
  while a second one is being refused.
- `verdicts`: for lateness two threads on one processor, seven records and eight instants, which
  hold two late wake-ups of the probe, and each of "late", "queued" and "blocked" occurs; for waiting three threads, five
  records, four instants and two moments; two process ids and seven instants for the foreground; two processors,
  two drivers and five slots for blame, four slices that do not line up with them and four DPCs to
  tell by, so that a stall may fail for want of DPCs, of slices or of both, and
  processors are interchangeable (symmetry;
  so are the drive's threads); two threads, a lock, two requests on one drive, four
  instants for stuck threads, where every request counts as slow (`IoWarn` = 1).
- `report`: three events with caps of one and two and no freeze, or two events and one freeze:
  an event of each fate (shown, folded, suppressed, dropped, discounted). The findings are built
  for each of the 10,650 finished runs of `MCSummary`, which vary what one or two sections
  read and some with many problems at once. Two PCs, three problems, three runs and three days for
  the comparison.

### Fairness

- `Analyzer`: weak fairness of the tick's steps, of the clock and of the reader thread.
  The loop thread and the reader never block for good: the loop sleeps a fixed time and
  takes locks that are held for one event or one read; the reader
  returns as soon as the pipe has data. There is none for the user (marks, stop),
  for the probes or for the traces, which the code must not rely on.
- `Lifecycle`: weak fairness of each process's own steps. Windows schedules every
  thread that can run. Nobody is forced to stop a run, kill or panic.
- The other specifications state safety only and have no fairness.

## 4. What is proved

TLAPS checks every theorem for all values of the constants that satisfy the
named assumption of the component's module.

**`KernelTraceProofs`**.

*SwitchRings* (from `RingAssumption`). What every action does to the rings is
summarised once, in lemma `StepShape`: one ring grows by at most one record, each
head moves forward by pruning or by a cap, the clock fields move accordingly.
Everything else follows from that shape.

- `TypeCorrect`: no ring pops more than was pushed.
- `CoverInvariant`: the inductive invariant `CoverInv`. `CoverIsHonest` alone is not
  inductive: it speaks of a window and of the front of one ring, but a prune
  looks at every ring's own front. The strengthening says that each record that has
  left is accounted for (`DropsAreAccounted`), and that the front
  of the switch ring is as young as the last prune's cutoff unless a cap loss is
  (`FrontTellsTime`); with `last_prune <= latest_ts` these are inductive.
- `DropsAccounted`, `CoverHonest`: consequences, the second for both capped rings.
- `LostTight`: `ring_lost_until` is never later than a record that was really dropped.
- `OrderInvariant`, `WindowComplete`, `StuckComplete`: records are out of order by at most
  `Disorder`; therefore any answer of the binary search brackets the window if
  `Disorder <= Slop`, and the filter behind it returns exactly the window. `stuck_records`
  does not widen, and returns everything while the records happened to arrive in order.
- `Bounded`: capped rings never exceed their cap; the span of every
  ring is at most its window plus one pruning interval.

*FileTally* (from `FileTallyAssumption`). The inductive invariant `FilesInv` has a part that always holds: the
queue of names holds exactly the keys of the map, once each and at most `NameCap`
(`NamesAreQueued`); a key with a name and an open file has that file's name
(`NamesAreOwners`); waiting under a key without a name is marked (`NamelessIsMarked`), which
is what makes `NamedWaitingIsItsOwn` inductive, since a name may come back. The other part is about
the rundown. An open file with a tally has a name, has still to get one or had one
before (`RundownCovers`), and those with both are no fewer than at the stop (`NamedKept`). What carries
these is the shape of the queue (`OldInFront`): old names in front, and behind
them at most half a map of files without a tally, since the rundown skips the others, and
those with one. So when the queue is full, what has been named since the stop is not at its front: a full queue
of such keys would be more than half a map and every tally (`CapTakesOut`, `CapFits`). What
is pushed out is an old name, and only when a file with a tally takes its place is it one that waited.

- `NamesQueued`, `NamedWaitingOwn`, `WaitersNamed`: consequences, for every cap. Names are pushed
  out in `WaitersNamed`; that every name that matters stays is false (section 5).

**`LifecycleProofs`** (from `LifecycleAssumption`). The inductive invariant `IInv` is the
type invariant, a local condition per process that ties what it holds to its program
counter (`Local`), `OneRunAtATime`, `HeldIsRunning`, and `Accounted`: every
session belongs to a run that holds it or to one that was killed. The parts need each
other: a session is not taken over because only one run is past the guard, and nothing is
left behind because every session is accounted for. One lemma per action.

- `MutualExclusion`, `SessionsAreOwn`, `NothingLeftBehind`: consequences of `IInv`.
- `TakenOver` needs two more facts, proved on top: runs have their own numbers
  (`Numbers`), and under each name a run has dealt with there is its own session or none
  (`Cleared`).

**`Lemmas`** holds what several proofs rest on: a set of naturals has a least member (from the
library's well-foundedness of `<`, as an induction principle cannot be instantiated); what
pruning pops and what pushing against a cap pops (`Rings`); that `At(q, I)` lists the elements of
`q` at `I`, each once and in order (`Selections`); that a finite set of naturals has a minimum,
a maximum and an enumeration. Induction over data is done by hand: a function defined by recursion
on the naturals exists (`Recursion`), a set that contains 0 and the successor of each of its
members up to `n` contains all of them (`UpTo`), and a set that contains every subset of a finite
set whose smaller ones it contains has that set too (`SubsetInduction`). From the last come the
laws of `SumOver` (`Sums`): it may be taken apart at any member (`SumTakes`) or any subset
(`SumParts`), and it changes with one member by what that member changes (`SumMoved`); that a
function on the subsets of a set may be defined from what is left without a chosen
member (`SetRecursion`), on which `SumOver` and `union_len` rest.

**`StacksProofs`** (from `StacksAssumption`). The inductive invariant `StacksInv` has a part for
each place a stack passes on its way. An event that may still get one knows its own request or
wait (`PendingIsOwn`); a request in flight has none or its own stack (`OutIsOwn`), and what was
found with a slow one is its own (`FoundIsOwn`); `off_at` holds exactly the threads in a wait,
with the time each began (`OffIsAsleep`); the waits of a thread do not overlap (`WaitsInTurn`);
a kept switch-in stack is that of one wait, by thread and times (`SwitchInsAreWaits`,
`FaultsAreNoWaits`); and every stack that came for a wait worth keeping is in the ring, or the
ring's admitted loss is as young (`WalkedAreHeld`). None is inductive alone: a wait's stack is its
own only because the pending event was, and that only because no second wait of the thread
can begin before the first is off.

- `IssuingOwn`, `WaitStackOwn`, `SwitchInsHonest`: consequences, for every cap, keep time and
  number of processors.

**`ManifestTracesProofs`**.

*StorPort* (from `StorPortAssumption`). `StorInv` follows a piece from its completion
through the session's buffer (`BufferInv`: what was logged is in the buffer or delivered, in
almost the order of time) into the ring (`RingInv`: almost sorted, and what was popped is older
than the prune mark or than the count cap's loss mark) to the answers (`KeptInv`).

- `PiecesSeen`: any answer but "not covered" has all of a request's own pieces.
  The assumption that matters is `Disorder < Slop` (events are later than their order says by less
  than the search widens).
- `RetriesCounted`: a balance (`Tallied`) of the retries attached, given up on and waiting under a
  pointer; pushing a request moves its own from one side to the other, pruning moves the old
  ones, and only delivering a retry changes it. It needs `RetryTypes`: an event that is not delivered yet
  has a number that was given out, so the next one is new to the buffer.
- `InsideIsOwn`: `TimeInv` says that the requests under a pointer do not overlap
  (`OwnersApart`) and that a piece lies within its own request and outside of every other one that
  has a pointer it carries (`PiecesPlaced`), so the pieces that `split` finds in a request's time
  are its own, and by `OwnPiecesSeen` all of them. What `union_len` makes of their spans is
  proved by induction on the set swept: the total and the open span measure what the
  spans cover, since the next one begins no earlier than any before it (`Swept`).

*GpuTrace* (from `GpuTraceAssumption`). `ResidencyInvariant`: a start that is
remembered for a thread is the last of its events that was read (`StartIsLastRead`), which need not be
that of the operation under way; one that was read of the operation under way is forgotten only
when it is old (`StartKnown`); and what was recorded is as `ResidencyIsItsOwn` says (`OwnTimes`).
`ResidencyOwn` follows, for any lost, late or unreadable events: an operation whose start was read has its
own time, or none if it is too long; one whose start was missed has none, or the time since a start
left behind, which takes two missed events in a row. `DisplayStopReal` rests on
`RefreshInv`: the ring is in order and holds real refreshes, every refresh was recorded or came
within `HalfMs` of one that was, or too late to be told from it, and the records still held are `HalfMs` apart. The rest is about
a sorted list of times: its longest gap has neighbours in the ring for ends. The attempt to prove it
showed that the property, as first stated, was false beyond the bounds TLC had been
given: a refresh less than half a millisecond after one before the window is not
recorded, so a gap that opens with it is not seen. With `MaxGpuTs` = 9 TLC finds that too;
the property now says where such a gap may begin.

**`AnalyzerProofs`** (from `AnalyzerAssumption`). The clusters of a tick are not built by a fold
but named by where they begin, so that what the proofs need of them is first order: every pending
stall is in exactly one cluster of its kind (`ClustersCover`, `ClustersApart`), no two clusters
begin at the same time, each group the tick forms is a kernel cluster with at most one scheduler
cluster or a scheduler cluster alone, and every cluster is in one group (`GroupsSpec`).

- `TypesHold`: the type invariant, for any number of processors, reports and marks.
- `StallsAreConserved`: with `Once` (a report is in the pipe, the channel or received, and in one
  place only) as the strengthening, since a report that came twice would be filed twice.
- `MarksAreKeptInLine`: the line of the answered, waiting and new marks is in order of time
  (`InLine`), so that the ripe ones, picked out of the middle of it by their age and by the trace,
  are its beginning.
- `CleanHidesNoBlip`: three more invariants. A tick is never later than it may be (`InTime`), a mark
  is never older than give-up, tick and the end of the run allow (`Young`), and a minor report
  that was let go ended before the window of any mark that can still be asked about (`Kept`).
- `TwinsAreCountedOnce`: by `Timing` (what is in the pipe is not older than `MaxDelay`, the channel
  holds nothing older than the last tick, no kernel report comes once the last analysis has begun)
  and `Twins`: what a lone incident was filed without (`Settled`) cannot turn up later, and if
  its twin was there it had company (`Accompanied`). The exception in the property is needed:
  `TwinsNeverApart` is false (section 5).
- `PromiseIsSafe`: the safety part of the refinement, `StopSpec => Log!Safety`. Each step of the
  analyzer is mapped to the step of `IncidentLog` it makes, or to none (`StepLogs`, one lemma for each
  action). The end of the run is the step that needs strengthening: `Debts` says where what is
  owed may still be, `Timing` that none of it is in the channel when the last analysis begins,
  `Forced` that this analysis leaves nothing out, and `GroupsCover` that its groups hold every pending
  stall.

**`VerdictsProofs`** is about four judges.

*DiskStuck* (from `StuckAssumption`). `AnswerInv`: each wait has its switch-out and its wake-up
record and no other wait of its thread lies between them (`WaitedInv`, `WakesInv`,
`DoingInv`); a request is under way or over (`RequestsInv`); who holds the lock while
another waits for it is not idling (`LockInv`); and every answer given stays true
(`AnswersInv`), although more records keep coming.

- `StuckReal`, `ChainReal`, `VictimsAreNamed`: consequences.

*Foreground* (from `ForegroundAssumption`). `FrontInv`: the sampler keeps its time
(`SamplerInv`), so the samples lie `SampleEvery` to `SampleEvery + 2 * SampleLate` apart
and reach back to the start or are more than half of the log's size (`SamplesInv`), each is of
someone who had the window while it was taken (`SeenInv`), and a cached name is one
the process really had (`NamesInv`).

- `FrontReal`: consequence. The spacing is what makes a sample younger than `Stale` exist for
  every moment looked at, even just after half of the log was dropped.

*Verdict* (from `VerdictAssumption`). `VerdictInv` says that the processors keep step, that nothing is
said before the stall is over, and that what is said then is so. The work is in the lemmas, which
relate numbers of records to numbers of slots: a tick that a driver's records cover is in a
slot in which its code ran, so the union of nested and long executions is no more than
those slots have (`TicksBounded`), and ordinary DPCs cover no processor (`ClockCoversNone`); a
slot in which DPCs can run has one that begins with it (`OwnDpc`), so when the DPCs recorded are too few, or lie in
too few slices, so are these slots or the slices they begin in (`HeldWhenNotKept`); a sample in DPC or
ISR code is seen there, an idle one is not (`HeavyInSpan`, `IdleClear`), so what is counted for a
program is what it ran itself (`ThreadRan`).

- `BlameEarned`, `NobodyFramed`, `CoreHolderReal`: consequences, for every number of processors,
  drivers, slots and every set of doings.

*Sched and Waits* (from `SchedAssumption` and `WaitsAssumption`). The two streams are read as one set of
events, ordered by time, stream and place (`Sooner`). `SchedInv` links them to what the model
remembers: two neighbouring events of a thread bound one finished stretch of its life
(`Links`), and every finished stretch that began with an event is bounded so. `waits` is a
recursive function on the subsets of a window; `FoldTells` proves by induction on the subset that,
after the events up to one, it knows of each thread what its last event made of it (`Past`), that the
worst waits it keeps are stretches of the thread (`Real`), and that no stretch between two of its
events was longer (`Longer`).

- `WaitsReal`: `Real`, for the window that is the whole run.
- `LatenessTold` has an invariant of its own, `LateInv`, of what the two streams say of the probe.
  Until it is late the record of its being made ready, of its being put on the processor and
  of its waiting again lie where the wake-up says, and every older one lies before the
  sleep (`OwnInv`); a late wake-up keeps that for good (`StallsInv`); and the stretch a
  thread had a processor lies between two switches of that processor with none between them
  (`ProcsInv`). So `classify_probe` finds the records of that wake-up and no other
  (`LateToldRight`). For the idle processor, times become sets of moments: what `held` sums
  is the number of moments in spans that have nothing in common (`HeldMoments`, from
  `SumOfParts`), and no other thread had the processor in one of the idle thread's
  (`IdleIsNotBusy`). The premise `Clear`, that the slack before the window
  reaches back to no earlier wake-up, cannot be dropped: without it
  `PreviousWakeUpIsIgnored` fails (section 5). `ShortIsClear` says when it is met: the slack is no
  longer than the probe sleeps, which in the code (a twentieth of the window, 1 ms at
  least) is up to twenty sleeps.
- `WaitsTold`: `Real` makes a program that is named one that was kept waiting, `Longer` makes one that was
  kept waiting be named (`CollectedIs`); the program in front has nobody before it
  (`FrontFirst`); and the totals are the count and the greatest of what the moments said
  (`Totalled`, kept by `TotalledMore`).

**`ReportProofs`** (from `NotablesAssumption` and, for the comparison of two runs, `BaselineAssumption`). A round of `report_notables`
is a loop whose state after `i` events is the value of a recursive function (`ReportingIs`);
`LoopIs` proves by induction on `i` what it leaves of the accounts, the roll-ups and the log. The inductive invariant `NotablesIInv` has four parts that do not
follow from the three properties alone.

- `EventLogInOrder`: what was reported, what is held back and what waits are, end to end, the
  numbers given out, in order (`Ordered`), and with what the queue had no room for they are all
  of them. Holding an event back holds back everything behind it (`HeldBackIs`).
- `OnlyVictimsTaken`: each account is the beginning of its drive's requests in the order reported
  (`Charged`, `BeginningIs`), so the cap cuts the latest; and what is discounted is excused by a
  filed freeze (`Discounts`).
- `FoldedAreCounted`: the counts of the roll-up lines and of what is held are the number of
  folded events, and their worst the worst of them (`Balances`); the lines of a subject
  are summed with the laws of `SumOver`.

- `ChangeReal`: the newest file of a PC that shares its id with no other is that of its last
  whole run (`LastIsSaved`), and a record says of each problem what the run saw, under a key
  with the process ID taken off, where the worst of one program stands for it (`RecordOf`, `SavedIs`).
  That carries the property; `ComparedRightly` derives what two such records make of
  `compare`: counts scaled to one another's length move only with the rates (`ScaledLess`,
  `ClassifiedIs`), and so does the sum of the stalls (`SumScaled`). The premise `HasNoTwin` came
  from the proof: PCs of one model share an id on purpose (`baseline/mod.rs:351`), and TLC finds the
  property false for twins without it.

**Only model-checked**, and why:

- The liveness properties `StopReportsAll` and `StopEndsRun`, and of the refinement `PromiseKept` the
  last conjunct, that a run that is being stopped ends: fairness and ENABLED are out of the
  prover's reach.
- `EveryMomentIsAccounted` and `NothingRealIsHidden`: each is about a report that some twenty
  sections build one after the other, by folds, from what the run recorded; no proof of that
  has been written.

## 5. Where the code and its words part

Four runs end in a counterexample, each to a sentence of the repository:

1. `analyzer_clean` (`analyze.rs:979`): a moment flagged in the middle of a stall
   that began before the window is answered "in the clear"; only starts are compared.
2. `analyzer_reference` (`analyze.rs:654`): the end of the previous incident is
   rebuilt from its start and its worst stall, so after a chain of stalls the
   reference window reaches into it.
3. `same_rate` (`baseline/compare.rs:87`): two runs whose lengths differ by up to a quarter
   are compared unscaled, while a fifth of a change in a count is told as better or worse.
4. `waits_held_up` (`analyze.rs:877`): of each thread only the longest stretch is kept, and
   the voluntary ones are dropped after that, so a lock wait hides behind a longer sleep.

Further disagreements have a definition but no run of their own. Each is reproduced by
naming it as the only INVARIANT with the constants of the run given, changed as said:

| definition | from | says | but |
|---|---|---|---|
| `Notables!VictimsAreDiscounted` | `report` (`Spec`), Durations {1}, FlushWait 2, GiveUp 3, MaxEvents 1, MaxNow 6 | a request that fell into a filed freeze is not counted against its drive | one still held back when the freeze is filed is charged for good (`analyze.rs:1517`) |
| `FileTally!WaitingIsItsOwn` | `kernel_trace` (`FilesSpec`), Keys {1} | waiting is not handed on | waiting under a key with no name goes to the next file opened under it (`etw/events.rs:318`) |
| `FileTally!NamesThatMatterStay` | `kernel_trace` | the rundown cannot push out the names that matter (`etw/events.rs:511`) | one file that waited, named by it, pushes out the name of another (`etw/events.rs:310`, `state.rs:246`) |
| `GpuTrace!DurationNeedsItsStart` | `manifest_traces` | `dur` is 0 when the start was not seen (`gputrace/mod.rs:102`) | it is the time since an older start whose stop was not seen either (`gputrace/events.rs:107`) |
| `Sched!PreviousWakeUpIsIgnored` | `waits_held_up` (`SchedSpec`), one thread, Jumps {1, 45}, MaxTick 60 | an old wake-up is not taken for this one | after a long pause it is |
| `Verdict!KeptMeansNotHeld` | `verdicts` (`VerdictSpec`) | "kept running" and "held" exclude each other (`intr.rs:53`) | a freeze's evidence can say both (`analyze.rs:1306-1360`) |
| `Verdict!NoDpcRan` | `verdicts` | what is called at raised IRQL ran while no DPC did (`analyze.rs:1354`-1372) | too few DPCs to say that they kept running are not none: two in a stall of 6 ms are in the test at `intr.rs:130` |
| `Verdict!BurstsRaiseNoAlarm` | `verdicts` (`VerdictSpec`), StallLen 1, MinExpected 1, MinDpcs 1, Refs with bursts | a bursty device is not called silent (`analyze.rs:1526`) | it is when the stall is shorter than its pauses |
| `Analyzer!TwinsNeverApart` | `analyzer_twins`, Slack 3, TwinWait 4 | one event is one incident (`analyze.rs:558`) | a scheduler stall that was to be paired with a kernel stall waits for the trace, meanwhile the kernel stall is filed alone and a third stall joins the cluster (`analyze.rs:576`) |
| `DiskStuck!SilenceIsReal` | `verdicts` (`StuckSpec`), one thread, IoWarn 2, MaxClock 11, RingKeep 3 | "the drive slept" follows a real silence (`diskwhy.rs:61`) | the request before it is judged by what the ring still holds (`analyze.rs:2138`) |
| `Baseline!FixIsWatched` | `same_rate` | what got better was watched for in both runs | a problem not watched for reads as gone |
| `Baseline!TruncatedIsNoBaseline` | `same_rate` | a file cut short is not compared with (`baseline/mod.rs:293`) | it is if the cut falls between two lines |
| `Summary!BlockedClaimsNeedTheTrace` | `report` (`SumSpec`) | without switches nothing is said of who was blocked (`ctx.rs:107`) | `storage.rs:964` says it |
| `Summary!PagedFileIsNamed` | `report` (`SumSpec`) | the file that paged most is named (`ctx.rs:189`) | only above a share (`storage.rs:478`) |
| `Summary!ResetIsToldOnce` | `report` (`SumSpec`) | a drive's resets are told once (`storage.rs:679`) | twice if both traces have them |
| `Summary!StartIsNotLater` | `report` (`SumSpec`) | the plan starts with the first finding (`summary/mod.rs:286`) | it may start with a later one |

Noted while modelling, without a definition:

- A cluster's age counts from its latest end, so a stream of stalls within the 2 ms gap
  postpones its report (`analyze.rs:576`; the comment at 580 says that nothing can be held
  forever).
- The class Freeze counts the processors of a whole chain although the text says they were
  held at once (`analyze.rs:672`, 679).
- An outlier can be suppressed by the limit of six lines a second (`analyze.rs:1874`;
  `quiet.rs:5`).
- `finished` makes `caught_up` true also for requests that complete after the storage session
  was stopped: they are called unmatched rather than not covered (`storport/mod.rs:333`,
  `engine.rs:543`).
- Completions of the IRP's previous owner within MATCH_SLOP_MS match (`storport/split.rs:118`).
- Retries beyond 255 of one request are missing from the drive's total
  (`storport/mod.rs:284`).
- `stuck_records` does not widen its search as `switch_window` does.
- Ties at the median let `cap_by_wait` empty the map; `fault_file` is never dropped when a key is
  reused. An empty name event would drop the tally and keep the name; the model leaves it out.
- A panic in a run of the window leaves `RUNNING` set: the window can neither start
  another run nor close, and the samplers go on (`bin/gui.rs:647`).
- A leftover session that later runs do not ask for (graphics, in light mode) stays.
- "No measuring thread anywhere on this PC was woken" counts only the threads that could be
  judged.
- The evidence of a freeze says that no driver's interrupt handling was long enough also when
  one was holding a processor.
- The share a driver must reach counts stalls while its coverage is counted in processors.
- The verdict of a scheduler stall may blame a disk request that is itself a freeze's victim.
- A thread id that was reused brings the new program's name to an older wait (`analyze.rs:848`),
  and cached names of process ids may be those of an earlier process (`procs.rs:75`).
- The severity of what the event log finds depends on the order of the event ids.

## 6. What is not modelled

- The samplers and the system inventory: reads of Windows' counters, tables, the registry,
  PCI and the event log, which decide nothing themselves. What the summary
  does with the answers is modelled.
- The printing of incidents, findings, the report file, the forum text, the settings: wording
  and layout.
- The per-routine statistics of `handle_event`; byte layouts of manifest events; parsing of a
  stack event and the wording of a path of drivers.
- Several drives in the storage trace, resets by address.
- The text protocol between the child and its parent, and the guard against early wakes.
- The settings of the trace sessions' buffers and their consumer threads as such.

## 7. Plan

The model covers the program's own decisions; what is left to do is proof, in this order:
1. `Summary`: `EveryMomentIsAccounted`.
