------------------------------ MODULE Summary -------------------------------
(***************************************************************************)
(* Analyzer::summarize (summary/mod.rs): the report is built section by    *)
(* section into one list of findings, then ranked, judged and laid out.    *)
(* "The order is part of the meaning": whichever section introduces a      *)
(* subject decides its group, title and advice, and a section that only    *)
(* notes on a subject does nothing if it runs too early.  One step of this *)
(* machine is one section.                                                 *)
(***************************************************************************)
EXTENDS SumSystem

CONSTANT Runs       \* the finished runs considered; see MCSummary

VARIABLES run,      \* the finished run
          cx,       \* the list being built, its current group, and what a section leaves for a later one
          section,  \* how many sections have run
          result    \* the summary, once there is one

sumVars == <<run, cx, section, result>>

NoResult == [health |-> "none"]

\* The table of contents, with the group each section's new findings belong to.
Contents == <<[name |-> "whole_pc", group |-> WholePc],
  [name |-> "tally", group |-> Interruptions], [name |-> "flagged_moments", group |-> Interruptions],
  [name |-> "e_cores", group |-> Interruptions], [name |-> "long_dpc_isr", group |-> Interruptions],
  [name |-> "paging", group |-> OneProgram], [name |-> "slow_disks", group |-> OneProgram],
  [name |-> "event_log", group |-> Health], [name |-> "seen_live", group |-> Health],
  [name |-> "drive_health", group |-> Health],
  [name |-> "driver_resets", group |-> OneProgram], [name |-> "graphics", group |-> OneProgram],
  [name |-> "one_program_waits", group |-> OneProgram],
  [name |-> "whea", group |-> Health], [name |-> "unexpected_shutdowns", group |-> Health],
  [name |-> "on_whose_behalf", group |-> Interruptions], [name |-> "periodicity", group |-> Interruptions],
  [name |-> "quiet_polling", group |-> Health], [name |-> "cpu_throttling", group |-> Health],
  [name |-> "firmware_throttle", group |-> Health], [name |-> "tool_cost", group |-> Health],
  [name |-> "devices_behind_drivers", group |-> Health],
  [name |-> "hardware_access", group |-> Health], [name |-> "network_filters", group |-> Health],
  [name |-> "legacy_interrupts", group |-> Health]>>

Place(name) == CHOOSE i \in DOMAIN Contents : Contents[i].name = name

Order == Contents

Runs_(name) == /\ section < Len(Order)
               /\ Order[section + 1].name = name

Section(name, op(_, _)) ==
  /\ Runs_(name)
  /\ cx' = op(run, [cx EXCEPT !.group = Order[section + 1].group])
  /\ section' = section + 1
  /\ UNCHANGED <<run, result>>

SumInit ==
  /\ run \in Runs
  /\ cx = [found |-> <<>>, group |-> Interruptions, tally |-> {}, drivers |-> {}]
  /\ section = 0
  /\ result = NoResult

\* The verdict follows the worst finding; without any trace data there is none.
verdict(findings, events) ==
  CASE events = 0 -> "no data"
    [] events > 0 /\ findings = <<>> -> "ok"
    [] events > 0 /\ findings # <<>> -> CASE findings[1].severity = High -> "problem"
                                          [] findings[1].severity = Medium -> "warning"
                                          [] OTHER -> "ok"

Conclude ==
  /\ section = Len(Order) /\ result = NoResult
  /\ LET findings == Ranked(cx.found)
         health == verdict(findings, run.events)
     IN  result' = [health |-> health, findings |-> findings, shown |-> shown_in_full(findings),
                    plan |-> plan(findings),
                    headline |-> CASE health = "no data" -> "no data"
                                   [] health \in {"problem", "warning"} -> findings[1].title
                                   [] health = "ok" /\ run.marks_clean > 0 -> "not the system side"
                                   [] OTHER -> "nothing stalled this PC"]
  /\ UNCHANGED <<run, cx, section>>

SumNext ==
  \/ Section("whole_pc", whole_pc) \/ Section("tally", tally)
  \/ Section("flagged_moments", flagged_moments) \/ Section("e_cores", e_cores)
  \/ Section("long_dpc_isr", long_dpc_isr) \/ Section("paging", paging)
  \/ Section("slow_disks", slow_disks) \/ Section("event_log", event_log)
  \/ Section("seen_live", seen_live) \/ Section("drive_health", drive_health)
  \/ Section("driver_resets", driver_resets) \/ Section("graphics", graphics)
  \/ Section("one_program_waits", one_program_waits) \/ Section("whea", whea)
  \/ Section("unexpected_shutdowns", unexpected_shutdowns)
  \/ Section("on_whose_behalf", on_whose_behalf) \/ Section("periodicity", periodicity)
  \/ Section("quiet_polling", quiet_polling) \/ Section("cpu_throttling", cpu_throttling)
  \/ Section("firmware_throttle", firmware_throttle) \/ Section("tool_cost", tool_cost)
  \/ Section("devices_behind_drivers", devices_behind_drivers)
  \/ Section("hardware_access", hardware_access) \/ Section("network_filters", network_filters)
  \/ Section("legacy_interrupts", legacy_interrupts)
  \/ Conclude

SumSpec == SumInit /\ [][SumNext]_sumVars

-----------------------------------------------------------------------------
(* Properties of the finished report.                                      *)

Finished == result # NoResult

Found(key) == HasKey(result.findings, key)

Finding(key) == Of(result.findings, key)

Total(whats) ==
  MapThenSumSet(LAMBDA i : LET ev == result.findings[i].evidence
                           IN  MapThenSumSet(LAMBDA j : ev[j].n, {j \in DOMAIN ev : ev[j].what \in whats}),
                DOMAIN result.findings)

\* "Every flagged moment has to show up somewhere in the result" (stalls.rs), and so does every
\* stall: each incident of the run is counted by exactly one finding, whatever it was blamed on,
\* whether it was marked, and whatever the scheduler trace could confirm.
EveryMomentIsAccounted ==
  Finished => Total({"freezes", "blamed for stalls", "flagged moments"}) = Len(run.incidents)

\* The first screen: no group is a heading with nothing under it, and a real finding is folded
\* away only behind ShownInFull shown ones that are at least as bad (shown_in_full).
NothingRealIsHidden ==
  Finished =>
    LET fs == result.findings
    IN  /\ \A g \in {fs[i].group : i \in DOMAIN fs} : \E i \in result.shown :
             fs[i].group = g /\ \A j \in DOMAIN fs : fs[j].group = g => fs[j].severity <= fs[i].severity
        /\ \A i \in DOMAIN fs \ result.shown : fs[i].severity > Low =>
             Cardinality({j \in result.shown : fs[j].severity >= fs[i].severity}) >= ShownInFull
        /\ Cardinality(result.shown) <= ShownMax

SchedulerClaims == {"probes not woken", "probes queued, a driver holding", "probes queued, nothing holding",
                    "probes queued, some with a driver holding", "probes blocked", "stuck behind them",
                    "nobody was stuck", "waited on a lock", "ready with no processor", "blocked"}

Claims(whats) == \/ Total(whats) > 0
                 \/ \E f \in Range(result.findings) : f.key \in {<<"not woken", "no timer">>, <<"not woken", "no processor">>}

\* "Any loss at all disqualifies the run's scheduler findings" (Ctx::scheduler_usable): nothing
\* the context-switch trace alone can tell is said when that trace was off or lost events.
BlockedClaimsNeedTheTrace ==
  Finished /\ ~scheduler_usable(run) => ~Claims(SchedulerClaims \cup {"where they were blocked"})

\* "The one file a process did most of its paging waiting on": a program whose paging waits were
\* all for one file is told which one.
PagedFileIsNamed ==
  Finished => \A p \in run.paging :
    Found(<<"paging", p.name>>) /\ Cardinality(p.files) = 1 => Says(Finding(<<"paging", p.name>>), "hard faults, mostly one file")

\* "The same reset is not reported twice": an event 129 of this run and the live reset it logged
\* are one subject.
ResetIsToldOnce ==
  Finished => ~(\E f, g \in Range(result.findings) :
                  f.key # g.key /\ Says(f, "reset logged while monitoring") /\ Says(g, "reset seen live"))

\* "The warnings that are not hitches last" (Summary::plan): what the plan says to start with is
\* not one of the warnings it puts last.
StartIsNotLater ==
  Finished /\ result.plan.start # NoStep => Finding(result.plan.start).group # Health
=============================================================================
