----------------------------- MODULE Lifecycle -----------------------------
(***************************************************************************)
(* A run from start to finish, in several processes at once: `run` and     *)
(* `run_inner` of src/engine.rs, the trace sessions of src/etw/mod.rs and  *)
(* src/etw/manifest.rs, and who starts and stops runs in src/bin/gui.rs    *)
(* and src/bin/cli.rs.                                                     *)
(*                                                                         *)
(* A trace session is known to Windows by its name and outlives the        *)
(* process that started it.  A named mutex keeps a second run from         *)
(* starting; it exists as long as somebody has a handle to it.  A process  *)
(* may be killed at any moment, a run may panic, Windows may refuse a      *)
(* session, and somebody with another tool may stop one.                   *)
(*                                                                         *)
(* Runs are numbered; sessions[s] is the run that started the session of   *)
(* that name, which is what a handle to it stands for.  `killed` and `cut` *)
(* are history: the runs whose process was killed, and the sessions that   *)
(* somebody else stopped.                                                  *)
(***************************************************************************)
EXTENDS Integers, FiniteSets

CONSTANTS
  Procs,        \* processes that may run the tool
  Guis,         \* the ones with a window; the others are consoles
  Attempts,     \* sets of kernel flags that Session::start_flags tries
  MaxRuns,      \* bound: runs, refused ones included
  MaxKills, MaxPanics, MaxCuts  \* bounds on what goes wrong

ASSUME LifecycleAssumption ==
  /\ Guis \subseteq Procs
  /\ Attempts \in Nat \ {0} /\ MaxRuns \in Nat
  /\ MaxKills \in Nat /\ MaxPanics \in Nat /\ MaxCuts \in Nat

Optional == {"gpu", "storage"}
Names    == {"kernel"} \cup Optional
None     == 0

VARIABLES
  guard,       \* the processes with a handle to the mutex
  pc,          \* where each process is; the name of a session: starting it
  try,         \* inside a session's start: "first", "take", "again", "enable"
  attempts,    \* sets of kernel flags not tried yet
  want,        \* the optional sessions this run is to have
  held,        \* the Session values that are not stopped yet
  run,         \* the number of the process's run
  stop,        \* STOP
  timer,       \* processes with the timer resolution raised
  threads,     \* processes whose sampler threads are told to go on
  child,       \* processes with a probe child
  sessions,    \* [Names -> run]: Windows' trace sessions
  runs, killed, panics, cut

procVars == <<pc, try, attempts, want, held, run>>
ownVars  == <<timer, threads, child>>
histVars == <<runs, killed, panics, cut>>
vars == <<guard, procVars, stop, ownVars, sessions, histVars>>

(* Past the guard, whatever happens to the run. *)
Inside == Names \cup {"probes", "monitoring", "stopping", "returning", "reporting", "unwinding"}

Init ==
  /\ guard = {} /\ pc = [p \in Procs |-> "idle"] /\ try = [p \in Procs |-> "first"]
  /\ attempts = [p \in Procs |-> Attempts] /\ want = [p \in Procs |-> {}]
  /\ held = [p \in Procs |-> {}] /\ run = [p \in Procs |-> 0]
  /\ stop = [p \in Procs |-> FALSE]
  /\ timer = {} /\ threads = {} /\ child = {}
  /\ sessions = [s \in Names |-> None]
  /\ runs = 0 /\ killed = {} /\ panics = 0 /\ cut = {}

-----------------------------------------------------------------------------
(* run: the guard.                                                         *)

(* The optional sessions the settings and light mode leave on. *)
Wants(p) == \E w \in SUBSET Optional : want' = [want EXCEPT ![p] = w]

(* run_inner's own variables are gone. *)
EndOfScope(p) ==
  /\ try' = [try EXCEPT ![p] = "first"]
  /\ attempts' = [attempts EXCEPT ![p] = Attempts]
  /\ want' = [want EXCEPT ![p] = {}]

(* Mutated: that the mutex was there already is not looked at. *)
EnterAnyway(p) ==
  /\ pc[p] = "idle" /\ runs < MaxRuns
  /\ runs' = runs + 1
  /\ run' = [run EXCEPT ![p] = runs + 1]
  /\ stop' = [stop EXCEPT ![p] = FALSE]
  /\ guard' = guard \cup {p}
  /\ pc' = [pc EXCEPT ![p] = "kernel"] /\ Wants(p)
  /\ UNCHANGED <<try, attempts, held, ownVars, sessions, killed, panics, cut>>

(* Monitoring is asked for: the mutex is created, or found to exist. *)
enter(p) ==
  /\ pc[p] = "idle" /\ runs < MaxRuns
  /\ runs' = runs + 1
  /\ run' = [run EXCEPT ![p] = runs + 1]
  /\ stop' = [stop EXCEPT ![p] = FALSE]
  /\ guard' = guard \cup {p}
  /\ \/ guard = {} /\ pc' = [pc EXCEPT ![p] = "kernel"] /\ Wants(p)
     \/ guard # {} /\ pc' = [pc EXCEPT ![p] = "refused"] /\ UNCHANGED want
  /\ UNCHANGED <<try, attempts, held, ownVars, sessions, killed, panics, cut>>

(* The run is over, for better or worse: the handle is closed.  A console  *)
(* exits; a window is told so by a message.                                *)
leave(p) ==
  /\ pc[p] \in {"refused", "reporting"}
  /\ guard' = guard \ {p}
  /\ pc' = [pc EXCEPT ![p] = IF p \in Guis THEN "posted" ELSE "idle"]
  /\ UNCHANGED <<try, attempts, want, held, run, stop, ownVars, sessions, histVars>>

(* wndproc on WM_APP_DONE: the window closes, or may start another run. *)
app_done(p) ==
  /\ pc[p] = "posted"
  /\ pc' = [pc EXCEPT ![p] = "idle"]
  /\ UNCHANGED <<guard, try, attempts, want, held, run, stop, ownVars, sessions, histVars>>

(* request_stop, and the console's ctrl_handler. *)
request_stop(p) ==
  /\ pc[p] # "idle" /\ ~stop[p]
  /\ stop' = [stop EXCEPT ![p] = TRUE]
  /\ UNCHANGED <<guard, procVars, ownVars, sessions, histVars>>

-----------------------------------------------------------------------------
(* Starting the sessions.                                                  *)

(* Where run_inner goes when it is done with session s. *)
After(p, s) ==
  CASE s = "kernel" -> IF "gpu" \in want[p] THEN "gpu"
                       ELSE IF "storage" \in want[p] THEN "storage" ELSE "probes"
    [] s = "gpu"    -> IF "storage" \in want[p] THEN "storage" ELSE "probes"
    [] OTHER        -> "probes"

(* A session is up; only the optional ones have a provider to enable, and  *)
(* with the kernel's the timer resolution is raised.                       *)
Starts(p, s) ==
  /\ sessions[s] = None
  /\ sessions' = [sessions EXCEPT ![s] = run[p]]
  /\ held' = [held EXCEPT ![p] = @ \cup {s}]
  /\ IF s = "kernel"
     THEN /\ timer' = timer \cup {p}
          /\ try' = [try EXCEPT ![p] = "first"] /\ pc' = [pc EXCEPT ![p] = After(p, s)]
     ELSE /\ timer' = timer
          /\ try' = [try EXCEPT ![p] = "enable"] /\ pc' = pc
  /\ UNCHANGED attempts

(* It will not start: the next set of kernel flags is tried, or the run    *)
(* fails; an optional session is done without.                             *)
Fails(p, s) ==
  /\ try' = [try EXCEPT ![p] = "first"]
  /\ IF s = "kernel"
     THEN /\ attempts' = [attempts EXCEPT ![p] = @ - 1]
          /\ pc' = [pc EXCEPT ![p] = IF attempts[p] > 1 THEN "kernel" ELSE "returning"]
     ELSE /\ attempts' = attempts
          /\ pc' = [pc EXCEPT ![p] = After(p, s)]
  /\ UNCHANGED <<sessions, held, timer>>

(* Mutated: a name that is taken is a failure like any other. *)
TakenIsFailure(p, s) == sessions[s] # None /\ try[p] = "first" /\ Fails(p, s)

(* The name is taken, and this was not expected yet. *)
Taken(p, s) ==
  /\ sessions[s] # None /\ try[p] = "first"
  /\ try' = [try EXCEPT ![p] = "take"]
  /\ UNCHANGED <<pc, attempts, sessions, held, timer>>

(* try_start, of either kind, and what its caller makes of the result. *)
try_start(p) ==
  /\ pc[p] \in Names /\ try[p] \in {"first", "again"}
  /\ LET s == pc[p]
     IN \/ Starts(p, s)
        \/ Taken(p, s)
        \/ (sessions[s] = None \/ try[p] = "again") /\ Fails(p, s)
  /\ UNCHANGED <<guard, want, run, stop, threads, child, histVars>>

stop_by_name(p) ==
  /\ pc[p] \in Names /\ try[p] = "take"
  /\ sessions' = [sessions EXCEPT ![pc[p]] = None]
  /\ try' = [try EXCEPT ![p] = "again"]
  /\ UNCHANGED <<guard, pc, attempts, want, held, run, stop, ownVars, histVars>>

(* Mutated: the Session value is not dropped when its provider refuses. *)
Forget(p, s) ==
  /\ held' = [held EXCEPT ![p] = @ \ {s}]
  /\ UNCHANGED sessions

(* Session::stop, by handle, explicitly or on Drop: the session is gone    *)
(* unless it was gone already.                                             *)
drop_session(p, s) ==
  /\ held' = [held EXCEPT ![p] = @ \ {s}]
  /\ sessions' = [sessions EXCEPT ![s] = IF @ = run[p] THEN None ELSE @]

(* EnableTraceEx2 on an optional session; if it refuses, the session is    *)
(* dropped again.                                                          *)
enable(p) ==
  /\ pc[p] \in Optional /\ try[p] = "enable"
  /\ UNCHANGED <<held, sessions>> \/ drop_session(p, pc[p])
  /\ try' = [try EXCEPT ![p] = "first"]
  /\ pc' = [pc EXCEPT ![p] = After(p, pc[p])]
  /\ UNCHANGED <<guard, attempts, want, run, stop, ownVars, histVars>>

(* The samplers and the probe child, which may fail to start. *)
spawn_probes(p) ==
  /\ pc[p] = "probes"
  /\ threads' = threads \cup {p}
  /\ child' \in {child, child \cup {p}}
  /\ pc' = [pc EXCEPT ![p] = "monitoring"]
  /\ UNCHANGED <<guard, try, attempts, want, held, run, stop, timer, sessions, histVars>>

-----------------------------------------------------------------------------
(* Ending the run.                                                         *)

(* probe_stop is set, the child's input closed and the child waited for. *)
EndMonitoring(p) ==
  /\ pc[p] = "monitoring"
  /\ threads' = threads \ {p} /\ child' = child \ {p}
  /\ pc' = [pc EXCEPT ![p] = "stopping"]
  /\ UNCHANGED <<guard, try, attempts, want, held, run, stop, timer, sessions, histVars>>

(* Mutated: only the end of the trace ends the loop. *)
StopUnseen(p) == sessions["kernel"] # run[p] /\ EndMonitoring(p)

(* The loop sees STOP, or that the consumer of the kernel trace is done. *)
stop_seen(p)     == (stop[p] \/ sessions["kernel"] # run[p]) /\ EndMonitoring(p)
duration_over(p) == p \notin Guis /\ EndMonitoring(p)

(* The order the sessions are stopped in, and the reverse order of their   *)
(* declaration, in which unwinding drops them.                             *)
FirstOf(p)  == CASE "gpu" \in held[p] -> "gpu" [] "storage" \in held[p] /\ "gpu" \notin held[p] -> "storage"
                 [] OTHER -> "kernel"
LatestOf(p) == CASE "storage" \in held[p] -> "storage" [] "gpu" \in held[p] /\ "storage" \notin held[p] -> "gpu"
                 [] OTHER -> "kernel"

stop_session(p) ==
  /\ pc[p] = "stopping"
  /\ IF held[p] # {} THEN drop_session(p, FirstOf(p)) /\ pc' = pc
                     ELSE pc' = [pc EXCEPT ![p] = "returning"] /\ UNCHANGED <<held, sessions>>
  /\ UNCHANGED <<guard, try, attempts, want, run, stop, ownVars, histVars>>

(* run_inner returns, with a summary or with an error. *)
return(p) ==
  /\ pc[p] = "returning"
  /\ timer' = timer \ {p}
  /\ pc' = [pc EXCEPT ![p] = "reporting"]
  /\ EndOfScope(p)
  /\ UNCHANGED <<guard, held, run, stop, threads, child, sessions, histVars>>

(* Anything inside the run panics. *)
Panic(p) ==
  /\ pc[p] \in Inside \ {"unwinding"} /\ panics < MaxPanics
  /\ panics' = panics + 1
  /\ pc' = [pc EXCEPT ![p] = "unwinding"]
  /\ UNCHANGED <<guard, try, attempts, want, held, run, stop, ownVars, sessions, runs, killed, cut>>

(* Unwinding drops the child's handle, the sessions and the timer.  A      *)
(* console exits; a window's worker thread is gone without a word, and the *)
(* handle of the mutex, which nothing drops, stays with the process.       *)
unwind(p) ==
  /\ pc[p] = "unwinding"
  /\ child' = child \ {p}
  /\ IF held[p] # {}
     THEN drop_session(p, LatestOf(p)) /\ UNCHANGED <<guard, try, attempts, want, pc, timer, threads>>
     ELSE /\ timer' = timer \ {p}
          /\ guard' = IF p \in Guis THEN guard ELSE guard \ {p}
          /\ threads' = IF p \in Guis THEN threads ELSE threads \ {p}
          /\ pc' = [pc EXCEPT ![p] = IF p \in Guis THEN "stuck" ELSE "idle"]
          /\ EndOfScope(p)
          /\ UNCHANGED <<held, sessions>>
  /\ UNCHANGED <<run, stop, histVars>>

(* The process is killed, or Windows ends it: what it has in the process   *)
(* goes with it, and the child reads the end of its input.                 *)
Kill(p) ==
  /\ pc[p] # "idle" /\ Cardinality(killed) < MaxKills
  /\ killed' = killed \cup {run[p]}
  /\ guard' = guard \ {p} /\ timer' = timer \ {p}
  /\ threads' = threads \ {p} /\ child' = child \ {p}
  /\ held' = [held EXCEPT ![p] = {}]
  /\ pc' = [pc EXCEPT ![p] = "idle"]
  /\ EndOfScope(p)
  /\ UNCHANGED <<run, stop, sessions, runs, panics, cut>>

(* Somebody stops a session with a tool of Windows. *)
Cut(s) ==
  /\ sessions[s] # None /\ Cardinality(cut) < MaxCuts
  /\ cut' = cut \cup {<<sessions[s], s>>}
  /\ sessions' = [sessions EXCEPT ![s] = None]
  /\ UNCHANGED <<guard, procVars, stop, ownVars, runs, killed, panics>>

-----------------------------------------------------------------------------
(* The steps of a process that nobody has to ask for. *)
Work(p) ==
  \/ leave(p) \/ app_done(p) \/ try_start(p) \/ stop_by_name(p) \/ enable(p) \/ spawn_probes(p)
  \/ stop_seen(p) \/ stop_session(p) \/ return(p) \/ unwind(p)

Next ==
  \/ \E p \in Procs : enter(p) \/ request_stop(p) \/ Work(p) \/ duration_over(p) \/ Panic(p) \/ Kill(p)
  \/ \E s \in Names : Cut(s)

(* Windows schedules every thread that can run. *)
Spec == Init /\ [][Next]_vars /\ \A p \in Procs : WF_vars(Work(p))

-----------------------------------------------------------------------------
TypeOK ==
  /\ guard \subseteq Procs /\ timer \subseteq Procs /\ threads \subseteq Procs /\ child \subseteq Procs
  /\ pc \in [Procs -> Inside \cup {"idle", "refused", "posted", "stuck"}]
  /\ try \in [Procs -> {"first", "take", "again", "enable"}]
  /\ attempts \in [Procs -> 0 .. Attempts]
  /\ want \in [Procs -> SUBSET Optional] /\ held \in [Procs -> SUBSET Names]
  /\ run \in [Procs -> Nat] /\ stop \in [Procs -> BOOLEAN]
  /\ sessions \in [Names -> Nat] /\ runs \in Nat
  /\ killed \subseteq Nat /\ panics \in Nat /\ cut \subseteq Nat \X Names

(* "Another WTFIsStalling is already monitoring on this PC" (run): however *)
(* handles to the mutex come and go, with runs refused, killed or          *)
(* panicking, two runs are never past the guard at once.                   *)
OneRunAtATime == \A p, q \in Procs : pc[p] \in Inside /\ pc[q] \in Inside => p = q

(* "Starting a second trace would take over (and so kill) the first one's  *)
(* session" (run): a session that a run believes to have is the one it     *)
(* started, unless somebody else stopped it.                               *)
HeldIsRunning ==
  \A p \in Procs : \A s \in held[p] : sessions[s] = run[p] \/ <<run[p], s>> \in cut

(* "Whatever goes wrong after the trace starts, unwinding must still take  *)
(* the session down" (Session), and "not a moment longer" (TimerResolution) *)
(* : a session is one a run still holds or the leftover of a run that was  *)
(* killed, and the timer is raised and the child alive only inside a run.  *)
NothingOutlivesRun ==
  /\ \A s \in Names : sessions[s] # None =>
       sessions[s] \in killed \/ \E p \in Procs : s \in held[p] /\ run[p] = sessions[s]
  /\ \A p \in Procs : (held[p] # {} \/ p \in timer \/ p \in child) => pc[p] \in Inside

(* "Left over from a previous run that was killed; take it over"           *)
(* (start_flags): when a run is monitoring, no leftover of a killed run is *)
(* left under a name the run asked for, whether or not its own session     *)
(* could be started there.                                                 *)
LeftoversAreTakenOver ==
  \A p \in Procs : pc[p] = "monitoring" =>
    \A s \in {"kernel"} \cup want[p] : sessions[s] \notin killed

(* A run that is told to stop ends, and lets go of everything it started,  *)
(* at whatever point of its start or its monitoring it is told: the window *)
(* or the console is free again, unless the run panics in a window, whose  *)
(* message that the run is over is then never sent.                        *)
StopEndsRun ==
  \A p \in Procs : stop[p] /\ pc[p] # "idle" ~> pc[p] \in {"idle", "stuck"} /\ p \notin timer /\ held[p] = {}

=============================================================================
