-------------------------- MODULE LifecycleProofs --------------------------
(***************************************************************************)
(* That two runs are never past the guard at once, that a run's sessions   *)
(* are its own and that nothing outlives a run that was not killed, for    *)
(* any number of processes, runs, kills, panics and refusals.              *)
(***************************************************************************)
EXTENDS Lifecycle, TLAPS

(* What each process's own state says about where it is. *)
Local(p) ==
  /\ pc[p] \in Inside \cup {"refused"} => p \in guard
  /\ pc[p] # "idle" => run[p] > 0
  /\ pc[p] \in {"idle", "refused", "posted", "stuck", "reporting"} => attempts[p] = Attempts /\ try[p] = "first"
  /\ pc[p] = "kernel" => attempts[p] > 0 /\ held[p] = {} /\ try[p] # "enable"
  /\ pc[p] = "gpu" => "storage" \notin held[p] /\ ("gpu" \in held[p] => try[p] = "enable")
  /\ pc[p] = "storage" => ("storage" \in held[p] => try[p] = "enable")
  /\ pc[p] \in {"returning", "reporting"} => held[p] = {}
  /\ held[p] # {} => pc[p] \in Inside
  /\ p \in child => pc[p] \in {"monitoring", "unwinding"}
  /\ p \in timer => pc[p] \in Inside \ {"reporting"}

(* Every session is a leftover or somebody's. *)
Accounted(s) ==
  sessions[s] # None =>
    sessions[s] \in killed \/ \E p \in Procs : s \in held[p] /\ run[p] = sessions[s]

(* The inductive invariant. *)
IInv ==
  /\ TypeOK
  /\ \A p \in Procs : Local(p)
  /\ OneRunAtATime
  /\ HeldIsRunning
  /\ \A s \in Names : Accounted(s)

(* After names a later session or the end of them. *)
LEMMA AfterIsLater ==
  ASSUME NEW p \in Procs, NEW s \in Names
  PROVE  /\ After(p, s) \in {"gpu", "storage", "probes"}
         /\ s # "kernel" => After(p, s) # "gpu"
         /\ s = "storage" => After(p, s) = "probes"
  BY DEF After, Names, Optional

(* The invariant holds initially. *)
LEMMA InitIInv == Init => IInv
  BY LifecycleAssumption DEF Init, IInv, TypeOK, Local, OneRunAtATime, HeldIsRunning, Accounted,
     Inside, Names, Optional, None

(* Monitoring is asked for: the mutex is only new when nobody is inside. *)
LEMMA EnterKeeps ==
  ASSUME IInv, NEW p \in Procs, enter(p)
  PROVE  IInv'
<1> USE LifecycleAssumption DEF enter, Wants, procVars, ownVars, histVars
<1>1. TypeOK'
  <2>1. want' \in [Procs -> SUBSET Optional]
    BY DEF IInv, TypeOK
  <2>2. stop' \in [Procs -> BOOLEAN]
    BY DEF IInv, TypeOK
  <2>3. pc' \in [Procs -> Inside \cup {"idle", "refused", "posted", "stuck"}]
    BY DEF IInv, TypeOK, Inside, Names
  <2>4. run' \in [Procs -> Nat] /\ runs' \in Nat
    BY DEF IInv, TypeOK
  <2>5. QED
    BY <2>1, <2>2, <2>3, <2>4 DEF IInv, TypeOK
<1>2. \A q \in Procs : Local(q)'
  BY DEF IInv, TypeOK, Local, Inside, Names, Optional, None
<1>3. OneRunAtATime'
  BY DEF IInv, TypeOK, Local, OneRunAtATime, Inside, Names, Optional
<1>4. HeldIsRunning'
  BY DEF IInv, TypeOK, Local, OneRunAtATime, HeldIsRunning, Inside, Names, Optional, None
<1>5. \A s \in Names : Accounted(s)'
  BY DEF IInv, TypeOK, Local, OneRunAtATime, HeldIsRunning, Accounted, Inside, Names, Optional, None
<1>6. QED BY <1>1, <1>2, <1>3, <1>4, <1>5 DEF IInv

(* The handle is closed: by then the run holds nothing. *)
LEMMA LeaveKeeps ==
  ASSUME IInv, NEW p \in Procs, leave(p)
  PROVE  IInv'
<1> USE LifecycleAssumption DEF leave, procVars, ownVars, histVars
<1>1. TypeOK'
  BY DEF IInv, TypeOK, Local, Inside, Names, Optional, None
<1>2. \A q \in Procs : Local(q)'
  BY DEF IInv, TypeOK, Local, Inside, Names, Optional, None
<1>3. OneRunAtATime'
  BY DEF IInv, TypeOK, Local, OneRunAtATime, Inside, Names, Optional
<1>4. HeldIsRunning'
  BY DEF IInv, TypeOK, Local, OneRunAtATime, HeldIsRunning, Inside, Names, Optional, None
<1>5. \A s \in Names : Accounted(s)'
  BY DEF IInv, TypeOK, Local, OneRunAtATime, HeldIsRunning, Accounted, Inside, Names, Optional, None
<1>6. QED BY <1>1, <1>2, <1>3, <1>4, <1>5 DEF IInv

(* The window hears of the end. *)
LEMMA AppDoneKeeps ==
  ASSUME IInv, NEW p \in Procs, app_done(p)
  PROVE  IInv'
<1> USE LifecycleAssumption DEF app_done, procVars, ownVars, histVars
<1>1. TypeOK'
  BY DEF IInv, TypeOK, Local, Inside, Names, Optional, None
<1>2. \A q \in Procs : Local(q)'
  BY DEF IInv, TypeOK, Local, Inside, Names, Optional, None
<1>3. OneRunAtATime'
  BY DEF IInv, TypeOK, Local, OneRunAtATime, Inside, Names, Optional
<1>4. HeldIsRunning'
  BY DEF IInv, TypeOK, Local, OneRunAtATime, HeldIsRunning, Inside, Names, Optional, None
<1>5. \A s \in Names : Accounted(s)'
  BY DEF IInv, TypeOK, Local, OneRunAtATime, HeldIsRunning, Accounted, Inside, Names, Optional, None
<1>6. QED BY <1>1, <1>2, <1>3, <1>4, <1>5 DEF IInv

(* A stop is asked for. *)
LEMMA RequestStopKeeps ==
  ASSUME IInv, NEW p \in Procs, request_stop(p)
  PROVE  IInv'
<1> USE LifecycleAssumption DEF request_stop, procVars, ownVars, histVars
<1>1. TypeOK'
  BY DEF IInv, TypeOK, Local, Inside, Names, Optional, None
<1>2. \A q \in Procs : Local(q)'
  BY DEF IInv, TypeOK, Local, Inside, Names, Optional, None
<1>3. OneRunAtATime'
  BY DEF IInv, TypeOK, Local, OneRunAtATime, Inside, Names, Optional
<1>4. HeldIsRunning'
  BY DEF IInv, TypeOK, Local, OneRunAtATime, HeldIsRunning, Inside, Names, Optional, None
<1>5. \A s \in Names : Accounted(s)'
  BY DEF IInv, TypeOK, Local, OneRunAtATime, HeldIsRunning, Accounted, Inside, Names, Optional, None
<1>6. QED BY <1>1, <1>2, <1>3, <1>4, <1>5 DEF IInv

(* A session is started, found to exist, or refused. *)
LEMMA TryStartKeeps ==
  ASSUME IInv, NEW p \in Procs, try_start(p)
  PROVE  IInv'
<1> USE LifecycleAssumption DEF try_start, Starts, Fails, Taken, procVars, ownVars, histVars
<1>1. TypeOK'
  BY AfterIsLater DEF IInv, TypeOK, Local, Inside, Names, Optional, None
<1>2. \A q \in Procs : Local(q)'
  BY AfterIsLater DEF IInv, TypeOK, Local, Inside, Names, Optional, None
<1>3. OneRunAtATime'
  BY AfterIsLater DEF IInv, TypeOK, Local, OneRunAtATime, Inside, Names, Optional
<1>4. HeldIsRunning'
  BY AfterIsLater DEF IInv, TypeOK, Local, OneRunAtATime, HeldIsRunning, Inside, Names, Optional, None
<1>5. \A s \in Names : Accounted(s)'
  BY AfterIsLater DEF IInv, TypeOK, Local, OneRunAtATime, HeldIsRunning, Accounted, Inside, Names, Optional, None
<1>6. QED BY <1>1, <1>2, <1>3, <1>4, <1>5 DEF IInv

(* A leftover is stopped: nobody inside holds it. *)
LEMMA StopByNameKeeps ==
  ASSUME IInv, NEW p \in Procs, stop_by_name(p)
  PROVE  IInv'
<1> USE LifecycleAssumption DEF stop_by_name, procVars, ownVars, histVars
<1>1. TypeOK'
  BY DEF IInv, TypeOK, Local, Inside, Names, Optional, None
<1>2. \A q \in Procs : Local(q)'
  BY DEF IInv, TypeOK, Local, Inside, Names, Optional, None
<1>3. OneRunAtATime'
  BY DEF IInv, TypeOK, Local, OneRunAtATime, Inside, Names, Optional
<1>4. HeldIsRunning'
  BY DEF IInv, TypeOK, Local, OneRunAtATime, HeldIsRunning, Inside, Names, Optional, None
<1>5. \A s \in Names : Accounted(s)'
  BY DEF IInv, TypeOK, Local, OneRunAtATime, HeldIsRunning, Accounted, Inside, Names, Optional, None
<1>6. QED BY <1>1, <1>2, <1>3, <1>4, <1>5 DEF IInv

(* A provider is enabled, or its session dropped again. *)
LEMMA EnableKeeps ==
  ASSUME IInv, NEW p \in Procs, enable(p)
  PROVE  IInv'
<1> USE LifecycleAssumption DEF enable, drop_session, procVars, ownVars, histVars
<1>1. TypeOK'
  BY AfterIsLater DEF IInv, TypeOK, Local, Inside, Names, Optional, None
<1>2. \A q \in Procs : Local(q)'
  BY AfterIsLater DEF IInv, TypeOK, Local, Inside, Names, Optional, None
<1>3. OneRunAtATime'
  BY AfterIsLater DEF IInv, TypeOK, Local, OneRunAtATime, Inside, Names, Optional
<1>4. HeldIsRunning'
  BY AfterIsLater DEF IInv, TypeOK, Local, OneRunAtATime, HeldIsRunning, Inside, Names, Optional, None
<1>5. \A s \in Names : Accounted(s)'
  BY AfterIsLater DEF IInv, TypeOK, Local, OneRunAtATime, HeldIsRunning, Accounted, Inside, Names, Optional, None
<1>6. QED BY <1>1, <1>2, <1>3, <1>4, <1>5 DEF IInv

(* The samplers and the child are started. *)
LEMMA SpawnProbesKeeps ==
  ASSUME IInv, NEW p \in Procs, spawn_probes(p)
  PROVE  IInv'
<1> USE LifecycleAssumption DEF spawn_probes, procVars, ownVars, histVars
<1>1. TypeOK'
  BY DEF IInv, TypeOK, Local, Inside, Names, Optional, None
<1>2. \A q \in Procs : Local(q)'
  BY DEF IInv, TypeOK, Local, Inside, Names, Optional, None
<1>3. OneRunAtATime'
  BY DEF IInv, TypeOK, Local, OneRunAtATime, Inside, Names, Optional
<1>4. HeldIsRunning'
  BY DEF IInv, TypeOK, Local, OneRunAtATime, HeldIsRunning, Inside, Names, Optional, None
<1>5. \A s \in Names : Accounted(s)'
  BY DEF IInv, TypeOK, Local, OneRunAtATime, HeldIsRunning, Accounted, Inside, Names, Optional, None
<1>6. QED BY <1>1, <1>2, <1>3, <1>4, <1>5 DEF IInv

(* The loop ends. *)
LEMMA EndMonitoringKeeps ==
  ASSUME IInv, NEW p \in Procs, EndMonitoring(p)
  PROVE  IInv'
<1> USE LifecycleAssumption DEF EndMonitoring, procVars, ownVars, histVars
<1>1. TypeOK'
  BY DEF IInv, TypeOK, Local, Inside, Names, Optional, None
<1>2. \A q \in Procs : Local(q)'
  BY DEF IInv, TypeOK, Local, Inside, Names, Optional, None
<1>3. OneRunAtATime'
  BY DEF IInv, TypeOK, Local, OneRunAtATime, Inside, Names, Optional
<1>4. HeldIsRunning'
  BY DEF IInv, TypeOK, Local, OneRunAtATime, HeldIsRunning, Inside, Names, Optional, None
<1>5. \A s \in Names : Accounted(s)'
  BY DEF IInv, TypeOK, Local, OneRunAtATime, HeldIsRunning, Accounted, Inside, Names, Optional, None
<1>6. QED BY <1>1, <1>2, <1>3, <1>4, <1>5 DEF IInv

(* The sessions are stopped one by one. *)
LEMMA StopSessionKeeps ==
  ASSUME IInv, NEW p \in Procs, stop_session(p)
  PROVE  IInv'
<1> USE LifecycleAssumption DEF stop_session, drop_session, FirstOf, procVars, ownVars, histVars
<1>1. TypeOK'
  BY DEF IInv, TypeOK, Local, Inside, Names, Optional, None
<1>2. \A q \in Procs : Local(q)'
  BY DEF IInv, TypeOK, Local, Inside, Names, Optional, None
<1>3. OneRunAtATime'
  BY DEF IInv, TypeOK, Local, OneRunAtATime, Inside, Names, Optional
<1>4. HeldIsRunning'
  BY DEF IInv, TypeOK, Local, OneRunAtATime, HeldIsRunning, Inside, Names, Optional, None
<1>5. \A s \in Names : Accounted(s)'
  BY DEF IInv, TypeOK, Local, OneRunAtATime, HeldIsRunning, Accounted, Inside, Names, Optional, None
<1>6. QED BY <1>1, <1>2, <1>3, <1>4, <1>5 DEF IInv

(* run_inner returns. *)
LEMMA ReturnKeeps ==
  ASSUME IInv, NEW p \in Procs, return(p)
  PROVE  IInv'
<1> USE LifecycleAssumption DEF return, EndOfScope, procVars, ownVars, histVars
<1>1. TypeOK'
  BY DEF IInv, TypeOK, Local, Inside, Names, Optional, None
<1>2. \A q \in Procs : Local(q)'
  BY DEF IInv, TypeOK, Local, Inside, Names, Optional, None
<1>3. OneRunAtATime'
  BY DEF IInv, TypeOK, Local, OneRunAtATime, Inside, Names, Optional
<1>4. HeldIsRunning'
  BY DEF IInv, TypeOK, Local, OneRunAtATime, HeldIsRunning, Inside, Names, Optional, None
<1>5. \A s \in Names : Accounted(s)'
  BY DEF IInv, TypeOK, Local, OneRunAtATime, HeldIsRunning, Accounted, Inside, Names, Optional, None
<1>6. QED BY <1>1, <1>2, <1>3, <1>4, <1>5 DEF IInv

(* A panic. *)
LEMMA PanicKeeps ==
  ASSUME IInv, NEW p \in Procs, Panic(p)
  PROVE  IInv'
<1> USE LifecycleAssumption DEF Panic, procVars, ownVars, histVars
<1>1. TypeOK'
  BY DEF IInv, TypeOK, Local, Inside, Names, Optional, None
<1>2. \A q \in Procs : Local(q)'
  BY DEF IInv, TypeOK, Local, Inside, Names, Optional, None
<1>3. OneRunAtATime'
  BY DEF IInv, TypeOK, Local, OneRunAtATime, Inside, Names, Optional
<1>4. HeldIsRunning'
  BY DEF IInv, TypeOK, Local, OneRunAtATime, HeldIsRunning, Inside, Names, Optional, None
<1>5. \A s \in Names : Accounted(s)'
  BY DEF IInv, TypeOK, Local, OneRunAtATime, HeldIsRunning, Accounted, Inside, Names, Optional, None
<1>6. QED BY <1>1, <1>2, <1>3, <1>4, <1>5 DEF IInv

(* Unwinding drops what the run holds. *)
LEMMA UnwindKeeps ==
  ASSUME IInv, NEW p \in Procs, unwind(p)
  PROVE  IInv'
<1> USE LifecycleAssumption DEF unwind, drop_session, LatestOf, EndOfScope, procVars, ownVars, histVars
<1>1. TypeOK'
  BY DEF IInv, TypeOK, Local, Inside, Names, Optional, None
<1>2. \A q \in Procs : Local(q)'
  BY DEF IInv, TypeOK, Local, Inside, Names, Optional, None
<1>3. OneRunAtATime'
  BY DEF IInv, TypeOK, Local, OneRunAtATime, Inside, Names, Optional
<1>4. HeldIsRunning'
  BY DEF IInv, TypeOK, Local, OneRunAtATime, HeldIsRunning, Inside, Names, Optional, None
<1>5. \A s \in Names : Accounted(s)'
  BY DEF IInv, TypeOK, Local, OneRunAtATime, HeldIsRunning, Accounted, Inside, Names, Optional, None
<1>6. QED BY <1>1, <1>2, <1>3, <1>4, <1>5 DEF IInv

(* The process is killed: its sessions become leftovers. *)
LEMMA KillKeeps ==
  ASSUME IInv, NEW p \in Procs, Kill(p)
  PROVE  IInv'
<1> USE LifecycleAssumption DEF Kill, EndOfScope, procVars, ownVars, histVars
<1>1. TypeOK'
  <2>1. run[p] \in Nat /\ killed' \subseteq Nat
    BY DEF IInv, TypeOK
  <2>2. held' \in [Procs -> SUBSET Names] /\ want' \in [Procs -> SUBSET Optional]
    BY DEF IInv, TypeOK
  <2>3. try' \in [Procs -> {"first", "take", "again", "enable"}] /\ attempts' \in [Procs -> 0 .. Attempts]
    BY DEF IInv, TypeOK
  <2>4. QED
    BY <2>1, <2>2, <2>3 DEF IInv, TypeOK, Inside
<1>2. \A q \in Procs : Local(q)'
  BY DEF IInv, TypeOK, Local, Inside, Names, Optional, None
<1>3. OneRunAtATime'
  BY DEF IInv, TypeOK, Local, OneRunAtATime, Inside, Names, Optional
<1>4. HeldIsRunning'
  BY DEF IInv, TypeOK, Local, OneRunAtATime, HeldIsRunning, Inside, Names, Optional, None
<1>5. \A s \in Names : Accounted(s)'
  BY DEF IInv, TypeOK, Local, OneRunAtATime, HeldIsRunning, Accounted, Inside, Names, Optional, None
<1>6. QED BY <1>1, <1>2, <1>3, <1>4, <1>5 DEF IInv

(* A session stopped by another tool. *)
LEMMA CutKeeps ==
  ASSUME IInv, NEW x \in Names, Cut(x)
  PROVE  IInv'
<1> USE LifecycleAssumption DEF Cut, procVars, ownVars
<1>1. TypeOK'
  <2>1. cut' \subseteq Nat \X Names /\ sessions' \in [Names -> Nat]
    BY DEF IInv, TypeOK, None
  <2>2. QED
    BY <2>1 DEF IInv, TypeOK
<1>2. \A q \in Procs : Local(q)'
  BY DEF IInv, Local
<1>3. OneRunAtATime'
  BY DEF IInv, OneRunAtATime
<1>4. HeldIsRunning'
  BY DEF IInv, TypeOK, HeldIsRunning
<1>5. \A s \in Names : Accounted(s)'
  BY DEF IInv, TypeOK, Accounted
<1>6. QED BY <1>1, <1>2, <1>3, <1>4, <1>5 DEF IInv

(* The inductive invariant is preserved by every step. *)
LEMMA NextKeeps == IInv /\ [Next]_vars => IInv'
<1> SUFFICES ASSUME IInv, [Next]_vars PROVE IInv'
  OBVIOUS
<1>1. CASE \E p \in Procs : enter(p) \/ request_stop(p) \/ duration_over(p) \/ Panic(p) \/ Kill(p)
  BY <1>1, EnterKeeps, RequestStopKeeps, EndMonitoringKeeps, PanicKeeps, KillKeeps DEF duration_over
<1>2. CASE \E p \in Procs : Work(p)
  BY <1>2, LeaveKeeps, AppDoneKeeps, TryStartKeeps, StopByNameKeeps, EnableKeeps, SpawnProbesKeeps,
     EndMonitoringKeeps, StopSessionKeeps, ReturnKeeps, UnwindKeeps DEF Work, stop_seen
<1>3. CASE \E s \in Names : Cut(s)
  BY <1>3, CutKeeps
<1>4. CASE UNCHANGED vars
  BY <1>4 DEF vars, procVars, ownVars, histVars, IInv, TypeOK, Local, OneRunAtATime, HeldIsRunning, Accounted
<1>5. QED
  BY <1>1, <1>2, <1>3, <1>4 DEF Next

(* The numbers of the runs that were killed are not in use any more. *)
Numbers ==
  /\ \A p \in Procs : run[p] <= runs /\ (pc[p] # "idle" => run[p] \notin killed)
  /\ \A p, q \in Procs : p # q /\ run[p] = run[q] => run[p] = 0
  /\ \A r \in killed : 0 < r /\ r <= runs

(* Under the names a run has dealt with there is its own session or none. *)
Clear(p, s) == sessions[s] \in {None, run[p]}

Cleared(p) ==
  /\ pc[p] \in {"gpu", "storage", "probes", "monitoring"} => Clear(p, "kernel")
  /\ pc[p] \in {"storage", "probes", "monitoring"} /\ "gpu" \in want[p] => Clear(p, "gpu")
  /\ pc[p] \in {"probes", "monitoring"} /\ "storage" \in want[p] => Clear(p, "storage")
  /\ pc[p] \in Names /\ try[p] \in {"again", "enable"} => Clear(p, pc[p])

(* No step brings a leftover back under a name that has been dealt with. *)
LEMMA ClearedKept ==
  ASSUME IInv, Numbers, \A p \in Procs : Cleared(p), [Next]_vars
  PROVE  Numbers' /\ \A p \in Procs : Cleared(p)'
<1> USE LifecycleAssumption DEF procVars, ownVars, histVars
<1>1. ASSUME NEW p \in Procs, enter(p) PROVE Numbers' /\ \A q \in Procs : Cleared(q)'
  <2>1. Numbers'
    BY <1>1 DEF IInv, TypeOK, Local, Numbers, Inside, Names, Optional, enter, Wants
  <2>2. \A q \in Procs : Cleared(q)'
    BY <1>1 DEF IInv, TypeOK, Local, OneRunAtATime, Numbers, Cleared, Clear, Inside, Names, Optional, None, enter, Wants
  <2>3. QED BY <2>1, <2>2
<1>2. ASSUME NEW p \in Procs, leave(p) PROVE Numbers' /\ \A q \in Procs : Cleared(q)'
  <2>1. Numbers'
    BY <1>2 DEF IInv, TypeOK, Local, Numbers, Inside, Names, Optional, leave
  <2>2. \A q \in Procs : Cleared(q)'
    BY <1>2 DEF IInv, TypeOK, Local, OneRunAtATime, Numbers, Cleared, Clear, Inside, Names, Optional, None, leave
  <2>3. QED BY <2>1, <2>2
<1>3. ASSUME NEW p \in Procs, app_done(p) PROVE Numbers' /\ \A q \in Procs : Cleared(q)'
  <2>1. Numbers'
    BY <1>3 DEF IInv, TypeOK, Local, Numbers, Inside, Names, Optional, app_done
  <2>2. \A q \in Procs : Cleared(q)'
    BY <1>3 DEF IInv, TypeOK, Local, OneRunAtATime, Numbers, Cleared, Clear, Inside, Names, Optional, None, app_done
  <2>3. QED BY <2>1, <2>2
<1>4. ASSUME NEW p \in Procs, request_stop(p) PROVE Numbers' /\ \A q \in Procs : Cleared(q)'
  <2>1. Numbers'
    BY <1>4 DEF IInv, TypeOK, Local, Numbers, Inside, Names, Optional, request_stop
  <2>2. \A q \in Procs : Cleared(q)'
    BY <1>4 DEF IInv, TypeOK, Local, OneRunAtATime, Numbers, Cleared, Clear, Inside, Names, Optional, None, request_stop
  <2>3. QED BY <2>1, <2>2
<1>5. ASSUME NEW p \in Procs, try_start(p) PROVE Numbers' /\ \A q \in Procs : Cleared(q)'
  <2>1. Numbers'
    BY <1>5 DEF IInv, TypeOK, Local, Numbers, Inside, Names, Optional, try_start, Starts, Fails, Taken, After
  <2>2. \A q \in Procs : Cleared(q)'
    BY <1>5 DEF IInv, TypeOK, Local, OneRunAtATime, Numbers, Cleared, Clear, Inside, Names, Optional, None, try_start, Starts, Fails, Taken, After
  <2>3. QED BY <2>1, <2>2
<1>6. ASSUME NEW p \in Procs, stop_by_name(p) PROVE Numbers' /\ \A q \in Procs : Cleared(q)'
  <2>1. Numbers'
    BY <1>6 DEF IInv, TypeOK, Local, Numbers, Inside, Names, Optional, stop_by_name
  <2>2. \A q \in Procs : Cleared(q)'
    BY <1>6 DEF IInv, TypeOK, Local, OneRunAtATime, Numbers, Cleared, Clear, Inside, Names, Optional, None, stop_by_name
  <2>3. QED BY <2>1, <2>2
<1>7. ASSUME NEW p \in Procs, enable(p) PROVE Numbers' /\ \A q \in Procs : Cleared(q)'
  <2>1. Numbers'
    BY <1>7 DEF IInv, TypeOK, Local, Numbers, Inside, Names, Optional, enable, drop_session, After
  <2>2. \A q \in Procs : Cleared(q)'
    BY <1>7 DEF IInv, TypeOK, Local, OneRunAtATime, Numbers, Cleared, Clear, Inside, Names, Optional, None, enable, drop_session, After
  <2>3. QED BY <2>1, <2>2
<1>8. ASSUME NEW p \in Procs, spawn_probes(p) PROVE Numbers' /\ \A q \in Procs : Cleared(q)'
  <2>1. Numbers'
    BY <1>8 DEF IInv, TypeOK, Local, Numbers, Inside, Names, Optional, spawn_probes
  <2>2. \A q \in Procs : Cleared(q)'
    BY <1>8 DEF IInv, TypeOK, Local, OneRunAtATime, Numbers, Cleared, Clear, Inside, Names, Optional, None, spawn_probes
  <2>3. QED BY <2>1, <2>2
<1>9. ASSUME NEW p \in Procs, EndMonitoring(p) PROVE Numbers' /\ \A q \in Procs : Cleared(q)'
  <2>1. Numbers'
    BY <1>9 DEF IInv, TypeOK, Local, Numbers, Inside, Names, Optional, EndMonitoring
  <2>2. \A q \in Procs : Cleared(q)'
    BY <1>9 DEF IInv, TypeOK, Local, OneRunAtATime, Numbers, Cleared, Clear, Inside, Names, Optional, None, EndMonitoring
  <2>3. QED BY <2>1, <2>2
<1>10. ASSUME NEW p \in Procs, stop_session(p) PROVE Numbers' /\ \A q \in Procs : Cleared(q)'
  <2>1. Numbers'
    BY <1>10 DEF IInv, TypeOK, Local, Numbers, Inside, Names, Optional, stop_session, drop_session
  <2>2. \A q \in Procs : Cleared(q)'
    BY <1>10 DEF IInv, TypeOK, Local, OneRunAtATime, Numbers, Cleared, Clear, Inside, Names, Optional, None, stop_session, drop_session
  <2>3. QED BY <2>1, <2>2
<1>11. ASSUME NEW p \in Procs, return(p) PROVE Numbers' /\ \A q \in Procs : Cleared(q)'
  <2>1. Numbers'
    BY <1>11 DEF IInv, TypeOK, Local, Numbers, Inside, Names, Optional, return, EndOfScope
  <2>2. \A q \in Procs : Cleared(q)'
    BY <1>11 DEF IInv, TypeOK, Local, OneRunAtATime, Numbers, Cleared, Clear, Inside, Names, Optional, None, return, EndOfScope
  <2>3. QED BY <2>1, <2>2
<1>12. ASSUME NEW p \in Procs, Panic(p) PROVE Numbers' /\ \A q \in Procs : Cleared(q)'
  <2>1. Numbers'
    BY <1>12 DEF IInv, TypeOK, Local, Numbers, Inside, Names, Optional, Panic
  <2>2. \A q \in Procs : Cleared(q)'
    BY <1>12 DEF IInv, TypeOK, Local, OneRunAtATime, Numbers, Cleared, Clear, Inside, Names, Optional, None, Panic
  <2>3. QED BY <2>1, <2>2
<1>13. ASSUME NEW p \in Procs, unwind(p) PROVE Numbers' /\ \A q \in Procs : Cleared(q)'
  <2>1. Numbers'
    BY <1>13 DEF IInv, TypeOK, Local, Numbers, Inside, Names, Optional, unwind, drop_session, EndOfScope
  <2>2. \A q \in Procs : Cleared(q)'
    BY <1>13 DEF IInv, TypeOK, Local, OneRunAtATime, Numbers, Cleared, Clear, Inside, Names, Optional, None, unwind, drop_session, EndOfScope
  <2>3. QED BY <2>1, <2>2
<1>14. ASSUME NEW p \in Procs, Kill(p) PROVE Numbers' /\ \A q \in Procs : Cleared(q)'
  <2>1. Numbers'
    BY <1>14 DEF IInv, TypeOK, Local, Numbers, Inside, Names, Optional, Kill, EndOfScope
  <2>2. \A q \in Procs : Cleared(q)'
    BY <1>14 DEF IInv, TypeOK, Local, OneRunAtATime, Numbers, Cleared, Clear, Inside, Names, Optional, None, Kill, EndOfScope
  <2>3. QED BY <2>1, <2>2
<1>15. ASSUME NEW s \in Names, Cut(s) PROVE Numbers' /\ \A q \in Procs : Cleared(q)'
  BY <1>15 DEF IInv, TypeOK, Numbers, Cleared, Clear, Cut, Names
<1>16. CASE UNCHANGED vars
  BY <1>16 DEF vars, Numbers, Cleared, Clear
<1>17. QED
  BY <1>1, <1>2, <1>3, <1>4, <1>5, <1>6, <1>7, <1>8, <1>9, <1>10, <1>11, <1>12, <1>13, <1>14, <1>15, <1>16 DEF Next, Work, duration_over, stop_seen

(* Every reachable state satisfies the inductive invariant: what a process *)
(* holds follows from where it is, and every session is accounted for.     *)
THEOREM Invariant == Spec => []IInv
  BY InitIInv, NextKeeps, PTL DEF Spec

(* The variables keep their types, for any number of processes and runs. *)
THEOREM TypeCorrect == Spec => []TypeOK
<1>1. IInv => TypeOK
  BY DEF IInv
<1>2. QED BY <1>1, Invariant, PTL

(* run: two runs are never past the named mutex at once, although refused  *)
(* runs hold handles to it too, and a killed or panicking one gives its    *)
(* own up at another point.                                                *)
THEOREM MutualExclusion == Spec => []OneRunAtATime
<1>1. IInv => OneRunAtATime
  BY DEF IInv
<1>2. QED BY <1>1, Invariant, PTL

(* Session: no run ever stops or takes over a session another one relies   *)
(* on.                                                                     *)
THEOREM SessionsAreOwn == Spec => []HeldIsRunning
<1>1. IInv => HeldIsRunning
  BY DEF IInv
<1>2. QED BY <1>1, Invariant, PTL

(* Session's and TimerResolution's Drop: on every way out of a run but     *)
(* being killed, its sessions are stopped, the timer released and the      *)
(* child gone.                                                             *)
THEOREM NothingLeftBehind == Spec => []NothingOutlivesRun
<1>1. IInv => NothingOutlivesRun
  BY DEF IInv, Local, Accounted, NothingOutlivesRun, Inside
<1>2. QED BY <1>1, Invariant, PTL

(* start_flags and start: a run that got as far as monitoring has taken    *)
(* over or stopped whatever a killed run left under the names it asked     *)
(* for.                                                                    *)
THEOREM TakenOver == Spec => []LeftoversAreTakenOver
<1> DEFINE J == Numbers /\ \A p \in Procs : Cleared(p)
<1>1. Init => J
  BY DEF Init, Numbers, Cleared, Clear, Names, Optional
<1>2. IInv /\ J /\ [Next]_vars => J'
  BY ClearedKept
<1>3. IInv /\ J => LeftoversAreTakenOver
  BY DEF IInv, TypeOK, Numbers, Cleared, Clear, LeftoversAreTakenOver, Optional, Names, None
<1>4. QED BY <1>1, <1>2, <1>3, Invariant, PTL DEF Spec

=============================================================================
