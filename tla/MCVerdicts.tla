----------------------------- MODULE MCVerdicts -----------------------------
(***************************************************************************)
(* What the analyzer says of one moment, on small instances: why a         *)
(* measuring thread was late (Sched), who else was kept waiting (Waits),   *)
(* which program was in front (Foreground), what a stall is blamed on      *)
(* (Verdict), and what one slow request held up (DiskStuck).  Each judges  *)
(* records of its own, so each is explored alone: the subject is chosen at *)
(* the start, and the others stand still.  Lateness takes several wake-ups *)
(* of one thread to tell apart, and the waiting of others more threads: so *)
(* the first is explored for longer, the second with more of them.         *)
(***************************************************************************)
EXTENDS MCWaits, Foreground, MCStuck, MCVerdict

CONSTANTS
  LateThreads,              \* those that take part when the lateness of wake-ups is explored
  WaitsRecords, WaitsTick   \* bounds: the records and the clock when waiting is

VARIABLE subject

LateNext ==
  /\ SchedNext /\ \A t \in SchedThreads \ LateThreads : state'[t] = state[t]
  /\ UNCHANGED <<pids, program_waits, moments>>

WaitsBounded == WaitsNext /\ tick' <= WaitsTick /\ Len(sw') + Len(rd') <= WaitsRecords

VerdictsInit ==
  /\ subject \in {"late", "waits", "front", "stall", "request"}
  /\ WaitsInit /\ ForegroundInit /\ StuckInit /\ VerdictInit
  /\ subject # "stall" => /\ does = [c \in Cpus |-> CHOOSE d \in Doings : TRUE]
                          /\ ref = CHOOSE r \in Refs : TRUE
                          /\ request = {}
  /\ subject # "front" => /\ WhoIs = CHOOSE p \in FrontPids : TRUE
                          /\ lives[WhoIs] = CHOOSE a \in Apps : TRUE

VerdictsNext ==
  /\ UNCHANGED subject
  /\ \/ subject = "late"    /\ LateNext       /\ UNCHANGED <<frontVars, stuckVars, verdictVars>>
     \/ subject = "waits"   /\ WaitsBounded   /\ UNCHANGED <<frontVars, stuckVars, verdictVars>>
     \/ subject = "front"   /\ ForegroundNext /\ UNCHANGED <<waitsVars, stuckVars, verdictVars>>
     \/ subject = "stall"   /\ VerdictNext    /\ UNCHANGED <<waitsVars, frontVars, stuckVars>>
     \/ subject = "request" /\ StuckNext      /\ UNCHANGED <<waitsVars, frontVars, verdictVars>>

VerdictsSpec == VerdictsInit /\ [][VerdictsNext]_<<subject, waitsVars, frontVars, stuckVars, verdictVars>>

(* The threads around the request, and the processors, are interchangeable. *)
MCSym == MCThreadSym \cup MCCpuSym
=============================================================================
