-------------------------- MODULE MCManifestTraces --------------------------
(***************************************************************************)
(* What is kept of the two manifest traces, on small instances: the        *)
(* storage port driver's (StorPort) and the graphics trace (GpuTrace).     *)
(* They have sessions, consumers and locks of their own, so each is        *)
(* explored alone: the subject is chosen at the start.  The storage trace  *)
(* is explored twice, with several pieces and no retry, and with retries   *)
(* and resets but a single piece.  So is the graphics trace, with          *)
(* refreshes and presents but no residency operation, and with residency   *)
(* operations but no refresh.                                              *)
(***************************************************************************)
EXTENDS StorPort, GpuTrace

CONSTANT ResidencyTs  \* bound: the newest trace time when residency is explored

VARIABLE subject

MCGpuCap == [refresh |-> 3, presents |-> 3, residency |-> 2]

ManifestTracesInit ==
  /\ subject \in {"pieces", "retries", "frames", "residency"}
  /\ Init /\ GpuInit
  /\ subject # "residency" => open = [t \in GpuTids |-> Idle]
  /\ subject \in {"frames", "residency"} => req_cap = CHOOSE n \in ReqCaps : TRUE

(* The presents are a ring like the others, so one of them is enough here. *)
FramesNext == GpuNext /\ UNCHANGED <<open, done>> /\ Len(gpu_log'["presents"]) <= 1

ResidencyNext ==
  /\ GpuNext /\ ticks' = {} /\ gpu_log'["presents"] = <<>>
  /\ gpu_latest' <= ResidencyTs

ManifestTracesNext ==
  /\ UNCHANGED subject
  /\ \/ subject = "pieces"    /\ Next    /\ retried' = 0              /\ UNCHANGED gpuVars
     \/ subject = "retries"   /\ Next    /\ Cardinality(pieces') <= 1 /\ UNCHANGED gpuVars
     \/ subject = "frames"    /\ FramesNext                           /\ UNCHANGED vars
     \/ subject = "residency" /\ ResidencyNext                        /\ UNCHANGED vars

ManifestTracesSpec == ManifestTracesInit /\ [][ManifestTracesNext]_<<subject, vars, gpuVars>>
=============================================================================
