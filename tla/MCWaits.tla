------------------------------ MODULE MCWaits ------------------------------
(* Constants for Waits: the probe belongs to the tool, every other thread  *)
(* to a program of its own.                                                *)
EXTENDS Waits

MCOwners == [t \in SchedThreads |-> IF t = Probe THEN OwnTool ELSE t - 1]
=============================================================================
