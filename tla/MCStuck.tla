------------------------------ MODULE MCStuck ------------------------------
(* Constants for DiskStuck: every thread belongs to a program of the user. *)
EXTENDS DiskStuck, TLC

MCProgram == [t \in Threads |-> "app"]
MCThreadSym == Permutations(Threads)
=============================================================================
