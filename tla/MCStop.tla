------------------------------- MODULE MCStop -------------------------------
(***************************************************************************)
(* Analyzer keeps the promise of IncidentLog.  `owed` is history: what had *)
(* been reported and flagged, and was not lost in the pipe, when the run   *)
(* was stopped.  The pipe is empty before the wait for the traces is over. *)
(***************************************************************************)
EXTENDS Analyzer

VARIABLE owed

Full(q)  == {s \in ToSet(q) : ~s.minor}
Reported == Full(wire) \cup Full(rx) \cup pending
Nothing  == [stalls |-> {}, marks |-> 0]

StopInit == Init /\ owed = Nothing

StopNext ==
  /\ Next
  /\ owed' = IF phase = "running" /\ phase' = "stopping"
             THEN [stalls |-> Reported', marks |-> Len(MarkLine)] ELSE owed

StopSpec == StopInit /\ [][StopNext]_<<vars, owed>> /\ Fairness

(* The analyzer's state as IncidentLog sees it. *)
Times       == 0 .. MaxNow + StopWait + 1
FullStalls  == [kind : Kinds, cpu : Probes, start : Times, end : Times, minor : {FALSE}]
FiledStalls == {incidents[i].stalls : i \in Filed}
State       == CASE phase = "running" -> "on"
                 [] phase \in {"stopping", "flushed"} -> "ending"
                 [] phase = "done" -> "over"

Log == INSTANCE IncidentLog WITH
  Stalls <- FullStalls, Moments <- Times, reported <- Reported, filed <- FiledStalls,
  line <- MarkLine, answered <- Len(examined), state <- State

(* Every tick, and the end of the run, does what IncidentLog promises: a   *)
(* stall that was reported is filed in exactly one incident, flagged       *)
(* moments are answered in their order, and a run that is being stopped    *)
(* ends once everything owed is settled, and does end.                     *)
PromiseKept == Log!Spec
=============================================================================
