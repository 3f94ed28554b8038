------------------------------ MODULE MCReport ------------------------------
(***************************************************************************)
(* What a person reads of a run, on small instances: the lines about       *)
(* single events while it goes on (Notables), the findings at its end      *)
(* (Summary), and the comparison with the run before (Baseline).  Each is  *)
(* explored alone: the subject is chosen at the start.  The lines come in  *)
(* two kinds of run: with MaxEvents events and no freeze, and with one     *)
(* event less and freezes.                                                 *)
(***************************************************************************)
EXTENDS Notables, MCSummary, MCBaseline

VARIABLE subject

ReportInit ==
  /\ subject \in {"events", "freezes", "findings", "comparison"}
  /\ Init
  /\ subject # "findings"   => run = Quiet
  /\ SumInit
  /\ subject # "comparison" => rates = CHOOSE r \in AtFirst : TRUE
  /\ BaselineInit

ReportNext ==
  /\ UNCHANGED subject
  /\ \/ subject = "events"     /\ Next         /\ UNCHANGED <<sumVars, baselineVars>> /\ stopped' = {}
     \/ subject = "freezes"    /\ Next         /\ UNCHANGED <<sumVars, baselineVars>> /\ pushed' < MaxEvents
     \/ subject = "findings"   /\ SumNext      /\ UNCHANGED <<vars, baselineVars>>
     \/ subject = "comparison" /\ BaselineNext /\ UNCHANGED <<vars, sumVars>>

ReportSpec == ReportInit /\ [][ReportNext]_<<subject, vars, sumVars, baselineVars>>
=============================================================================
