---------------------------- MODULE IncidentLog ----------------------------
(***************************************************************************)
(* What the tick promises to the rest of the program, whatever it does to  *)
(* keep it: every full stall reported by a probe ends up in one incident,  *)
(* and every flagged moment is answered in its turn.  When the run is being*)
(* stopped, what was reported or flagged before that is owed: the run does *)
(* not end before it is settled, and it does end.                          *)
(***************************************************************************)
EXTENDS Naturals, Sequences

CONSTANTS Stalls, Moments

VARIABLES
  reported,   \* full stalls a probe has reported and no incident holds yet
  filed,      \* the incidents: disjoint sets of stalls
  line,       \* the flagged moments, in the order they were flagged...
  answered,   \* ...of which this many have been answered
  state,      \* "on", "ending", "over"
  owed        \* what must be settled before it is over: stalls, and how many moments

logged == <<reported, filed, line, answered, state, owed>>

Nothing == [stalls |-> {}, marks |-> 0]

Init ==
  /\ reported = {} /\ filed = {} /\ line = <<>> /\ answered = 0
  /\ state = "on" /\ owed = Nothing

Report(s) ==
  /\ s \notin reported \cup UNION filed
  /\ reported' = reported \cup {s}
  /\ UNCHANGED <<filed, line, answered, state, owed>>

Flag(t) ==
  /\ line' = Append(line, t)
  /\ UNCHANGED <<reported, filed, answered, state, owed>>

Answer(n) ==
  /\ n > answered /\ n <= Len(line) /\ answered' = n
  /\ UNCHANGED <<reported, filed, line, state, owed>>

(* Some of what was reported goes into incidents, one or several at once. *)
Files(batch) ==
  /\ \A i, j \in batch : i # j => i \cap j = {}
  /\ {} \notin batch
  /\ filed' = filed \cup batch
  /\ reported' = reported \ UNION batch

File(batch) == batch # {} /\ Files(batch) /\ UNCHANGED <<line, answered, state, owed>>

(* The run is being stopped: reports still under way may be lost. *)
End(lost) ==
  /\ state = "on" /\ state' = "ending"
  /\ reported' = reported \ lost
  /\ owed' = [stalls |-> reported \ lost, marks |-> Len(line)]
  /\ UNCHANGED <<filed, line, answered>>

(* The last incidents are filed and the run is over. *)
Close(batch) ==
  /\ state = "ending" /\ state' = "over"
  /\ Files(batch)
  /\ owed.stalls \subseteq UNION filed' /\ owed.marks <= answered
  /\ UNCHANGED <<line, answered, owed>>

Next ==
  \/ \E s \in Stalls : Report(s)
  \/ \E t \in Moments : Flag(t)
  \/ \E n \in 1 .. Len(line) : Answer(n)
  \/ \E batch \in SUBSET SUBSET reported : File(batch) \/ Close(batch)
  \/ \E lost \in SUBSET reported : End(lost)

Safety == Init /\ [][Next]_logged

Spec == Safety /\ (state = "ending" ~> state = "over")
=============================================================================
