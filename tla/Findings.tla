------------------------------ MODULE Findings ------------------------------
(***************************************************************************)
(* The list of findings every section of the report writes into            *)
(* (summary/mod.rs).  A finding is keyed by its subject; whichever section *)
(* introduces the subject decides its title, its advice and the symptom it *)
(* is grouped under, and everything after it can only add.                 *)
(*                                                                         *)
(* A subject is a pair <<kind, name>> ("driver", "net"); an item of        *)
(* evidence is the fact it states and the number of times it says it       *)
(* happened; an advice is the sequence of its items.  Titles are the       *)
(* section that wrote them.                                                *)
(***************************************************************************)
EXTENDS Integers, Sequences, FiniteSets, SequencesExt

CONSTANTS ShownInFull,  \* SHOWN_IN_FULL: findings shown before the rest are folded
          ShownMax,     \* SHOWN_MAX: the ceiling once every group has a place
          MaxMetrics    \* MAX_METRICS: numbers kept per finding

ASSUME FindingsAssumption ==
  /\ ShownInFull \in Nat \ {0} /\ MaxMetrics \in Nat \ {0}
  /\ ShownMax = ShownInFull + 3

Low == 1
Medium == 2
High == 3

WholePc == 1
Interruptions == 2
OneProgram == 3
Health == 4
Groups == {WholePc, Interruptions, OneProgram, Health}

Worse(a, b) == IF a >= b THEN a ELSE b
Milder(a, b) == IF a <= b THEN a ELSE b

Ev(what, n) == [what |-> what, n |-> n]

HasKey(fs, key) == \E i \in DOMAIN fs : fs[i].key = key

Keys(fs) == {fs[i].key : i \in DOMAIN fs}

\* The finding of a subject that has one.
Of(fs, key) == fs[CHOOSE i \in DOMAIN fs : fs[i].key = key]

Says(f, what) == \E i \in DOMAIN f.evidence : f.evidence[i].what = what

Edit(fs, key, op(_)) == [i \in DOMAIN fs |-> IF fs[i].key = key THEN op(fs[i]) ELSE fs[i]]

add(fs, group, key, sev, title, ev, advice, impact) ==
  IF HasKey(fs, key)
  THEN Edit(fs, key, LAMBDA f : [f EXCEPT !.severity = Worse(@, sev),
                                          !.evidence = Append(@, ev),
                                          !.impact = @ + impact])
  ELSE Append(fs, [key |-> key, group |-> group, severity |-> sev, title |-> title,
                   evidence |-> <<ev>>, advice |-> <<advice>>, metrics |-> <<>>,
                   impact |-> impact])

note(fs, key, ev) == Edit(fs, key, LAMBDA f : [f EXCEPT !.evidence = Append(@, ev)])

raise(fs, key, sev) == Edit(fs, key, LAMBDA f : [f EXCEPT !.severity = Worse(@, sev)])

advise(fs, key, advice) ==
  Edit(fs, key, LAMBDA f : IF advice \in Range(f.advice) THEN f
                           ELSE [f EXCEPT !.advice = Append(@, advice)])

\* The same label twice keeps the larger value; past MaxMetrics nothing is attached.
measure(fs, key, label, value) ==
  Edit(fs, key, LAMBDA f :
    IF \E i \in DOMAIN f.metrics : f.metrics[i].label = label
    THEN [f EXCEPT !.metrics = [i \in DOMAIN @ |-> IF @[i].label = label
                                                   THEN [@[i] EXCEPT !.value = Worse(@, value)]
                                                   ELSE @[i]]]
    ELSE IF Len(f.metrics) < MaxMetrics
         THEN [f EXCEPT !.metrics = Append(@, [label |-> label, value |-> value])]
         ELSE f)

\* Several notes on one subject, in order.
Notes(fs, key, evs) == Edit(fs, key, LAMBDA f : [f EXCEPT !.evidence = @ \o evs])

Above(f, g) == \/ f.severity > g.severity
               \/ f.severity = g.severity /\ f.impact > g.impact

\* sort_by_key is stable: equal findings keep the order they were introduced in.
Ranked(fs) ==
  LET Before(j, i) == Above(fs[j], fs[i]) \/ (~Above(fs[i], fs[j]) /\ j < i)
      Rank(i) == Cardinality({j \in DOMAIN fs : Before(j, i)}) + 1
  IN  [r \in DOMAIN fs |-> fs[CHOOSE i \in DOMAIN fs : Rank(i) = r]]

-----------------------------------------------------------------------------
(* What the first screen shows of a ranked list.                           *)

FirstOf(fs, group) == CHOOSE i \in DOMAIN fs :
  fs[i].group = group /\ \A j \in 1..(i - 1) : fs[j].group # group

\* Mutant of shown_in_full: no place is kept for the groups that have nothing shown.
WorstOnly(fs) == {i \in DOMAIN fs : i <= ShownInFull}

shown_in_full(fs) ==
  LET real == {i \in DOMAIN fs : fs[i].severity > Low}
      pool == IF real = {} THEN DOMAIN fs ELSE real
      worst == {i \in pool : Cardinality({j \in pool : j < i}) < ShownInFull}
      Take(shown, g) == IF \/ \E i \in shown : fs[i].group = g
                           \/ \A i \in DOMAIN fs : fs[i].group # g
                           \/ Cardinality(shown) >= ShownMax
                        THEN shown ELSE shown \cup {FirstOf(fs, g)}
  IN  FoldLeft(Take, worst, <<WholePc, Interruptions, OneProgram, Health>>)

NoStep == <<"none", "">>

\* The order of attack: the worst finding, the worst real one shown of another
\* group, and how many warnings are left for later.
plan(fs) ==
  LET shown == shown_in_full(fs)
      first == fs[CHOOSE i \in shown : \A j \in shown : i <= j]
      Other == {i \in shown : fs[i].group # first.group /\ fs[i].severity > Low}
  IN  IF fs = <<>> \/ first.severity = Low THEN [start |-> NoStep, then |-> NoStep, later |-> 0]
      ELSE [start |-> first.key,
            then |-> IF Other = {} THEN NoStep
                     ELSE fs[CHOOSE i \in Other : \A j \in Other : i <= j].key,
            later |-> Cardinality({i \in DOMAIN fs : fs[i].group = Health})]
=============================================================================
