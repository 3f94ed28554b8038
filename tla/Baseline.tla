------------------------------ MODULE Baseline ------------------------------
(***************************************************************************)
(* Before and after (baseline/mod.rs, baseline/compare.rs): every run      *)
(* leaves a small file of its numbers beside its report, and the next run  *)
(* of the same PC compares itself with the newest of them.  Several PCs    *)
(* may share the folder; saving may fail, and may fail half way.           *)
(*                                                                         *)
(* What is wrong with a PC is a rate per problem; a run finds Rate x length*)
(* events of every problem it watches for.  Problems of one program are    *)
(* findings under keys that differ in the process ID only.  Wording, ages  *)
(* and the worst-case numbers are left out.                                *)
(***************************************************************************)
EXTENDS Integers, FiniteSets, Sums

CONSTANTS
  PCs, Machine,     \* [PCs -> id]: PCs of one model share one
  Problems,
  Program,          \* [Problems -> what the finding is about]
  AtFirst,           \* what may be wrong with the PCs at first: [PCs -> [Problems -> rate]]
  Logged,           \* problems that are counted from the event log's last days
  Watches,          \* what a run may watch for: sets of problems
  Lengths,          \* of a run
  Saves,            \* how saving may end: "whole", "not at all", "cut"
  MaxRate,
  WorthTelling,           \* the severity (here the rate) from which a finding is worth a verdict
  LookBack,         \* days the event log is read back
  MaxAge,           \* MAX_AGE_DAYS
  NoiseShare,       \* NOISE_SHARE, per cent
  SameLength,       \* lengths this close, per cent of the longer, are compared as they are
  MaxRuns, MaxChanges, MaxDays   \* bounds

(* What the event log alone knows of is a subject of its own. *)
ASSUME BaselineAssumption ==
  /\ IsFiniteSet(Problems) /\ Logged \subseteq Problems
  /\ \A p \in Logged, q \in Problems \ Logged : Program[p] # Program[q]
  /\ \A w \in Watches : w \subseteq Problems
  /\ AtFirst \subseteq [PCs -> [Problems -> Nat]] /\ MaxRate \in Nat
  /\ Lengths \subseteq Nat \ {0} /\ WorthTelling \in Nat /\ LookBack \in Nat
  /\ MaxAge \in Nat /\ NoiseShare \in Nat /\ SameLength \in Nat

VARIABLES
  day,
  rates,     \* [PCs -> [Problems -> rate]]: what is wrong with it
  bad,       \* [PCs -> [Logged -> the last day the log holds such an event, or 0]]
  changes,
  folder,    \* the data files: [path, rec]
  last,      \* [PCs -> the last run whose numbers were saved, as it really was]
  spoken     \* what was said of the newest run

baselineVars == <<day, rates, bad, changes, folder, last, spoken>>

None == [none |-> TRUE]

BaselineInit ==
  /\ day = 1 /\ changes = 0 /\ folder = {}
  /\ rates \in AtFirst
  /\ bad = [c \in PCs |-> [p \in Logged |-> IF rates[c][p] > 0 THEN 1 ELSE 0]]
  /\ last = [c \in PCs |-> None] /\ spoken = None

-----------------------------------------------------------------------------
(* The world (external): a fix or a fault; a day that passes.              *)
Turns(c, p, r) ==
  /\ changes < MaxChanges /\ r # rates[c][p] /\ changes' = changes + 1
  /\ rates' = [rates EXCEPT ![c][p] = r]
  /\ bad' = IF p \in Logged /\ r > 0 THEN [bad EXCEPT ![c][p] = day] ELSE bad
  /\ UNCHANGED <<day, folder, last, spoken>>

DayPasses ==
  /\ day < MaxDays /\ day' = day + 1
  /\ bad' = [c \in PCs |-> [p \in Logged |-> IF rates[c][p] > 0 THEN day + 1 ELSE bad[c][p]]]
  /\ UNCHANGED <<rates, changes, folder, last, spoken>>

-----------------------------------------------------------------------------
(* The record.                                                             *)

(* Mutated: the process ID stays in the key. *)
AsIs(key) == key

stable_key(key) == [what |-> key.what]

(* The findings of a run, one for every problem it sees. *)
FindingsOf(c, length, watched, pids) ==
  {[key |-> [what |-> Program[p], pid |-> <<p, pids>>], severity |-> rates[c][p],
    value |-> rates[c][p] * length, looks_back |-> FALSE] : p \in {q \in watched \ Logged : rates[c][q] > 0}}
  \cup
  {[key |-> [what |-> Program[p], pid |-> <<p, 0>>], severity |-> WorthTelling, value |-> LookBack, looks_back |-> TRUE]
    : p \in {q \in Logged : bad[c][q] > 0 /\ day - bad[c][q] < LookBack}}

(* record_of: findings that share a stable key collapse onto the worst; the *)
(* stalls are what the run counted in all.                                 *)
record_of(c, length, watched, found) ==
  LET kept == {f \in found : \A g \in found : stable_key(g.key) = stable_key(f.key) => g.severity <= f.severity}
  IN [machine |-> Machine[c], time |-> day, seconds |-> length,
      stalls |-> SumOver(watched \ Logged, [p \in Problems |-> rates[c][p] * length]),
      findings |-> {[f EXCEPT !.key = stable_key(f.key)] : f \in kept}]

(* What reading a file yields that was cut off after the line of the PC.   *)
Cut(rec) == [rec EXCEPT !.seconds = 0, !.stalls = 0, !.findings = {}]

usable(rec, now) == rec.machine = now.machine /\ now.time > rec.time /\ now.time - rec.time <= MaxAge

find_baseline(now) ==
  LET able == {f.rec : f \in {g \in folder : usable(g.rec, now)}}
  IN {r \in able : \A o \in able : o.time <= r.time}

-----------------------------------------------------------------------------
(* The comparison.                                                         *)
Longer(x, y) == IF x >= y THEN x ELSE y
Apart(x, y) == IF x >= y THEN x - y ELSE y - x
Length(rec) == Longer(rec.seconds, 1)

(* scales: what the two runs' counts are divided by. *)
scales(prev, now) ==
  LET a == Length(prev) b == Length(now)
  IN IF Apart(a, b) * 100 <= SameLength * Longer(a, b) THEN <<1, 1>> ELSE <<a, b>>

(* classify: moved by more than one event, and by more than the noise.     *)
classify(before, after, scale) ==
  LET x == before * scale[2] y == after * scale[1]
  IN IF Apart(x, y) <= scale[1] \/ Apart(x, y) * 100 <= NoiseShare * Longer(x, y) THEN "same"
     ELSE IF y < x THEN "better" ELSE "worse"

compare(prev, now) ==
  LET scale  == scales(prev, now)
      keys   == {f.key : f \in prev.findings \cup now.findings}
      of(rec, k) == {f \in rec.findings : f.key = k}
      worth(k) == /\ \E f \in of(prev, k) \cup of(now, k) : f.severity >= WorthTelling
                  /\ \A f \in (IF of(now, k) # {} THEN of(now, k) ELSE of(prev, k)) : ~f.looks_back
      gone   == {k \in keys : worth(k) /\ of(now, k) = {}}
      fresh  == {k \in keys : worth(k) /\ of(prev, k) = {}}
      change(k) == LET o == CHOOSE f \in of(prev, k) : TRUE n == CHOOSE f \in of(now, k) : TRUE
                   IN classify(o.value, n.value, IF n.looks_back THEN <<1, 1>> ELSE scale)
      moved(what) == {k \in keys \ (gone \cup fresh) : of(prev, k) # {} /\ of(now, k) # {} /\ worth(k) /\ change(k) = what}
      down == gone \cup moved("better")
      up   == fresh \cup moved("worse")
  IN CASE down = {} /\ up = {} -> classify(prev.stalls, now.stalls, scale)
       [] down # {} /\ up = {} -> "better"
       [] down = {} /\ up # {} -> "worse"
       [] OTHER                -> "mixed"

(* attach, called with a summary: compare first, then save.  The files of  *)
(* one PC tell the times of its runs apart.                                *)
Run(c, length, watched, pids) ==
  LET found == FindingsOf(c, length, watched, pids)
      now   == record_of(c, length, watched, found)
      truth(how) == [rates |-> rates[c], watched |-> watched, length |-> length, whole |-> how = "whole"]
      path  == Cardinality(folder) + 1
  IN /\ path <= MaxRuns
     /\ \A f \in folder : f.rec.machine = Machine[c] => f.rec.time < day
     /\ \E how \in Saves :
          /\ folder' = CASE how = "whole" -> folder \cup {[path |-> path, rec |-> now]}
                         [] how = "cut"   -> folder \cup {[path |-> path, rec |-> Cut(now)]}
                         [] OTHER         -> folder
          /\ last' = IF how = "not at all" THEN last ELSE [last EXCEPT ![c] = truth(how)]
          /\ IF find_baseline(now) = {} THEN spoken' = None
             ELSE \E prev \in find_baseline(now) :
               spoken' = [verdict |-> compare(prev, now), pc |-> c, then |-> last[c], now |-> truth(how)]
     /\ UNCHANGED <<day, rates, bad, changes>>

BaselineNext ==
  \/ DayPasses
  \/ \E c \in PCs :
       \/ \E p \in Problems, r \in 0 .. MaxRate : Turns(c, p, r)
       \/ \E length \in Lengths, watched \in Watches, pids \in {1, 2} : Run(c, length, watched, pids)

BaselineSpec == BaselineInit /\ [][BaselineNext]_baselineVars

-----------------------------------------------------------------------------
Fell == \E p \in Problems \ Logged : spoken.now.rates[p] < spoken.then.rates[p]
Rose == \E p \in Problems \ Logged : spoken.now.rates[p] > spoken.then.rates[p]

HasNoTwin(c) == \A d \in PCs \ {c} : Machine[d] # Machine[c]

(* Two runs of one PC that watched for the same, and whose lengths are     *)
(* either equal or different enough to be compared per minute, are judged  *)
(* by what changed on that PC between them: nothing is better unless some  *)
(* problem became rarer, nothing is worse unless one became more frequent, *)
(* whatever process IDs, other PCs and lost files come in between, and     *)
(* nothing is said of what the event log still remembers.  PCs of one      *)
(* model share an id "on purpose" (baseline/mod.rs): what is said of one   *)
(* of them may be about its twin.                                          *)
ChangeIsReal ==
  (spoken # None /\ spoken.then # None /\ HasNoTwin(spoken.pc)) =>
    LET a == spoken.then.length b == spoken.now.length
    IN (/\ spoken.then.whole /\ spoken.then.watched = spoken.now.watched
        /\ a = b \/ Apart(a, b) * 100 > SameLength * Longer(a, b)) =>
         /\ spoken.verdict \in {"better", "mixed"} => Fell
         /\ spoken.verdict \in {"worse", "mixed"} => Rose

(* "The one thing this must never do is claim a fix that has not been      *)
(* shown": better is said only when some problem became rarer.             *)
FixIsShown ==
  (spoken # None /\ spoken.then # None /\ spoken.then.whole /\ spoken.then.watched = spoken.now.watched
     /\ spoken.verdict = "better") => Fell

(* ... and never of what this run did not watch for. *)
FixIsWatched == (spoken # None /\ spoken.then # None /\ spoken.then.whole /\ spoken.verdict = "better") => Fell

(* "Any problem at all (missing, unreadable, truncated ...) is simply no   *)
(* baseline": what is compared with is a file that was written whole.      *)
TruncatedIsNoBaseline ==
  (spoken # None /\ spoken.then # None /\ spoken.then.length = spoken.now.length
    /\ spoken.then.rates = spoken.now.rates /\ spoken.then.watched = spoken.now.watched) => spoken.verdict = "same"
=============================================================================
