-------------------------------- MODULE Rings --------------------------------
(***************************************************************************)
(* What the rings of trace records have in common.  A ring is a suffix of  *)
(* its history: `lg` is everything ever pushed on it and `h` how many      *)
(* records were popped from its front again.                               *)
(***************************************************************************)
EXTENDS Integers, Sequences

Max2(a, b) == IF a >= b THEN a ELSE b

(* Pops from the front while the front record is older than `cutoff`. *)
DropsTo(lg, h, cutoff, n) ==
  /\ \A i \in h + 1 .. n : lg[i].ts < cutoff
  /\ n < Len(lg) => lg[n + 1].ts >= cutoff

PruneOne(lg, h, cutoff) == CHOOSE n \in h .. Len(lg) : DropsTo(lg, h, cutoff, n)

(* VecDeque::partition_point(|r| r.ts < t): a binary search.  On a ring    *)
(* that is not sorted the search may settle on any position where the      *)
(* predicate changes, so all of them are possible answers.                 *)
PartitionPoints(lg, h, t) ==
  {a \in h .. Len(lg) :
     /\ a > h => lg[a].ts < t
     /\ a < Len(lg) => lg[a + 1].ts >= t}

=============================================================================
