-------------------------------- MODULE Sums --------------------------------
(***************************************************************************)
(* Sums over finite sets, as Rust's `sum` and `count` loops compute them.  *)
(***************************************************************************)
EXTENDS Integers, FiniteSets

(* f summed over S, one member after another. *)
SumOver(S, f) ==
  LET sum[T \in SUBSET S] == IF T = {} THEN 0
                             ELSE LET x == CHOOSE y \in T : TRUE IN f[x] + sum[T \ {x}]
  IN sum[S]
=============================================================================
