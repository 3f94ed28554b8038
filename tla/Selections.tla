----------------------------- MODULE Selections -----------------------------
(***************************************************************************)
(* Picking elements of a sequence and keeping their order, as Rust's       *)
(* `filter`, `partition` and `retain` do.                                  *)
(***************************************************************************)
EXTENDS Integers, FiniteSets, Sequences

(* The n-th of a set of numbers, the least of which is the first. *)
Nth(I, n) == CHOOSE k \in I : Cardinality({j \in I : j <= k}) = n

(* The elements of q at the positions I, in their order. *)
At(q, I) == [n \in 1 .. Cardinality(I) |-> q[Nth(I, n)]]
=============================================================================
