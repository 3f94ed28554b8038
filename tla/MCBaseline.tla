----------------------------- MODULE MCBaseline -----------------------------
(* Constants for Baseline: two PCs with one problem each that is a rate,   *)
(* another of the same program, and one that only the event log knows of.  *)
EXTENDS Baseline, TLC

MCMachine == ("pc1" :> "m1") @@ ("pc2" :> "m2")
MCProgram == ("p" :> "app") @@ ("q" :> "app") @@ ("l" :> "crashes")
Wrong(p, q, l) == ("p" :> p) @@ ("q" :> q) @@ ("l" :> l)
MCAtFirst == {("pc1" :> Wrong(n[1], n[2], n[3])) @@ ("pc2" :> Wrong(0, 0, 0)) : n \in {<<0, 3, 1>>, <<3, 3, 0>>}}
=============================================================================
