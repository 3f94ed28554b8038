----------------------------- MODULE MCAnalyzer -----------------------------
(* Model checking of Analyzer: a few stalls, a few ticks of the clock. *)
EXTENDS Analyzer

=============================================================================
