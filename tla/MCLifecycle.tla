---------------------------- MODULE MCLifecycle ----------------------------
(* Lifecycle on a small instance: see lifecycle.cfg.                        *)
EXTENDS Lifecycle

=============================================================================
