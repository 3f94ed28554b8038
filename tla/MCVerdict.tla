----------------------------- MODULE MCVerdict ------------------------------
(* Constants for Verdict: two drivers, two programs, and every way for a   *)
(* processor to spend its time that the code tells apart.                  *)
EXTENDS Verdict, TLC

Spends(kind, mod, prog) == [kind |-> kind, mod |-> mod, prog |-> prog]

MCDoings ==
  {Spends("idle", "none", "Idle"), Spends("page", "none", "Idle"), Spends("runs", "none", "app"),
   Spends("calls", "d", "app"), Spends("spins", "d", "app"), Spends("spins", "e", "other"),
   Spends("long", "d", "Idle"), Spends("long", "d", "app"), Spends("storm", "d", "app"),
   Spends("storm", "e", "Idle"), Spends("nests", "d", "Idle"), Spends("dark", "none", "none")}

(* What each source did in the slots of the reference window: the same in  *)
(* every slot, or every other slot.                                        *)
Steady(n) == [i \in 1 .. 4 |-> n]
MCRefs == {("d" :> Steady(1)) @@ ("e" :> Steady(0)) @@ ("clock" :> Steady(1))}

MCRequests == {{}, {[disk |-> 1, from |-> 0, to |-> 20]}}
MCCpuSym == Permutations(Cpus)
=============================================================================
