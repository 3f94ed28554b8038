--------------------------- MODULE MCKernelTrace ---------------------------
(***************************************************************************)
(* What the consumer of the kernel trace keeps, on small instances: the    *)
(* rings of records (SwitchRings), the names and the waiting of files      *)
(* (FileTally) and the call stacks (Stacks).  The three share the consumer *)
(* thread and nothing else, so each is explored on its own: the subject is *)
(* chosen at the start and the other two stand still.                      *)
(***************************************************************************)
EXTENDS SwitchRings, FileTally, Stacks

VARIABLE subject

\* A file's key is an address and a thread a number: which of them is which makes no difference.
\* The threads of the rings and those of the stacks are the same numbers.
Names == Permutations(Keys) \cup Permutations(Tids)

KernelTraceInit ==
  /\ subject \in {"rings", "files", "stacks"}
  /\ Init /\ FilesInit /\ StacksInit
  /\ subject # "files"  => owner = [k \in Keys |-> Closed]
  /\ subject # "stacks" => set = CHOOSE s \in Sets : TRUE
  /\ subject # "stacks" => issued = [x \in Irps |-> Never]

KernelTraceNext ==
  /\ UNCHANGED subject
  /\ \/ subject = "rings"  /\ Next       /\ UNCHANGED <<filesVars, stackVars>>
     \/ subject = "files"  /\ FilesNext  /\ UNCHANGED <<vars, stackVars>>
     \/ subject = "stacks" /\ StacksNext /\ UNCHANGED <<vars, filesVars>>

KernelTraceSpec == KernelTraceInit /\ [][KernelTraceNext]_<<subject, vars, filesVars, stackVars>>
=============================================================================
