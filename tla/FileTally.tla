----------------------------- MODULE FileTally -----------------------------
(***************************************************************************)
(* Which file waited: the names the kernel gives to file objects and the   *)
(* waiting that is added up under them (src/state.rs `FileNames`,          *)
(* `DiskFileWait`, `cap_by_wait`; the FileIo, DiskIo and HardFault arms of *)
(* `handle_event` in src/etw/events.rs).                                   *)
(*                                                                         *)
(* A file object's address, its key, is reused when the file is closed.    *)
(* Windows logs a name when a file is opened or deleted and, once the      *)
(* session is being stopped, one for every file that is still open; files  *)
(* that were open before the run have no name until then.  Requests carry  *)
(* only the key.                                                           *)
(*                                                                         *)
(* `owner` is which file has a key, which the program never sees.  `from`  *)
(* in a tally is history: the files whose waiting is in it; `blind` says   *)
(* that some of it was added while the key had no name.  `evicted` holds   *)
(* the keys whose name was ever pushed out, and `had` those that had one   *)
(* when the session was being stopped.                                     *)
(***************************************************************************)
EXTENDS Integers, FiniteSets, Sequences, SequencesExt, FiniteSetsExt, Functions

CONSTANTS
  Keys, Files, Pids, Durations,
  NameCap,      \* FILE_NAME_CAP
  WaitCap,      \* FILE_WAIT_CAP
  PidCap,       \* FILE_WAIT_PIDS
  MaxSteps     \* bound: opens, requests and faults

Closed == "closed"

ASSUME FileTallyAssumption ==
  /\ Keys # {} /\ IsFiniteSet(Keys) /\ IsFiniteSet(Pids) /\ Closed \notin Files
  /\ Durations \subseteq Nat /\ IsFiniteSet(Durations)
  /\ NameCap \in Nat \ {0} /\ WaitCap \in Nat \ {0} /\ PidCap \in Nat \ {0}
  /\ WaitCap + NameCap \div 2 <= NameCap

VARIABLES
  owner,            \* [Keys -> Files \cup {Closed}]
  file_names,       \* FileNames.map: a function on some of the keys
  order,            \* FileNames.order
  file_wait,        \* Inner.file_wait: a function on some of the keys
  fault_file,       \* Inner.fault_file: on some <<pid, key>>
  todo,             \* keys the rundown has still to name
  phase,            \* "running" or "rundown"
  evicted, had, steps

nameVars  == <<file_names, order, evicted>>
tallyVars == <<file_wait, fault_file>>
filesVars == <<owner, nameVars, tallyVars, todo, phase, had, steps>>

Empty == [k \in {} |-> 0]
Named(k) == k \in DOMAIN file_names

FilesInit ==
  /\ owner \in [Keys -> Files \cup {Closed}]
  /\ file_names = Empty /\ order = <<>> /\ file_wait = Empty /\ fault_file = Empty
  /\ todo = {} /\ phase = "running" /\ evicted = {} /\ had = {} /\ steps = 0

-----------------------------------------------------------------------------

(* FileNames::insert. *)
insert(key, name) ==
  LET grown == IF Named(key) THEN order ELSE Append(order, key)
      over  == Len(grown) > NameCap
      names == [k \in DOMAIN file_names \cup {key} |-> IF k = key THEN name ELSE file_names[k]]
  IN /\ order' = IF over THEN Tail(grown) ELSE grown
     /\ file_names' = IF over THEN Restrict(names, DOMAIN names \ {Head(grown)}) ELSE names
     /\ evicted' = IF over THEN evicted \cup {Head(grown)} ELSE evicted

(* Mutated: a name from the rundown goes in like any other. *)
NeverSkips(key, rundown) == FALSE

(* A name from the rundown that is of no use any more. *)
Skips(key, rundown) ==
  /\ rundown /\ Cardinality(DOMAIN file_names) >= NameCap \div 2
  /\ key \notin DOMAIN file_wait

(* Mutated: the old file's waiting stays under the key. *)
NameKeepsWaiting(key, name, rundown) ==
  IF Skips(key, rundown) THEN UNCHANGED <<nameVars, tallyVars>>
  ELSE insert(key, name) /\ UNCHANGED tallyVars

(* handle_event on a FileIo name: a key that changes its name loses the    *)
(* waiting that was added up under the old one.                            *)
file_name(key, name, rundown) ==
  IF Skips(key, rundown) THEN UNCHANGED <<nameVars, tallyVars>>
  ELSE /\ file_wait' = IF Named(key) /\ file_names[key] # name
                       THEN Restrict(file_wait, DOMAIN file_wait \ {key}) ELSE file_wait
       /\ insert(key, name)
       /\ UNCHANGED fault_file

(* cap_by_wait: the maps it may leave, since it visits the entries in no   *)
(* particular order.  The cut is the total in the middle.                  *)
cap_by_wait(m) ==
  LET n    == Cardinality(DOMAIN m)
      cut  == Min({m[k].total : k \in {j \in DOMAIN m :
                    Cardinality({i \in DOMAIN m : m[i].total <= m[j].total}) > n \div 2}})
      over == {k \in DOMAIN m : m[k].total > cut}
      room == Min({WaitCap \div 2, Cardinality(over)})
  IN IF n <= WaitCap THEN {m} ELSE {Restrict(m, K) : K \in kSubset(room, over)}

(* One process's share, entered or added to. *)
Plus(f, pid, dur) ==
  [p \in DOMAIN f \cup {pid} |-> (IF p \in DOMAIN f THEN f[p] ELSE 0) + (IF p = pid THEN dur ELSE 0)]

(* The short list of processes inside DiskFileWait::add. *)
add_pid(by_pid, pid, dur) ==
  IF pid \in DOMAIN by_pid \/ Cardinality(DOMAIN by_pid) < PidCap
  THEN Plus(by_pid, pid, dur) ELSE by_pid

NoWait == [total |-> 0, from |-> {}, blind |-> FALSE]

(* FileWait after one more request; its count and maximum are left out. *)
Waited(w, key, dur) ==
  [total |-> w.total + dur, from |-> w.from \cup {owner[key]}, blind |-> w.blind \/ ~Named(key)]

(* DiskFileWait::add on the key's entry, made when there is none; `asked`  *)
(* is what each process really waited.                                     *)
add(key, pid, dur) ==
  LET known == key \in DOMAIN file_wait
      w == Waited(IF known THEN file_wait[key] ELSE NoWait, key, dur)
      u == [total |-> w.total, from |-> w.from, blind |-> w.blind,
            by_pid |-> add_pid(IF known THEN file_wait[key].by_pid ELSE Empty, pid, dur),
            asked |-> Plus(IF known THEN file_wait[key].asked ELSE Empty, pid, dur)]
  IN [k \in DOMAIN file_wait \cup {key} |-> IF k = key THEN u ELSE file_wait[k]]

add_wait(pid, key, dur) ==
  LET at == <<pid, key>>
      w  == IF at \in DOMAIN fault_file THEN fault_file[at] ELSE NoWait
  IN [k \in DOMAIN fault_file \cup {at} |-> IF k = at THEN Waited(w, key, dur) ELSE fault_file[k]]

-----------------------------------------------------------------------------
(* Windows opens a file under a key that is free or has just become free,  *)
(* and logs its name.                                                      *)
Open(key, file) ==
  /\ phase = "running" /\ steps < MaxSteps /\ owner[key] # file
  /\ owner' = [owner EXCEPT ![key] = file]
  /\ file_name(key, file, FALSE)
  /\ steps' = steps + 1
  /\ UNCHANGED <<todo, phase, had>>

(* A file is deleted, and its name logged once more. *)
Delete(key) ==
  /\ phase = "running" /\ owner[key] # Closed
  /\ owner' = [owner EXCEPT ![key] = Closed]
  /\ file_name(key, owner[key], FALSE)
  /\ UNCHANGED <<todo, phase, had, steps>>

(* handle_event on a disk request. *)
DiskIo(key, pid, dur) ==
  /\ phase = "running" /\ steps < MaxSteps /\ owner[key] # Closed
  /\ file_wait' \in cap_by_wait(add(key, pid, dur))
  /\ steps' = steps + 1
  /\ UNCHANGED <<owner, nameVars, fault_file, todo, phase, had>>

(* handle_event on a hard fault. *)
HardFault(key, pid, dur) ==
  /\ phase = "running" /\ steps < MaxSteps /\ owner[key] # Closed
  /\ fault_file' \in cap_by_wait(add_wait(pid, key, dur))
  /\ steps' = steps + 1
  /\ UNCHANGED <<owner, nameVars, file_wait, todo, phase, had>>

(* The session is being stopped: every open file is named, in some order. *)
StopSession ==
  /\ phase = "running" /\ phase' = "rundown"
  /\ todo' = {k \in Keys : owner[k] # Closed} /\ had' = DOMAIN file_names
  /\ UNCHANGED <<owner, nameVars, tallyVars, steps>>

Rundown(key) ==
  /\ key \in todo /\ todo' = todo \ {key}
  /\ file_name(key, owner[key], TRUE)
  /\ UNCHANGED <<owner, phase, had, steps>>

FilesNext ==
  \/ \E k \in Keys, f \in Files : Open(k, f)
  \/ \E k \in Keys : Delete(k) \/ Rundown(k)
  \/ \E k \in Keys, p \in Pids, d \in Durations : DiskIo(k, p, d) \/ HardFault(k, p, d)
  \/ StopSession

FilesSpec == FilesInit /\ [][FilesNext]_filesVars

-----------------------------------------------------------------------------
FilesTypeOK ==
  /\ owner \in [Keys -> Files \cup {Closed}]
  /\ DOMAIN file_names \subseteq Keys /\ \A k \in DOMAIN file_names : file_names[k] \in Files
  /\ DOMAIN file_wait \subseteq Keys /\ DOMAIN fault_file \subseteq Pids \X Keys
  /\ Cardinality(DOMAIN file_wait) <= WaitCap /\ Cardinality(DOMAIN fault_file) <= WaitCap
  /\ \A k \in DOMAIN file_wait : Cardinality(DOMAIN file_wait[k].by_pid) <= PidCap
  /\ todo \subseteq Keys /\ evicted \subseteq Keys /\ had \subseteq Keys /\ phase \in {"running", "rundown"}

(* The map and the queue that bounds it never drift apart: a key that is   *)
(* named again, or named anew after its name was pushed out, is in the     *)
(* queue exactly once, so the map holds NameCap names at the most and no   *)
(* name can stay for ever.                                                 *)
NamesAreQueued ==
  /\ Len(order) <= NameCap /\ IsInjective(order)
  /\ ToSet(order) = DOMAIN file_names

(* "When a key comes back as a different file, the waiting recorded under  *)
(* it must not be handed to the new file" (test of a recycled file object, *)
(* src/etw/events.rs), as far as the code can tell: the key had a name     *)
(* whenever waiting was added, and the name was not pushed out meanwhile.  *)
NamedWaitingIsItsOwn ==
  \A k \in DOMAIN file_wait :
    Named(k) /\ ~file_wait[k].blind /\ k \notin evicted => file_wait[k].from = {file_names[k]}

(* The same without those conditions. *)
WaitingIsItsOwn ==
  \A k \in DOMAIN file_wait : Named(k) => file_wait[k].from = {file_names[k]}

(* "The rundown cannot push out the names that matter" (test in            *)
(* src/etw/events.rs), however full the map is and in whatever order       *)
(* Windows names the open files.  Files without a tally never cost one     *)
(* that waited its name: those with a tally and a name never become fewer  *)
(* than they were when the session was being stopped.  And each that had   *)
(* none, and is open, has its own name from its rundown event to the end.  *)
WaitersAreNamed ==
  phase = "rundown" =>
    /\ Cardinality(DOMAIN file_names \cap DOMAIN file_wait) >= Cardinality(had \cap DOMAIN file_wait)
    /\ \A k \in DOMAIN file_wait \ (had \cup todo) :
         owner[k] # Closed => Named(k) /\ file_names[k] = owner[k]

(* The same taken at its word: not so, since one file that waited may push *)
(* out the name of another, whose own turn is over.                        *)
NamesThatMatterStay ==
  phase = "rundown" /\ todo = {} => had \cap DOMAIN file_wait \subseteq DOMAIN file_names

=============================================================================
