------------------------------ MODULE StorPort ------------------------------
(***************************************************************************)
(* The storage port driver's trace and what it says about one slow disk    *)
(* request (src/storport/mod.rs `StorInner`, filled by src/storport/       *)
(* events.rs; src/storport/split.rs `correlate`; `storage_split` in        *)
(* src/analyze.rs).                                                        *)
(*                                                                         *)
(* Windows hands a request to the port driver in one or more pieces.  Each *)
(* piece that completes, and each retry of one, is logged by a session     *)
(* with buffers of its own and delivered some time later; the request      *)
(* itself completes after its pieces, and the kernel trace says so.  The   *)
(* analyzer then looks for the pieces in the ring and splits the request's *)
(* time.                                                                   *)
(*                                                                         *)
(* `live`, `pieces` and `retried` are what really happened, which the      *)
(* program never sees: a piece's field `req` says whose it is.  The        *)
(* pointers a request or piece carries are reused once a request is done.  *)
(***************************************************************************)
EXTENDS Integers, FiniteSets, Sequences, SequencesExt, Rings, Sums

CONSTANTS
  Irps,         \* IRP addresses; NoIrp stands for the null pointer
  Sizes,        \* byte counts
  Pointers,     \* which pointer of a piece's record may be its request's
  Started,      \* when the session was started
  ReqCaps,      \* req_cap.max(1): how many records the ring may be set up for
  Keep,         \* KEEP_MS
  PruneEvery,   \* keep / 8
  FlushWait,    \* FLUSH_WAIT_MS
  Slop,         \* MATCH_SLOP_MS and the millisecond `window` is widened by
  Near,         \* FALLBACK_MS
  Byte,         \* ReqRec.retries is a byte: 255
  ResetCap,     \* RESET_CAP
  Disorder,     \* ETW: how far behind another an event may be delivered
  MaxNow,       \* bound: the clock
  MaxReqs,      \* bound: requests issued
  MaxPieces,    \* bound: pieces completed
  MaxRetries    \* bound: retries and resets logged

NoIrp == 0

ASSUME StorPortAssumption ==
  /\ IsFiniteSet(Irps) /\ NoIrp \notin Irps /\ Started \in Nat
  /\ Pointers \subseteq {"irp", "orig", "none"}
  /\ ReqCaps \subseteq Nat \ {0} /\ Byte \in Nat \ {0} /\ ResetCap \in Nat
  /\ Keep \in Nat /\ PruneEvery \in Nat /\ FlushWait \in Nat
  /\ Disorder \in Nat /\ Slop \in Nat /\ Disorder < Slop

VARIABLES
  now,               \* the clock, shared by both sessions
  live,              \* requests outstanding
  issued,            \* requests issued so far
  pieces,            \* every piece that completed
  retried,           \* retries and resets logged
  buffer,            \* events the session has logged and not delivered
  stopped,           \* the session has been stopped
  req_cap,           \* StorInner.req_cap, set once
  log, head,         \* StorInner.reqs, as a suffix of its history
  latest_ts, last_prune, pruned_until,
  reqs_lost_until,
  pending,           \* StorInner.pending: retries waiting for their request
  retry_by,          \* retries attached by Irp, by OriginalIrp, and never
  totals,            \* AddrTotals of the one drive: retried, retries
  resets,            \* how many resets are kept
  finished,
  slow,              \* completed requests the analyzer has not looked at
  explained          \* ...and the ones it has, with what it concluded

worldVars == <<now, live, issued, pieces, retried, stopped>>
ringVars  == <<log, head, latest_ts, last_prune, pruned_until, reqs_lost_until>>
tallyVars == <<pending, retry_by, totals, resets>>
readVars  == <<slow, explained>>
vars == <<worldVars, buffer, req_cap, ringVars, tallyVars, finished, readVars>>

NoRetry == [first |-> 0, n |-> 0]

Init ==
  /\ now = Started /\ live = {} /\ issued = 0 /\ pieces = {} /\ retried = 0
  /\ buffer = {} /\ stopped = FALSE
  /\ req_cap \in ReqCaps /\ log = <<>> /\ head = 0
  /\ latest_ts = 0 /\ last_prune = Started /\ pruned_until = 0 /\ reqs_lost_until = -1
  /\ pending = [i \in Irps |-> NoRetry]
  /\ retry_by = [irp |-> 0, orig |-> 0, never |-> 0]
  /\ totals = [retried |-> 0, retries |-> 0]
  /\ resets = 0
  /\ finished = FALSE /\ slow = {} /\ explained = {}

-----------------------------------------------------------------------------
(* What happens in Windows and in the session.                             *)

(* Time passes.  The session flushes once a second, so no event stays      *)
(* undelivered for longer than FlushWait.                                  *)
Advance ==
  /\ now < MaxNow
  /\ \A e \in buffer : now < e.ts + FlushWait
  /\ now' = now + 1
  /\ UNCHANGED <<live, issued, pieces, retried, stopped, buffer, ringVars, tallyVars, finished, readVars>>

(* A request is issued with an IRP that no outstanding request owns. *)
Issue(irp, bytes) ==
  /\ issued < MaxReqs /\ \A q \in live : q.irp # irp
  /\ issued' = issued + 1
  /\ live' = live \cup {[id |-> issued + 1, irp |-> irp, bytes |-> bytes, start |-> now]}
  /\ UNCHANGED <<now, pieces, retried, stopped, buffer, ringVars, tallyVars, finished, readVars>>

Log(e) == buffer' = IF stopped THEN buffer ELSE buffer \cup {e}

(* A piece of request q that was passed down at `from` comes back.  Which  *)
(* of the two pointers of its record is q's is up to the drivers above.    *)
PieceDone(q, from, bytes, ptr) ==
  /\ q \in live /\ q.start <= from /\ from < now
  /\ Cardinality(pieces) < MaxPieces
  /\ LET r == [kind |-> "request", id |-> Cardinality(pieces) + 1, req |-> q.id, ts |-> now,
               dur |-> now - from, bytes |-> bytes,
               irp |-> IF ptr = "irp" THEN q.irp ELSE NoIrp,
               orig |-> IF ptr = "orig" THEN q.irp ELSE NoIrp]
     IN pieces' = pieces \cup {r} /\ Log(r)
  /\ UNCHANGED <<now, live, issued, retried, stopped, ringVars, tallyVars, finished, readVars>>

Retry(q) ==
  /\ q \in live /\ retried < MaxRetries /\ ~stopped
  /\ retried' = retried + 1
  /\ Log([kind |-> "retry", id |-> retried + 1, ts |-> now, irp |-> q.irp])
  /\ UNCHANGED <<now, live, issued, pieces, stopped, ringVars, tallyVars, finished, readVars>>

Reset ==
  /\ retried < MaxRetries /\ ~stopped
  /\ retried' = retried + 1
  /\ Log([kind |-> "reset", id |-> retried + 1, ts |-> now])
  /\ UNCHANGED <<now, live, issued, pieces, stopped, ringVars, tallyVars, finished, readVars>>

(* The kernel trace's DiskIo event: q has completed, and was slow. *)
Complete(q) ==
  /\ q \in live /\ q.start < now
  /\ \E p \in pieces : p.req = q.id
  /\ live' = live \ {q}
  /\ slow' = slow \cup {[id |-> q.id, irp |-> q.irp, bytes |-> q.bytes, start |-> q.start,
                         end |-> now, logged |-> ~stopped]}
  /\ UNCHANGED <<now, issued, pieces, retried, stopped, buffer, ringVars, tallyVars, finished, explained>>

(* run_inner stops this session, lets its consumer drain, and only then    *)
(* says that nothing more is coming.  The kernel session is stopped later. *)
StopSession ==
  /\ ~stopped /\ stopped' = TRUE
  /\ UNCHANGED <<now, live, issued, pieces, retried, buffer, ringVars, tallyVars, finished, readVars>>

Finish ==
  /\ stopped /\ ~finished /\ buffer = {}
  /\ finished' = TRUE
  /\ UNCHANGED <<worldVars, buffer, ringVars, tallyVars, readVars>>

-----------------------------------------------------------------------------
(* The session's callback.                                                 *)

PruneDue(ts) == ts > latest_ts /\ ts - last_prune > PruneEvery

(* How many retries wait under each pointer. *)
Waiting(held) == [i \in Irps |-> held[i].n]

(* maybe_prune, in full: what the ring, the pending retries and the tally  *)
(* of unattached ones are after it.                                        *)
RetriesTooOld(cutoff) == {i \in Irps : pending[i].n > 0 /\ pending[i].first < cutoff}

(* Mutated: retries that are given up on are not counted. *)
PrunedForgets(ts) ==
  LET cutoff == ts - Keep
      old    == RetriesTooOld(cutoff)
  IN IF ~PruneDue(ts)
     THEN [head |-> head, until |-> pruned_until, last |-> last_prune, pending |-> pending,
           retry_by |-> retry_by]
     ELSE [head |-> PruneOne(log, head, cutoff), until |-> Max2(pruned_until, cutoff), last |-> ts,
           pending |-> [i \in Irps |-> IF i \in old THEN NoRetry ELSE pending[i]],
           retry_by |-> retry_by]

pruned(ts) ==
  LET cutoff == ts - Keep
      old    == RetriesTooOld(cutoff)
  IN IF ~PruneDue(ts)
     THEN [head |-> head, until |-> pruned_until, last |-> last_prune, pending |-> pending,
           retry_by |-> retry_by]
     ELSE [head |-> PruneOne(log, head, cutoff), until |-> Max2(pruned_until, cutoff), last |-> ts,
           pending |-> [i \in Irps |-> IF i \in old THEN NoRetry ELSE pending[i]],
           retry_by |-> [retry_by EXCEPT !.never = @ + SumOver(old, Waiting(pending))]]

(* push_req, on the state p that maybe_prune leaves. *)
push_req(r, p) ==
  LET got(key) == IF key = NoIrp THEN 0 ELSE p.pending[key].n
      by_irp  == got(r.irp)
      by_orig == IF r.orig = r.irp THEN 0 ELSE got(r.orig)
      retries == Min({Byte, Min({Byte, by_irp}) + Min({Byte, by_orig})})
      lg      == Append(log, [id |-> r.id, req |-> r.req, ts |-> r.ts, dur |-> r.dur,
                              bytes |-> r.bytes, irp |-> r.irp, orig |-> r.orig,
                              retries |-> retries])
      over    == Len(lg) - p.head > req_cap
  IN /\ log' = lg
     /\ head' = IF over THEN p.head + 1 ELSE p.head
     /\ reqs_lost_until' = IF over THEN Max2(reqs_lost_until, lg[p.head + 1].ts)
                                   ELSE reqs_lost_until
     /\ pending' = [i \in Irps |-> IF i \in {r.irp, r.orig} THEN NoRetry ELSE p.pending[i]]
     /\ retry_by' = [p.retry_by EXCEPT !.irp = @ + by_irp, !.orig = @ + by_orig]
     /\ totals' = IF retries = 0 THEN totals
                  ELSE [retried |-> totals.retried + 1, retries |-> totals.retries + retries]
     /\ UNCHANGED resets

on_retry(e, p) ==
  /\ pending' = [p.pending EXCEPT ![e.irp] = [first |-> IF @.n = 0 THEN e.ts ELSE @.first, n |-> @.n + 1]]
  /\ head' = p.head /\ retry_by' = p.retry_by
  /\ UNCHANGED <<log, reqs_lost_until, totals, resets>>

on_reset(p) ==
  /\ resets' = Min({resets + 1, ResetCap})
  /\ head' = p.head /\ pending' = p.pending /\ retry_by' = p.retry_by
  /\ UNCHANGED <<log, reqs_lost_until, totals>>

(* handle: one event is delivered, out of order by Disorder at the most. *)
handle(e) ==
  /\ e \in buffer /\ \A f \in buffer : e.ts <= f.ts + Disorder
  /\ buffer' = buffer \ {e}
  /\ latest_ts' = Max2(latest_ts, e.ts)
  /\ LET p == pruned(e.ts)
     IN /\ last_prune' = p.last /\ pruned_until' = p.until
        /\ CASE e.kind = "request" -> push_req(e, p)
             [] e.kind = "retry"   -> on_retry(e, p)
             [] e.kind = "reset"   -> on_reset(p)
  /\ UNCHANGED <<worldVars, finished, readVars>>

-----------------------------------------------------------------------------
(* What the analyzer makes of it.                                          *)

(* Mutated: what the count cap threw away is not asked about. *)
CoversInTime(from) == Started <= from /\ pruned_until < from

covers(from) == Started <= from /\ pruned_until < from /\ reqs_lost_until < from

caught_up(to) == finished \/ latest_ts >= to \/ now - to > FlushWait

window(from, to) ==
  {{i \in a + 1 .. b : log[i].ts >= from /\ log[i].ts <= to} :
     a \in PartitionPoints(log, head, from - Slop), b \in PartitionPoints(log, head, to + Slop + 1)}

(* Mutated: the spans are added up, overlaps and all. *)
SumOfLengths(spans) ==
  LET real == {s \in spans : s.to > s.from} IN SumOver(real, [s \in real |-> s.to - s.from])

(* union_len: the spans in order, each joined to what those before it make *)
(* while it touches their last.                                            *)
union_len(spans) ==
  LET real      == {s \in spans : s.to > s.from}
      last(S)   == CHOOSE s \in S : \A t \in S \ {s} :
                     t.from < s.from \/ (t.from = s.from /\ t.to < s.to)
      join(c, s) == IF s.from <= c.to THEN [c EXCEPT !.to = Max2(@, s.to)]
                    ELSE [total |-> c.total + (c.to - c.from), from |-> s.from, to |-> s.to]
      cur[S \in SUBSET real] == IF S = {} THEN [total |-> 0, from |-> -1, to |-> -1]
                                ELSE join(cur[S \ {last(S)}], last(S))
  IN cur[real].total + (cur[real].to - cur[real].from)

split_of(q, I, how) ==
  LET dur    == q.end - q.start
      spans  == {[from |-> Max2(log[i].ts - log[i].dur, q.start), to |-> Min({log[i].ts, q.end})] : i \in I}
      inside == Min({union_len(spans), dur})
  IN [outcome |-> how, matched |-> {log[i].id : i \in I}, inside |-> inside,
      waiting |-> Max2(dur - inside, 0)]

Nothing(outcome) == [outcome |-> outcome, matched |-> {}, inside |-> 0, waiting |-> 0]

(* correlate; w is what `window` returned, as positions in the ring. *)
correlate(q, w) ==
  LET by_ptr == {i \in w : q.irp \in {log[i].irp, log[i].orig}}
      how    == IF \E i \in by_ptr : log[i].irp = q.irp THEN "Irp" ELSE "OriginalIrp"
      fits   == {i \in w : log[i].bytes = q.bytes /\ log[i].ts - q.end \in -Near .. Near}
  IN CASE by_ptr # {} -> split_of(q, by_ptr, how)
       [] by_ptr = {} /\ fits = {} -> Nothing("Unmatched")
       [] by_ptr = {} /\ Cardinality(fits) = 1 -> split_of(q, fits, "Fallback")
       [] OTHER -> Nothing("Ambiguous")

(* storage_split. *)
storage_split(q) ==
  /\ q \in slow
  /\ slow' = slow \ {q}
  /\ LET from == q.start - Slop
         to   == q.end + Slop
     IN IF covers(from) /\ caught_up(to)
        THEN \E w \in window(from, to) : explained' = explained \cup {[q |-> q, is |-> correlate(q, w)]}
        ELSE explained' = explained \cup {[q |-> q, is |-> Nothing("NotCovered")]}
  /\ UNCHANGED <<worldVars, buffer, ringVars, tallyVars, finished>>

-----------------------------------------------------------------------------
Step ==
  \/ Advance
  \/ \E irp \in Irps, bytes \in Sizes : Issue(irp, bytes)
  \/ \E q \in live, from \in Started .. now, bytes \in Sizes, ptr \in Pointers :
       PieceDone(q, from, bytes, ptr)
  \/ \E q \in live : Retry(q) \/ Complete(q)
  \/ Reset
  \/ StopSession
  \/ Finish
  \/ \E e \in buffer : handle(e)
  \/ \E q \in slow : storage_split(q)

Next == Step /\ UNCHANGED req_cap

Spec == Init /\ [][Next]_vars

-----------------------------------------------------------------------------
TypeOK ==
  /\ now \in Nat /\ issued \in Nat /\ retried \in Nat /\ finished \in BOOLEAN /\ stopped \in BOOLEAN
  /\ head \in 0 .. Len(log) /\ Len(log) - head <= req_cap
  /\ latest_ts \in 0 .. now /\ last_prune \in 0 .. now /\ pruned_until \in 0 .. now
  /\ reqs_lost_until \in -1 .. now
  /\ \A i \in Irps : pending[i].n \in Nat /\ pending[i].first \in 0 .. now
  /\ \A i \in DOMAIN log : log[i].retries \in 0 .. Byte
  /\ resets \in 0 .. ResetCap
  /\ \A x \in explained : x.is.inside >= 0 /\ x.is.waiting >= 0

Own(q) == {p \in pieces : p.req = q.id}

(* Did the pieces of q carry its pointer at all? *)
Pointed(q) == \A p \in Own(q) : q.irp \in {p.irp, p.orig}

Split == {"Irp", "OriginalIrp"}

(* "Nothing may be concluded, either way" unless the ring covers the       *)
(* request (Outcome::NotCovered): whatever was pruned, thrown away by the  *)
(* cap or still under way when the analyzer looked, a request that         *)
(* completed while the session was running and got an answer other than    *)
(* NotCovered has all its pieces in that answer, if they carry its         *)
(* pointer.                                                                *)
OwnPiecesSeen ==
  \A x \in explained :
    x.q.logged /\ x.is.outcome # "NotCovered" /\ Pointed(x.q) =>
      {p.id : p \in Own(x.q)} \subseteq x.is.matched

(* The time a request matched by pointer is said to have spent inside the  *)
(* drive is exactly the time during which at least one of its own pieces   *)
(* was, overlaps counted once, whoever owned the pointer before or after.  *)
InsideIsOwnTime ==
  \A x \in explained :
    x.q.logged /\ x.is.outcome \in Split /\ Pointed(x.q) =>
      x.is.inside = Cardinality({t \in x.q.start .. x.q.end - 1 :
                                   \E p \in Own(x.q) : p.ts - p.dur <= t /\ t < p.ts})

(* Every retry delivered is waiting for its request or has been counted    *)
(* exactly once: by Irp, by OriginalIrp, or as never attached.             *)
RetriesConserved ==
  LET held == SumOver(Irps, Waiting(pending))
      late == Cardinality({e \in buffer : e.kind \in {"retry", "reset"}})
  IN resets < ResetCap => retry_by.irp + retry_by.orig + retry_by.never + held + late + resets = retried

=============================================================================
