------------------------ MODULE ManifestTracesProofs ------------------------
(***************************************************************************)
(* What StorPort keeps true for every number of requests, pieces and       *)
(* pointers, for every cap, keep time and flush time, and for every order  *)
(* of delivery that is off by less than the slop: a slow request that gets *)
(* an answer has all its own pieces in it and only their time inside the   *)
(* drive, and a retry is counted once.                                     *)
(* And what GpuTrace keeps true for every number of programs and threads   *)
(* and for every cap and keep time: the duration of a residency operation  *)
(* is its own or nothing, although start events are lost, old starts are   *)
(* pruned and one table serves all the threads; and a stop of the picture  *)
(* that a window reports is a real one, the longest of the window,         *)
(* although several events fire for one refresh and the ring forgets.      *)
(***************************************************************************)
EXTENDS StorPort, GpuTrace, Lemmas

Piece ==
  [kind : {"request"}, id : Nat, req : Nat, ts : Int, dur : Int, bytes : Sizes,
   irp : Irps \cup {NoIrp}, orig : Irps \cup {NoIrp}]

(* A record of the ring. *)
Entry ==
  [id : Nat, req : Nat, ts : Int, dur : Int, bytes : Sizes,
   irp : Irps \cup {NoIrp}, orig : Irps \cup {NoIrp}, retries : Int]

Live      == [id : Nat, irp : Irps, bytes : Sizes, start : Int]
Completed == [id : Nat, irp : Irps, bytes : Sizes, start : Int, end : Int, logged : BOOLEAN]

(* Requests that are over, looked at or not. *)
Over == slow \cup {x.q : x \in explained}

(* Every request has a number of its own, and its pieces come back while   *)
(* it is under way.                                                        *)
WorldInv ==
  /\ now \in Int /\ issued \in Nat /\ live \subseteq Live
  /\ IsFiniteSet(pieces) /\ pieces \subseteq Piece
  /\ Over \subseteq Completed
  /\ \A q \in live \cup Over : q.id <= issued
  /\ \A p \in pieces : p.req <= issued
  /\ \A q, r \in live : q.id = r.id => q = r
  /\ \A q \in live, r \in Over : q.id # r.id
  /\ \A p \in pieces :
       /\ p.ts <= now
       /\ \A q \in live : p.req = q.id => q.start <= p.ts
       /\ \A q \in slow : p.req = q.id => q.start <= p.ts /\ p.ts <= q.end

(* What has been logged is delivered within FlushWait, and no event is     *)
(* behind what has been delivered by more than Disorder.                   *)
BufferInv ==
  /\ \A e \in buffer :
       /\ e.ts \in Int /\ e.ts <= now /\ now <= e.ts + FlushWait /\ latest_ts <= e.ts + Disorder
       /\ e.kind \in {"request", "retry", "reset"}
       /\ e.kind = "request" => e \in pieces
       /\ e.kind = "retry" => e.irp \in Irps
  /\ latest_ts <= now
  /\ finished => stopped /\ buffer = {}

(* The ring is almost in order, and what left it is dated.                 *)
RingTypes ==
  /\ latest_ts \in Int /\ last_prune \in Int /\ pruned_until \in Int /\ reqs_lost_until \in Int
  /\ req_cap \in Nat \ {0} /\ log \in Seq(Entry) /\ head \in Nat /\ head <= Len(log)
  /\ pending \in [Irps -> [first : Int, n : Nat]]

AlmostSorted ==
  /\ \A i \in 1 .. Len(log) : log[i].ts <= latest_ts
  /\ \A i, j \in 1 .. Len(log) : i < j => log[i].ts <= log[j].ts + Disorder

PoppedIsDated == \A i \in 1 .. head : log[i].ts < pruned_until \/ log[i].ts <= reqs_lost_until

RingInv == RingTypes /\ AlmostSorted /\ PoppedIsDated

(* A piece is on its way or has been filed, as it was. *)
FiledAs(i, p) ==
  /\ log[i].id = p.id /\ log[i].ts = p.ts /\ log[i].dur = p.dur
  /\ log[i].irp = p.irp /\ log[i].orig = p.orig
Reported(p)   == p \in buffer \/ \E i \in 1 .. Len(log) : FiledAs(i, p)

(* No piece of a request that was over before the session was stopped is   *)
(* missing.                                                                *)
KeptInv ==
  /\ ~stopped => \A p \in pieces : Reported(p)
  /\ \A q \in slow : q.logged => \A p \in pieces : p.req = q.id => Reported(p)

StorInv == WorldInv /\ BufferInv /\ RingInv /\ KeptInv /\ OwnPiecesSeen

-----------------------------------------------------------------------------
(* What an event leaves of the ring when a pruning is due with it.         *)
LEMMA PrunedSpec ==
  ASSUME RingInv, NEW ts \in Int
  PROVE  /\ pruned(ts).head \in Nat /\ head <= pruned(ts).head /\ pruned(ts).head <= Len(log)
         /\ pruned(ts).until \in Int /\ pruned_until <= pruned(ts).until
         /\ \A i \in head + 1 .. pruned(ts).head : log[i].ts < pruned(ts).until
         /\ pruned(ts).last \in Int
         /\ pruned(ts).pending \in [Irps -> [first : Int, n : Nat]]
<1> DEFINE cutoff == ts - Keep
<1>1. cutoff \in Int
  BY StorPortAssumption
<1>2. /\ log \in Seq(Entry) /\ Len(log) \in Nat /\ head \in Nat /\ head <= Len(log)
      /\ pruned_until \in Int /\ last_prune \in Int /\ pending \in [Irps -> [first : Int, n : Nat]]
      /\ \A r \in Entry : r.ts \in Int
  BY LenProperties DEF RingInv, RingTypes, Entry
<1>3. CASE ~PruneDue(ts)
  <2>1. /\ pruned(ts).head = head /\ pruned(ts).until = pruned_until
        /\ pruned(ts).last = last_prune /\ pruned(ts).pending = pending
    BY <1>3 DEF pruned
  <2> QED BY <1>2, <2>1
<1>4. CASE PruneDue(ts)
  <2>1. /\ pruned(ts).head = PruneOne(log, head, cutoff) /\ pruned(ts).until = Max2(pruned_until, cutoff)
        /\ pruned(ts).last = ts
        /\ pruned(ts).pending = [i \in Irps |-> IF i \in RetriesTooOld(cutoff) THEN NoRetry ELSE pending[i]]
    BY <1>4 DEF pruned
  <2> HIDE DEF cutoff
  <2>2. /\ PruneOne(log, head, cutoff) \in head .. Len(log)
        /\ DropsTo(log, head, cutoff, PruneOne(log, head, cutoff))
    BY <1>1, <1>2, PruneOneSpec
  <2>3. \A i \in head + 1 .. pruned(ts).head : log[i].ts < cutoff /\ log[i].ts \in Int
    BY <1>2, <2>1, <2>2, ElementOfSeq DEF DropsTo
  <2>4. pruned(ts).pending \in [Irps -> [first : Int, n : Nat]]
    BY <1>2, <2>1 DEF NoRetry
  <2> QED BY <1>1, <1>2, <2>1, <2>2, <2>3, <2>4 DEF Max2
<1> QED BY <1>3, <1>4

(* The least of two numbers is one of them. *)
LEMMA LeastOfTwo ==
  \A a, b \in Int : Min({a, b}) \in {a, b} /\ Min({a, b}) <= a /\ Min({a, b}) <= b
<1> SUFFICES ASSUME NEW a \in Int, NEW b \in Int
             PROVE  Min({a, b}) \in {a, b} /\ Min({a, b}) <= a /\ Min({a, b}) <= b
  OBVIOUS
<1>1. PICK x \in {a, b} : x <= a /\ x <= b
  <2>1. a <= b \/ b <= a
    OBVIOUS
  <2> QED BY <2>1
<1>2. \A y \in {a, b} : x <= y
  BY <1>1
<1>3. {a, b} \subseteq Int
  OBVIOUS
<1>4. Min({a, b}) = x
  BY <1>1, <1>2, <1>3, MinIs
<1> QED BY <1>1, <1>4

(* push_req: the piece goes to the end of the ring, and the record at its  *)
(* front, never the new one, goes if the ring is full and is dated.        *)
LEMMA PushReq ==
  ASSUME RingInv, NEW r \in Piece, NEW ts \in Int, push_req(r, pruned(ts))
  PROVE  \E e \in Entry :
           /\ e.id = r.id /\ e.ts = r.ts /\ e.dur = r.dur /\ e.irp = r.irp /\ e.orig = r.orig
           /\ log' = Append(log, e)
           /\ head' \in Nat /\ head' <= Len(log) /\ reqs_lost_until' \in Int /\ reqs_lost_until <= reqs_lost_until'
           /\ \/ head' = pruned(ts).head
              \/ head' = pruned(ts).head + 1 /\ log[pruned(ts).head + 1].ts <= reqs_lost_until'
           /\ pending' \in [Irps -> [first : Int, n : Nat]]
<1> DEFINE p == pruned(ts)
           got(key) == IF key = NoIrp THEN 0 ELSE p.pending[key].n
           by_irp == got(r.irp)
           by_orig == IF r.orig = r.irp THEN 0 ELSE got(r.orig)
           retries == Min({Byte, Min({Byte, by_irp}) + Min({Byte, by_orig})})
           e == [id |-> r.id, req |-> r.req, ts |-> r.ts, dur |-> r.dur, bytes |-> r.bytes,
                 irp |-> r.irp, orig |-> r.orig, retries |-> retries]
           lg == Append(log, e)
           over == Len(lg) - p.head > req_cap
<1>1. /\ log' = lg /\ head' = IF over THEN p.head + 1 ELSE p.head
      /\ reqs_lost_until' = IF over THEN Max2(reqs_lost_until, lg[p.head + 1].ts) ELSE reqs_lost_until
      /\ pending' = [i \in Irps |-> IF i \in {r.irp, r.orig} THEN NoRetry ELSE p.pending[i]]
  BY DEF push_req
<1>2. /\ p.head \in Nat /\ p.head <= Len(log) /\ p.pending \in [Irps -> [first : Int, n : Nat]]
      /\ log \in Seq(Entry) /\ Len(log) \in Nat /\ req_cap \in Nat \ {0} /\ reqs_lost_until \in Int
  BY PrunedSpec, LenProperties DEF RingInv, RingTypes
<1> HIDE DEF p
<1>3. by_irp \in Int /\ by_orig \in Int /\ Byte \in Int
  BY <1>2, StorPortAssumption DEF Piece
<1> HIDE DEF by_irp, by_orig
<1>4. retries \in Int
  <2>1. Min({Byte, by_irp}) \in Int /\ Min({Byte, by_orig}) \in Int
    BY <1>3, LeastOfTwo
  <2>2. Min({Byte, by_irp}) + Min({Byte, by_orig}) \in Int
    BY <2>1
  <2> QED BY <1>3, <2>2, LeastOfTwo
<1> HIDE DEF retries
<1>5. e \in Entry /\ e.id = r.id /\ e.ts = r.ts /\ e.dur = r.dur /\ e.irp = r.irp /\ e.orig = r.orig
  BY <1>4 DEF Entry, Piece
<1> HIDE DEF e
<1>6. /\ Len(lg) = Len(log) + 1
      /\ \A i \in 1 .. Len(log) : lg[i] = log[i] /\ log[i].ts \in Int
  <2>1. \A x \in Entry : x.ts \in Int
    BY DEF Entry
  <2> HIDE DEF over, got
  <2>2. e \in Entry /\ log \in Seq(Entry)
    BY <1>2, <1>5
  <2>3. /\ Len(Append(log, e)) = Len(log) + 1
        /\ \A i \in 1 .. Len(log) : Append(log, e)[i] = log[i] /\ log[i] \in Entry
    BY <2>2, PushSpec
  <2>4. lg = Append(log, e)
    BY DEF lg
  <2> QED BY <2>1, <2>3, <2>4
<1>7. pending' \in [Irps -> [first : Int, n : Nat]]
  BY <1>1, <1>2 DEF NoRetry
<1> HIDE DEF lg
<1>8. CASE over
  <2>1. p.head + 1 \in 1 .. Len(log)
    BY <1>2, <1>6, <1>8
  <2>2. lg[p.head + 1] = log[p.head + 1] /\ log[p.head + 1].ts \in Int
    BY <1>6, <2>1
  <2> QED BY SMTT(30), <1>1, <1>2, <1>5, <1>7, <1>8, <2>1, <2>2 DEF Max2, lg, p
<1>9. CASE ~over
  BY <1>1, <1>2, <1>5, <1>7, <1>9 DEF lg, p
<1> QED BY <1>8, <1>9

-----------------------------------------------------------------------------
(* The session's callback keeps the ring as it should be. *)
LEMMA HandleRing ==
  ASSUME StorInv, NEW e \in buffer, handle(e), UNCHANGED req_cap
  PROVE  RingInv'
<1> DEFINE P == pruned(e.ts)
<1>1. /\ e.ts \in Int /\ latest_ts <= e.ts + Disorder /\ latest_ts \in Int /\ Disorder \in Nat
      /\ latest_ts' = Max2(latest_ts, e.ts) /\ e.kind \in {"request", "retry", "reset"}
      /\ e.kind = "request" => e \in Piece
      /\ e.kind = "retry" => e.irp \in Irps
  BY StorPortAssumption DEF StorInv, BufferInv, WorldInv, RingInv, RingTypes, handle
<1>2. /\ RingInv /\ RingTypes /\ AlmostSorted /\ PoppedIsDated
      /\ log \in Seq(Entry) /\ Len(log) \in Nat /\ head \in Nat /\ head <= Len(log)
      /\ pruned_until \in Int /\ reqs_lost_until \in Int
      /\ \A i \in 1 .. Len(log) : log[i] \in Entry /\ log[i].ts \in Int
  <2>1. RingInv /\ RingTypes /\ AlmostSorted /\ PoppedIsDated
    BY DEF StorInv, RingInv
  <2>2. log \in Seq(Entry) /\ Len(log) \in Nat
    BY <2>1, LenProperties DEF RingTypes
  <2>3. \A i \in 1 .. Len(log) : log[i] \in Entry
    BY <2>2, ElementOfSeq
  <2>4. \A x \in Entry : x.ts \in Int
    BY DEF Entry
  <2> QED BY <2>1, <2>2, <2>3, <2>4 DEF RingTypes
<1>3. /\ P.head \in Nat /\ head <= P.head /\ P.head <= Len(log)
      /\ P.until \in Int /\ pruned_until <= P.until /\ P.last \in Int
      /\ \A i \in head + 1 .. P.head : log[i].ts < P.until
      /\ P.pending \in [Irps -> [first : Int, n : Nat]]
  BY <1>1, <1>2, PrunedSpec
<1>4. /\ last_prune' = P.last /\ pruned_until' = P.until
      /\ e.kind = "request" => push_req(e, P)
      /\ e.kind = "retry" => on_retry(e, P)
      /\ e.kind = "reset" => on_reset(P)
  BY <1>1 DEF handle
<1>5. \A i \in 1 .. P.head : log[i].ts < P.until \/ log[i].ts <= reqs_lost_until
  <2> SUFFICES ASSUME NEW i \in 1 .. P.head
               PROVE  log[i].ts < P.until \/ log[i].ts <= reqs_lost_until
    OBVIOUS
  <2> HIDE DEF P
  <2>1. CASE i <= head
    BY <1>2, <1>3, <2>1 DEF PoppedIsDated
  <2>2. CASE head < i
    BY <1>2, <1>3, <2>2
  <2> QED BY <1>2, <1>3, <2>1, <2>2
<1>6. latest_ts' \in Int /\ latest_ts <= latest_ts' /\ e.ts <= latest_ts'
  BY <1>1 DEF Max2
<1>7. CASE e.kind = "request"
  <2>1. PICK x \in Entry :
          /\ x.ts = e.ts /\ log' = Append(log, x)
          /\ head' \in Nat /\ head' <= Len(log) /\ reqs_lost_until' \in Int /\ reqs_lost_until <= reqs_lost_until'
          /\ \/ head' = P.head
             \/ head' = P.head + 1 /\ log[P.head + 1].ts <= reqs_lost_until'
          /\ pending' \in [Irps -> [first : Int, n : Nat]]
    BY <1>1, <1>2, <1>4, <1>7, PushReq
  <2> HIDE DEF P
  <2>2. /\ log' \in Seq(Entry) /\ Len(log') = Len(log) + 1
        /\ \A i \in 1 .. Len(log) : log'[i] = log[i]
        /\ log'[Len(log) + 1] = x
    BY <1>2, <2>1, PushSpec
  <2>3. RingTypes'
    BY <1>2, <1>3, <1>4, <1>6, <2>1, <2>2 DEF RingTypes
  <2>4. AlmostSorted'
    <3>1. \A i \in 1 .. Len(log') : log'[i].ts <= latest_ts'
      BY <1>1, <1>2, <1>6, <2>1, <2>2 DEF AlmostSorted
    <3>2. ASSUME NEW i \in 1 .. Len(log'), NEW j \in 1 .. Len(log'), i < j
          PROVE  log'[i].ts <= log'[j].ts + Disorder
      <4>1. i \in 1 .. Len(log) /\ log'[i] = log[i] /\ log[i].ts <= latest_ts /\ log[i].ts \in Int
        BY <1>2, <2>2, <3>2 DEF AlmostSorted
      <4>2. CASE j \in 1 .. Len(log)
        BY <1>2, <2>2, <3>2, <4>1, <4>2 DEF AlmostSorted
      <4>3. CASE j = Len(log) + 1
        BY <1>1, <2>1, <2>2, <4>1, <4>3
      <4> QED BY <1>2, <2>2, <4>2, <4>3
    <3> QED BY <3>1, <3>2 DEF AlmostSorted
  <2>5. PoppedIsDated'
    <3> SUFFICES ASSUME NEW i \in 1 .. head'
                 PROVE  log'[i].ts < pruned_until' \/ log'[i].ts <= reqs_lost_until'
      BY DEF PoppedIsDated
    <3>1. i \in 1 .. Len(log) /\ log'[i] = log[i] /\ log[i].ts \in Int
      BY <1>2, <2>1, <2>2
    <3>2. CASE i \in 1 .. P.head
      BY <1>2, <1>4, <1>5, <2>1, <3>1, <3>2
    <3>3. CASE i = P.head + 1
      BY <1>3, <2>1, <3>1, <3>3
    <3> QED BY <1>3, <2>1, <3>2, <3>3
  <2> QED BY <2>3, <2>4, <2>5 DEF RingInv
<1>8. CASE e.kind \in {"retry", "reset"}
  <2>1. /\ log' = log /\ head' = P.head /\ reqs_lost_until' = reqs_lost_until
        /\ pending' \in [Irps -> [first : Int, n : Nat]]
    <3> HIDE DEF P
    <3>1. CASE e.kind = "retry"
      <4>1. PICK f \in [Irps -> [first : Int, n : Nat]] : f = P.pending
        BY <1>3
      <4>2. /\ log' = log /\ head' = P.head /\ reqs_lost_until' = reqs_lost_until
            /\ pending' = [f EXCEPT ![e.irp] =
                            [first |-> IF f[e.irp].n = 0 THEN e.ts ELSE f[e.irp].first, n |-> f[e.irp].n + 1]]
        BY <1>4, <3>1, <4>1 DEF on_retry
      <4>3. e.irp \in Irps /\ f[e.irp] \in [first : Int, n : Nat]
        BY <1>1, <3>1
      <4>4. /\ (IF f[e.irp].n = 0 THEN e.ts ELSE f[e.irp].first) \in Int
            /\ f[e.irp].n + 1 \in Nat
        BY <1>1, <4>3
      <4> QED BY <4>2, <4>3, <4>4
    <3>2. CASE e.kind = "reset"
      BY <1>3, <1>4, <3>2 DEF on_reset
    <3> QED BY <1>8, <3>1, <3>2
  <2> HIDE DEF P
  <2>2. RingTypes'
    BY <1>2, <1>3, <1>4, <1>6, <2>1 DEF RingTypes
  <2>3. AlmostSorted'
    <3>1. \A i \in 1 .. Len(log) : log[i].ts <= latest_ts'
      BY <1>1, <1>2, <1>6 DEF AlmostSorted
    <3> QED BY <1>2, <2>1, <3>1 DEF AlmostSorted
  <2>4. PoppedIsDated'
    BY <1>4, <1>5, <2>1 DEF PoppedIsDated
  <2> QED BY <2>2, <2>3, <2>4 DEF RingInv
<1> QED BY <1>1, <1>7, <1>8

(* A piece that is delivered has been filed; what was filed stays filed,   *)
(* and what is not delivered yet stays on its way.                         *)
LEMMA HandleKept ==
  ASSUME StorInv, NEW e \in buffer, handle(e), NEW p \in pieces, Reported(p)
  PROVE  Reported(p)'
<1>1. e.ts \in Int /\ RingInv /\ p.kind = "request" /\ buffer' = buffer \ {e}
      /\ e.kind \in {"request", "retry", "reset"} /\ (e.kind = "request" => e \in Piece)
  BY DEF StorInv, BufferInv, WorldInv, handle, Piece
<1>2. log \in Seq(Entry) /\ Len(log) \in Nat
  BY <1>1, LenProperties DEF RingInv, RingTypes
<1>3. CASE e.kind = "request"
  <2>1. push_req(e, pruned(e.ts))
    BY <1>3 DEF handle
  <2>2. PICK x \in Entry :
          /\ x.id = e.id /\ x.ts = e.ts /\ x.dur = e.dur /\ x.irp = e.irp /\ x.orig = e.orig
          /\ log' = Append(log, x)
    BY <1>1, <1>3, <2>1, PushReq
  <2>3. /\ Len(log') = Len(log) + 1 /\ log'[Len(log) + 1] = x
        /\ \A i \in 1 .. Len(log) : log'[i] = log[i]
    BY <1>2, <2>2, PushSpec
  <2>4. CASE p = e
    <3>0. PICK n \in 1 .. Len(log') : n = Len(log) + 1
      BY <1>2, <2>3
    <3>1. FiledAs(n, p)'
      BY <2>2, <2>3, <2>4, <3>0 DEF FiledAs
    <3> QED BY <3>1 DEF Reported
  <2>5. CASE p \in buffer /\ p # e
    BY <1>1, <2>5 DEF Reported
  <2>6. CASE \E i \in 1 .. Len(log) : FiledAs(i, p)
    <3>1. PICK i \in 1 .. Len(log) : FiledAs(i, p)
      BY <2>6
    <3>2. i \in 1 .. Len(log') /\ FiledAs(i, p)'
      BY <1>2, <2>3, <3>1 DEF FiledAs
    <3> QED BY <3>2 DEF Reported
  <2> QED BY <2>4, <2>5, <2>6 DEF Reported
<1>4. CASE e.kind # "request"
  <2>1. log' = log
    BY <1>1, <1>4 DEF handle, on_retry, on_reset
  <2>2. p # e
    BY <1>1, <1>4
  <2> QED BY <1>1, <2>1, <2>2 DEF Reported, FiledAs
<1> QED BY <1>3, <1>4

(* An event is delivered. *)
LEMMA HandleStep ==
  ASSUME StorInv, NEW e \in buffer, handle(e), UNCHANGED req_cap
  PROVE  StorInv'
<1>1. RingInv'
  BY HandleRing
<1>2. WorldInv' /\ OwnPiecesSeen'
  BY DEF StorInv, handle, worldVars, readVars, WorldInv, Over, OwnPiecesSeen, Own, Pointed
<1>3. KeptInv'
  <2>1. pieces' = pieces /\ slow' = slow /\ stopped' = stopped /\ KeptInv
    BY DEF handle, worldVars, readVars, StorInv
  <2> QED BY <2>1, HandleKept DEF KeptInv
<1>4. BufferInv'
  <2>1. /\ now' = now /\ pieces' = pieces /\ stopped' = stopped /\ finished' = finished
        /\ buffer' = buffer \ {e} /\ latest_ts' = Max2(latest_ts, e.ts) /\ latest_ts \in Int
        /\ \A f \in buffer : e.ts <= f.ts + Disorder
        /\ BufferInv
    BY DEF handle, worldVars, StorInv, RingInv, RingTypes
  <2>2. latest_ts' \in {latest_ts, e.ts}
    BY <2>1 DEF Max2
  <2> QED BY <2>1, <2>2 DEF BufferInv
<1> QED BY <1>1, <1>2, <1>3, <1>4 DEF StorInv

-----------------------------------------------------------------------------
(* What does not touch the ring leaves it as it is. *)
LEMMA RingUntouched ==
  ASSUME StorInv, UNCHANGED <<ringVars, tallyVars, req_cap>>
  PROVE  RingInv'
  BY DEF StorInv, ringVars, tallyVars, RingInv, RingTypes, AlmostSorted, PoppedIsDated

(* ...and a piece that has been filed stays filed. *)
LEMMA StillReported ==
  ASSUME UNCHANGED ringVars, buffer \subseteq buffer', NEW p, Reported(p)
  PROVE  Reported(p)'
  BY DEF Reported, FiledAs, ringVars

(* Time passes, but not beyond the flush of what is waiting. *)
LEMMA AdvanceStep ==
  ASSUME StorInv, Advance, UNCHANGED req_cap
  PROVE  StorInv'
<1>1. RingInv'
  BY RingUntouched DEF Advance
<1>2. /\ now \in Int /\ now' = now + 1 /\ \A e \in buffer : now < e.ts + FlushWait
      /\ UNCHANGED <<live, issued, pieces, stopped, buffer, slow, explained, finished, log, latest_ts>>
  BY DEF Advance, StorInv, WorldInv, readVars, ringVars
<1>3. WorldInv'
  <2>1. \A p \in pieces : p.ts \in Int
    BY DEF StorInv, WorldInv, Piece
  <2> QED BY <1>2, <2>1 DEF StorInv, WorldInv, Over
<1>4. BufferInv'
  BY <1>2, StorPortAssumption DEF StorInv, BufferInv, RingInv, RingTypes
<1>5. KeptInv' /\ OwnPiecesSeen'
  BY <1>2 DEF StorInv, KeptInv, Reported, FiledAs, OwnPiecesSeen, Own, Pointed
<1> QED BY <1>1, <1>3, <1>4, <1>5 DEF StorInv

(* A request is issued: no piece and no other request has its number. *)
LEMMA IssueStep ==
  ASSUME StorInv, NEW irp \in Irps, NEW bytes \in Sizes, Issue(irp, bytes), UNCHANGED req_cap
  PROVE  StorInv'
<1>1. RingInv'
  BY RingUntouched DEF Issue
<1>2. PICK q : q = [id |-> issued + 1, irp |-> irp, bytes |-> bytes, start |-> now]
  OBVIOUS
<1>3. /\ issued \in Nat /\ now \in Int /\ issued' = issued + 1 /\ live' = live \cup {q}
      /\ UNCHANGED <<now, pieces, stopped, buffer, slow, explained, finished, log, latest_ts>>
  BY <1>2 DEF Issue, StorInv, WorldInv, readVars, ringVars
<1>4. q \in Live /\ q.id = issued + 1
  BY <1>2, <1>3 DEF Live
<1>5. /\ \A r \in live \cup Over : r.id \in Nat /\ r.id <= issued
      /\ \A p \in pieces : p.req \in Nat /\ p.req <= issued
  <2>1. \A r \in live : r.id \in Nat
    BY DEF StorInv, WorldInv, Live
  <2>2. \A r \in Over : r.id \in Nat
    BY DEF StorInv, WorldInv, Completed
  <2>3. \A p \in pieces : p.req \in Nat
    BY DEF StorInv, WorldInv, Piece
  <2> QED BY <2>1, <2>2, <2>3 DEF StorInv, WorldInv
<1>6. Over' = Over
  BY <1>3 DEF Over
<1>7. WorldInv'
  <2>1. /\ now' \in Int /\ issued' \in Nat /\ live' \subseteq Live
        /\ IsFiniteSet(pieces') /\ pieces' \subseteq Piece /\ Over' \subseteq Completed
    BY <1>3, <1>4, <1>6 DEF StorInv, WorldInv
  <2>2. /\ \A r \in live' \cup Over' : r.id <= issued'
        /\ \A p \in pieces' : p.req <= issued'
    BY <1>3, <1>4, <1>5, <1>6
  <2>3. /\ \A r, s \in live' : r.id = s.id => r = s
        /\ \A r \in live', s \in Over' : r.id # s.id
    BY <1>3, <1>4, <1>5, <1>6 DEF StorInv, WorldInv
  <2>4. \A p \in pieces' : p.req # q.id
    BY <1>3, <1>4, <1>5
  <2>5. \A p \in pieces' :
          /\ p.ts <= now'
          /\ \A r \in live' : p.req = r.id => r.start <= p.ts
          /\ \A r \in slow' : p.req = r.id => r.start <= p.ts /\ p.ts <= r.end
    BY <1>3, <2>4 DEF StorInv, WorldInv
  <2> QED BY <2>1, <2>2, <2>3, <2>5 DEF WorldInv
<1>8. BufferInv' /\ KeptInv' /\ OwnPiecesSeen'
  BY <1>3 DEF StorInv, BufferInv, KeptInv, Reported, FiledAs, OwnPiecesSeen, Own, Pointed
<1> QED BY <1>1, <1>7, <1>8 DEF StorInv

(* The session logs a retry or a reset. *)
LEMMA LoggedStep ==
  ASSUME StorInv, UNCHANGED req_cap, Reset \/ \E q \in live : Retry(q)
  PROVE  StorInv'
<1>1. RingInv'
  BY RingUntouched DEF Reset, Retry
<1>2. PICK e :
        /\ ~stopped /\ buffer' = buffer \cup {e} /\ e.ts = now
        /\ e.kind \in {"retry", "reset"} /\ (e.kind = "retry" => e.irp \in Irps)
  <2>1. ASSUME Reset
        PROVE  LET r == [kind |-> "reset", id |-> retried + 1, ts |-> now]
               IN ~stopped /\ buffer' = buffer \cup {r} /\ r.ts = now /\ r.kind = "reset"
    BY <2>1 DEF Reset, Log
  <2>2. ASSUME NEW q \in live, Retry(q)
        PROVE  LET r == [kind |-> "retry", id |-> retried + 1, ts |-> now, irp |-> q.irp]
               IN ~stopped /\ buffer' = buffer \cup {r} /\ r.ts = now /\ r.kind = "retry" /\ r.irp \in Irps
    BY <2>2 DEF Retry, Log, StorInv, WorldInv, Live
  <2> QED BY <2>1, <2>2
<1>3. UNCHANGED <<now, live, issued, pieces, stopped, slow, explained, finished, log, latest_ts>>
  BY DEF Reset, Retry, readVars, ringVars
<1>4. WorldInv' /\ OwnPiecesSeen'
  BY <1>3 DEF StorInv, WorldInv, Over, OwnPiecesSeen, Own, Pointed
<1>5. KeptInv'
  BY <1>2, <1>3 DEF StorInv, KeptInv, Reported, FiledAs
<1>6. BufferInv'
  <2>1. now \in Int /\ latest_ts \in Int /\ latest_ts <= now /\ FlushWait \in Nat /\ Disorder \in Nat
    BY StorPortAssumption DEF StorInv, WorldInv, BufferInv, RingInv, RingTypes
  <2> QED BY <1>2, <1>3, <2>1 DEF StorInv, BufferInv
<1> QED BY <1>1, <1>4, <1>5, <1>6 DEF StorInv

(* A piece comes back: it is logged while the session runs, and it is a    *)
(* request's that is still outstanding.                                    *)
LEMMA PieceDoneStep ==
  ASSUME StorInv, NEW q \in live, NEW from \in Started .. now, NEW bytes \in Sizes, NEW ptr \in Pointers,
         PieceDone(q, from, bytes, ptr), UNCHANGED req_cap
  PROVE  StorInv'
<1>1. RingInv'
  BY RingUntouched DEF PieceDone
<1>2. PICK r :
        r = [kind |-> "request", id |-> Cardinality(pieces) + 1, req |-> q.id, ts |-> now,
             dur |-> now - from, bytes |-> bytes,
             irp |-> IF ptr = "irp" THEN q.irp ELSE NoIrp,
             orig |-> IF ptr = "orig" THEN q.irp ELSE NoIrp]
  OBVIOUS
<1>3. /\ pieces' = pieces \cup {r}
      /\ buffer' = IF stopped THEN buffer ELSE buffer \cup {r}
      /\ q.start <= from /\ from < now
      /\ UNCHANGED <<now, live, issued, stopped, slow, explained, finished, log, latest_ts>>
  BY <1>2 DEF PieceDone, Log, readVars, ringVars
<1>4. now \in Int /\ issued \in Nat /\ Started \in Nat /\ q \in Live /\ IsFiniteSet(pieces) /\ q.id <= issued
  BY StorPortAssumption DEF StorInv, WorldInv
<1>5. Cardinality(pieces) \in Nat
  BY <1>4, FS_CardinalityType
<1>6. /\ r \in Piece /\ r.req = q.id /\ r.ts = now /\ r.kind = "request"
      /\ q.id \in Nat /\ q.start \in Int /\ q.start <= now
  BY <1>2, <1>3, <1>4, <1>5 DEF Piece, Live
<1>7. WorldInv'
  <2>1. IsFiniteSet(pieces')
    BY <1>3, <1>4, FS_AddElement
  <2>2. Over' = Over
    BY <1>3 DEF Over
  <2>3. \A s \in live : s.id = q.id => s = q
    BY DEF StorInv, WorldInv
  <2>4. \A s \in slow : s.id # q.id
    BY DEF StorInv, WorldInv, Over
  <2>5. ASSUME NEW p \in pieces'
        PROVE  /\ p \in Piece /\ p.req <= issued /\ p.ts <= now
               /\ \A s \in live : p.req = s.id => s.start <= p.ts
               /\ \A s \in slow : p.req = s.id => s.start <= p.ts /\ p.ts <= s.end
    <3>1. CASE p \in pieces
      BY <3>1 DEF StorInv, WorldInv
    <3>2. CASE p = r
      BY <1>4, <1>6, <2>3, <2>4, <3>2
    <3> QED BY <1>3, <3>1, <3>2
  <2> QED BY <1>3, <1>4, <2>1, <2>2, <2>5 DEF StorInv, WorldInv
<1>8. BufferInv'
  <2>1. latest_ts \in Int /\ latest_ts <= now /\ FlushWait \in Nat /\ Disorder \in Nat
    BY StorPortAssumption DEF StorInv, BufferInv, RingInv, RingTypes
  <2>2. CASE stopped
    BY <1>3, <2>2 DEF StorInv, BufferInv
  <2>3. CASE ~stopped
    BY <1>3, <1>4, <1>6, <2>1, <2>3 DEF StorInv, BufferInv
  <2> QED BY <2>2, <2>3
<1>9. KeptInv'
  <2>1. \A s \in slow : s.id # r.req
    BY <1>6 DEF StorInv, WorldInv, Over
  <2>2. \A p \in pieces : Reported(p) => Reported(p)'
    BY <1>3 DEF Reported, FiledAs
  <2>3. ~stopped => Reported(r)'
    BY <1>3 DEF Reported
  <2> QED BY <1>3, <2>1, <2>2, <2>3 DEF StorInv, KeptInv
<1>10. OwnPiecesSeen'
  <2>1. \A x \in explained : x.q.id # r.req
    BY <1>6 DEF StorInv, WorldInv, Over
  <2>2. \A x \in explained : Own(x.q)' = Own(x.q)
    BY <1>3, <2>1 DEF Own
  <2> QED BY <1>3, <2>2 DEF StorInv, OwnPiecesSeen, Pointed
<1> QED BY <1>1, <1>7, <1>8, <1>9, <1>10 DEF StorInv

(* A request completes; its pieces are all back. *)
LEMMA CompleteStep ==
  ASSUME StorInv, NEW q \in live, Complete(q), UNCHANGED req_cap
  PROVE  StorInv'
<1>1. RingInv'
  BY RingUntouched DEF Complete
<1>2. PICK d : d = [id |-> q.id, irp |-> q.irp, bytes |-> q.bytes, start |-> q.start,
                    end |-> now, logged |-> ~stopped]
  OBVIOUS
<1>3. /\ live' = live \ {q} /\ slow' = slow \cup {d}
      /\ UNCHANGED <<now, issued, pieces, stopped, buffer, explained, finished, log, latest_ts>>
  BY <1>2 DEF Complete, ringVars
<1>4. now \in Int /\ q \in Live /\ q.id <= issued
  BY DEF StorInv, WorldInv
<1>5. d \in Completed /\ d.id = q.id /\ d.start = q.start /\ d.end = now /\ d.logged = ~stopped
  <2>1. (~stopped) \in BOOLEAN
    OBVIOUS
  <2> QED BY <1>2, <1>4, <2>1 DEF Live, Completed
<1>6. Over' = Over \cup {d}
  BY <1>3 DEF Over
<1>7. WorldInv'
  <2>1. /\ Over' \subseteq Completed
        /\ \A r \in live' \cup Over' : r.id <= issued'
        /\ \A r \in live', s \in Over' : r.id # s.id
    BY <1>3, <1>4, <1>5, <1>6 DEF StorInv, WorldInv
  <2>2. ASSUME NEW p \in pieces', NEW s \in slow', p.req = s.id
        PROVE  s.start <= p.ts /\ p.ts <= s.end
    <3>1. CASE s = d
      BY <1>3, <1>5, <2>2, <3>1 DEF StorInv, WorldInv
    <3>2. CASE s \in slow
      BY <1>3, <2>2, <3>2 DEF StorInv, WorldInv
    <3> QED BY <1>3, <3>1, <3>2
  <2> QED BY <1>3, <2>1, <2>2 DEF StorInv, WorldInv
<1>8. BufferInv' /\ OwnPiecesSeen'
  BY <1>3 DEF StorInv, BufferInv, OwnPiecesSeen, Own, Pointed
<1>9. KeptInv'
  <2>1. \A p : Reported(p)' <=> Reported(p)
    BY <1>3 DEF Reported, FiledAs
  <2>2. d.logged => \A p \in pieces : Reported(p)
    BY <1>5 DEF StorInv, KeptInv
  <2> QED BY <1>3, <2>1, <2>2 DEF StorInv, KeptInv
<1> QED BY <1>1, <1>7, <1>8, <1>9 DEF StorInv

(* The session is stopped, and nothing more is coming once its buffer is   *)
(* empty.                                                                  *)
LEMMA EndStep ==
  ASSUME StorInv, StopSession \/ Finish, UNCHANGED req_cap
  PROVE  StorInv'
<1>1. RingInv'
  BY RingUntouched DEF StopSession, Finish
<1>2. UNCHANGED <<now, live, issued, pieces, buffer, slow, explained, log, latest_ts>>
  BY DEF StopSession, Finish, worldVars, readVars, ringVars
<1>3. WorldInv' /\ OwnPiecesSeen'
  BY <1>2 DEF StorInv, WorldInv, Over, OwnPiecesSeen, Own, Pointed
<1>4. stopped' /\ (finished' => buffer = {})
  BY DEF StopSession, Finish, worldVars, StorInv, BufferInv
<1>5. BufferInv' /\ KeptInv'
  BY <1>2, <1>4 DEF StorInv, BufferInv, KeptInv, Reported, FiledAs
<1> QED BY <1>1, <1>3, <1>5 DEF StorInv

-----------------------------------------------------------------------------
(* A piece that has been filed is inside what `window` returns, if nothing *)
(* that old is missing: the search is wider than the order may be off.     *)
LEMMA WindowHasIt ==
  ASSUME RingInv, NEW i \in 1 .. Len(log), NEW from \in Int, NEW to \in Int,
         from <= log[i].ts, log[i].ts <= to,
         pruned_until < from, reqs_lost_until < from, NEW w \in window(from, to)
  PROVE  i \in w
<1>1. /\ log \in Seq(Entry) /\ Len(log) \in Nat /\ head \in Nat /\ head <= Len(log)
      /\ pruned_until \in Int /\ reqs_lost_until \in Int
      /\ Disorder \in Nat /\ Slop \in Nat /\ Disorder < Slop
  BY StorPortAssumption, LenProperties DEF RingInv, RingTypes
<1>2. \A j \in 1 .. Len(log) : log[j].ts \in Int
  <2>1. \A x \in Entry : x.ts \in Int
    BY DEF Entry
  <2> QED BY <1>1, <2>1, ElementOfSeq
<1>3. PICK a \in PartitionPoints(log, head, from - Slop), b \in PartitionPoints(log, head, to + Slop + 1) :
        w = {j \in a + 1 .. b : log[j].ts >= from /\ log[j].ts <= to}
  BY DEF window
<1>4. /\ a \in head .. Len(log) /\ (a > head => log[a].ts < from - Slop)
      /\ b \in head .. Len(log) /\ (b < Len(log) => log[b + 1].ts >= to + Slop + 1)
  BY <1>3 DEF PartitionPoints
<1>5. head < i
  <2> SUFFICES ASSUME i <= head PROVE FALSE
    BY <1>1
  <2>1. i \in 1 .. head
    BY <1>1
  <2>2. log[i].ts < pruned_until \/ log[i].ts <= reqs_lost_until
    BY <2>1 DEF RingInv, PoppedIsDated
  <2>3. PICK x \in Int : x = log[i].ts
    BY <1>2
  <2>4. x < pruned_until \/ x <= reqs_lost_until
    BY <2>2, <2>3
  <2>5. pruned_until < x /\ reqs_lost_until < x
    <3>1. from <= x
      BY <2>3
    <3> QED BY <1>1, <3>1
  <2> QED BY <1>1, <2>4, <2>5
<1>6. \A j, k \in 1 .. Len(log) : j < k => log[j].ts <= log[k].ts + Disorder
  BY DEF RingInv, AlmostSorted
<1>7. a < i
  <2> SUFFICES ASSUME i <= a PROVE FALSE
    BY <1>1, <1>4
  <2>1. a \in 1 .. Len(log) /\ a > head
    BY <1>1, <1>4, <1>5
  <2>2. log[i].ts <= log[a].ts + Disorder
    <3>1. CASE i = a
      BY <1>1, <1>2, <3>1
    <3>2. CASE i < a
      BY <1>6, <2>1, <3>2
    <3> QED BY <1>4, <3>1, <3>2
  <2> QED BY SMTT(30), <1>1, <1>2, <1>4, <2>1, <2>2
<1>8. i <= b
  <2> SUFFICES ASSUME b < i PROVE FALSE
    BY <1>1, <1>4
  <2>1. PICK c \in 1 .. Len(log) : c = b + 1 /\ c <= i
    BY <1>1, <1>4
  <2>2. log[c].ts >= to + Slop + 1
    BY <1>1, <1>4, <2>1
  <2>3. log[c].ts <= log[i].ts + Disorder
    <3>1. CASE c = i
      BY <1>1, <1>2, <3>1
    <3>2. CASE c < i
      BY <1>6, <2>1, <3>2
    <3> QED BY <2>1, <3>1, <3>2
  <2> QED BY SMTT(30), <1>1, <1>2, <2>1, <2>2, <2>3
<1>9. i \in a + 1 .. b
  BY <1>4, <1>7, <1>8
<1> QED BY <1>3, <1>9

(* Once the trace has caught up with a request, none of its pieces is      *)
(* still on its way.                                                       *)
LEMMA CaughtUpHasIt ==
  ASSUME StorInv, NEW q \in slow, NEW p \in pieces, p.req = q.id, caught_up(q.end + Slop)
  PROVE  p \notin buffer
<1> SUFFICES ASSUME p \in buffer PROVE FALSE
  OBVIOUS
<1>1. /\ p.ts \in Int /\ p.ts <= q.end /\ now <= p.ts + FlushWait /\ latest_ts <= p.ts + Disorder
      /\ ~finished
  BY DEF StorInv, BufferInv, WorldInv
<1>2. q.end \in Int
  BY DEF StorInv, WorldInv, Over, Completed
<1>3. now \in Int /\ latest_ts \in Int /\ FlushWait \in Nat /\ Disorder \in Nat /\ Slop \in Nat /\ Disorder < Slop
  BY StorPortAssumption DEF StorInv, WorldInv, RingInv, RingTypes
<1> QED BY <1>1, <1>2, <1>3 DEF caught_up

(* A piece of a request that is answered is among the records looked at. *)
LEMMA PieceFound ==
  ASSUME StorInv, NEW q \in slow, q.logged,
         covers(q.start - Slop), caught_up(q.end + Slop),
         NEW w \in window(q.start - Slop, q.end + Slop), NEW p \in Own(q)
  PROVE  \E i \in w : FiledAs(i, p)
<1>1. p \in pieces /\ p.req = q.id
  BY DEF Own
<1>2. /\ q.start \in Int /\ q.end \in Int /\ Slop \in Nat /\ p.ts \in Int
      /\ q.start <= p.ts /\ p.ts <= q.end
  <2>1. q \in Completed /\ p \in Piece
    BY <1>1 DEF StorInv, WorldInv, Over
  <2>2. q.start <= p.ts /\ p.ts <= q.end
    BY <1>1 DEF StorInv, WorldInv
  <2> QED BY <2>1, <2>2, StorPortAssumption DEF Completed, Piece
<1>3. PICK i \in 1 .. Len(log) : FiledAs(i, p)
  <2>1. Reported(p)
    BY <1>1 DEF StorInv, KeptInv
  <2> QED BY <1>1, <2>1, CaughtUpHasIt DEF Reported
<1>4. i \in w
  <2>1. log[i].ts = p.ts
    BY <1>3 DEF FiledAs
  <2>2. PICK from \in Int, to \in Int :
          /\ from = q.start - Slop /\ to = q.end + Slop
          /\ from <= log[i].ts /\ log[i].ts <= to
    BY <1>2, <2>1
  <2>3. RingInv /\ pruned_until < from /\ reqs_lost_until < from /\ w \in window(from, to)
    BY <2>2 DEF StorInv, covers
  <2> QED BY <2>2, <2>3, WindowHasIt
<1> QED BY <1>3, <1>4

(* What the analyzer concludes of a request holds all its pieces. *)
LEMMA CorrelateHasIt ==
  ASSUME StorInv, NEW q \in slow, q.logged, Pointed(q),
         covers(q.start - Slop), caught_up(q.end + Slop),
         NEW w \in window(q.start - Slop, q.end + Slop), NEW p \in Own(q)
  PROVE  p.id \in correlate(q, w).matched
<1>1. PICK i \in w : FiledAs(i, p)
  BY PieceFound
<1> DEFINE by_ptr == {j \in w : q.irp \in {log[j].irp, log[j].orig}}
           how == IF \E j \in by_ptr : log[j].irp = q.irp THEN "Irp" ELSE "OriginalIrp"
<1>5. i \in by_ptr
  BY <1>1 DEF Pointed, FiledAs
<1>6. correlate(q, w) = split_of(q, by_ptr, how)
  BY <1>5 DEF correlate
<1>7. split_of(q, by_ptr, how).matched = {log[j].id : j \in by_ptr}
  BY DEF split_of
<1>8. log[i].id = p.id
  BY <1>1 DEF FiledAs
<1> HIDE DEF by_ptr, how
<1> QED BY <1>5, <1>6, <1>7, <1>8

(* What the analyzer concludes: nothing, or what the records say. *)
LEMMA Answered ==
  ASSUME NEW q \in slow, storage_split(q)
  PROVE  \E is : /\ explained' = explained \cup {[q |-> q, is |-> is]}
                 /\ \/ is.outcome = "NotCovered"
                    \/ /\ covers(q.start - Slop) /\ caught_up(q.end + Slop)
                       /\ \E w \in window(q.start - Slop, q.end + Slop) : is = correlate(q, w)
<1>1. CASE covers(q.start - Slop) /\ caught_up(q.end + Slop)
  BY <1>1 DEF storage_split
<1>2. CASE ~(covers(q.start - Slop) /\ caught_up(q.end + Slop))
  <2>1. PICK is : is = Nothing("NotCovered")
    OBVIOUS
  <2>2. is.outcome = "NotCovered"
    BY <2>1 DEF Nothing
  <2>3. explained' = explained \cup {[q |-> q, is |-> is]}
    BY <1>2, <2>1 DEF storage_split
  <2> QED BY <2>2, <2>3
<1> QED BY <1>1, <1>2

(* The analyzer looks at a slow request. *)
LEMMA SplitStep ==
  ASSUME StorInv, NEW q \in slow, storage_split(q), UNCHANGED req_cap
  PROVE  StorInv'
<1>1. RingInv'
  BY RingUntouched DEF storage_split
<1>2. /\ slow' = slow \ {q}
      /\ UNCHANGED <<now, live, issued, pieces, stopped, buffer, finished, log, latest_ts>>
  BY DEF storage_split, worldVars, ringVars
<1>3. PICK is : /\ explained' = explained \cup {[q |-> q, is |-> is]}
                /\ \/ is.outcome = "NotCovered"
                   \/ /\ covers(q.start - Slop) /\ caught_up(q.end + Slop)
                      /\ \E w \in window(q.start - Slop, q.end + Slop) : is = correlate(q, w)
  BY Answered
<1>4. WorldInv' /\ BufferInv' /\ KeptInv'
  <2>1. Over' = Over
    <3> DEFINE d == [q |-> q, is |-> is]
    <3>0. explained' = explained \cup {d} /\ d.q = q
      BY <1>3
    <3> HIDE DEF d
    <3>1. {x.q : x \in explained'} = {x.q : x \in explained} \cup {q}
      BY <3>0
    <3> QED BY <1>2, <3>1 DEF Over
  <2> QED BY <1>2, <2>1 DEF StorInv, WorldInv, BufferInv, KeptInv, Reported, FiledAs
<1>5. OwnPiecesSeen'
  <2>1. \A r : Own(r)' = Own(r) /\ (Pointed(r)' <=> Pointed(r))
    BY <1>2 DEF Own, Pointed
  <2>2. ASSUME q.logged, is.outcome # "NotCovered", Pointed(q)
        PROVE  {p.id : p \in Own(q)} \subseteq is.matched
    BY <1>3, <2>2, CorrelateHasIt
  <2>3. ASSUME NEW x \in explained', x.q.logged, x.is.outcome # "NotCovered", Pointed(x.q)
        PROVE  {p.id : p \in Own(x.q)} \subseteq x.is.matched
    <3>1. CASE x \in explained
      BY <2>3, <3>1 DEF StorInv, OwnPiecesSeen
    <3>2. CASE x = [q |-> q, is |-> is]
      BY <2>2, <2>3, <3>2
    <3> QED BY <1>3, <3>1, <3>2
  <2> QED BY <2>1, <2>3 DEF OwnPiecesSeen
<1> QED BY <1>1, <1>4, <1>5 DEF StorInv

-----------------------------------------------------------------------------
(* Nothing has happened before the session starts. *)
LEMMA StorStart == Init => StorInv
<1> SUFFICES ASSUME Init PROVE StorInv
  OBVIOUS
<1>1. WorldInv
  BY StorPortAssumption, FS_EmptySet DEF Init, WorldInv, Over
<1>2. RingInv
  <2>1. log \in Seq(Entry) /\ Len(log) = 0
    BY EmptySeq DEF Init
  <2> QED BY <2>1, StorPortAssumption DEF Init, RingInv, RingTypes, AlmostSorted, PoppedIsDated, NoRetry
<1>3. BufferInv /\ KeptInv /\ OwnPiecesSeen
  BY StorPortAssumption DEF Init, BufferInv, KeptInv, OwnPiecesSeen
<1> QED BY <1>1, <1>2, <1>3 DEF StorInv

(* Every step keeps the invariant. *)
LEMMA StorNext == StorInv /\ [Next]_vars => StorInv'
<1> SUFFICES ASSUME StorInv, [Next]_vars PROVE StorInv'
  OBVIOUS
<1>1. CASE Next
  <2>1. UNCHANGED req_cap /\ Step
    BY <1>1 DEF Next
  <2>2. CASE Advance
    BY <2>1, <2>2, AdvanceStep
  <2>3. ASSUME NEW irp \in Irps, NEW bytes \in Sizes, Issue(irp, bytes) PROVE StorInv'
    BY <2>1, <2>3, IssueStep
  <2>4. ASSUME NEW q \in live, NEW from \in Started .. now, NEW bytes \in Sizes, NEW ptr \in Pointers,
               PieceDone(q, from, bytes, ptr)
        PROVE  StorInv'
    BY <2>1, <2>4, PieceDoneStep
  <2>5. CASE Reset \/ \E q \in live : Retry(q)
    BY <2>1, <2>5, LoggedStep
  <2>6. ASSUME NEW q \in live, Complete(q) PROVE StorInv'
    BY <2>1, <2>6, CompleteStep
  <2>7. CASE StopSession \/ Finish
    BY <2>1, <2>7, EndStep
  <2>8. ASSUME NEW e \in buffer, handle(e) PROVE StorInv'
    BY <2>1, <2>8, HandleStep
  <2>9. ASSUME NEW q \in slow, storage_split(q) PROVE StorInv'
    BY <2>1, <2>9, SplitStep
  <2> QED BY <2>1, <2>2, <2>3, <2>4, <2>5, <2>6, <2>7, <2>8, <2>9 DEF Step
<1>2. CASE UNCHANGED vars
  <2>1. RingInv'
    BY <1>2, RingUntouched DEF vars
  <2>2. /\ UNCHANGED <<now, live, issued, pieces, stopped, buffer, slow, explained, finished, log, latest_ts>>
    BY <1>2 DEF vars, worldVars, readVars, ringVars
  <2>3. WorldInv' /\ BufferInv' /\ KeptInv' /\ OwnPiecesSeen'
    BY <2>2 DEF StorInv, WorldInv, Over, BufferInv, KeptInv, Reported, FiledAs, OwnPiecesSeen, Own, Pointed
  <2> QED BY <2>1, <2>3 DEF StorInv
<1> QED BY <1>1, <1>2

(* The ring is almost sorted and dated, and no piece of a request that was *)
(* logged goes missing on its way.                                         *)
THEOREM StorInvariant == Spec => []StorInv
<1> QED BY StorStart, StorNext, PTL DEF Spec

(* The answer about a slow request has all the pieces that are its own, or *)
(* says that nothing can be concluded: no pruning, no count cap, no event  *)
(* that comes late or out of order can take one of them out of the answer. *)
THEOREM PiecesSeen == Spec => []OwnPiecesSeen
<1>1. StorInv => OwnPiecesSeen
  BY DEF StorInv
<1> QED BY StorInvariant, <1>1, PTL

-----------------------------------------------------------------------------
(* union_len: how long at least one of some spans lasts.                   *)
Span        == [from : Int, to : Int]
During(S)   == {t \in Int : \E s \in S : s.from <= t /\ t < s.to}
Earlier(t, s) == t.from < s.from \/ (t.from = s.from /\ t.to < s.to)
LastSpan(S)     == CHOOSE s \in S : \A t \in S \ {s} : Earlier(t, s)
Sweep       == [total : Int, from : Int, to : Int]
NoSpan      == [total |-> 0, from |-> -1, to |-> -1]
Join(c, s)  == IF s.from <= c.to THEN [c EXCEPT !.to = Max2(@, s.to)]
               ELSE [total |-> c.total + (c.to - c.from), from |-> s.from, to |-> s.to]

SpanSet(S) == S \subseteq Span /\ IsFiniteSet(S) /\ \A s \in S : 0 <= s.from /\ s.from < s.to

(* The span that comes last. *)
LEMMA LastIs ==
  ASSUME NEW S, SpanSet(S), S # {}
  PROVE  LastSpan(S) \in S /\ \A t \in S : t.from <= LastSpan(S).from
<1>1. S \subseteq Span /\ IsFiniteSet(S) /\ \A s \in S : s.from \in Int /\ s.to \in Int
  BY DEF SpanSet, Span
<1>2. PICK f \in [S -> Int] : \A s \in S : f[s] = s.from
  <2>1. [s \in S |-> s.from] \in [S -> Int]
    BY <1>1
  <2> QED BY <2>1
<1>3. PICK F : F = {f[s] : s \in S}
  OBVIOUS
<1>4. F \subseteq Int /\ IsFiniteSet(F) /\ F # {}
  BY <1>1, <1>3, ImageFinite
<1>5. PICK a \in F : \A y \in F : y <= a
  BY <1>4, Extremes
<1>6. PICK L : L = {s \in S : s.from = a}
  OBVIOUS
<1>7. L \subseteq S /\ IsFiniteSet(L) /\ L # {} /\ \A s \in S : s.from <= a
  <2>1. L \in SUBSET S
    BY <1>6
  <2>2. IsFiniteSet(L)
    BY <1>1, <2>1, FS_Subset
  <2>3. \A s \in S : f[s] \in F
    BY <1>3
  <2>4. PICK s \in S : f[s] = a
    BY <1>3, <1>5
  <2>5. s \in L
    BY <1>2, <1>6, <2>4
  <2> QED BY <1>2, <1>5, <2>1, <2>2, <2>3, <2>5
<1>8. PICK g \in [L -> Int] : \A s \in L : g[s] = s.to
  <2>1. [s \in L |-> s.to] \in [L -> Int]
    BY <1>1, <1>7
  <2> QED BY <2>1
<1>9. PICK G : G = {g[s] : s \in L}
  OBVIOUS
<1>10. G \subseteq Int /\ IsFiniteSet(G) /\ G # {}
  BY <1>7, <1>9, ImageFinite
<1>11. PICK b \in G : \A y \in G : y <= b
  BY <1>10, Extremes
<1>12. PICK m \in L : g[m] = b
  BY <1>9, <1>11
<1>13. \A t \in S \ {m} : Earlier(t, m)
  <2> SUFFICES ASSUME NEW t \in S, t # m PROVE Earlier(t, m)
    OBVIOUS
  <2>1. m \in S /\ m.from = a /\ m.to = b
    BY <1>6, <1>8, <1>12
  <2>2. t.from <= a /\ t.from \in Int /\ t.to \in Int /\ a \in Int /\ b \in Int
    BY <1>1, <1>4, <1>7, <1>10, <1>11
  <2>3. CASE t.from < a
    BY <2>1, <2>3 DEF Earlier
  <2>4. CASE t.from = a
    <3>1. t \in L /\ g[t] \in G /\ g[t] = t.to
      BY <1>6, <1>8, <1>9, <2>4
    <3>2. t.to <= b
      BY <1>11, <3>1
    <3>3. t.to # b
      <4>1. t = [from |-> t.from, to |-> t.to] /\ m = [from |-> m.from, to |-> m.to]
        BY <1>1, <2>1 DEF Span
      <4> QED BY <2>1, <2>4, <4>1
    <3>4. t.to < b
      BY <2>2, <3>2, <3>3
    <3> QED BY <2>1, <2>4, <3>4 DEF Earlier
  <2> QED BY <2>2, <2>3, <2>4
<1>14. m \in S
  BY <1>7
<1>15. LastSpan(S) \in S /\ \A t \in S \ {LastSpan(S)} : Earlier(t, LastSpan(S))
  BY <1>13, <1>14 DEF LastSpan
<1>16. PICK z \in S : z = LastSpan(S) /\ \A t \in S \ {z} : Earlier(t, z)
  BY <1>15
<1>17. \A t \in S : t.from <= z.from
  <2> SUFFICES ASSUME NEW t \in S PROVE t.from <= z.from
    OBVIOUS
  <2>1. t.from \in Int /\ z.from \in Int
    BY <1>1
  <2>2. t = z \/ t.from < z.from \/ t.from = z.from
    BY <1>16 DEF Earlier
  <2> QED BY <2>1, <2>2
<1> QED BY <1>16, <1>17

(* What the sweep knows of the spans it has joined. *)
Swept(S, c) ==
  /\ c \in Sweep /\ c.from <= c.to
  /\ IsFiniteSet(During(S)) /\ c.total + (c.to - c.from) = Cardinality(During(S))
  /\ \A t \in Int : c.from <= t /\ t < c.to => t \in During(S)
  /\ \A s \in S : s.to <= c.to
  /\ \/ S = {} /\ c.to = -1
     \/ \E s \in S : c.from = s.from

LEMMA SweptNone == Swept({}, NoSpan)
<1>1. During({}) = {}
  BY DEF During
<1>2. IsFiniteSet(During({})) /\ Cardinality(During({})) = 0
  BY <1>1, FS_EmptySet
<1> QED BY <1>2 DEF Swept, NoSpan, Sweep

(* Ticks that are new come after the ones there were. *)
Before(D, a) == \A t \in D : t < a

LEMMA MoreTicks ==
  ASSUME NEW D, D \subseteq Int, IsFiniteSet(D), NEW a \in Int, NEW b \in Int, a <= b, Before(D, a)
  PROVE  /\ IsFiniteSet(D \cup (a .. b - 1))
         /\ Cardinality(D \cup (a .. b - 1)) = Cardinality(D) + (b - a)
<1>1. PICK I : I = a .. b - 1
  OBVIOUS
<1>2. IsFiniteSet(I) /\ Cardinality(I) = b - a
  <2>1. b - 1 \in Int
    OBVIOUS
  <2>2. IsFiniteSet(I) /\ Cardinality(I) = IF a > b - 1 THEN 0 ELSE (b - 1) - a + 1
    BY <1>1, <2>1, FS_Interval
  <2> QED BY <2>2
<1>3. D \cap I = {}
  BY <1>1 DEF Before
<1>4. Cardinality(D \cap I) = 0 /\ Cardinality(D) \in Nat
  BY <1>3, FS_EmptySet, FS_CardinalityType
<1>5. IsFiniteSet(D \cup I) /\ Cardinality(D \cup I) = Cardinality(D) + Cardinality(I) - Cardinality(D \cap I)
  BY <1>2, FS_Union
<1> QED BY <1>1, <1>2, <1>4, <1>5

(* A span that begins no earlier than any of them is joined. *)
LEMMA SweptMore ==
  ASSUME NEW S, SpanSet(S), NEW s, s \in Span, 0 <= s.from, s.from < s.to,
         \A t \in S : t.from <= s.from, NEW c, Swept(S, c)
  PROVE  Swept(S \cup {s}, Join(c, s))
<1>1. /\ c \in Sweep /\ c.from \in Int /\ c.to \in Int /\ c.total \in Int /\ c.from <= c.to
      /\ s.from \in Int /\ s.to \in Int /\ \A t \in S : t.from \in Int /\ t.to \in Int
  BY DEF Swept, Sweep, Span, SpanSet
<1>2. PICK D : D = During(S)
  OBVIOUS
<1>3. /\ D \subseteq Int /\ IsFiniteSet(D) /\ c.total + (c.to - c.from) = Cardinality(D)
      /\ \A t \in Int : c.from <= t /\ t < c.to => t \in D
      /\ \A t \in S : t.to <= c.to
  BY <1>2 DEF Swept, During
<1>4. \A t \in D : t < c.to
  <2> SUFFICES ASSUME NEW t \in D PROVE t < c.to
    OBVIOUS
  <2>1. PICK r \in S : r.from <= t /\ t < r.to
    BY <1>2 DEF During
  <2> QED BY <1>1, <1>3, <2>1
<1>5. PICK N : N = During(S \cup {s})
  OBVIOUS
<1>6. \A t : t \in N <=> t \in Int /\ (t \in D \/ (s.from <= t /\ t < s.to))
  BY <1>2, <1>5 DEF During
<1>7. CASE s.from <= c.to
  <2>1. PICK to \in Int : to = Max2(c.to, s.to)
    BY <1>1 DEF Max2
  <2>2. c.to <= to /\ s.to <= to /\ (to = c.to \/ to = s.to)
    BY <1>1, <2>1 DEF Max2
  <2>3. PICK n \in Sweep : n = Join(c, s) /\ n.total = c.total /\ n.from = c.from /\ n.to = to
    <3>1. PICK n : n = [total |-> c.total, from |-> c.from, to |-> to]
      OBVIOUS
    <3>2. n = Join(c, s)
      BY <1>1, <1>7, <2>1, <3>1 DEF Join, Sweep
    <3>3. n \in Sweep /\ n.total = c.total /\ n.from = c.from /\ n.to = to
      BY <1>1, <2>1, <3>1 DEF Sweep
    <3> QED BY <3>2, <3>3
  <2>4. PICK z \in S : c.from = z.from
    BY <1>1, <1>7 DEF Swept
  <2>5. c.from <= s.from
    BY <2>4
  <2>6. N = D \cup (c.to .. to - 1)
    <3>1. ASSUME NEW t \in N PROVE t \in D \cup (c.to .. to - 1)
      <4>1. t \in Int /\ (t \in D \/ (s.from <= t /\ t < s.to))
        BY <1>6, <3>1
      <4>2. CASE t < c.to
        BY <1>1, <1>3, <2>5, <4>1, <4>2
      <4>3. CASE c.to <= t
        BY <1>1, <1>4, <2>2, <4>1, <4>3
      <4> QED BY <1>1, <4>1, <4>2, <4>3
    <3>2. ASSUME NEW t \in D \cup (c.to .. to - 1) PROVE t \in N
      <4>1. CASE t \in D
        BY <1>3, <1>6, <4>1
      <4>2. CASE t \in c.to .. to - 1
        BY <1>1, <1>6, <1>7, <2>1, <2>2, <4>2
      <4> QED BY <4>1, <4>2
    <3> QED BY <3>1, <3>2
  <2>7. IsFiniteSet(N) /\ Cardinality(N) = Cardinality(D) + (to - c.to)
    <3>1. PICK a \in Int : a = c.to
      BY <1>1
    <3>2. Before(D, a) /\ a <= to
      BY <1>4, <2>2, <3>1 DEF Before
    <3>3. D \subseteq Int /\ IsFiniteSet(D)
      BY <1>3
    <3>4. IsFiniteSet(D \cup (a .. to - 1)) /\ Cardinality(D \cup (a .. to - 1)) = Cardinality(D) + (to - a)
      BY <2>1, <3>1, <3>2, <3>3, MoreTicks
    <3> QED BY <2>6, <3>1, <3>4
  <2>8. n.total + (n.to - n.from) = Cardinality(N) /\ n.from <= n.to
    BY <1>1, <1>3, <2>1, <2>2, <2>3, <2>7
  <2>9. \A t \in Int : n.from <= t /\ t < n.to => t \in N
    <3> SUFFICES ASSUME NEW t \in Int, n.from <= t, t < n.to PROVE t \in N
      OBVIOUS
    <3>1. CASE t < c.to
      BY <1>3, <1>6, <2>3, <3>1
    <3>2. CASE c.to <= t
      BY <1>1, <2>1, <2>3, <2>6, <3>2
    <3> QED BY <1>1, <3>1, <3>2
  <2>10. \A t \in S \cup {s} : t.to <= n.to
    BY <1>1, <1>3, <2>1, <2>2, <2>3
  <2>11. \E t \in S \cup {s} : n.from = t.from
    BY <2>3, <2>4
  <2> QED BY <1>5, <2>3, <2>7, <2>8, <2>9, <2>10, <2>11 DEF Swept
<1>8. CASE ~(s.from <= c.to)
  <2>1. PICK n \in Sweep : n = Join(c, s) /\ n.total = c.total + (c.to - c.from) /\ n.from = s.from /\ n.to = s.to
    <3>1. PICK n : n = [total |-> c.total + (c.to - c.from), from |-> s.from, to |-> s.to]
      OBVIOUS
    <3>2. n = Join(c, s)
      BY <1>8, <3>1 DEF Join
    <3>3. n \in Sweep /\ n.total = c.total + (c.to - c.from) /\ n.from = s.from /\ n.to = s.to
      BY <1>1, <3>1 DEF Sweep
    <3> QED BY <3>2, <3>3
  <2>2. \A t \in D : t < s.from
    BY <1>1, <1>3, <1>4, <1>8
  <2>9. PICK a \in Int : a = s.from
    BY <1>1
  <2>10. PICK b \in Int : b = s.to /\ a < b
    BY <1>1, <2>9
  <2>3. N = D \cup (a .. b - 1)
    <3>1. \A t : t \in a .. b - 1 <=> t \in Int /\ a <= t /\ t < b
      OBVIOUS
    <3>2. \A t : t \in N <=> t \in Int /\ (t \in D \/ (a <= t /\ t < b))
      BY <1>6, <2>9, <2>10
    <3>3. \A t : t \in N <=> t \in D \/ t \in a .. b - 1
      BY <1>3, <3>1, <3>2
    <3> QED BY <3>3
  <2>11. IsFiniteSet(N) /\ Cardinality(N) = Cardinality(D) + (b - a)
    <3>1. Before(D, a) /\ a <= b
      BY <2>2, <2>9, <2>10 DEF Before
    <3>2. D \subseteq Int /\ IsFiniteSet(D)
      BY <1>3
    <3> QED BY <2>3, <2>9, <2>10, <3>1, <3>2, MoreTicks
  <2>4. IsFiniteSet(N) /\ Cardinality(N) = Cardinality(D) + (s.to - s.from)
    BY <2>9, <2>10, <2>11
  <2>5. n.total + (n.to - n.from) = Cardinality(N) /\ n.from <= n.to
    BY <1>1, <1>3, <2>1, <2>4
  <2>6. \A t \in Int : n.from <= t /\ t < n.to => t \in N
    BY <1>6, <2>1
  <2>7. \A t \in S \cup {s} : t.to <= n.to
    BY <1>1, <1>3, <1>8, <2>1
  <2>8. \E t \in S \cup {s} : n.from = t.from
    BY <2>1
  <2> QED BY <1>5, <2>1, <2>4, <2>5, <2>6, <2>7, <2>8 DEF Swept
<1> QED BY <1>7, <1>8

(* The sweep, over a set of spans. *)
Sweeps(cur, S) ==
  cur = [T \in SUBSET S |-> IF T = {} THEN NoSpan ELSE Join(cur[T \ {LastSpan(T)}], LastSpan(T))]

LEMMA SweepExists ==
  ASSUME NEW S, SpanSet(S)
  PROVE  \E cur : Sweeps(cur, S)
<1>1. PICK pick : pick = [T \in SUBSET S |-> LastSpan(T)]
  OBVIOUS
<1>2. \A T \in SUBSET S : SpanSet(T)
  BY FS_Subset DEF SpanSet
<1>3. \A T \in SUBSET S : pick[T] = LastSpan(T) /\ (T # {} => pick[T] \in T)
  BY <1>1, <1>2, LastIs
<1>4. PICK step : step = [s \in S |-> [c \in Sweep |-> Join(c, s)]]
  OBVIOUS
<1>5. step \in [S -> [Sweep -> Sweep]]
  <2>1. ASSUME NEW s \in S, NEW c \in Sweep PROVE Join(c, s) \in Sweep
    <3>1. s.from \in Int /\ s.to \in Int /\ Max2(c.to, s.to) \in Int
      BY DEF SpanSet, Span, Sweep, Max2
    <3> QED BY <3>1 DEF Join, Sweep
  <2> QED BY <1>4, <2>1
<1>6. PICK cur \in [SUBSET S -> Sweep] : Peels(cur, S, NoSpan, pick, step)
  <2>1. Chooses(pick, S)
    BY <1>3 DEF Chooses
  <2>2. NoSpan \in Sweep /\ IsFiniteSet(S)
    BY DEF NoSpan, Sweep, SpanSet
  <2> QED BY <1>5, <2>1, <2>2, SetRecursion
<1>7. \A T \in SUBSET S : cur[T] = IF T = {} THEN NoSpan ELSE step[pick[T]][cur[T \ {pick[T]}]]
  BY <1>6 DEF Peels
<1>8. \A T \in SUBSET S : cur[T] = IF T = {} THEN NoSpan ELSE Join(cur[T \ {LastSpan(T)}], LastSpan(T))
  <2> SUFFICES ASSUME NEW T \in SUBSET S, T # {} PROVE cur[T] = Join(cur[T \ {LastSpan(T)}], LastSpan(T))
    BY <1>7
  <2>1. PICK s \in S : s = LastSpan(T) /\ s = pick[T] /\ T \ {s} \in SUBSET S
    BY <1>3
  <2>2. PICK c \in Sweep : c = cur[T \ {s}]
    BY <1>6, <2>1
  <2>3. cur[T] = step[s][c]
    BY <1>7, <2>1, <2>2
  <2>4. step[s][c] = Join(c, s)
    BY <1>4
  <2> QED BY <2>1, <2>2, <2>3, <2>4
<1>9. cur = [T \in SUBSET S |-> cur[T]]
  BY <1>6
<1> QED BY <1>8, <1>9 DEF Sweeps

LEMMA SweepIs ==
  ASSUME NEW S, SpanSet(S), NEW cur, Sweeps(cur, S)
  PROVE  Swept(S, cur[S])
<1> DEFINE P == {T \in SUBSET S : Swept(T, cur[T])}
<1>1. \A T \in SUBSET S : (\A x \in T : T \ {x} \in P) => T \in P
  <2>1. TAKE T \in SUBSET S
  <2>2. HAVE \A x \in T : T \ {x} \in P
  <2>3. cur[T] = IF T = {} THEN NoSpan ELSE Join(cur[T \ {LastSpan(T)}], LastSpan(T))
    BY DEF Sweeps
  <2>4. CASE T = {}
    BY <2>3, <2>4, SweptNone
  <2>5. CASE T # {}
    <3>1. SpanSet(T)
      BY FS_Subset DEF SpanSet
    <3>2. PICK s \in T : s = LastSpan(T) /\ \A t \in T : t.from <= s.from
      BY <2>5, <3>1, LastIs
    <3>3. PICK R : R = T \ {s}
      OBVIOUS
    <3>4. SpanSet(R) /\ \A t \in R : t.from <= s.from
      BY <3>1, <3>2, <3>3, FS_RemoveElement DEF SpanSet
    <3>5. s \in Span /\ 0 <= s.from /\ s.from < s.to
      BY <3>1 DEF SpanSet
    <3>6. Swept(R, cur[R])
      BY <2>2, <3>3
    <3>7. Swept(R \cup {s}, Join(cur[R], s))
      BY <3>4, <3>5, <3>6, SweptMore
    <3>8. R \cup {s} = T /\ cur[T] = Join(cur[R], s)
      BY <2>3, <2>5, <3>2, <3>3
    <3> QED BY <3>7, <3>8
  <2> QED BY <2>4, <2>5
<1>2. S \in P
  <2>1. S \in SUBSET S /\ IsFiniteSet(S)
    BY DEF SpanSet
  <2> HIDE DEF P
  <2> QED BY <1>1, <2>1, SubsetInduction
<1> QED BY <1>2

(* The length of the union is the number of ticks that are in any of them. *)
LEMMA UnionLen ==
  ASSUME NEW spans, spans \subseteq Span, IsFiniteSet(spans), \A s \in spans : 0 <= s.from
  PROVE  IsFiniteSet(During(spans)) /\ union_len(spans) = Cardinality(During(spans))
<1>1. PICK S : S = {s \in spans : s.to > s.from}
  OBVIOUS
<1>2. SpanSet(S)
  <2>1. S \in SUBSET spans
    BY <1>1
  <2>2. IsFiniteSet(S)
    BY <2>1, FS_Subset
  <2>3. \A s \in S : s \in Span /\ s.from < s.to /\ 0 <= s.from
    BY <1>1 DEF Span
  <2> QED BY <2>2, <2>3 DEF SpanSet
<1>3. During(spans) = During(S)
  <2>1. \A s \in spans : s.from \in Int /\ s.to \in Int
    BY DEF Span
  <2>2. ASSUME NEW t \in Int, NEW s \in spans, s.from <= t, t < s.to PROVE s \in S
    BY <1>1, <2>1, <2>2
  <2> QED BY <1>1, <2>2 DEF During
<1>4. PICK cur : cur = CHOOSE c : Sweeps(c, S)
  OBVIOUS
<1>5. union_len(spans) = cur[S].total + (cur[S].to - cur[S].from)
  BY <1>1, <1>4 DEF union_len, Sweeps, Join, LastSpan, Earlier, NoSpan
<1>6. Sweeps(cur, S)
  BY <1>2, <1>4, SweepExists
<1>7. Swept(S, cur[S])
  BY <1>2, <1>6, SweepIs
<1> QED BY <1>3, <1>5, <1>7 DEF Swept


-----------------------------------------------------------------------------
(* Whose pieces are whose.  No two requests under way share a pointer, and *)
(* one that takes a pointer over begins when the one before is complete.   *)
OwnersApart ==
  /\ \A q, r \in live : q.irp = r.irp => q = r
  /\ \A r \in live, q \in Over : r.irp = q.irp => q.end <= r.start

RequestTimes ==
  /\ Started <= now
  /\ \A q \in live : Started <= q.start /\ q.start <= now
  /\ \A q \in Over : Started <= q.start /\ q.start <= q.end /\ q.end <= now

(* A piece lies within its own request, and outside of every other request *)
(* that has the pointer it carries.                                        *)
Carries(p, q) == q.irp \in {p.irp, p.orig}
Within(p, q)  == q.start <= p.ts - p.dur /\ p.ts <= q.end
Outside(p, q) == p.ts <= q.start \/ q.end <= p.ts - p.dur

PiecesPlaced ==
  \A p \in pieces :
    /\ Started <= p.ts - p.dur /\ 0 <= p.dur /\ p.ts <= now
    /\ \A q \in live : p.req = q.id => q.start <= p.ts - p.dur
    /\ \A q \in live : p.req # q.id /\ Carries(p, q) => p.ts <= q.start
    /\ \A q \in Over : p.req = q.id => Within(p, q)
    /\ \A q \in Over : p.req # q.id /\ Carries(p, q) => Outside(p, q)

(* What is in the ring, and on its way to it, came from the drive. *)
RingIsPieces == \A i \in 1 .. Len(log) : \E p \in pieces : FiledAs(i, p)

TimeInv == OwnersApart /\ RequestTimes /\ PiecesPlaced /\ RingIsPieces /\ InsideIsOwnTime

(* The types of what the steps handle. *)
LEMMA StorTypes ==
  ASSUME StorInv
  PROVE  /\ now \in Int /\ Started \in Nat /\ NoIrp \notin Irps /\ issued \in Nat
         /\ \A q \in live : q.start \in Int /\ q.irp \in Irps /\ q.id \in Nat
         /\ \A q \in Over : q.start \in Int /\ q.end \in Int /\ q.irp \in Irps /\ q.id \in Nat
         /\ \A p \in pieces : p.ts \in Int /\ p.dur \in Int /\ p.req \in Nat
<1>1. live \subseteq Live /\ Over \subseteq Completed /\ pieces \subseteq Piece /\ now \in Int /\ issued \in Nat
  BY DEF StorInv, WorldInv
<1>2. /\ \A q \in Live : q.start \in Int /\ q.irp \in Irps /\ q.id \in Nat
      /\ \A q \in Completed : q.start \in Int /\ q.end \in Int /\ q.irp \in Irps /\ q.id \in Nat
      /\ \A p \in Piece : p.ts \in Int /\ p.dur \in Int /\ p.req \in Nat
  BY DEF Live, Completed, Piece
<1> QED BY <1>1, <1>2, StorPortAssumption

(* Answers already given stand: no piece is added to a request that is     *)
(* over.                                                                   *)
LEMMA AnswersStand ==
  ASSUME InsideIsOwnTime, explained' = explained, \A x \in explained : Own(x.q)' = Own(x.q)
  PROVE  InsideIsOwnTime'
  BY DEF InsideIsOwnTime, Pointed

(* Time passes, or an event is logged or delivered, or the session ends:   *)
(* the requests and their pieces are as they were.                         *)
LEMMA SameWorld ==
  ASSUME StorInv, TimeInv, UNCHANGED <<live, pieces, slow, explained>>, now' \in Int, now <= now',
         RingIsPieces'
  PROVE  TimeInv'
<1>1. OwnersApart /\ RequestTimes /\ PiecesPlaced /\ InsideIsOwnTime /\ Over' = Over
  BY DEF TimeInv, Over
<1>2. InsideIsOwnTime'
  BY <1>1, AnswersStand DEF Own
<1>3. OwnersApart' /\ RequestTimes'
  BY <1>1, StorTypes DEF OwnersApart, RequestTimes
<1>4. PiecesPlaced'
  BY <1>1, StorTypes DEF PiecesPlaced, Carries, Within, Outside
<1> QED BY <1>2, <1>3, <1>4 DEF TimeInv

LEMMA SameRing ==
  ASSUME RingIsPieces, log' = log, pieces \subseteq pieces'
  PROVE  RingIsPieces'
  BY DEF RingIsPieces, FiledAs

(* A record is filed as the piece it is. *)
LEMMA HandleFiles ==
  ASSUME StorInv, TimeInv, NEW e \in buffer, handle(e)
  PROVE  RingIsPieces'
<1>1. /\ RingInv /\ e.ts \in Int /\ RingIsPieces /\ pieces' = pieces
      /\ e.kind \in {"request", "retry", "reset"}
      /\ (e.kind = "request" => e \in pieces /\ e \in Piece)
  BY DEF StorInv, BufferInv, WorldInv, handle, worldVars, TimeInv
<1>2. CASE e.kind # "request"
  <2>1. log' = log
    BY <1>1, <1>2 DEF handle, on_retry, on_reset
  <2> QED BY <1>1, <2>1, SameRing
<1>3. CASE e.kind = "request"
  <2>1. push_req(e, pruned(e.ts))
    BY <1>3 DEF handle
  <2>2. PICK x \in Entry :
          /\ x.id = e.id /\ x.ts = e.ts /\ x.dur = e.dur /\ x.irp = e.irp /\ x.orig = e.orig
          /\ log' = Append(log, x)
    BY <1>1, <1>3, <2>1, PushReq
  <2>3. log \in Seq(Entry) /\ Len(log) \in Nat
    BY <1>1, LenProperties DEF RingInv, RingTypes
  <2>4. /\ Len(log') = Len(log) + 1 /\ log'[Len(log) + 1] = x
        /\ \A i \in 1 .. Len(log) : log'[i] = log[i]
    BY <2>2, <2>3, PushSpec
  <2>5. ASSUME NEW i \in 1 .. Len(log) + 1 PROVE \E p \in pieces : FiledAs(i, p)'
    <3>1. CASE i \in 1 .. Len(log)
      <4>1. PICK p \in pieces : FiledAs(i, p)
        BY <1>1, <3>1 DEF RingIsPieces
      <4> QED BY <2>4, <3>1, <4>1 DEF FiledAs
    <3>2. CASE i = Len(log) + 1
      BY <1>1, <1>3, <2>2, <2>4, <3>2 DEF FiledAs
    <3> QED BY <2>3, <3>1, <3>2
  <2> QED BY <1>1, <2>4, <2>5 DEF RingIsPieces
<1> QED BY <1>2, <1>3

(* A request is issued. *)
LEMMA IssueTimes ==
  ASSUME StorInv, TimeInv, NEW irp \in Irps, NEW bytes \in Sizes, Issue(irp, bytes)
  PROVE  TimeInv'
<1>1. PICK q : q = [id |-> issued + 1, irp |-> irp, bytes |-> bytes, start |-> now]
  OBVIOUS
<1>2. /\ live' = live \cup {q} /\ UNCHANGED <<now, pieces, slow, explained, log>>
      /\ \A r \in live : r.irp # q.irp
  BY <1>1 DEF Issue, readVars, ringVars
<1>3. q.start = now /\ q.id = issued + 1
  BY <1>1
<1>4. OwnersApart /\ RequestTimes /\ PiecesPlaced /\ InsideIsOwnTime /\ RingIsPieces /\ Over' = Over
  BY <1>2 DEF TimeInv, Over
<1>5. \A p \in pieces : p.req # q.id
  <2>1. \A p \in pieces : p.req <= issued /\ p.req \in Nat
    BY StorTypes DEF StorInv, WorldInv
  <2> QED BY <1>3, <2>1, StorTypes
<1>6. now \in Int /\ Started <= now
  BY <1>4, StorTypes DEF RequestTimes
<1>7. OwnersApart' /\ RequestTimes'
  BY <1>2, <1>3, <1>4, <1>6, StorTypes DEF OwnersApart, RequestTimes
<1>8. PiecesPlaced'
  BY <1>2, <1>3, <1>4, <1>5 DEF PiecesPlaced, Carries, Within, Outside
<1>9. InsideIsOwnTime' /\ RingIsPieces'
  BY <1>2, <1>4, AnswersStand, SameRing DEF Own
<1> QED BY <1>7, <1>8, <1>9 DEF TimeInv

(* A piece of q comes back. *)
LEMMA PieceTimes ==
  ASSUME StorInv, TimeInv, NEW q \in live, NEW from \in Started .. now, NEW bytes \in Sizes, NEW ptr \in Pointers,
         PieceDone(q, from, bytes, ptr)
  PROVE  TimeInv'
<1>1. PICK p :
        p = [kind |-> "request", id |-> Cardinality(pieces) + 1, req |-> q.id, ts |-> now,
             dur |-> now - from, bytes |-> bytes,
             irp |-> IF ptr = "irp" THEN q.irp ELSE NoIrp,
             orig |-> IF ptr = "orig" THEN q.irp ELSE NoIrp]
  OBVIOUS
<1>2. /\ pieces' = pieces \cup {p} /\ q.start <= from /\ from < now
      /\ UNCHANGED <<now, live, slow, explained, log>>
  BY <1>1 DEF PieceDone, readVars, ringVars
<1>3. /\ now \in Int /\ Started \in Nat /\ from \in Int /\ Started <= from
      /\ q.start \in Int /\ q.irp \in Irps /\ NoIrp \notin Irps
  BY StorTypes
<1>4. p.req = q.id /\ p.ts = now /\ p.dur = now - from /\ {p.irp, p.orig} \subseteq {q.irp, NoIrp}
  BY <1>1
<1>5. p.ts - p.dur = from /\ p.dur >= 0
  BY <1>2, <1>3, <1>4
<1>6. OwnersApart /\ RequestTimes /\ PiecesPlaced /\ InsideIsOwnTime /\ RingIsPieces /\ Over' = Over
  BY <1>2 DEF TimeInv, Over
<1>7. /\ \A r \in live : r.id = q.id => r = q
      /\ \A r \in Over : r.id # q.id
  BY DEF StorInv, WorldInv
<1>8. \A r \in live \cup Over : Carries(p, r) => r.irp = q.irp
  BY <1>3, <1>4, StorTypes DEF Carries
<1>9. \A r \in live : p.req # r.id => ~Carries(p, r)
  BY <1>4, <1>6, <1>8 DEF OwnersApart
<1>10. \A r \in Over : Carries(p, r) => Outside(p, r)
  <2> SUFFICES ASSUME NEW r \in Over, Carries(p, r) PROVE r.end <= p.ts - p.dur
    BY DEF Outside
  <2>1. r.end <= q.start /\ r.end \in Int
    BY <1>6, <1>8, StorTypes DEF OwnersApart
  <2> QED BY <1>2, <1>3, <1>5, <2>1
<1>11. OwnersApart' /\ RequestTimes'
  BY <1>2, <1>6 DEF OwnersApart, RequestTimes
<1>12. PiecesPlaced'
  <2>1. /\ Started <= p.ts - p.dur /\ 0 <= p.dur /\ p.ts <= now
        /\ \A r \in live : p.req = r.id => r.start <= p.ts - p.dur
        /\ \A r \in live : p.req # r.id /\ Carries(p, r) => p.ts <= r.start
        /\ \A r \in Over : p.req = r.id => Within(p, r)
        /\ \A r \in Over : p.req # r.id /\ Carries(p, r) => Outside(p, r)
    <3>1. Started <= p.ts - p.dur /\ 0 <= p.dur /\ p.ts <= now
      BY <1>3, <1>4, <1>5
    <3>2. \A r \in live : p.req = r.id => r.start <= p.ts - p.dur
      BY <1>2, <1>4, <1>5, <1>7
    <3>3. \A r \in Over : p.req # r.id
      BY <1>4, <1>7
    <3> QED BY <1>9, <1>10, <3>1, <3>2, <3>3
  <2>2. ASSUME NEW o \in pieces
        PROVE  /\ Started <= o.ts - o.dur /\ 0 <= o.dur /\ o.ts <= now
               /\ \A r \in live : o.req = r.id => r.start <= o.ts - o.dur
               /\ \A r \in live : o.req # r.id /\ Carries(o, r) => o.ts <= r.start
               /\ \A r \in Over : o.req = r.id => Within(o, r)
               /\ \A r \in Over : o.req # r.id /\ Carries(o, r) => Outside(o, r)
    BY <1>6 DEF PiecesPlaced
  <2>3. \A o, r : (Carries(o, r)' <=> Carries(o, r)) /\ (Within(o, r)' <=> Within(o, r)) /\ (Outside(o, r)' <=> Outside(o, r))
    BY DEF Carries, Within, Outside
  <2> QED BY <1>2, <1>6, <2>1, <2>2, <2>3 DEF PiecesPlaced
<1>13. InsideIsOwnTime'
  <2>1. \A x \in explained : x.q.id # p.req
    BY <1>4, <1>7 DEF Over
  <2>2. \A x \in explained : Own(x.q)' = Own(x.q)
    BY <1>2, <2>1 DEF Own
  <2> QED BY <1>2, <1>6, <2>2, AnswersStand
<1>14. RingIsPieces'
  BY <1>2, <1>6, SameRing
<1> QED BY <1>11, <1>12, <1>13, <1>14 DEF TimeInv

(* A request completes. *)
LEMMA CompleteTimes ==
  ASSUME StorInv, TimeInv, NEW q \in live, Complete(q)
  PROVE  TimeInv'
<1>1. PICK d : d = [id |-> q.id, irp |-> q.irp, bytes |-> q.bytes, start |-> q.start,
                    end |-> now, logged |-> ~stopped]
  OBVIOUS
<1>2. /\ live' = live \ {q} /\ slow' = slow \cup {d} /\ q.start < now
      /\ UNCHANGED <<now, pieces, explained, log>>
  BY <1>1 DEF Complete, ringVars
<1>3. d.id = q.id /\ d.irp = q.irp /\ d.start = q.start /\ d.end = now
  BY <1>1
<1>4. Over' = Over \cup {d}
  BY <1>2 DEF Over
<1>5. OwnersApart /\ RequestTimes /\ PiecesPlaced /\ InsideIsOwnTime /\ RingIsPieces
  BY DEF TimeInv
<1>6. now \in Int /\ q.start \in Int
  BY StorTypes
<1>7. OwnersApart' /\ RequestTimes'
  BY <1>2, <1>3, <1>4, <1>5, <1>6 DEF OwnersApart, RequestTimes
<1>8. \A p \in pieces : /\ p.req = d.id => Within(p, d)
                        /\ p.req # d.id /\ Carries(p, d) => Outside(p, d)
  BY <1>3, <1>5 DEF PiecesPlaced, Carries, Within, Outside
<1>9. PiecesPlaced'
  <2>1. \A o, r : (Carries(o, r)' <=> Carries(o, r)) /\ (Within(o, r)' <=> Within(o, r)) /\ (Outside(o, r)' <=> Outside(o, r))
    BY DEF Carries, Within, Outside
  <2> QED BY <1>2, <1>4, <1>5, <1>8, <2>1 DEF PiecesPlaced
<1>10. InsideIsOwnTime' /\ RingIsPieces'
  BY <1>2, <1>5, AnswersStand, SameRing DEF Own
<1> QED BY <1>7, <1>9, <1>10 DEF TimeInv

(* What `window` returns are records of the ring. *)
LEMMA WindowIsRing ==
  ASSUME RingInv, NEW from, NEW to, NEW w \in window(from, to)
  PROVE  w \subseteq 1 .. Len(log) /\ IsFiniteSet(w)
<1>1. Len(log) \in Nat /\ head \in Nat
  BY LenProperties DEF RingInv, RingTypes
<1>2. PICK a \in PartitionPoints(log, head, from - Slop), b \in PartitionPoints(log, head, to + Slop + 1) :
        w = {j \in a + 1 .. b : log[j].ts >= from /\ log[j].ts <= to}
  BY DEF window
<1>3. a \in head .. Len(log) /\ b \in head .. Len(log)
  BY <1>2 DEF PartitionPoints
<1>4. w \in SUBSET (1 .. Len(log))
  BY <1>1, <1>2, <1>3
<1>5. IsFiniteSet(1 .. Len(log))
  BY <1>1, FS_Interval
<1> QED BY <1>4, <1>5, FS_Subset

(* The ticks in which a piece of q was in the drive. *)
OwnTicks(q) == {t \in q.start .. q.end - 1 : \E p \in Own(q) : p.ts - p.dur <= t /\ t < p.ts}

(* Records carrying q's pointer: a tick of q lies in one of them only if   *)
(* it lies in a piece of q's own.                                          *)
SpansOf(q, I) ==
  {[from |-> Max2(log[i].ts - log[i].dur, q.start), to |-> Min({log[i].ts, q.end})] : i \in I}

LEMMA SpansAreOwn ==
  ASSUME StorInv, TimeInv, NEW q \in slow, NEW I, I \subseteq 1 .. Len(log), IsFiniteSet(I),
         \A i \in I : q.irp \in {log[i].irp, log[i].orig},
         \A p \in Own(q) : \E i \in I : FiledAs(i, p)
  PROVE  /\ SpansOf(q, I) \subseteq Span /\ IsFiniteSet(SpansOf(q, I))
         /\ \A s \in SpansOf(q, I) : 0 <= s.from
         /\ During(SpansOf(q, I)) = OwnTicks(q)
<1>1. q \in Over /\ q.start \in Int /\ q.end \in Int /\ Started \in Nat /\ Started <= q.start /\ q.irp \in Irps
  <2>1. q \in Over
    BY DEF Over
  <2> QED BY <2>1, StorTypes DEF TimeInv, RequestTimes
<1>2. ASSUME NEW i \in I
      PROVE  \E p \in pieces : FiledAs(i, p) /\ Carries(p, q)
  <2>1. PICK p \in pieces : FiledAs(i, p)
    BY DEF TimeInv, RingIsPieces
  <2>2. Carries(p, q)
    BY <2>1 DEF FiledAs, Carries
  <2> QED BY <2>1, <2>2
<1>3. \A i \in I : log[i].ts \in Int /\ log[i].dur \in Int
  BY <1>2, StorTypes DEF FiledAs
<1>4. PICK b : b = [i \in I |-> Max2(log[i].ts - log[i].dur, q.start)]
  OBVIOUS
<1>5. PICK e : e = [i \in I |-> Min({log[i].ts, q.end})]
  OBVIOUS
<1>6. /\ b \in [I -> Int] /\ e \in [I -> Int]
      /\ \A i \in I : /\ b[i] >= q.start /\ b[i] >= log[i].ts - log[i].dur
                      /\ b[i] \in {q.start, log[i].ts - log[i].dur}
                      /\ e[i] <= q.end /\ e[i] <= log[i].ts /\ e[i] \in {q.end, log[i].ts}
  <2> SUFFICES ASSUME NEW i \in I
               PROVE  /\ b[i] \in Int /\ e[i] \in Int
                      /\ b[i] >= q.start /\ b[i] >= log[i].ts - log[i].dur
                      /\ b[i] \in {q.start, log[i].ts - log[i].dur}
                      /\ e[i] <= q.end /\ e[i] <= log[i].ts /\ e[i] \in {q.end, log[i].ts}
    BY <1>4, <1>5
  <2>5. PICK x \in Int : x = log[i].ts
    BY <1>3
  <2>6. PICK y \in Int : y = log[i].ts - log[i].dur
    BY <1>3
  <2>1. x = log[i].ts /\ y = log[i].ts - log[i].dur
    BY <2>5, <2>6
  <2>2. b[i] = Max2(y, q.start) /\ e[i] = Min({x, q.end})
    BY <1>4, <1>5, <2>1
  <2>3. Max2(y, q.start) \in {y, q.start} /\ Max2(y, q.start) >= y /\ Max2(y, q.start) >= q.start
    BY <1>1, <2>1 DEF Max2
  <2>4. Min({x, q.end}) \in {x, q.end} /\ Min({x, q.end}) <= x /\ Min({x, q.end}) <= q.end
    BY <1>1, <2>1, LeastOfTwo
  <2> QED BY <1>1, <2>1, <2>2, <2>3, <2>4
<1>7. PICK S : S = SpansOf(q, I)
  OBVIOUS
<1>8. S = {[from |-> b[i], to |-> e[i]] : i \in I}
  BY <1>4, <1>5, <1>7 DEF SpansOf
<1>9. S \subseteq Span
  BY <1>6, <1>8 DEF Span
<1>10. IsFiniteSet(S)
  <2>1. PICK f : f = [i \in I |-> [from |-> b[i], to |-> e[i]]]
    OBVIOUS
  <2>2. f \in Surjection(I, S)
    BY <1>8, <2>1 DEF Surjection
  <2> QED BY <2>2, FS_Surjection
<1>11. \A s \in S : 0 <= s.from
  <2> SUFFICES ASSUME NEW i \in I PROVE 0 <= b[i]
    BY <1>8
  <2> QED BY <1>1, <1>6
<1>12. ASSUME NEW t \in During(S) PROVE t \in OwnTicks(q)
  <2>1. PICK i \in I : t \in Int /\ b[i] <= t /\ t < e[i]
    BY <1>8 DEF During
  <2>2. PICK p \in pieces : FiledAs(i, p) /\ Carries(p, q)
    BY <1>2
  <2>3. p.ts = log[i].ts /\ p.dur = log[i].dur /\ p.ts \in Int /\ p.dur \in Int
    BY <2>2, StorTypes DEF FiledAs
  <2>4. q.start <= t /\ t < q.end /\ p.ts - p.dur <= t /\ t < p.ts
    BY SMTT(30), <1>1, <1>6, <2>1, <2>3
  <2>5. ~Outside(p, q)
    BY <1>1, <2>1, <2>3, <2>4 DEF Outside
  <2>6. p \in Own(q)
    BY <1>1, <2>2, <2>5 DEF TimeInv, PiecesPlaced, Own
  <2> QED BY <1>1, <2>1, <2>4, <2>6 DEF OwnTicks
<1>13. ASSUME NEW t \in OwnTicks(q) PROVE t \in During(S)
  <2>1. PICK p \in Own(q) : p.ts - p.dur <= t /\ t < p.ts
    BY DEF OwnTicks
  <2>2. t \in Int /\ q.start <= t /\ t < q.end
    BY <1>1 DEF OwnTicks
  <2>3. PICK i \in I : FiledAs(i, p)
    OBVIOUS
  <2>4. log[i].ts = p.ts /\ log[i].dur = p.dur /\ p.ts \in Int /\ p.dur \in Int
    BY <2>3, StorTypes DEF FiledAs, Own
  <2>5. b[i] <= t /\ t < e[i]
    BY <1>1, <1>6, <2>1, <2>2, <2>4
  <2>6. [from |-> b[i], to |-> e[i]] \in S
    BY <1>8
  <2> QED BY <2>2, <2>5, <2>6 DEF During
<1> QED BY <1>7, <1>9, <1>10, <1>11, <1>12, <1>13

LEMMA CorrelateInside ==
  ASSUME StorInv, TimeInv, NEW q \in slow, q.logged, Pointed(q),
         covers(q.start - Slop), caught_up(q.end + Slop),
         NEW w \in window(q.start - Slop, q.end + Slop), correlate(q, w).outcome \in Split
  PROVE  correlate(q, w).inside = Cardinality(OwnTicks(q))
<1>1. q \in Over /\ q.start \in Int /\ q.end \in Int /\ q.start <= q.end
  <2>1. q \in Over
    BY DEF Over
  <2> QED BY <2>1, StorTypes DEF TimeInv, RequestTimes
<1>2. PICK I : I = {j \in w : q.irp \in {log[j].irp, log[j].orig}}
  OBVIOUS
<1>3. I \subseteq 1 .. Len(log) /\ IsFiniteSet(I)
  <2>1. w \subseteq 1 .. Len(log) /\ IsFiniteSet(w)
    BY WindowIsRing DEF StorInv
  <2>2. I \in SUBSET w
    BY <1>2
  <2> QED BY <2>1, <2>2, FS_Subset
<1>4. \A p \in Own(q) : \E i \in I : FiledAs(i, p)
  <2> SUFFICES ASSUME NEW p \in Own(q) PROVE \E i \in I : FiledAs(i, p)
    OBVIOUS
  <2>1. PICK i \in w : FiledAs(i, p)
    BY PieceFound
  <2>2. i \in I
    BY <1>2, <2>1 DEF Pointed, FiledAs
  <2> QED BY <2>1, <2>2
<1>5. I # {}
  <2> SUFFICES ASSUME I = {} PROVE correlate(q, w).outcome \notin Split
    OBVIOUS
  <2> DEFINE fits == {i \in w : log[i].bytes = q.bytes /\ log[i].ts - q.end \in -Near .. Near}
  <2>1. correlate(q, w) \in {Nothing("Unmatched"), Nothing("Ambiguous"), split_of(q, fits, "Fallback")}
    BY <1>2, Zenon DEF correlate
  <2>2. /\ Nothing("Unmatched").outcome = "Unmatched" /\ Nothing("Ambiguous").outcome = "Ambiguous"
        /\ split_of(q, fits, "Fallback").outcome = "Fallback"
    BY DEF Nothing, split_of
  <2> HIDE DEF fits
  <2>3. correlate(q, w).outcome \in {"Unmatched", "Ambiguous", "Fallback"}
    BY <2>1, <2>2
  <2> QED BY <2>3 DEF Split
<1>6. PICK how : correlate(q, w) = split_of(q, I, how)
  BY <1>2, <1>5 DEF correlate
<1>7. correlate(q, w).inside = Min({union_len(SpansOf(q, I)), q.end - q.start})
  BY <1>6 DEF split_of, SpansOf
<1>8. /\ SpansOf(q, I) \subseteq Span /\ IsFiniteSet(SpansOf(q, I))
      /\ \A s \in SpansOf(q, I) : 0 <= s.from
      /\ During(SpansOf(q, I)) = OwnTicks(q)
  <2>1. \A i \in I : q.irp \in {log[i].irp, log[i].orig}
    BY <1>2
  <2> QED BY <1>3, <1>4, <2>1, SpansAreOwn
<1>9. PICK spans : spans = SpansOf(q, I)
  OBVIOUS
<1>10. union_len(spans) = Cardinality(OwnTicks(q))
  BY <1>8, <1>9, UnionLen
<1>11. Cardinality(OwnTicks(q)) \in Nat /\ Cardinality(OwnTicks(q)) <= q.end - q.start
  <2>1. PICK T : T = q.start .. q.end - 1
    OBVIOUS
  <2>2. q.end - 1 \in Int
    BY <1>1
  <2>3. IsFiniteSet(T) /\ Cardinality(T) = IF q.start > q.end - 1 THEN 0 ELSE (q.end - 1) - q.start + 1
    BY <1>1, <2>1, <2>2, FS_Interval
  <2>4. OwnTicks(q) \in SUBSET T
    BY <2>1 DEF OwnTicks
  <2>5. IsFiniteSet(OwnTicks(q)) /\ Cardinality(OwnTicks(q)) <= Cardinality(T)
    BY <2>3, <2>4, FS_Subset
  <2>6. Cardinality(OwnTicks(q)) \in Nat
    BY <2>5, FS_CardinalityType
  <2> QED BY <1>1, <2>3, <2>5, <2>6
<1>12. PICK n \in Int : n = Cardinality(OwnTicks(q))
  BY <1>11
<1>13. PICK d \in Int : d = q.end - q.start
  BY <1>1
<1>14. correlate(q, w).inside = Min({n, d}) /\ n <= d
  BY <1>7, <1>9, <1>10, <1>11, <1>12, <1>13
<1>15. Min({n, d}) = n
  <2>1. Min({n, d}) \in {n, d} /\ Min({n, d}) <= n
    BY LeastOfTwo
  <2> QED BY <1>14, <2>1
<1> QED BY <1>12, <1>14, <1>15

(* The analyzer looks at a slow request. *)
LEMMA SplitTimes ==
  ASSUME StorInv, TimeInv, NEW q \in slow, storage_split(q)
  PROVE  TimeInv'
<1>1. /\ slow' = slow \ {q} /\ UNCHANGED <<now, live, pieces, log>>
      /\ OwnersApart /\ RequestTimes /\ PiecesPlaced /\ InsideIsOwnTime /\ RingIsPieces
  BY DEF storage_split, worldVars, ringVars, TimeInv
<1>2. PICK is : /\ explained' = explained \cup {[q |-> q, is |-> is]}
                /\ \/ is.outcome = "NotCovered"
                   \/ /\ covers(q.start - Slop) /\ caught_up(q.end + Slop)
                      /\ \E w \in window(q.start - Slop, q.end + Slop) : is = correlate(q, w)
  BY Answered
<1>3. Over' = Over
  <2> DEFINE d == [q |-> q, is |-> is]
  <2>1. explained' = explained \cup {d} /\ d.q = q
    BY <1>2
  <2> HIDE DEF d
  <2>2. {x.q : x \in explained'} = {x.q : x \in explained} \cup {q}
    BY <2>1
  <2> QED BY <1>1, <2>2 DEF Over
<1>4. OwnersApart' /\ RequestTimes' /\ PiecesPlaced' /\ RingIsPieces'
  BY <1>1, <1>3, SameRing DEF OwnersApart, RequestTimes, PiecesPlaced, Carries, Within, Outside
<1>5. InsideIsOwnTime'
  <2>1. \A r : Own(r)' = Own(r) /\ (Pointed(r)' <=> Pointed(r)) /\ OwnTicks(r)' = OwnTicks(r)
    BY <1>1 DEF Own, Pointed, OwnTicks
  <2>2. ASSUME q.logged, is.outcome \in Split, Pointed(q) PROVE is.inside = Cardinality(OwnTicks(q))
    <3>1. "NotCovered" \notin Split
      BY DEF Split
    <3> QED BY <1>2, <2>2, <3>1, CorrelateInside
  <2>3. ASSUME NEW x \in explained', x.q.logged, x.is.outcome \in Split, Pointed(x.q)
        PROVE  x.is.inside = Cardinality(OwnTicks(x.q))
    <3>1. CASE x \in explained
      BY <1>1, <2>3, <3>1 DEF InsideIsOwnTime, OwnTicks
    <3>2. CASE x = [q |-> q, is |-> is]
      BY <2>2, <2>3, <3>2
    <3> QED BY <1>2, <3>1, <3>2
  <2>4. \A x \in explained' : (x.q.logged /\ x.is.outcome \in Split /\ Pointed(x.q)') =>
          x.is.inside = Cardinality(OwnTicks(x.q)')
    BY <2>1, <2>3
  <2> QED BY <2>4 DEF InsideIsOwnTime, OwnTicks
<1> QED BY <1>4, <1>5 DEF TimeInv

LEMMA TimesStart == Init => TimeInv
<1> SUFFICES ASSUME Init PROVE TimeInv
  OBVIOUS
<1>1. live = {} /\ Over = {} /\ pieces = {} /\ explained = {} /\ now = Started /\ Started \in Nat /\ log = <<>>
  BY StorPortAssumption DEF Init, Over
<1>2. Len(log) = 0
  BY <1>1, EmptySeq
<1> QED BY <1>1, <1>2 DEF TimeInv, OwnersApart, RequestTimes, PiecesPlaced, RingIsPieces, InsideIsOwnTime

LEMMA TimesNext == StorInv /\ TimeInv /\ [Next]_vars => TimeInv'
<1> SUFFICES ASSUME StorInv, TimeInv, [Next]_vars PROVE TimeInv'
  OBVIOUS
<1>1. now \in Int /\ RingIsPieces
  BY StorTypes DEF TimeInv
<1>2. CASE Next
  <2>1. Step
    BY <1>2 DEF Next
  <2>2. CASE Advance
    <3>1. UNCHANGED <<live, pieces, slow, explained, log>> /\ now' = now + 1
      BY <2>2 DEF Advance, readVars, ringVars
    <3> QED BY <1>1, <3>1, SameRing, SameWorld
  <2>3. ASSUME NEW irp \in Irps, NEW bytes \in Sizes, Issue(irp, bytes) PROVE TimeInv'
    BY <2>3, IssueTimes
  <2>4. ASSUME NEW q \in live, NEW from \in Started .. now, NEW bytes \in Sizes, NEW ptr \in Pointers,
               PieceDone(q, from, bytes, ptr)
        PROVE  TimeInv'
    BY <2>4, PieceTimes
  <2>5. CASE Reset \/ \E q \in live : Retry(q)
    <3>1. UNCHANGED <<live, pieces, slow, explained, log, now>>
      BY <2>5 DEF Reset, Retry, readVars, ringVars
    <3> QED BY <1>1, <3>1, SameRing, SameWorld
  <2>6. ASSUME NEW q \in live, Complete(q) PROVE TimeInv'
    BY <2>6, CompleteTimes
  <2>7. CASE StopSession \/ Finish
    <3>1. UNCHANGED <<live, pieces, slow, explained, log, now>>
      BY <2>7 DEF StopSession, Finish, worldVars, readVars, ringVars
    <3> QED BY <1>1, <3>1, SameRing, SameWorld
  <2>8. ASSUME NEW e \in buffer, handle(e) PROVE TimeInv'
    <3>1. UNCHANGED <<live, pieces, slow, explained, now>>
      BY <2>8 DEF handle, worldVars, readVars
    <3>2. RingIsPieces'
      BY <2>8, HandleFiles
    <3> QED BY <1>1, <3>1, <3>2, SameWorld
  <2>9. ASSUME NEW q \in slow, storage_split(q) PROVE TimeInv'
    BY <2>9, SplitTimes
  <2> QED BY <2>1, <2>2, <2>3, <2>4, <2>5, <2>6, <2>7, <2>8, <2>9 DEF Step
<1>3. CASE UNCHANGED vars
  <2>1. UNCHANGED <<live, pieces, slow, explained, log, now>>
    BY <1>3 DEF vars, worldVars, readVars, ringVars
  <2> QED BY <1>1, <2>1, SameRing, SameWorld
<1> QED BY <1>2, <1>3

(* The inductive invariant of the pieces' times: a piece lies in its own   *)
(* request and outside all others that its pointer could stand for.        *)
THEOREM TimesInvariant == Spec => [](StorInv /\ TimeInv)
<1>1. Init => StorInv /\ TimeInv
  BY StorStart, TimesStart
<1>2. (StorInv /\ TimeInv) /\ [Next]_vars => (StorInv /\ TimeInv)'
  BY StorNext, TimesNext
<1> QED BY <1>1, <1>2, PTL DEF Spec

(* The time said to have been spent inside the drive is the time during    *)
(* which a piece of the request's own was: overlaps counted once, nothing  *)
(* of a request that had the pointer before or after.                      *)
THEOREM InsideIsOwn == Spec => []InsideIsOwnTime
<1>1. TimeInv => InsideIsOwnTime
  BY DEF TimeInv
<1> QED BY <1>1, TimesInvariant, PTL

-----------------------------------------------------------------------------
Held == [Irps -> [first : Int, n : Nat]]

(* The retries delivered: counted as attached or as given up on, or still  *)
(* waiting for their request.                                              *)
Tallied(by, held) == by.irp + by.orig + by.never + SumOver(Irps, Waiting(held))

Undelivered == {e \in buffer : e.kind \in {"retry", "reset"}}

RetryTypes ==
  /\ retry_by \in [irp : Int, orig : Int, never : Int]
  /\ resets \in Nat /\ retried \in Nat /\ IsFiniteSet(buffer)
  /\ \A e \in Undelivered : e.id \in Nat /\ e.id <= retried

RetriesInv == RetryTypes /\ RetriesConserved

(* What waits is a number. *)
LEMMA WaitingIs ==
  ASSUME NEW held \in Held
  PROVE  /\ \A i \in Irps : Waiting(held)[i] = held[i].n /\ Waiting(held)[i] \in Int
         /\ SumOver(Irps, Waiting(held)) \in Int
<1>1. \A i \in Irps : Waiting(held)[i] = held[i].n /\ held[i].n \in Int
  BY DEF Waiting, Held
<1>2. IsFiniteSet(Irps)
  BY StorPortAssumption, Zenon
<1> QED BY <1>1, <1>2, SumTakes

LEMMA TalliedType ==
  ASSUME RingInv, RetryTypes
  PROVE  Tallied(retry_by, pending) \in Int
<1>1. pending \in Held /\ retry_by \in [irp : Int, orig : Int, never : Int]
  BY DEF RingInv, RingTypes, Held, RetryTypes
<1>2. SumOver(Irps, Waiting(pending)) \in Int
  BY <1>1, WaitingIs
<1> QED BY <1>1, <1>2 DEF Tallied

(* The retries under one pointer are taken away, if it is not null. *)
Took(held, key)   == IF key = NoIrp THEN 0 ELSE held[key].n
Zeroed(held, key) == [i \in Irps |-> IF i = key THEN NoRetry ELSE held[i]]

LEMMA ZeroedSum ==
  ASSUME NEW held \in Held, NEW key \in Irps \cup {NoIrp}
  PROVE  /\ Zeroed(held, key) \in Held /\ Took(held, key) \in Int
         /\ SumOver(Irps, Waiting(held)) \in Int
         /\ SumOver(Irps, Waiting(Zeroed(held, key))) = SumOver(Irps, Waiting(held)) - Took(held, key)
<1>0. IsFiniteSet(Irps) /\ NoIrp \notin Irps
  BY StorPortAssumption, Zenon
<1>1. PICK new : new = Zeroed(held, key)
  OBVIOUS
<1>2. new \in Held /\ \A i \in Irps : new[i] = IF i = key THEN NoRetry ELSE held[i]
  BY <1>1 DEF Zeroed, Held, NoRetry
<1>3. PICK f : f = Waiting(held)
  OBVIOUS
<1>4. PICK g : g = Waiting(new)
  OBVIOUS
<1>5. /\ \A i \in Irps : f[i] = held[i].n /\ f[i] \in Int /\ g[i] = new[i].n /\ g[i] \in Int
      /\ SumOver(Irps, f) \in Int
  BY <1>2, <1>3, <1>4, WaitingIs
<1>6. \A i \in Irps : i # key => g[i] = f[i]
  BY <1>2, <1>5
<1>7. CASE key \in Irps
  <2>1. g[key] = 0
    BY <1>2, <1>5, <1>7 DEF NoRetry
  <2>2. Took(held, key) = f[key]
    BY <1>0, <1>5, <1>7 DEF Took
  <2>3. SumOver(Irps, g) = SumOver(Irps, f) + (g[key] - f[key])
    BY <1>0, <1>5, <1>6, <1>7, SumMoved
  <2> QED BY <1>1, <1>2, <1>3, <1>4, <1>5, <1>7, <2>1, <2>2, <2>3
<1>8. CASE key = NoIrp
  <2>1. SumOver(Irps, g) = SumOver(Irps, f)
    BY <1>0, <1>5, <1>6, <1>8, SumSame
  <2>2. Took(held, key) = 0
    BY <1>8 DEF Took
  <2> QED BY <1>1, <1>2, <1>3, <1>4, <1>5, <2>1, <2>2
<1> QED BY <1>7, <1>8

(* maybe_prune: the retries given up on are counted. *)
LEMMA PrunedTally ==
  ASSUME RingInv, RetryTypes, NEW ts \in Int
  PROVE  /\ pruned(ts).retry_by \in [irp : Int, orig : Int, never : Int] /\ pruned(ts).pending \in Held
         /\ Tallied(pruned(ts).retry_by, pruned(ts).pending) = Tallied(retry_by, pending)
<1>0. IsFiniteSet(Irps)
  BY StorPortAssumption, Zenon
<1>1. pending \in Held /\ retry_by \in [irp : Int, orig : Int, never : Int]
  BY DEF RingInv, RingTypes, Held, RetryTypes
<1>2. CASE ~PruneDue(ts)
  BY <1>1, <1>2 DEF pruned
<1>3. CASE PruneDue(ts)
  <2>1. PICK old : old = RetriesTooOld(ts - Keep)
    OBVIOUS
  <2>2. old \subseteq Irps
    BY <2>1 DEF RetriesTooOld
  <2>3. PICK held : held = pending
    OBVIOUS
  <2>4. PICK by \in [irp : Int, orig : Int, never : Int] : by = retry_by
    BY <1>1
  <2>5. PICK new : new = [i \in Irps |-> IF i \in old THEN NoRetry ELSE held[i]]
    OBVIOUS
  <2>6. PICK f : f = Waiting(held)
    OBVIOUS
  <2>7. PICK g : g = Waiting(new)
    OBVIOUS
  <2>8. /\ pruned(ts).pending = new
        /\ pruned(ts).retry_by = [by EXCEPT !.never = @ + SumOver(old, f)]
    BY <1>3, <2>1, <2>3, <2>4, <2>5, <2>6 DEF pruned
  <2>9. new \in Held /\ held \in Held
    BY <1>1, <2>3, <2>5 DEF Held, NoRetry
  <2>10. /\ \A i \in Irps : f[i] = held[i].n /\ f[i] \in Int /\ g[i] = new[i].n /\ g[i] \in Int
         /\ SumOver(Irps, f) \in Int
    BY <2>6, <2>7, <2>9, WaitingIs
  <2>11. \A i \in Irps : g[i] = IF i \in old THEN 0 ELSE f[i]
    BY <2>5, <2>10 DEF NoRetry
  <2>12. /\ SumOver(old, f) \in Int /\ SumOver(Irps \ old, f) \in Int
         /\ SumOver(Irps, f) = SumOver(old, f) + SumOver(Irps \ old, f)
    <3>1. \A i \in Irps : f[i] \in Int
      BY <2>10
    <3>2. SumOver(Irps, f) = SumOver(old, f) + SumOver(Irps \ old, f)
      BY <1>0, <2>2, <3>1, SumParts
    <3>3. SumOver(old, f) \in Int /\ SumOver(Irps \ old, f) \in Int
      BY <1>0, <2>2, <3>1, SumParts
    <3> QED BY <3>2, <3>3
  <2>13. SumOver(Irps, g) = SumOver(old, g) + SumOver(Irps \ old, g)
    <3>1. \A i \in Irps : g[i] \in Int
      BY <2>10
    <3> QED BY <1>0, <2>2, <3>1, SumParts
  <2>14. IsFiniteSet(old) /\ IsFiniteSet(Irps \ old)
    BY <1>0, <2>2, FS_Subset
  <2>15. SumOver(old, g) = 0
    BY <2>2, <2>11, <2>14, SumZero
  <2>16. SumOver(Irps \ old, g) = SumOver(Irps \ old, f)
    <3>1. \A i \in Irps \ old : g[i] = f[i] /\ f[i] \in Int
      BY <2>10, <2>11
    <3> QED BY <2>14, <3>1, SumSame
  <2>17. PICK out : out = [by EXCEPT !.never = @ + SumOver(old, f)]
    OBVIOUS
  <2>18. /\ out \in [irp : Int, orig : Int, never : Int]
         /\ out.irp = by.irp /\ out.orig = by.orig /\ out.never = by.never + SumOver(old, f)
    BY <2>4, <2>12, <2>17
  <2>19. Tallied(out, new) = Tallied(by, held)
    <3>1. out.irp + out.orig + out.never + SumOver(Irps, g) = by.irp + by.orig + by.never + SumOver(Irps, f)
      BY <2>12, <2>13, <2>15, <2>16, <2>18
    <3> QED BY <2>6, <2>7, <3>1 DEF Tallied
  <2> QED BY <2>3, <2>4, <2>8, <2>9, <2>17, <2>18, <2>19
<1> QED BY <1>2, <1>3

(* push_req: what waited under either pointer is counted under one of them. *)
LEMMA PushTally ==
  ASSUME RingInv, RetryTypes, NEW r \in Piece, NEW ts \in Int, push_req(r, pruned(ts))
  PROVE  /\ retry_by' \in [irp : Int, orig : Int, never : Int] /\ resets' = resets
         /\ Tallied(retry_by, pending)' = Tallied(retry_by, pending)
<1>1. PICK held \in Held : held = pruned(ts).pending
  BY PrunedTally
<1>2. PICK by \in [irp : Int, orig : Int, never : Int] : by = pruned(ts).retry_by
  BY PrunedTally
<1>3. PICK one \in Held : one = Zeroed(held, r.irp)
  BY ZeroedSum DEF Piece
<1>4. PICK two \in Held : two = Zeroed(one, r.orig)
  BY ZeroedSum DEF Piece
<1>5. PICK a : a = Took(held, r.irp)
  OBVIOUS
<1>6. PICK b : b = Took(one, r.orig)
  OBVIOUS
<1>7. /\ a \in Int /\ b \in Int /\ SumOver(Irps, Waiting(held)) \in Int /\ SumOver(Irps, Waiting(one)) \in Int
      /\ SumOver(Irps, Waiting(one)) = SumOver(Irps, Waiting(held)) - a
      /\ SumOver(Irps, Waiting(two)) = SumOver(Irps, Waiting(one)) - b
  BY <1>3, <1>4, <1>5, <1>6, ZeroedSum DEF Piece
<1>8. r.irp \in Irps \cup {NoIrp} /\ r.orig \in Irps \cup {NoIrp} /\ NoIrp \notin Irps
  <2>1. NoIrp \notin Irps
    BY StorPortAssumption, Zenon
  <2> QED BY <2>1 DEF Piece
<1>9. b = IF r.orig = r.irp THEN 0 ELSE Took(held, r.orig)
  <2>1. CASE r.orig = NoIrp
    BY <1>6, <2>1 DEF Took
  <2>2. CASE r.orig \in Irps
    <3>1. one[r.orig] = IF r.orig = r.irp THEN NoRetry ELSE held[r.orig]
      BY <1>3, <2>2 DEF Zeroed
    <3> QED BY <1>6, <1>8, <2>2, <3>1 DEF Took, NoRetry
  <2> QED BY <1>8, <2>1, <2>2
<1>10. retry_by' = [by EXCEPT !.irp = @ + a, !.orig = @ + b] /\ resets' = resets
  <2>1. retry_by' = [by EXCEPT !.irp = @ + Took(held, r.irp),
                               !.orig = @ + (IF r.orig = r.irp THEN 0 ELSE Took(held, r.orig))]
    BY <1>1, <1>2 DEF push_req, Took
  <2> QED BY <1>5, <1>9, <2>1 DEF push_req
<1>11. pending' = two
  <2>1. pending' = [i \in Irps |-> IF i \in {r.irp, r.orig} THEN NoRetry ELSE held[i]]
    BY <1>1 DEF push_req
  <2>2. two = [i \in Irps |-> IF i = r.orig THEN NoRetry ELSE one[i]]
    BY <1>4 DEF Zeroed
  <2>3. \A i \in Irps : one[i] = IF i = r.irp THEN NoRetry ELSE held[i]
    BY <1>3 DEF Zeroed
  <2> QED BY <2>1, <2>2, <2>3
<1>12. PICK out : out = [by EXCEPT !.irp = @ + a, !.orig = @ + b]
  OBVIOUS
<1>13. /\ out \in [irp : Int, orig : Int, never : Int]
       /\ out.irp = by.irp + a /\ out.orig = by.orig + b /\ out.never = by.never
  <2>1. PICK mid : mid = [by EXCEPT !.irp = @ + a]
    OBVIOUS
  <2>2. /\ mid \in [irp : Int, orig : Int, never : Int]
        /\ mid.irp = by.irp + a /\ mid.orig = by.orig /\ mid.never = by.never
    BY <1>2, <1>7, <2>1
  <2>3. out = [mid EXCEPT !.orig = @ + b]
    BY <1>12, <2>1
  <2> QED BY <1>2, <1>7, <2>2, <2>3
<1>14. Tallied(out, two) = Tallied(by, held)
  BY <1>2, <1>7, <1>13 DEF Tallied
<1>15. Tallied(by, held) = Tallied(retry_by, pending)
  BY <1>1, <1>2, PrunedTally
<1> QED BY <1>10, <1>11, <1>12, <1>13, <1>14, <1>15 DEF Tallied

(* on_retry: one more waits. *)
LEMMA RetryTally ==
  ASSUME RingInv, RetryTypes, NEW e, e.irp \in Irps, e.ts \in Int, on_retry(e, pruned(e.ts))
  PROVE  /\ retry_by' \in [irp : Int, orig : Int, never : Int] /\ resets' = resets
         /\ Tallied(retry_by, pending) \in Int
         /\ Tallied(retry_by, pending)' = Tallied(retry_by, pending) + 1
<1>1. PICK held \in Held : held = pruned(e.ts).pending
  BY PrunedTally
<1>2. PICK by \in [irp : Int, orig : Int, never : Int] : by = pruned(e.ts).retry_by
  BY PrunedTally
<1>3. PICK key \in Irps : key = e.irp
  OBVIOUS
<1>4. PICK new : new = [held EXCEPT ![key] = [first |-> IF held[key].n = 0 THEN e.ts ELSE held[key].first,
                                              n |-> held[key].n + 1]]
  OBVIOUS
<1>5. pending' = new /\ retry_by' = by /\ resets' = resets
  BY <1>1, <1>2, <1>3, <1>4 DEF on_retry
<1>6. held[key] \in [first : Int, n : Nat]
  BY DEF Held
<1>7. /\ new \in Held /\ new[key].n = held[key].n + 1
      /\ \A i \in Irps \ {key} : new[i] = held[i]
  <2>1. (IF held[key].n = 0 THEN e.ts ELSE held[key].first) \in Int /\ held[key].n + 1 \in Nat
    BY <1>6
  <2> QED BY <1>4, <2>1 DEF Held
<1>8. PICK f : f = Waiting(held)
  OBVIOUS
<1>9. PICK g : g = Waiting(new)
  OBVIOUS
<1>10. /\ \A i \in Irps : f[i] = held[i].n /\ f[i] \in Int /\ g[i] = new[i].n /\ g[i] \in Int
       /\ SumOver(Irps, f) \in Int
  BY <1>7, <1>8, <1>9, WaitingIs
<1>11. IsFiniteSet(Irps) /\ \A i \in Irps \ {key} : g[i] = f[i]
  <2>1. IsFiniteSet(Irps)
    BY StorPortAssumption, Zenon
  <2> QED BY <1>7, <1>10, <2>1
<1>12. SumOver(Irps, g) = SumOver(Irps, f) + (g[key] - f[key])
  BY <1>10, <1>11, SumMoved
<1>13. Tallied(by, new) = Tallied(by, held) + 1 /\ Tallied(by, held) \in Int
  BY <1>2, <1>6, <1>7, <1>8, <1>9, <1>10, <1>12 DEF Tallied
<1>14. Tallied(by, held) = Tallied(retry_by, pending)
  BY <1>1, <1>2, PrunedTally
<1> QED BY <1>5, <1>13, <1>14 DEF Tallied

(* on_reset: a reset is kept, unless as many are kept as ever will be. *)
LEMMA ResetTally ==
  ASSUME RingInv, RetryTypes, NEW ts \in Int, on_reset(pruned(ts))
  PROVE  /\ retry_by' \in [irp : Int, orig : Int, never : Int]
         /\ resets' \in Nat /\ (resets' < ResetCap => resets' = resets + 1)
         /\ Tallied(retry_by, pending)' = Tallied(retry_by, pending)
<1>1. retry_by' = pruned(ts).retry_by /\ pending' = pruned(ts).pending
      /\ resets' = Min({resets + 1, ResetCap})
  BY DEF on_reset
<1>2. resets \in Nat /\ ResetCap \in Nat
  BY StorPortAssumption DEF RetryTypes
<1>3. Min({resets + 1, ResetCap}) \in {resets + 1, ResetCap}
  BY <1>2, LeastOfTwo
<1> QED BY <1>1, <1>2, <1>3, PrunedTally DEF Tallied

-----------------------------------------------------------------------------
(* The session's callback takes one event off the buffer. *)
LEMMA HandleRetries ==
  ASSUME StorInv, RetriesInv, NEW e \in buffer, handle(e), UNCHANGED req_cap
  PROVE  RetriesInv'
<1>1. /\ RingInv /\ RetryTypes /\ e.ts \in Int /\ e.kind \in {"request", "retry", "reset"}
      /\ (e.kind = "request" => e \in Piece) /\ (e.kind = "retry" => e.irp \in Irps)
  BY DEF StorInv, RetriesInv, BufferInv, WorldInv
<1>2. /\ buffer' = buffer \ {e} /\ retried' = retried
      /\ e.kind = "request" => push_req(e, pruned(e.ts))
      /\ e.kind = "retry" => on_retry(e, pruned(e.ts))
      /\ e.kind = "reset" => on_reset(pruned(e.ts))
  BY <1>1 DEF handle, worldVars
<1>3. /\ IsFiniteSet(Undelivered) /\ IsFiniteSet(buffer') /\ resets \in Nat /\ retried \in Nat
      /\ Cardinality(Undelivered) \in Nat
  <2>1. IsFiniteSet(buffer) /\ resets \in Nat /\ retried \in Nat
    BY <1>1 DEF RetryTypes
  <2>2. IsFiniteSet(Undelivered) /\ IsFiniteSet(buffer \ {e})
    BY <2>1, FS_Subset DEF Undelivered
  <2> QED BY <1>2, <2>1, <2>2, FS_CardinalityType
<1>4. Undelivered' = Undelivered \ {e} /\ (e.kind = "request" => Undelivered' = Undelivered)
  BY <1>2 DEF Undelivered
<1>5. /\ e.kind = "request" => Cardinality(Undelivered') = Cardinality(Undelivered)
      /\ e.kind # "request" => Cardinality(Undelivered') = Cardinality(Undelivered) - 1
  <2>1. e.kind # "request" => e \in Undelivered
    BY <1>1 DEF Undelivered
  <2> QED BY <1>3, <1>4, <2>1, FS_RemoveElement
<1>6. Tallied(retry_by, pending) \in Int
  BY <1>1, TalliedType
<1>7. resets < ResetCap => Tallied(retry_by, pending) + Cardinality(Undelivered) + resets = retried
  BY DEF RetriesInv, RetriesConserved, Tallied, Undelivered
<1>8. /\ retry_by' \in [irp : Int, orig : Int, never : Int] /\ resets' \in Nat
      /\ resets' < ResetCap =>
           Tallied(retry_by, pending)' + Cardinality(Undelivered') + resets' = retried'
  <2>0. ResetCap \in Nat
    BY StorPortAssumption
  <2>1. CASE e.kind = "request"
    <3>1. /\ retry_by' \in [irp : Int, orig : Int, never : Int] /\ resets' = resets
          /\ Tallied(retry_by, pending)' = Tallied(retry_by, pending)
      BY <1>1, <1>2, <2>1, PushTally
    <3> QED BY <1>2, <1>3, <1>5, <1>7, <2>1, <3>1
  <2>2. CASE e.kind = "retry"
    <3>1. /\ retry_by' \in [irp : Int, orig : Int, never : Int] /\ resets' = resets
          /\ Tallied(retry_by, pending)' = Tallied(retry_by, pending) + 1
      BY <1>1, <1>2, <2>2, RetryTally
    <3> QED BY <1>2, <1>3, <1>5, <1>6, <1>7, <2>2, <3>1
  <2>3. CASE e.kind = "reset"
    <3>1. /\ retry_by' \in [irp : Int, orig : Int, never : Int]
          /\ resets' \in Nat /\ (resets' < ResetCap => resets' = resets + 1)
          /\ Tallied(retry_by, pending)' = Tallied(retry_by, pending)
      BY <1>1, <1>2, <2>3, ResetTally
    <3> QED BY <1>2, <1>3, <1>5, <1>6, <1>7, <2>0, <2>3, <3>1
  <2> QED BY <1>1, <2>1, <2>2, <2>3
<1>9. RetryTypes'
  <2>1. \A x \in Undelivered' : x.id \in Nat /\ x.id <= retried'
    BY <1>1, <1>2, <1>4 DEF RetryTypes
  <2> QED BY <1>2, <1>3, <1>8, <2>1 DEF RetryTypes
<1>10. RetriesConserved'
  BY <1>8 DEF RetriesConserved, Tallied, Undelivered
<1> QED BY <1>9, <1>10 DEF RetriesInv

(* A retry or a reset that is logged has a number no other has. *)
LEMMA LoggedRetries ==
  ASSUME RingInv, RetriesInv, NEW e, e.kind \in {"retry", "reset"}, e.id = retried + 1, ~stopped, Log(e),
         retried' = retried + 1, UNCHANGED tallyVars
  PROVE  RetriesInv'
<1>1. RetryTypes /\ buffer' = buffer \cup {e}
  BY DEF RetriesInv, Log
<1>2. Undelivered' = Undelivered \cup {e} /\ e \notin Undelivered
  <2>1. e \notin Undelivered
    BY <1>1 DEF RetryTypes
  <2> QED BY <1>1, <2>1 DEF Undelivered
<1>3. IsFiniteSet(buffer) /\ IsFiniteSet(buffer') /\ IsFiniteSet(Undelivered) /\ retried \in Nat
  <2>1. IsFiniteSet(buffer) /\ retried \in Nat
    BY <1>1 DEF RetryTypes
  <2>2. IsFiniteSet(Undelivered)
    BY <2>1, FS_Subset DEF Undelivered
  <2> QED BY <1>1, <2>1, <2>2, FS_AddElement
<1>4. Cardinality(Undelivered') = Cardinality(Undelivered) + 1 /\ Cardinality(Undelivered) \in Nat
  BY <1>2, <1>3, FS_AddElement, FS_CardinalityType
<1>5. RetryTypes'
  <2>1. \A x \in Undelivered' : x.id \in Nat /\ x.id <= retried'
    BY <1>1, <1>2, <1>3 DEF RetryTypes
  <2> QED BY <1>1, <1>3, <2>1 DEF RetryTypes, tallyVars
<1>6. RetriesConserved'
  <2>1. resets < ResetCap => Tallied(retry_by, pending) + Cardinality(Undelivered) + resets = retried
    BY DEF RetriesInv, RetriesConserved, Tallied, Undelivered
  <2>2. /\ Tallied(retry_by, pending)' = Tallied(retry_by, pending) /\ resets' = resets
        /\ Tallied(retry_by, pending) \in Int /\ resets \in Nat
    BY <1>1, TalliedType DEF Tallied, tallyVars, RetryTypes
  <2>3. resets' < ResetCap => Tallied(retry_by, pending)' + Cardinality(Undelivered') + resets' = retried'
    BY <1>3, <1>4, <2>1, <2>2
  <2> QED BY <2>3 DEF RetriesConserved, Tallied, Undelivered
<1> QED BY <1>5, <1>6 DEF RetriesInv

(* Any other event that is logged, or is not, leaves the retries alone. *)
LEMMA OtherRetries ==
  ASSUME RetriesInv, NEW e, e.kind = "request", buffer' = buffer \/ Log(e),
         UNCHANGED <<retried, tallyVars>>
  PROVE  RetriesInv'
<1>1. RetryTypes /\ (buffer' = buffer \/ buffer' = buffer \cup {e})
  BY DEF RetriesInv, Log
<1>2. Undelivered' = Undelivered
  BY <1>1 DEF Undelivered
<1>3. IsFiniteSet(buffer')
  BY <1>1, FS_AddElement DEF RetryTypes
<1>4. RetryTypes'
  BY <1>1, <1>2, <1>3 DEF RetryTypes, tallyVars
<1>5. RetriesConserved'
  BY <1>2 DEF RetriesInv, RetriesConserved, Undelivered, tallyVars
<1> QED BY <1>4, <1>5 DEF RetriesInv

LEMMA RetriesStart == Init => RetriesInv
<1> SUFFICES ASSUME Init PROVE RetriesInv
  OBVIOUS
<1>1. RetryTypes
  BY FS_EmptySet DEF Init, RetryTypes, Undelivered
<1>2. SumOver(Irps, Waiting(pending)) = 0
  <2>1. IsFiniteSet(Irps)
    BY StorPortAssumption, Zenon
  <2>2. \A i \in Irps : Waiting(pending)[i] = 0
    BY DEF Init, Waiting, NoRetry
  <2> QED BY <2>1, <2>2, SumZero
<1>3. Undelivered = {} /\ Cardinality(Undelivered) = 0
  BY FS_EmptySet DEF Init, Undelivered
<1> QED BY <1>1, <1>2, <1>3 DEF Init, RetriesInv, RetriesConserved, Undelivered

LEMMA RetriesNext == StorInv /\ RetriesInv /\ [Next]_vars => RetriesInv'
<1> SUFFICES ASSUME StorInv, RetriesInv, [Next]_vars PROVE RetriesInv'
  OBVIOUS
<1>1. PICK nothing : nothing.kind = "request"
  <2>1. [kind |-> "request"].kind = "request"
    OBVIOUS
  <2> QED BY <2>1, Zenon
<1>2. CASE buffer' = buffer /\ UNCHANGED <<retried, tallyVars>>
  BY <1>1, <1>2, OtherRetries
<1>3. ASSUME Next PROVE RetriesInv'
  <2>1. Step /\ UNCHANGED req_cap
    BY <1>3 DEF Next
  <2>2. CASE Advance \/ (\E irp \in Irps, bytes \in Sizes : Issue(irp, bytes)) \/ (\E q \in live : Complete(q))
    BY <1>2, <2>2 DEF Advance, Issue, Complete
  <2>3. CASE StopSession \/ Finish \/ \E q \in slow : storage_split(q)
    BY <1>2, <2>3 DEF StopSession, Finish, storage_split, worldVars
  <2>4. ASSUME NEW q \in live, NEW from \in Started .. now, NEW bytes \in Sizes, NEW ptr \in Pointers,
               PieceDone(q, from, bytes, ptr)
        PROVE  RetriesInv'
    <3>1. /\ \E r : r.kind = "request" /\ Log(r)
          /\ UNCHANGED <<retried, tallyVars>>
      BY <2>4 DEF PieceDone
    <3> QED BY <3>1, OtherRetries
  <2>5. ASSUME NEW q \in live, Retry(q) PROVE RetriesInv'
    <3>1. PICK r : r = [kind |-> "retry", id |-> retried + 1, ts |-> now, irp |-> q.irp]
      OBVIOUS
    <3>2. r.kind \in {"retry", "reset"} /\ r.id = retried + 1
      BY <3>1
    <3>3. ~stopped /\ retried' = retried + 1 /\ Log(r) /\ UNCHANGED tallyVars
      BY <2>5, <3>1 DEF Retry
    <3> QED BY <3>2, <3>3, LoggedRetries DEF StorInv
  <2>6. ASSUME Reset PROVE RetriesInv'
    <3>1. PICK r : r = [kind |-> "reset", id |-> retried + 1, ts |-> now]
      OBVIOUS
    <3>2. r.kind \in {"retry", "reset"} /\ r.id = retried + 1
      BY <3>1
    <3>3. ~stopped /\ retried' = retried + 1 /\ Log(r) /\ UNCHANGED tallyVars
      BY <2>6, <3>1 DEF Reset
    <3> QED BY <3>2, <3>3, LoggedRetries DEF StorInv
  <2>7. ASSUME NEW e \in buffer, handle(e) PROVE RetriesInv'
    BY <2>1, <2>7, HandleRetries
  <2> QED BY <2>1, <2>2, <2>3, <2>4, <2>5, <2>6, <2>7 DEF Step
<1>4. ASSUME UNCHANGED vars PROVE RetriesInv'
  BY <1>2, <1>4 DEF vars, worldVars
<1> QED BY <1>3, <1>4

(* However requests, retries, resets, prunings and reused pointers are     *)
(* interleaved, every retry delivered is waiting under its pointer or has  *)
(* been counted exactly once, until resets are no longer kept.             *)
THEOREM RetriesCounted == Spec => []RetriesConserved
<1>1. RetriesInv => RetriesConserved
  BY DEF RetriesInv
<1> QED BY <1>1, StorInvariant, RetriesStart, RetriesNext, PTL DEF Spec

-----------------------------------------------------------------------------
(* The graphics trace.                                                     *)

Operation == [from : Int, to : Int, start : BOOLEAN, stop : BOOLEAN]
Residence == [ts : Int, dur : Int, tid : GpuTids, own : Nat]
UnderWay  == [from : Int, read : BOOLEAN]

(* The types the argument rests on. *)
ResidencyTypes ==
  /\ gpu_latest \in Int /\ starts \in [GpuTids -> Int]
  /\ open \in [GpuTids -> UnderWay] /\ \A t \in GpuTids : open[t].read => open[t].from \in Nat
  /\ done \in [GpuTids -> Seq(Operation)]
  /\ DOMAIN gpu_log = GpuRings /\ gpu_log["residency"] \in Seq(Residence)

(* A start that the trace remembers is the last event of its thread that   *)
(* was read.                                                               *)
StartIsLastRead ==
  \A t \in GpuTids : starts[t] # None =>
    \/ open[t].read /\ starts[t] = open[t].from
    \/ /\ ~open[t].read
       /\ \E e \in 1 .. Len(done[t]) :
            LastRead(t, e, Len(done[t])) /\ starts[t] = done[t][e].from

(* A start that was read is forgotten only when it is old. *)
StartKnown ==
  \A t \in GpuTids : open[t].read =>
    starts[t] = open[t].from \/ open[t].from < gpu_latest - GpuKeep

(* What ResidencyIsItsOwn says of a record. *)
RightTime(r) ==
  LET o == done[r.tid][r.own]
  IN /\ o.start => r.dur = IF o.to - o.from < MaxResident THEN o.to - o.from ELSE 0
     /\ ~o.start => \/ r.dur = 0
                    \/ \E e \in 1 .. r.own - 1 :
                         /\ LastRead(r.tid, e, r.own - 1)
                         /\ r.dur = o.to - done[r.tid][e].from /\ r.dur < MaxResident

OwnTimes ==
  \A i \in 1 .. Len(gpu_log["residency"]) :
    LET r == gpu_log["residency"][i] IN r.own \in 1 .. Len(done[r.tid]) /\ RightTime(r)

(* The inductive invariant: OwnTimes speaks of operations that are over,   *)
(* so it needs to know what a remembered start is the start of.            *)
ResidencyInv == ResidencyTypes /\ StartIsLastRead /\ StartKnown /\ OwnTimes

(* Pruning only ever forgets a start, and only an old one. *)
LEMMA PrunedStarts ==
  ASSUME ResidencyTypes, NEW ts \in Int
  PROVE  /\ pruned_starts(ts) \in [GpuTids -> Int]
         /\ \A t \in GpuTids : pruned_starts(ts)[t] # starts[t] =>
              pruned_starts(ts)[t] = None /\ starts[t] < Max2(gpu_latest, ts) - GpuKeep
<1>1. gpu_latest \in Int /\ GpuKeep \in Nat /\ starts \in [GpuTids -> Int]
  BY GpuTraceAssumption DEF ResidencyTypes
<1>2. GpuPruneDue(ts) => Max2(gpu_latest, ts) = ts
  BY <1>1 DEF GpuPruneDue, Max2
<1> QED BY <1>1, <1>2 DEF pruned_starts, None

(* What every event but a start and a stop that are read does to them. *)
OnlyForgets ==
  /\ gpu_latest' \in Int /\ gpu_latest <= gpu_latest' /\ starts' \in [GpuTids -> Int]
  /\ \A t \in GpuTids : starts'[t] # starts[t] =>
       starts'[t] = None /\ starts[t] < gpu_latest' - GpuKeep
  /\ DOMAIN gpu_log' = GpuRings /\ gpu_log'["residency"] = gpu_log["residency"]

LEMMA ForgetsWhenPruning ==
  ASSUME ResidencyTypes, NEW ts \in Int, maybe_prune(ts), starts' = pruned_starts(ts),
         DOMAIN gpu_log' = GpuRings, gpu_log'["residency"] = gpu_log["residency"]
  PROVE  OnlyForgets
<1>1. gpu_latest' = Max2(gpu_latest, ts) /\ gpu_latest \in Int
  BY DEF maybe_prune, ResidencyTypes
<1>2. gpu_latest' \in Int /\ gpu_latest <= gpu_latest'
  BY <1>1 DEF Max2
<1> QED BY <1>1, <1>2, PrunedStarts DEF OnlyForgets

(* What is known of the operations that are over stays so. *)
Grows ==
  \A t \in GpuTids : /\ Len(done[t]) \in Nat /\ Len(done'[t]) \in Nat
                     /\ Len(done[t]) <= Len(done'[t])
                     /\ \A j \in 1 .. Len(done[t]) : done'[t][j] = done[t][j]

LEMMA RightTimeStays ==
  ASSUME Grows, NEW r \in Residence, r.own \in 1 .. Len(done[r.tid]), RightTime(r)
  PROVE  r.own \in 1 .. Len(done'[r.tid]) /\ RightTime(r)'
<1>1. PICK t \in GpuTids : t = r.tid
  BY DEF Residence
<1>2. PICK k \in Nat : k = r.own
  BY DEF Residence
<1>3. PICK n \in Nat : n = Len(done[t])
  BY DEF Grows
<1>4. \A j \in 1 .. k : j \in 1 .. n /\ done'[t][j] = done[t][j]
  BY <1>1, <1>2, <1>3 DEF Grows
<1>5. k \in 1 .. Len(done'[t]) /\ k \in 1 .. k
  BY <1>1, <1>2, <1>3 DEF Grows
<1>6. \A e \in 1 .. k - 1 : LastRead(t, e, k - 1)' <=> LastRead(t, e, k - 1)
  <2> SUFFICES ASSUME NEW e \in 1 .. k - 1
               PROVE  LastRead(t, e, k - 1)' <=> LastRead(t, e, k - 1)
    OBVIOUS
  <2>1. e \in 1 .. k /\ \A j \in e + 1 .. k - 1 : j \in 1 .. k
    OBVIOUS
  <2> QED BY <1>4, <2>1 DEF LastRead
<1>7. \A e \in 1 .. k - 1 : done'[t][e] = done[t][e]
  BY <1>4
<1>8. done'[t][k] = done[t][k]
  BY SMTT(30), <1>4, <1>5
<1> QED BY <1>1, <1>2, <1>5, <1>6, <1>7, <1>8 DEF RightTime

LEMMA OwnTimesStay ==
  ASSUME ResidencyInv, Grows, gpu_log'["residency"] = gpu_log["residency"]
  PROVE  OwnTimes'
<1>1. ASSUME NEW i \in 1 .. Len(gpu_log["residency"]) PROVE gpu_log["residency"][i] \in Residence
  BY SMTT(30), ElementOfSeq DEF ResidencyInv, ResidencyTypes
<1>2. ASSUME NEW i \in 1 .. Len(gpu_log["residency"])
      PROVE  LET r == gpu_log["residency"][i] IN r.own \in 1 .. Len(done'[r.tid]) /\ RightTime(r)'
  <2>1. PICK r \in Residence : r = gpu_log["residency"][i]
    BY <1>1
  <2>2. r.own \in 1 .. Len(done[r.tid]) /\ RightTime(r)
    BY <2>1 DEF ResidencyInv, OwnTimes
  <2>3. r.own \in 1 .. Len(done'[r.tid]) /\ RightTime(r)'
    BY <2>2, RightTimeStays
  <2> QED BY <2>1, <2>3 DEF RightTime, LastRead
<1> QED BY <1>2 DEF OwnTimes, RightTime, LastRead

(* An event that is nothing to the operations. *)
LEMMA Untouched ==
  ASSUME ResidencyInv, OnlyForgets, UNCHANGED <<open, done>>
  PROVE  ResidencyInv'
<1>1. ResidencyTypes /\ ResidencyTypes'
  BY DEF ResidencyInv, ResidencyTypes, OnlyForgets
<1>2. StartIsLastRead'
  BY DEF ResidencyInv, StartIsLastRead, OnlyForgets, LastRead
<1>3. StartKnown'
  <2> SUFFICES ASSUME NEW t \in GpuTids, open[t].read
               PROVE  starts'[t] = open[t].from \/ open[t].from < gpu_latest' - GpuKeep
    BY DEF StartKnown
  <2>1. /\ starts[t] = open[t].from \/ open[t].from < gpu_latest - GpuKeep
        /\ starts'[t] = starts[t] \/ starts[t] < gpu_latest' - GpuKeep
    BY DEF ResidencyInv, StartKnown, OnlyForgets
  <2>2. /\ open[t].from \in Int /\ gpu_latest \in Int /\ gpu_latest' \in Int /\ gpu_latest <= gpu_latest'
        /\ GpuKeep \in Nat /\ starts[t] \in Int
    BY <1>1, GpuTraceAssumption DEF ResidencyTypes, OnlyForgets
  <2> QED BY <2>1, <2>2
<1>4. Grows
  BY <1>1, LenProperties DEF Grows, ResidencyTypes
<1>5. OwnTimes'
  BY <1>4, OwnTimesStay DEF OnlyForgets
<1> QED BY <1>1, <1>2, <1>3, <1>5 DEF ResidencyInv

(* A start that is missed: what was remembered before is remembered still. *)
LEMMA BeginsMissed ==
  ASSUME ResidencyInv, OnlyForgets, NEW ts \in Int, NEW tid \in GpuTids, begins(ts, tid, FALSE)
  PROVE  ResidencyInv'
<1>1. ResidencyTypes
  BY DEF ResidencyInv
<1>2. /\ ~open[tid].read /\ done' = done
      /\ open' = [open EXCEPT ![tid] = [from |-> ts, read |-> FALSE]]
  BY DEF begins, Idle
<1>3. ResidencyTypes'
  <2>1. [from |-> ts, read |-> FALSE] \in UnderWay
    BY DEF UnderWay
  <2>2. open' \in [GpuTids -> UnderWay]
    BY <1>1, <1>2, <2>1 DEF ResidencyTypes
  <2>3. ASSUME NEW t \in GpuTids, open'[t].read PROVE open'[t].from \in Nat
    <3>1. t # tid
      BY <1>1, <1>2, <2>3 DEF ResidencyTypes
    <3> QED BY <1>1, <1>2, <2>3, <3>1 DEF ResidencyTypes
  <2> QED BY <1>1, <1>2, <2>2, <2>3 DEF ResidencyTypes, OnlyForgets
<1>4. \A t \in GpuTids : open'[t].read = open[t].read /\ (open[t].read => open'[t].from = open[t].from)
  BY <1>1, <1>2 DEF ResidencyTypes, UnderWay
<1>5. StartIsLastRead'
  <2> SUFFICES ASSUME NEW t \in GpuTids, starts'[t] # None
               PROVE  \/ open'[t].read /\ starts'[t] = open'[t].from
                      \/ /\ ~open'[t].read
                         /\ \E e \in 1 .. Len(done[t]) :
                              LastRead(t, e, Len(done[t])) /\ starts'[t] = done[t][e].from
    BY <1>2 DEF StartIsLastRead, LastRead
  <2>1. starts'[t] = starts[t]
    BY DEF OnlyForgets
  <2> QED BY <1>4, <2>1 DEF ResidencyInv, StartIsLastRead
<1>6. StartKnown'
  <2> SUFFICES ASSUME NEW t \in GpuTids, open[t].read
               PROVE  starts'[t] = open[t].from \/ open[t].from < gpu_latest' - GpuKeep
    BY <1>4 DEF StartKnown
  <2>1. /\ starts[t] = open[t].from \/ open[t].from < gpu_latest - GpuKeep
        /\ starts'[t] = starts[t] \/ starts[t] < gpu_latest' - GpuKeep
    BY DEF ResidencyInv, StartKnown, OnlyForgets
  <2>2. /\ open[t].from \in Int /\ gpu_latest \in Int /\ gpu_latest' \in Int /\ gpu_latest <= gpu_latest'
        /\ GpuKeep \in Nat /\ starts[t] \in Int
    BY <1>1, GpuTraceAssumption DEF ResidencyTypes, OnlyForgets
  <2> QED BY <2>1, <2>2
<1>7. Grows
  BY <1>1, <1>2, LenProperties DEF Grows, ResidencyTypes
<1>8. OwnTimes'
  BY <1>7, OwnTimesStay DEF OnlyForgets
<1> QED BY <1>3, <1>5, <1>6, <1>8 DEF ResidencyInv

(* An operation that ends is added to those that are over. *)
LEMMA EndsAppends ==
  ASSUME ResidencyTypes, NEW ts \in Int, NEW tid \in GpuTids, NEW read \in BOOLEAN, ends(ts, tid, read),
         NEW o, o = [from |-> open[tid].from, to |-> ts, start |-> open[tid].read, stop |-> read]
  PROVE  /\ Grows /\ done' \in [GpuTids -> Seq(Operation)] /\ o \in Operation
         /\ Len(done'[tid]) = Len(done[tid]) + 1 /\ done'[tid][Len(done[tid]) + 1] = o
         /\ \A t \in GpuTids \ {tid} : done'[t] = done[t]
         /\ open' \in [GpuTids -> UnderWay] /\ ~open'[tid].read
         /\ \A t \in GpuTids \ {tid} : open'[t] = open[t]
<1>1. open[tid] \in UnderWay /\ done[tid] \in Seq(Operation)
  BY DEF ResidencyTypes
<1>2. o \in Operation
  BY <1>1 DEF UnderWay, Operation
<1>3. PICK q \in Seq(Operation) : q = done[tid]
  BY <1>1
<1>4. /\ Append(q, o) \in Seq(Operation) /\ Len(Append(q, o)) = Len(q) + 1 /\ Len(q) \in Nat
      /\ \A i \in 1 .. Len(q) : Append(q, o)[i] = q[i]
      /\ Append(q, o)[Len(q) + 1] = o
  BY <1>2, PushSpec
<1>5. done' = [done EXCEPT ![tid] = Append(q, o)] /\ open' = [open EXCEPT ![tid] = Idle]
  BY <1>3 DEF ends
<1>6. done' \in [GpuTids -> Seq(Operation)] /\ done'[tid] = Append(q, o) /\ \A t \in GpuTids \ {tid} : done'[t] = done[t]
  BY <1>4, <1>5 DEF ResidencyTypes
<1>7. Grows
  <2> SUFFICES ASSUME NEW t \in GpuTids
               PROVE  /\ Len(done[t]) \in Nat /\ Len(done'[t]) \in Nat /\ Len(done[t]) <= Len(done'[t])
                      /\ \A j \in 1 .. Len(done[t]) : done'[t][j] = done[t][j]
    BY DEF Grows
  <2>1. CASE t = tid
    BY SMTT(30), <1>3, <1>4, <1>6, <2>1
  <2>2. CASE t # tid
    BY <1>6, <2>2, LenProperties DEF ResidencyTypes
  <2> QED BY <2>1, <2>2
<1>8. Idle \in UnderWay /\ ~Idle.read
  BY DEF Idle, UnderWay, None
<1> QED BY <1>2, <1>3, <1>4, <1>5, <1>6, <1>7, <1>8 DEF ResidencyTypes

(* The threads another one's stop is nothing to. *)
LEMMA OthersKnown ==
  ASSUME ResidencyInv, NEW tid \in GpuTids, NEW t \in GpuTids \ {tid},
         done'[t] = done[t], open'[t] = open[t],
         gpu_latest' \in Int, gpu_latest <= gpu_latest',
         starts'[t] # starts[t] => starts'[t] = None /\ starts[t] < gpu_latest' - GpuKeep
  PROVE  /\ starts'[t] # None =>
              \/ open'[t].read /\ starts'[t] = open'[t].from
              \/ /\ ~open'[t].read
                 /\ \E e \in 1 .. Len(done'[t]) :
                      LastRead(t, e, Len(done[t]))' /\ starts'[t] = done'[t][e].from
         /\ open'[t].read => starts'[t] = open'[t].from \/ open'[t].from < gpu_latest' - GpuKeep
<1>1. starts'[t] # None => starts'[t] = starts[t]
  OBVIOUS
<1>2. \A e \in 1 .. Len(done[t]) : LastRead(t, e, Len(done[t])) => LastRead(t, e, Len(done[t]))'
  BY DEF LastRead
<1>3. /\ open[t].from \in Int /\ gpu_latest \in Int /\ GpuKeep \in Nat /\ starts[t] \in Int
  BY GpuTraceAssumption DEF ResidencyInv, ResidencyTypes, UnderWay
<1>4. open[t].read => starts[t] = open[t].from \/ open[t].from < gpu_latest - GpuKeep
  BY DEF ResidencyInv, StartKnown
<1>5. open[t].read => starts'[t] = open[t].from \/ open[t].from < gpu_latest' - GpuKeep
  BY <1>3, <1>4
<1>6. starts[t] # None =>
        \/ open[t].read /\ starts[t] = open[t].from
        \/ /\ ~open[t].read
           /\ \E e \in 1 .. Len(done[t]) : LastRead(t, e, Len(done[t])) /\ starts[t] = done[t][e].from
  BY DEF ResidencyInv, StartIsLastRead
<1> QED BY <1>1, <1>2, <1>5, <1>6

(* A stop that is missed: the operation's start, or one before it, is left *)
(* behind.                                                                 *)
LEMMA EndsMissed ==
  ASSUME ResidencyInv, OnlyForgets, NEW ts \in Int, NEW tid \in GpuTids, ends(ts, tid, FALSE)
  PROVE  ResidencyInv'
<1>1. ResidencyTypes
  BY DEF ResidencyInv
<1>0. PICK n \in Nat : n = Len(done[tid])
  BY <1>1, LenProperties DEF ResidencyTypes
<1>a. PICK o : o = [from |-> open[tid].from, to |-> ts, start |-> open[tid].read, stop |-> FALSE]
  OBVIOUS
<1>2. /\ Grows /\ done' \in [GpuTids -> Seq(Operation)]
      /\ Len(done'[tid]) = n + 1 /\ done'[tid][n + 1] = o
      /\ \A t \in GpuTids \ {tid} : done'[t] = done[t]
      /\ open' \in [GpuTids -> UnderWay] /\ ~open'[tid].read
      /\ \A t \in GpuTids \ {tid} : open'[t] = open[t]
  <2>1. PICK read \in BOOLEAN : read = FALSE
    OBVIOUS
  <2>2. ends(ts, tid, read)
    BY <2>1 DEF ends
  <2>3. o = [from |-> open[tid].from, to |-> ts, start |-> open[tid].read, stop |-> read]
    BY <1>a, <2>1
  <2> QED BY <1>0, <1>1, <2>2, <2>3, EndsAppends
<1>3. \A j \in 1 .. n : done'[tid][j] = done[tid][j]
  BY <1>0, <1>2 DEF Grows
<1>4. ResidencyTypes'
  BY <1>1, <1>2 DEF ResidencyTypes, OnlyForgets
<1>5. ASSUME starts'[tid] # None
      PROVE  \E e \in 1 .. n + 1 : LastRead(tid, e, n + 1)' /\ starts'[tid] = done'[tid][e].from
  <2>1. starts'[tid] = starts[tid] /\ starts[tid] # None
    BY <1>5 DEF OnlyForgets
  <2>2. CASE open[tid].read /\ starts[tid] = open[tid].from
    <3>1. LastRead(tid, n + 1, n + 1)'
      BY <1>a, <1>2, <1>3, <2>2 DEF LastRead
    <3> QED BY <1>a, <1>2, <1>3, <2>1, <2>2, <3>1
  <2>3. ASSUME ~open[tid].read, NEW e \in 1 .. n, LastRead(tid, e, n), starts[tid] = done[tid][e].from
        PROVE  LastRead(tid, e, n + 1)' /\ starts'[tid] = done'[tid][e].from /\ e \in 1 .. n + 1
    <3>1. ASSUME NEW j \in e + 1 .. n + 1 PROVE ~done'[tid][j].start /\ ~done'[tid][j].stop
      <4>1. CASE j = n + 1
        BY <1>a, <1>2, <2>3, <4>1
      <4>2. CASE j # n + 1
        <5>1. j \in e + 1 .. n /\ j \in 1 .. n
          BY <1>3, <4>2
        <5> QED BY <1>3, <2>3, <5>1 DEF LastRead
      <4> QED BY <4>1, <4>2
    <3>2. done'[tid][e] = done[tid][e]
      BY <1>3
    <3>3. done'[tid][e].start /\ ~done'[tid][e].stop
      BY <2>3, <3>2 DEF LastRead
    <3>4. LastRead(tid, e, n + 1)'
      BY <3>1, <3>3, <1>3 DEF LastRead
    <3> QED BY <1>3, <2>1, <2>3, <3>2, <3>4
  <2> QED BY <1>0, <2>1, <2>2, <2>3 DEF ResidencyInv, StartIsLastRead
<1>6. ASSUME NEW t \in GpuTids \ {tid}
      PROVE  /\ starts'[t] # None =>
                  \/ open'[t].read /\ starts'[t] = open'[t].from
                  \/ /\ ~open'[t].read
                     /\ \E e \in 1 .. Len(done'[t]) :
                          LastRead(t, e, Len(done[t]))' /\ starts'[t] = done'[t][e].from
             /\ open'[t].read => starts'[t] = open'[t].from \/ open'[t].from < gpu_latest' - GpuKeep
  BY <1>2, OthersKnown DEF OnlyForgets
<1>7. StartIsLastRead'
  <2> SUFFICES ASSUME NEW t \in GpuTids, starts'[t] # None
               PROVE  \/ open'[t].read /\ starts'[t] = open'[t].from
                      \/ /\ ~open'[t].read
                         /\ \E e \in 1 .. Len(done'[t]) :
                              LastRead(t, e, Len(done[t]))' /\ starts'[t] = done'[t][e].from
    BY DEF StartIsLastRead
  <2>1. CASE t = tid
    <3>1. PICK e \in 1 .. n + 1 : LastRead(tid, e, n + 1)' /\ starts'[tid] = done'[tid][e].from
      BY <1>5, <2>1
    <3>2. LastRead(tid, e, Len(done[tid]))'
      BY <1>2, <3>1 DEF LastRead
    <3> QED BY <1>2, <2>1, <3>1, <3>2
  <2>2. CASE t # tid
    BY <1>6, <2>2
  <2> QED BY <2>1, <2>2
<1>8. StartKnown'
  <2> SUFFICES ASSUME NEW t \in GpuTids, open'[t].read
               PROVE  starts'[t] = open'[t].from \/ open'[t].from < gpu_latest' - GpuKeep
    BY DEF StartKnown
  <2> QED BY <1>2, <1>6
<1>9. OwnTimes'
  BY <1>2, OwnTimesStay DEF OnlyForgets
<1> QED BY <1>4, <1>7, <1>8, <1>9 DEF ResidencyInv

(* A start that is read replaces whatever was remembered. *)
LEMMA StartStep ==
  ASSUME ResidencyInv, NEW ts \in Nat, NEW tid \in GpuTids, on_resident_start(ts, tid)
  PROVE  ResidencyInv'
<1>1. ResidencyTypes
  BY DEF ResidencyInv
<1>2. /\ done' = done /\ open' = [open EXCEPT ![tid] = [from |-> ts, read |-> TRUE]]
      /\ gpu_latest' = Max2(gpu_latest, ts) /\ gpu_log' = gpu_log
      /\ starts' = [pruned_starts(ts) EXCEPT ![tid] = ts]
  BY DEF on_resident_start, begins, maybe_prune
<1>3. /\ pruned_starts(ts) \in [GpuTids -> Int]
      /\ \A t \in GpuTids : pruned_starts(ts)[t] # starts[t] =>
           pruned_starts(ts)[t] = None /\ starts[t] < gpu_latest' - GpuKeep
  BY <1>1, <1>2, PrunedStarts
<1>4. gpu_latest' \in Int /\ gpu_latest <= gpu_latest'
  BY <1>1, <1>2 DEF Max2, ResidencyTypes
<1>5. /\ starts' \in [GpuTids -> Int] /\ starts'[tid] = ts
      /\ \A t \in GpuTids \ {tid} : starts'[t] = pruned_starts(ts)[t]
  BY <1>2, <1>3
<1>6. /\ open'[tid].read /\ open'[tid].from = ts
      /\ \A t \in GpuTids \ {tid} : open'[t] = open[t]
  BY <1>1, <1>2 DEF ResidencyTypes
<1>7. ResidencyTypes'
  <2>1. [from |-> ts, read |-> TRUE] \in UnderWay
    BY DEF UnderWay
  <2> QED BY <1>1, <1>2, <1>4, <1>5, <1>6, <2>1 DEF ResidencyTypes
<1>8. ASSUME NEW t \in GpuTids \ {tid}
      PROVE  /\ starts'[t] # None =>
                  \/ open'[t].read /\ starts'[t] = open'[t].from
                  \/ /\ ~open'[t].read
                     /\ \E e \in 1 .. Len(done'[t]) :
                          LastRead(t, e, Len(done[t]))' /\ starts'[t] = done'[t][e].from
             /\ open'[t].read => starts'[t] = open'[t].from \/ open'[t].from < gpu_latest' - GpuKeep
  BY <1>2, <1>3, <1>4, <1>5, <1>6, OthersKnown
<1>9. StartIsLastRead' /\ StartKnown'
  BY <1>5, <1>6, <1>8 DEF StartIsLastRead, StartKnown
<1>10. Grows
  BY <1>1, <1>2, LenProperties DEF Grows, ResidencyTypes
<1>11. OwnTimes'
  BY <1>2, <1>10, OwnTimesStay
<1> QED BY <1>7, <1>9, <1>11 DEF ResidencyInv

(* A stop that is read takes the start with it; the operation gets its own *)
(* time, nothing, or the time since the last event that was read.          *)
LEMMA StopStep ==
  ASSUME ResidencyInv, NEW ts \in Nat, ts >= gpu_latest - GpuDisorder, NEW tid \in GpuTids,
         on_resident_stop(ts, tid)
  PROVE  ResidencyInv'
<1>1. ResidencyTypes
  BY DEF ResidencyInv
<1>2. PICK n \in Nat : n = Len(done[tid])
  BY <1>1, LenProperties DEF ResidencyTypes
<1>3. PICK u \in UnderWay : u = open[tid]
  BY <1>1 DEF ResidencyTypes
<1>4. PICK o : o = [from |-> u.from, to |-> ts, start |-> u.read, stop |-> TRUE]
  OBVIOUS
<1>5. /\ Grows /\ done' \in [GpuTids -> Seq(Operation)] /\ o \in Operation
      /\ Len(done'[tid]) = n + 1 /\ done'[tid][n + 1] = o
      /\ \A t \in GpuTids \ {tid} : done'[t] = done[t]
      /\ open' \in [GpuTids -> UnderWay] /\ ~open'[tid].read
      /\ \A t \in GpuTids \ {tid} : open'[t] = open[t]
  <2>1. PICK read \in BOOLEAN : read = TRUE
    OBVIOUS
  <2>2. ends(ts, tid, read)
    BY <2>1 DEF on_resident_stop, ends
  <2>3. o = [from |-> open[tid].from, to |-> ts, start |-> open[tid].read, stop |-> read]
    BY <1>3, <1>4, <2>1
  <2> QED BY <1>1, <1>2, <2>2, <2>3, EndsAppends
<1>6. PICK b : b = pruned_starts(ts)
  OBVIOUS
<1>7. gpu_latest' = Max2(gpu_latest, ts) /\ starts' = [b EXCEPT ![tid] = None]
  BY <1>6 DEF on_resident_stop, maybe_prune, taken
<1>8. /\ gpu_latest \in Int /\ GpuKeep \in Nat /\ GpuDisorder \in Nat /\ MaxResident \in Nat
      /\ MaxResident + GpuDisorder <= GpuKeep
      /\ gpu_latest' \in Int /\ gpu_latest <= gpu_latest' /\ gpu_latest' <= ts + GpuDisorder
  BY <1>1, <1>7, GpuTraceAssumption DEF Max2, ResidencyTypes
<1>9. /\ b \in [GpuTids -> Int]
      /\ \A t \in GpuTids : b[t] # starts[t] => b[t] = None /\ starts[t] < gpu_latest' - GpuKeep
  BY <1>1, <1>6, <1>7, PrunedStarts
<1>10. /\ starts' \in [GpuTids -> Int] /\ starts'[tid] = None
       /\ \A t \in GpuTids \ {tid} : starts'[t] = b[t]
  BY <1>7, <1>9 DEF None
<1>11. PICK d \in Int : d = resident_dur(b, tid, ts)
  <2>1. PICK x \in Int : x = b[tid]
    BY <1>9
  <2>2. resident_dur(b, tid, ts) = ts - x \/ resident_dur(b, tid, ts) = 0
    BY <2>1 DEF resident_dur
  <2>3. ts - x \in Int /\ 0 \in Int
    OBVIOUS
  <2> QED BY <2>2, <2>3
<1>12. PICK r \in Residence : r = [ts |-> ts, dur |-> d, tid |-> tid, own |-> n + 1]
  <2>1. ts \in Int /\ n + 1 \in Nat
    OBVIOUS
  <2> QED BY <2>1 DEF Residence
<1>13. PICK ops \in Seq(Residence) : ops = gpu_log["residency"]
  BY <1>1 DEF ResidencyTypes
<1>14. PICK after \in Seq(Residence) : after = Append(ops, r)
  BY <1>12, PushSpec
<1>15. /\ Len(after) = Len(ops) + 1 /\ after[Len(ops) + 1] = r /\ Len(ops) \in Nat
       /\ \A i \in 1 .. Len(ops) : after[i] = ops[i] /\ ops[i] \in Residence
  BY <1>14, PushSpec
<1>16. DOMAIN gpu_log' = GpuRings /\ gpu_log'["residency"] = after
  <2>1. "residency" \in GpuRings
    BY DEF GpuRings
  <2>2. gpu_log' = [gpu_log EXCEPT !["residency"] = Append(gpu_log["residency"], [ts |-> ts,
          dur |-> resident_dur(pruned_starts(ts), tid, ts), tid |-> tid, own |-> Len(done[tid]) + 1])]
    BY DEF on_resident_stop, gpu_push
  <2>3. gpu_log' = [gpu_log EXCEPT !["residency"] = after]
    BY <1>2, <1>6, <1>11, <1>12, <1>13, <1>14, <2>2
  <2> QED BY <1>1, <2>1, <2>3 DEF ResidencyTypes
<1>17. ResidencyTypes'
  <2>1. \A t \in GpuTids : open'[t].read => open'[t].from \in Nat
    BY <1>1, <1>5 DEF ResidencyTypes
  <2> QED BY <1>5, <1>8, <1>10, <1>16, <2>1 DEF ResidencyTypes
<1>18. ASSUME NEW t \in GpuTids \ {tid}
       PROVE  /\ starts'[t] # None =>
                   \/ open'[t].read /\ starts'[t] = open'[t].from
                   \/ /\ ~open'[t].read
                      /\ \E e \in 1 .. Len(done'[t]) :
                           LastRead(t, e, Len(done[t]))' /\ starts'[t] = done'[t][e].from
              /\ open'[t].read => starts'[t] = open'[t].from \/ open'[t].from < gpu_latest' - GpuKeep
  BY <1>5, <1>8, <1>9, <1>10, OthersKnown
<1>19. StartIsLastRead' /\ StartKnown'
  BY <1>5, <1>10, <1>18 DEF StartIsLastRead, StartKnown
<1>20. b[tid] \in Int /\ u.from \in Int /\ (u.read => u.from \in Nat) /\ u.read \in BOOLEAN
  BY <1>1, <1>3, <1>9 DEF ResidencyTypes, UnderWay
<1>21. d = IF b[tid] # None /\ ts - b[tid] < MaxResident THEN ts - b[tid] ELSE 0
  BY <1>11 DEF resident_dur
<1>22. ASSUME u.read PROVE d = IF ts - u.from < MaxResident THEN ts - u.from ELSE 0
  <2>1. starts[tid] # None => starts[tid] = u.from
    BY <1>3, <1>22 DEF ResidencyInv, StartIsLastRead
  <2>2. starts[tid] = u.from \/ u.from < gpu_latest - GpuKeep
    BY <1>3, <1>22 DEF ResidencyInv, StartKnown
  <2>3. CASE b[tid] = u.from
    BY <1>20, <1>21, <1>22, <2>3 DEF None
  <2>4. CASE b[tid] # u.from
    <3>1. b[tid] = None
      BY <1>9, <2>1, <2>4
    <3>2. u.from < gpu_latest' - GpuKeep
      BY <1>8, <1>9, <1>20, <2>2, <2>4
    <3>3. ts - u.from >= MaxResident
      BY <1>8, <1>20, <3>2
    <3> QED BY <1>8, <1>20, <1>21, <3>1, <3>3
  <2> QED BY <2>3, <2>4
<1>23. ASSUME ~u.read, d # 0
       PROVE  \E e \in 1 .. n : /\ LastRead(tid, e, n)' /\ d = ts - done'[tid][e].from /\ d < MaxResident
  <2>1. b[tid] # None /\ d = ts - b[tid] /\ d < MaxResident
    BY <1>21, <1>23
  <2>2. starts[tid] = b[tid]
    BY <1>9, <2>1
  <2>3. PICK e \in 1 .. n : LastRead(tid, e, n) /\ starts[tid] = done[tid][e].from
    BY <1>2, <1>3, <1>23, <2>1, <2>2 DEF ResidencyInv, StartIsLastRead
  <2>4. \A j \in 1 .. n : done'[tid][j] = done[tid][j]
    BY <1>2, <1>5 DEF Grows
  <2>5. LastRead(tid, e, n)'
    <3>1. \A j \in e + 1 .. n : j \in 1 .. n
      OBVIOUS
    <3> QED BY <2>3, <2>4, <3>1 DEF LastRead
  <2> QED BY <2>1, <2>2, <2>3, <2>4, <2>5
<1>24. RightTime(r)' /\ r.own \in 1 .. Len(done'[r.tid])
  <2>1. r.tid = tid /\ r.own = n + 1 /\ r.dur = d /\ r.own - 1 = n /\ done'[r.tid][r.own] = o
    BY <1>5, <1>12
  <2>2. o.start = u.read /\ o.to = ts /\ o.from = u.from
    BY <1>4
  <2> QED BY <1>5, <1>22, <1>23, <2>1, <2>2 DEF RightTime
<1>25. OwnTimes'
  <2>1. ASSUME NEW i \in 1 .. Len(ops) PROVE after[i].own \in 1 .. Len(done'[after[i].tid]) /\ RightTime(after[i])'
    <3>1. PICK s \in Residence : s = after[i] /\ s = gpu_log["residency"][i]
      BY <1>13, <1>15
    <3>2. s.own \in 1 .. Len(done[s.tid]) /\ RightTime(s)
      BY <1>13, <3>1 DEF ResidencyInv, OwnTimes
    <3>3. s.own \in 1 .. Len(done'[s.tid]) /\ RightTime(s)'
      BY <1>5, <3>2, RightTimeStays
    <3> QED BY <3>1, <3>3
  <2>2. \A i \in 1 .. Len(after) : after[i].own \in 1 .. Len(done'[after[i].tid]) /\ RightTime(after[i])'
    BY <1>15, <1>24, <2>1
  <2> QED BY <1>16, <2>2 DEF OwnTimes, RightTime, LastRead
<1> QED BY <1>17, <1>19, <1>25 DEF ResidencyInv

(* A record pushed on another ring leaves the residency ring alone. *)
LEMMA OtherRings ==
  ASSUME ResidencyTypes, NEW r \in GpuRings \ {"residency"}, NEW rec, NEW heads,
         gpu_push(r, rec, heads)
  PROVE  DOMAIN gpu_log' = GpuRings /\ gpu_log'["residency"] = gpu_log["residency"]
  BY DEF gpu_push, ResidencyTypes, GpuRings

(* The inductive invariant of the residency operations. *)
THEOREM ResidencyInvariant == GpuSpec => []ResidencyInv
<1>1. GpuInit => ResidencyInv
  <2> SUFFICES ASSUME GpuInit PROVE ResidencyInv
    OBVIOUS
  <2>1. gpu_log["residency"] = <<>> /\ DOMAIN gpu_log = GpuRings
    BY DEF GpuInit, GpuRings
  <2>2. ResidencyTypes
    <3>1. <<>> \in Seq(Residence) /\ <<>> \in Seq(Operation)
      BY EmptySeq
    <3>2. starts \in [GpuTids -> Int] /\ gpu_latest \in Int
      BY DEF GpuInit, None
    <3>3. open \in [GpuTids -> UnderWay] /\ \A t \in GpuTids : ~open[t].read
      <4>1. Idle \in UnderWay /\ ~Idle.read
        BY DEF Idle, UnderWay, None
      <4>2. 0 \in Int /\ FALSE \in BOOLEAN
        OBVIOUS
      <4>3. [from |-> 0, read |-> FALSE] \in UnderWay
        BY <4>2 DEF UnderWay
      <4>4. PICK x \in UnderWay : x = Idle /\ ~x.read
        BY <4>1
      <4>5. PICK y \in UnderWay : y = [from |-> 0, read |-> FALSE]
        BY <4>3
      <4>6. ~y.read
        BY <4>5
      <4>7. open \in [GpuTids -> {x, y}]
        BY <4>4, <4>5 DEF GpuInit
      <4> QED BY <4>4, <4>6, <4>7
    <3> QED BY <2>1, <3>1, <3>2, <3>3 DEF GpuInit, ResidencyTypes
  <2>3. StartIsLastRead /\ StartKnown
    BY DEF GpuInit, Idle, StartIsLastRead, StartKnown
  <2>4. OwnTimes
    BY <2>1, EmptySeq DEF OwnTimes
  <2> QED BY <2>2, <2>3, <2>4 DEF ResidencyInv
<1>2. ResidencyInv /\ [GpuNext]_gpuVars => ResidencyInv'
  <2> SUFFICES ASSUME ResidencyInv, [GpuNext]_gpuVars PROVE ResidencyInv'
    OBVIOUS
  <2>0. ResidencyTypes
    BY DEF ResidencyInv
  <2>1. \A ts \in EventTimes : ts \in Nat /\ ts >= gpu_latest - GpuDisorder
    BY <2>0, GpuTraceAssumption DEF ResidencyTypes, EventTimes, Max2
  <2>2. ASSUME NEW ts \in Nat, on_refresh(ts) PROVE ResidencyInv'
    <3>1. DOMAIN gpu_log' = GpuRings /\ gpu_log'["residency"] = gpu_log["residency"]
      <4>1. \/ gpu_log' = gpu_log
            \/ gpu_push("refresh", [ts |-> ts], pruned_heads(ts))
        BY <2>2 DEF on_refresh
      <4>2. "refresh" \in GpuRings \ {"residency"}
        BY DEF GpuRings
      <4> QED BY <2>0, <4>1, <4>2, OtherRings DEF ResidencyTypes
    <3> QED BY <2>0, <2>2, <3>1, ForgetsWhenPruning, Untouched DEF on_refresh
  <2>3. ASSUME NEW ts \in Nat, NEW pid \in Pids, on_present(ts, pid) PROVE ResidencyInv'
    <3>1. DOMAIN gpu_log' = GpuRings /\ gpu_log'["residency"] = gpu_log["residency"]
      <4>1. "presents" \in GpuRings \ {"residency"}
        BY DEF GpuRings
      <4> QED BY <2>0, <2>3, <4>1, OtherRings DEF on_present
    <3> QED BY <2>0, <2>3, <3>1, ForgetsWhenPruning, Untouched DEF on_present
  <2>4. ASSUME NEW ts \in Nat, only_prune(ts) PROVE OnlyForgets
    BY <2>0, <2>4, ForgetsWhenPruning DEF only_prune, ResidencyTypes
  <2>5. ASSUME NEW ts \in Nat, on_unknown(ts) PROVE ResidencyInv'
    BY <2>4, <2>5, Untouched DEF on_unknown
  <2>6. ASSUME NEW ts \in Nat, NEW tid \in GpuTids, unreadable(ts, tid) PROVE ResidencyInv'
    <3>1. ts \in Int /\ OnlyForgets
      BY <2>4, <2>6 DEF unreadable
    <3>2. CASE begins(ts, tid, FALSE)
      BY <3>1, <3>2, BeginsMissed
    <3>3. CASE ends(ts, tid, FALSE)
      BY <3>1, <3>3, EndsMissed
    <3> QED BY <2>6, <3>2, <3>3 DEF unreadable
  <2>7. ASSUME NEW ts \in Nat, NEW tid \in GpuTids, lost(ts, tid) PROVE ResidencyInv'
    <3>1. OnlyForgets
      BY <2>0, <2>7 DEF lost, traceVars, OnlyForgets, ResidencyTypes
    <3>2. ts \in Int
      OBVIOUS
    <3>3. CASE begins(ts, tid, FALSE)
      BY <3>1, <3>2, <3>3, BeginsMissed
    <3>4. CASE ends(ts, tid, FALSE)
      BY <3>1, <3>2, <3>4, EndsMissed
    <3> QED BY <2>7, <3>3, <3>4 DEF lost
  <2>8. CASE GpuNext
    <3>1. PICK ts \in EventTimes :
            \/ on_refresh(ts) \/ on_unknown(ts)
            \/ \E pid \in Pids : on_present(ts, pid)
            \/ \E tid \in GpuTids : \/ on_resident_start(ts, tid) \/ on_resident_stop(ts, tid)
                                    \/ unreadable(ts, tid) \/ lost(ts, tid)
      BY <2>8 DEF GpuNext
    <3> QED BY <3>1, <2>1, <2>2, <2>3, <2>5, <2>6, <2>7, StartStep, StopStep
  <2>9. CASE UNCHANGED gpuVars
    <3>1. OnlyForgets /\ UNCHANGED <<open, done>>
      BY <2>0, <2>9 DEF gpuVars, traceVars, OnlyForgets, ResidencyTypes
    <3> QED BY <3>1, Untouched
  <2> QED BY <2>8, <2>9
<1> QED BY <1>1, <1>2, PTL DEF GpuSpec

(* An operation whose start was read is given its own time, and no single  *)
(* event that is missed gives it another's, for any number of threads and  *)
(* any lost, late or unreadable events.                                    *)
THEOREM ResidencyOwn == GpuSpec => []ResidencyIsItsOwn
<1>1. ResidencyInv => ResidencyIsItsOwn
  <2> SUFFICES ASSUME ResidencyInv PROVE ResidencyIsItsOwn
    OBVIOUS
  <2>1. DOMAIN gpu_log["residency"] = 1 .. Len(gpu_log["residency"])
    BY LenProperties DEF ResidencyInv, ResidencyTypes
  <2> QED BY <2>1 DEF ResidencyInv, OwnTimes, RightTime, ResidencyIsItsOwn
<1> QED BY <1>1, ResidencyInvariant, PTL

-----------------------------------------------------------------------------
(* The displays' refreshes. *)
Tick == [ts : Int]
Refreshes == gpu_log["refresh"]
Gone      == gpu_head["refresh"]

RefreshTypes ==
  /\ gpu_latest \in Int /\ ticks \subseteq Int
  /\ DOMAIN gpu_log = GpuRings /\ DOMAIN gpu_head = GpuRings
  /\ Refreshes \in Seq(Tick) /\ Gone \in Nat /\ Gone <= Len(Refreshes)

(* The ring is in order and holds times of refreshes. *)
RefreshOrder ==
  /\ \A i \in 1 .. Len(Refreshes) : Refreshes[i].ts <= gpu_latest /\ Refreshes[i].ts \in ticks
  /\ \A i, j \in 1 .. Len(Refreshes) : i < j => Refreshes[i].ts < Refreshes[j].ts

(* Every refresh was recorded, or came so soon after a record, or so late, *)
(* that it was taken for the same one.                                     *)
Covered(t) ==
  \E i \in 1 .. Len(Refreshes) : Refreshes[i].ts - GpuDisorder <= t /\ t < Refreshes[i].ts + HalfMs
TicksCovered == \A t \in ticks : Covered(t)

(* An empty ring was emptied by age: no later event is older than what was *)
(* in it.                                                                  *)
EmptiedByAge ==
  Gone = Len(Refreshes) /\ Gone > 0 => Refreshes[Gone].ts < gpu_latest - GpuDisorder

(* What is in the ring is one record for each refresh. *)
RefreshesApart ==
  \A i \in Gone + 1 .. Len(Refreshes) - 1 : Refreshes[i + 1].ts - Refreshes[i].ts >= HalfMs

RefreshInv == RefreshTypes /\ RefreshOrder /\ TicksCovered /\ RefreshesApart /\ EmptiedByAge

(* An event is no more than GpuDisorder older than the newest one. *)
Delivered(ts) ==
  /\ gpu_latest' \in Int /\ gpu_latest <= gpu_latest'
  /\ ts <= gpu_latest' /\ ts >= gpu_latest' - GpuDisorder

LEMMA DeliveredBy ==
  ASSUME gpu_latest \in Int, NEW ts \in Int, ts >= gpu_latest - GpuDisorder, maybe_prune(ts)
  PROVE  Delivered(ts)
<1>1. gpu_latest' = Max2(gpu_latest, ts) /\ GpuDisorder \in Nat
  BY GpuTraceAssumption DEF maybe_prune
<1> QED BY <1>1 DEF Delivered, Max2

(* What goes when the ring's front moves to h is old. *)
OnlyOldGo(h) == \A i \in Gone + 1 .. h : Refreshes[i].ts < gpu_latest' - GpuDisorder

(* What an event leaves of the ring. *)
LEMMA PrunedRefreshes ==
  ASSUME RefreshTypes, NEW ts \in Int, maybe_prune(ts)
  PROVE  /\ DOMAIN pruned_heads(ts) = GpuRings
         /\ pruned_heads(ts)["refresh"] \in Nat
         /\ Gone <= pruned_heads(ts)["refresh"] /\ pruned_heads(ts)["refresh"] <= Len(Refreshes)
         /\ OnlyOldGo(pruned_heads(ts)["refresh"])
<1>1. /\ Refreshes \in Seq(Tick) /\ Gone \in Nat /\ Gone <= Len(Refreshes) /\ Len(Refreshes) \in Nat
      /\ \A r \in Tick : r.ts \in Int
  BY LenProperties DEF RefreshTypes, Tick
<1>2. "refresh" \in GpuRings
  BY DEF GpuRings
<1>3. CASE GpuPruneDue(ts)
  <2>1. PICK lg \in Seq(Tick) : lg = Refreshes
    BY <1>1
  <2>2. PICK h \in Nat : h = Gone
    BY <1>1
  <2>3. ts - GpuKeep \in Int
    BY GpuTraceAssumption DEF RefreshTypes
  <2>4. PICK m \in h .. Len(lg) : m = PruneOne(lg, h, ts - GpuKeep) /\ DropsTo(lg, h, ts - GpuKeep, m)
    BY <1>1, <2>1, <2>2, <2>3, PruneOneSpec
  <2>5. /\ DOMAIN pruned_heads(ts) = GpuRings
        /\ pruned_heads(ts)["refresh"] = m
    BY <1>2, <1>3, <2>1, <2>2, <2>4 DEF pruned_heads, Refreshes, Gone
  <2>6. OnlyOldGo(m)
    <3> SUFFICES ASSUME NEW i \in h + 1 .. m PROVE lg[i].ts < gpu_latest' - GpuDisorder
      BY <2>1, <2>2 DEF OnlyOldGo
    <3>1. gpu_latest' = ts
      BY <1>3 DEF maybe_prune, GpuPruneDue, Max2, RefreshTypes
    <3>2. lg[i].ts < ts - GpuKeep
      BY <2>4 DEF DropsTo
    <3>3. lg[i].ts \in Int
      <4>1. i \in 1 .. Len(lg)
        BY <1>1, <2>1, <2>4
      <4> QED BY <1>1, <4>1, ElementOfSeq
    <3> QED BY <3>1, <3>2, <3>3, GpuTraceAssumption
  <2>7. OnlyOldGo(pruned_heads(ts)["refresh"])
    BY <2>5, <2>6 DEF OnlyOldGo
  <2> QED BY <1>1, <2>1, <2>2, <2>4, <2>5, <2>7
<1>4. CASE ~GpuPruneDue(ts)
  <2>1. pruned_heads(ts)["refresh"] = Gone /\ DOMAIN pruned_heads(ts) = GpuRings
    BY <1>2, <1>4 DEF pruned_heads, Gone, RefreshTypes
  <2> QED BY <1>1, <2>1 DEF OnlyOldGo
<1> QED BY <1>3, <1>4

(* A record pushed on another ring leaves this one alone. *)
LEMMA OtherPush ==
  ASSUME RefreshTypes, NEW r \in GpuRings \ {"refresh"}, NEW rec, NEW heads, DOMAIN heads = GpuRings,
         gpu_push(r, rec, heads)
  PROVE  /\ DOMAIN gpu_log' = GpuRings /\ gpu_log'["refresh"] = gpu_log["refresh"]
         /\ DOMAIN gpu_head' = GpuRings /\ gpu_head'["refresh"] = heads["refresh"]
<1>1. "refresh" \in GpuRings
  BY DEF GpuRings
<1>2. DOMAIN gpu_log' = GpuRings /\ gpu_log'["refresh"] = gpu_log["refresh"]
  BY <1>1 DEF gpu_push, RefreshTypes
<1>3. gpu_head' = heads \/ gpu_head' = [heads EXCEPT ![r] = @ + 1]
  BY DEF gpu_push
<1> QED BY <1>1, <1>2, <1>3

(* No record is pushed: the ring may only lose from its front. *)
LEMMA NotPushed ==
  ASSUME RefreshInv, NEW ts \in Int, Delivered(ts),
         DOMAIN gpu_log' = GpuRings, Refreshes' = Refreshes,
         DOMAIN gpu_head' = GpuRings, Gone' \in Nat, Gone <= Gone', Gone' <= Len(Refreshes),
         OnlyOldGo(Gone'),
         ticks' = ticks \/ (ticks' = ticks \cup {ts} /\ Covered(ts))
  PROVE  RefreshInv'
<1>1. /\ RefreshTypes /\ RefreshOrder /\ TicksCovered /\ RefreshesApart /\ EmptiedByAge
      /\ gpu_latest \in Int /\ Gone \in Nat /\ Len(Refreshes) \in Nat
      /\ \A i \in 1 .. Len(Refreshes) : Refreshes[i].ts \in Int
  <2>1. RefreshTypes /\ RefreshOrder /\ TicksCovered /\ RefreshesApart /\ EmptiedByAge
    BY DEF RefreshInv
  <2>2. \A i \in 1 .. Len(Refreshes) : Refreshes[i] \in Tick
    BY <2>1, ElementOfSeq DEF RefreshTypes
  <2>3. \A r \in Tick : r.ts \in Int
    BY DEF Tick
  <2> QED BY <2>1, <2>2, <2>3, LenProperties DEF RefreshTypes
<1>2. RefreshTypes'
  BY <1>1 DEF RefreshTypes, Delivered
<1>3. RefreshOrder'
  <2>1. ASSUME NEW i \in 1 .. Len(Refreshes) PROVE Refreshes[i].ts <= gpu_latest' /\ Refreshes[i].ts \in ticks'
    BY <1>1, <2>1 DEF RefreshOrder, Delivered
  <2> QED BY <1>1, <2>1 DEF RefreshOrder
<1>4. TicksCovered'
  <2>1. \A t : Covered(t)' <=> Covered(t)
    BY DEF Covered
  <2> QED BY <1>1, <2>1 DEF TicksCovered
<1>5. RefreshesApart'
  <2>1. PICK f \in Nat : f = Gone' /\ Gone <= f
    OBVIOUS
  <2>2. ASSUME NEW i \in f + 1 .. Len(Refreshes) - 1
        PROVE  Refreshes[i + 1].ts - Refreshes[i].ts >= HalfMs
    <3>1. PICK g \in Nat : g = Gone
      BY <1>1
    <3>2. PICK n \in Nat : n = Len(Refreshes)
      BY <1>1
    <3>3. i \in g + 1 .. n - 1
      <4>1. i \in f + 1 .. n - 1
        BY <3>2
      <4>2. g <= f
        BY <2>1, <3>1
      <4> QED BY <4>1, <4>2
    <3> QED BY <1>1, <3>1, <3>2, <3>3 DEF RefreshesApart
  <2> QED BY <2>1, <2>2 DEF RefreshesApart
<1>6. EmptiedByAge'
  <2> SUFFICES ASSUME Gone' = Len(Refreshes), Gone' > 0
               PROVE  Refreshes[Gone'].ts < gpu_latest' - GpuDisorder
    BY DEF EmptiedByAge
  <2>1. PICK g \in Nat : g = Gone
    BY <1>1
  <2>2. PICK n \in Nat : n = Len(Refreshes) /\ n = Gone'
    BY <1>1
  <2>3. g <= n /\ n > 0
    BY <2>1, <2>2
  <2>4. CASE g = n
    <3>1. Refreshes[n].ts < gpu_latest - GpuDisorder /\ Refreshes[n].ts \in Int
      BY <1>1, <2>1, <2>2, <2>3, <2>4 DEF EmptiedByAge
    <3>2. GpuDisorder \in Nat /\ gpu_latest \in Int /\ gpu_latest' \in Int /\ gpu_latest <= gpu_latest'
      BY <1>1, GpuTraceAssumption DEF Delivered
    <3> QED BY <2>2, <3>1, <3>2
  <2>5. CASE g < n
    <3>1. n \in g + 1 .. n
      BY <2>5
    <3> QED BY <2>1, <2>2, <3>1 DEF OnlyOldGo
  <2> QED BY <2>3, <2>4, <2>5
<1> QED BY <1>2, <1>3, <1>4, <1>5, <1>6 DEF RefreshInv

(* on_refresh, when it is a refresh of its own. *)
LEMMA RefreshPushed ==
  ASSUME RefreshInv, NEW ts \in Int, Delivered(ts), ticks' = ticks \cup {ts},
         NEW heads, DOMAIN heads = GpuRings, heads["refresh"] \in Nat,
         Gone <= heads["refresh"], heads["refresh"] <= Len(Refreshes), OnlyOldGo(heads["refresh"]),
         ~(Len(Refreshes) > heads["refresh"] /\ ts - Refreshes[Len(Refreshes)].ts < HalfMs),
         gpu_push("refresh", [ts |-> ts], heads)
  PROVE  RefreshInv'
<1>0. PICK h \in Nat : h = heads["refresh"]
  OBVIOUS
<1>1. /\ RefreshTypes /\ RefreshOrder /\ TicksCovered /\ RefreshesApart /\ EmptiedByAge
      /\ gpu_latest \in Int /\ Gone \in Nat /\ Refreshes \in Seq(Tick) /\ ticks \subseteq Int
      /\ DOMAIN gpu_log = GpuRings
  BY DEF RefreshInv, RefreshTypes
<1>2. PICK lg \in Seq(Tick) : lg = Refreshes
  BY <1>1
<1>3. PICK n \in Nat : n = Len(lg)
  BY LenProperties
<1>4. PICK x \in Tick : x = [ts |-> ts]
  BY DEF Tick
<1>5. \A r \in Tick : r.ts \in Int
  BY DEF Tick
<1>6. PICK nx \in Seq(Tick) : nx = Append(lg, x)
  BY <1>2, PushSpec
<1>7. /\ Len(nx) = n + 1 /\ nx[n + 1] = x /\ x.ts = ts
      /\ \A i \in 1 .. n : nx[i] = lg[i] /\ lg[i].ts \in Int
  BY <1>3, <1>4, <1>5, <1>6, PushSpec
<1>8. "refresh" \in GpuRings
  BY DEF GpuRings
<1>9. Refreshes' = nx /\ DOMAIN gpu_log' = GpuRings
  BY <1>1, <1>2, <1>4, <1>6, <1>8 DEF gpu_push, Refreshes
<1>10. DOMAIN gpu_head' = GpuRings /\ (Gone' = h \/ (Gone' = h + 1 /\ n + 1 - h > GpuCap["refresh"]))
  <2>1. \/ gpu_head' = heads
        \/ gpu_head' = [heads EXCEPT !["refresh"] = @ + 1] /\ Len(Append(gpu_log["refresh"], [ts |-> ts])) - heads["refresh"] > GpuCap["refresh"]
    BY DEF gpu_push
  <2>2. Append(gpu_log["refresh"], [ts |-> ts]) = nx
    BY <1>2, <1>4, <1>6 DEF Refreshes
  <2> QED BY <1>0, <1>7, <1>8, <2>1, <2>2 DEF Gone
<1>11. Gone' \in Nat /\ Gone <= Gone' /\ Gone' <= n + 1
  BY <1>0, <1>1, <1>2, <1>3, <1>10
<1>12. RefreshTypes'
  BY <1>1, <1>7, <1>9, <1>10, <1>11 DEF RefreshTypes, Delivered
<1>a. n > 0 => lg[n].ts < ts
  <2> SUFFICES ASSUME n > 0 PROVE lg[n].ts < ts
    OBVIOUS
  <2>0. /\ lg[n].ts \in Int /\ gpu_latest \in Int /\ gpu_latest' \in Int /\ gpu_latest <= gpu_latest'
        /\ ts >= gpu_latest' - GpuDisorder /\ GpuDisorder \in Nat /\ HalfMs \in Nat \ {0}
    <3>1. n \in 1 .. n
      OBVIOUS
    <3>2. lg[n].ts \in Int
      BY <1>7, <3>1
    <3> QED BY <1>1, <3>2, GpuTraceAssumption DEF Delivered
  <2>1. CASE h < n
    <3>1. ~(ts - lg[n].ts < HalfMs)
      BY <1>0, <1>2, <1>3, <2>1
    <3> QED BY <2>0, <3>1
  <2>2. CASE h = n
    <3>1. CASE Gone = n
      <4>1. lg[n].ts < gpu_latest - GpuDisorder
        BY <1>1, <1>2, <1>3, <3>1 DEF EmptiedByAge
      <4>2. PICK y \in Int : y = lg[n].ts
        BY <2>0
      <4>3. PICK z \in Int : z = gpu_latest
        BY <2>0
      <4>4. PICK z2 \in Int : z2 = gpu_latest'
        BY <2>0
      <4>5. y < z - GpuDisorder /\ z <= z2 /\ ts >= z2 - GpuDisorder /\ GpuDisorder \in Nat
        BY <2>0, <4>1, <4>2, <4>3, <4>4
      <4>6. y < ts
        BY <4>5
      <4> QED BY <4>2, <4>6
    <3>2. CASE Gone < n
      <4>1. n \in Gone + 1 .. h
        BY <1>1, <2>2, <3>2
      <4>2. lg[n].ts < gpu_latest' - GpuDisorder
        BY <1>0, <1>2, <4>1 DEF OnlyOldGo
      <4>3. PICK y \in Int : y = lg[n].ts
        BY <2>0
      <4>4. PICK z \in Int : z = gpu_latest'
        BY <2>0
      <4>5. y < z - GpuDisorder /\ ts >= z - GpuDisorder /\ GpuDisorder \in Nat
        BY <2>0, <4>2, <4>3, <4>4
      <4>6. y < ts
        BY <4>5
      <4> QED BY <4>3, <4>6
    <3>3. PICK g \in Nat : g = Gone
      BY <1>1
    <3>4. g = n \/ g < n
      BY <1>0, <2>2, <3>3
    <3> QED BY <3>1, <3>2, <3>3, <3>4
  <2>3. h <= n
    BY <1>0, <1>2, <1>3
  <2> QED BY <2>1, <2>2, <2>3
<1>13. RefreshOrder'
  <2>1. ASSUME NEW i \in 1 .. n + 1 PROVE nx[i].ts <= gpu_latest' /\ nx[i].ts \in ticks'
    <3>1. CASE i \in 1 .. n
      <4>1. lg[i].ts <= gpu_latest /\ lg[i].ts \in ticks /\ nx[i] = lg[i] /\ lg[i].ts \in Int
        BY <1>1, <1>2, <1>3, <1>7, <3>1 DEF RefreshOrder
      <4> QED BY <1>1, <4>1 DEF Delivered
    <3>2. CASE i = n + 1
      BY <1>7, <3>2 DEF Delivered
    <3> QED BY <3>1, <3>2
  <2>2. ASSUME NEW i \in 1 .. n + 1, NEW j \in 1 .. n + 1, i < j PROVE nx[i].ts < nx[j].ts
    <3>1. i \in 1 .. n /\ nx[i] = lg[i] /\ lg[i].ts \in Int
      BY <1>1, <1>2, <1>3, <1>7, <2>2 DEF RefreshOrder
    <3>2. CASE j \in 1 .. n
      BY <1>1, <1>2, <1>3, <1>7, <2>2, <3>1, <3>2 DEF RefreshOrder
    <3>3. CASE j = n + 1
      <4>1. n \in 1 .. n /\ lg[n].ts \in Int
        BY <1>7, <3>1
      <4>2. i = n \/ lg[i].ts < lg[n].ts
        BY <1>1, <1>2, <1>3, <3>1, <4>1 DEF RefreshOrder
      <4> QED BY <1>7, <1>a, <3>1, <3>3, <4>1, <4>2
    <3> QED BY <3>2, <3>3
  <2> QED BY <1>7, <1>9, <2>1, <2>2 DEF RefreshOrder
<1>14. TicksCovered'
  <2>1. ASSUME NEW t \in ticks
        PROVE  \E i \in 1 .. n + 1 : nx[i].ts - GpuDisorder <= t /\ t < nx[i].ts + HalfMs
    <3>1. PICK i \in 1 .. n : lg[i].ts - GpuDisorder <= t /\ t < lg[i].ts + HalfMs
      BY <1>1, <1>2, <1>3 DEF TicksCovered, Covered
    <3> QED BY <1>7, <3>1
  <2>2. nx[n + 1].ts - GpuDisorder <= ts /\ ts < nx[n + 1].ts + HalfMs
    BY <1>7, GpuTraceAssumption
  <2> QED BY <1>7, <1>9, <2>1, <2>2 DEF TicksCovered, Covered
<1>15. RefreshesApart'
  <2> SUFFICES ASSUME NEW i \in Gone' + 1 .. n PROVE nx[i + 1].ts - nx[i].ts >= HalfMs
    BY <1>7, <1>9 DEF RefreshesApart
  <2>1. i \in 1 .. n /\ nx[i] = lg[i] /\ h < i
    BY <1>0, <1>7, <1>10, <1>11
  <2>2. CASE i < n
    <3>1. i \in Gone + 1 .. n - 1 /\ i + 1 \in 1 .. n
      <4>1. i \in Nat /\ Gone < i
        BY <1>0, <1>1, <2>1
      <4> QED BY <1>1, <2>2, <4>1
    <3> QED BY <1>1, <1>2, <1>3, <1>7, <2>1, <3>1 DEF RefreshesApart
  <2>3. CASE i = n
    <3>1. ts - lg[n].ts >= HalfMs
      <4>1. lg[n].ts \in Int /\ HalfMs \in Nat
        BY <1>7, <2>1, <2>3, GpuTraceAssumption
      <4> QED BY <1>0, <1>2, <1>3, <2>1, <2>3, <4>1
    <3> QED BY <1>7, <2>1, <2>3, <3>1
  <2> QED BY <2>1, <2>2, <2>3
<1>16. EmptiedByAge'
  <2>1. GpuCap["refresh"] \in Nat \ {0}
    BY <1>8, GpuTraceAssumption
  <2>2. Gone' < n + 1
    BY <1>0, <1>2, <1>3, <1>10, <2>1
  <2> QED BY <1>7, <1>9, <2>2 DEF EmptiedByAge
<1> QED BY <1>12, <1>13, <1>14, <1>15, <1>16 DEF RefreshInv

(* on_refresh: a refresh closer than HalfMs to the last record is taken    *)
(* for the same one.                                                       *)
LEMMA RefreshStep ==
  ASSUME RefreshInv, NEW ts \in Int, ts >= gpu_latest - GpuDisorder, on_refresh(ts)
  PROVE  RefreshInv'
<1>1. RefreshTypes /\ RefreshOrder /\ maybe_prune(ts)
  BY DEF RefreshInv, on_refresh
<1>2. PICK heads : heads = pruned_heads(ts)
  OBVIOUS
<1>3. /\ DOMAIN heads = GpuRings /\ heads["refresh"] \in Nat
      /\ Gone <= heads["refresh"] /\ heads["refresh"] <= Len(Refreshes) /\ OnlyOldGo(heads["refresh"])
  BY <1>1, <1>2, PrunedRefreshes
<1>4. Delivered(ts) /\ ticks' = ticks \cup {ts}
  BY <1>1, DeliveredBy DEF on_refresh, RefreshTypes
<1>5. CASE Len(Refreshes) > heads["refresh"] /\ ts - Refreshes[Len(Refreshes)].ts < HalfMs
  <2>1. gpu_head' = heads /\ gpu_log' = gpu_log
    BY <1>2, <1>5 DEF on_refresh, Refreshes
  <2>2. Covered(ts)
    <3>1. Len(Refreshes) \in 1 .. Len(Refreshes)
      BY <1>1, <1>3, <1>5, LenProperties DEF RefreshTypes
    <3>2. Refreshes[Len(Refreshes)].ts <= gpu_latest /\ Refreshes[Len(Refreshes)].ts \in Int
      BY <1>1, <3>1 DEF RefreshOrder, RefreshTypes
    <3>3. gpu_latest \in Int /\ HalfMs \in Nat /\ GpuDisorder \in Nat
      BY <1>1, GpuTraceAssumption DEF RefreshTypes
    <3> QED BY <1>5, <3>1, <3>2, <3>3 DEF Covered
  <2>3. DOMAIN gpu_log' = GpuRings /\ Refreshes' = Refreshes /\ Gone' = heads["refresh"] /\ DOMAIN gpu_head' = GpuRings
    BY <1>1, <1>3, <2>1 DEF RefreshTypes, Refreshes, Gone
  <2>4. OnlyOldGo(Gone')
    BY <1>3, <2>3 DEF OnlyOldGo
  <2> QED BY <1>3, <1>4, <2>2, <2>3, <2>4, NotPushed
<1>6. CASE ~(Len(Refreshes) > heads["refresh"] /\ ts - Refreshes[Len(Refreshes)].ts < HalfMs)
  <2>1. gpu_push("refresh", [ts |-> ts], heads)
    BY <1>2, <1>6 DEF on_refresh, Refreshes
  <2> QED BY <1>3, <1>4, <1>6, <2>1, RefreshPushed
<1> QED BY <1>5, <1>6

(* Every other event. *)
LEMMA OtherStep ==
  ASSUME RefreshInv, NEW ts \in Int, ts >= gpu_latest - GpuDisorder, maybe_prune(ts), ticks' = ticks,
         \/ gpu_log' = gpu_log /\ gpu_head' = pruned_heads(ts)
         \/ \E r \in GpuRings \ {"refresh"} : \E rec : gpu_push(r, rec, pruned_heads(ts))
  PROVE  RefreshInv'
<1>1. RefreshTypes
  BY DEF RefreshInv
<1>2. PICK heads : heads = pruned_heads(ts)
  OBVIOUS
<1>3. /\ DOMAIN heads = GpuRings /\ heads["refresh"] \in Nat
      /\ Gone <= heads["refresh"] /\ heads["refresh"] <= Len(Refreshes) /\ OnlyOldGo(heads["refresh"])
  BY <1>1, <1>2, PrunedRefreshes
<1>4. /\ DOMAIN gpu_log' = GpuRings /\ gpu_log'["refresh"] = gpu_log["refresh"]
      /\ DOMAIN gpu_head' = GpuRings /\ gpu_head'["refresh"] = heads["refresh"]
  <2>1. CASE gpu_log' = gpu_log /\ gpu_head' = heads
    BY <1>1, <1>3, <2>1 DEF RefreshTypes
  <2>2. ASSUME NEW r \in GpuRings \ {"refresh"}, NEW rec, gpu_push(r, rec, heads)
        PROVE  /\ DOMAIN gpu_log' = GpuRings /\ gpu_log'["refresh"] = gpu_log["refresh"]
               /\ DOMAIN gpu_head' = GpuRings /\ gpu_head'["refresh"] = heads["refresh"]
    BY <1>1, <1>3, <2>2, OtherPush
  <2> QED BY <1>2, <2>1, <2>2
<1>5. Refreshes' = Refreshes /\ Gone' = heads["refresh"] /\ Delivered(ts)
  BY <1>1, <1>4, DeliveredBy DEF Refreshes, Gone, RefreshTypes
<1>6. OnlyOldGo(Gone')
  BY <1>3, <1>5 DEF OnlyOldGo
<1> QED BY <1>3, <1>4, <1>5, <1>6, NotPushed

(* The inductive invariant of the refreshes: every one was recorded or     *)
(* followed a record closely, and the ring is in order.                    *)
THEOREM RefreshInvariant == GpuSpec => []RefreshInv
<1>1. GpuInit => RefreshInv
  <2> SUFFICES ASSUME GpuInit PROVE RefreshInv
    OBVIOUS
  <2>1. /\ Refreshes = <<>> /\ Gone = 0 /\ ticks = {} /\ gpu_latest = 0
        /\ DOMAIN gpu_log = GpuRings /\ DOMAIN gpu_head = GpuRings
    BY DEF GpuInit, GpuRings, Refreshes, Gone
  <2>2. Refreshes \in Seq(Tick) /\ Len(Refreshes) = 0
    BY <2>1, EmptySeq
  <2> QED BY <2>1, <2>2 DEF RefreshInv, RefreshTypes, RefreshOrder, TicksCovered, RefreshesApart, EmptiedByAge
<1>2. RefreshInv /\ [GpuNext]_gpuVars => RefreshInv'
  <2> SUFFICES ASSUME RefreshInv, [GpuNext]_gpuVars PROVE RefreshInv'
    OBVIOUS
  <2>1. \A ts \in EventTimes : ts \in Int /\ ts >= gpu_latest - GpuDisorder
    BY GpuTraceAssumption DEF RefreshInv, RefreshTypes, EventTimes, Max2
  <2>2. "presents" \in GpuRings \ {"refresh"} /\ "residency" \in GpuRings \ {"refresh"}
    BY DEF GpuRings
  <2>5. ASSUME UNCHANGED traceVars PROVE RefreshInv'
    BY <2>5 DEF traceVars, RefreshInv, RefreshTypes, RefreshOrder, TicksCovered, RefreshesApart,
                EmptiedByAge, Covered, Refreshes, Gone
  <2>3. CASE GpuNext
    <3>1. PICK ts \in EventTimes :
            \/ on_refresh(ts) \/ on_unknown(ts)
            \/ \E pid \in Pids : on_present(ts, pid)
            \/ \E tid \in GpuTids : \/ on_resident_start(ts, tid) \/ on_resident_stop(ts, tid)
                                    \/ unreadable(ts, tid) \/ lost(ts, tid)
      BY <2>3 DEF GpuNext
    <3>2. ts \in Int /\ ts >= gpu_latest - GpuDisorder
      BY <2>1
    <3>3. CASE on_refresh(ts)
      BY <3>2, <3>3, RefreshStep
    <3>4. CASE on_unknown(ts)
      BY <3>2, <3>4, OtherStep DEF on_unknown, only_prune
    <3>5. ASSUME NEW pid \in Pids, on_present(ts, pid) PROVE RefreshInv'
      BY <2>2, <3>2, <3>5, OtherStep DEF on_present
    <3>6. ASSUME NEW tid \in GpuTids, on_resident_start(ts, tid) PROVE RefreshInv'
      BY <3>2, <3>6, OtherStep DEF on_resident_start
    <3>7. ASSUME NEW tid \in GpuTids, on_resident_stop(ts, tid) PROVE RefreshInv'
      <4>1. \E rec : gpu_push("residency", rec, pruned_heads(ts))
        BY <3>7 DEF on_resident_stop
      <4>2. maybe_prune(ts) /\ ticks' = ticks
        BY <3>7 DEF on_resident_stop
      <4> QED BY <2>2, <3>2, <4>1, <4>2, OtherStep
    <3>8. ASSUME NEW tid \in GpuTids, unreadable(ts, tid) PROVE RefreshInv'
      BY <3>2, <3>8, OtherStep DEF unreadable, only_prune
    <3>9. ASSUME NEW tid \in GpuTids, lost(ts, tid) PROVE RefreshInv'
      BY <3>9, <2>5 DEF lost
    <3> QED BY <3>1, <3>3, <3>4, <3>5, <3>6, <3>7, <3>8, <3>9
  <2>4. CASE UNCHANGED gpuVars
    BY <2>4, <2>5 DEF gpuVars
  <2> QED BY <2>3, <2>4
<1> QED BY <1>1, <1>2, PTL DEF GpuSpec

(* cadence: the longest gap is that between two times that follow each     *)
(* other, and no gap is longer.                                            *)
Longest(c, times) ==
  /\ \E j \in 1 .. Len(times) - 1 : c.worst_at = times[j + 1] /\ c.worst = times[j + 1] - times[j]
  /\ \A j \in 1 .. Len(times) - 1 : times[j + 1] - times[j] <= c.worst

LEMMA CadenceIs ==
  ASSUME NEW times \in Seq(Int), Len(times) >= 2
  PROVE  Longest(cadence(times), times)
<1> DEFINE n   == Len(times) - 1
           gap == [i \in 1 .. n |-> times[i + 1] - times[i]]
           G   == {gap[i] : i \in 1 .. n}
<1>1. n \in Nat /\ 1 \in 1 .. n /\ \A i \in 1 .. Len(times) : times[i] \in Int
  BY LenProperties, ElementOfSeq
<1>2. gap \in [1 .. n -> Int]
  BY <1>1
<1>3. G \subseteq Int /\ IsFiniteSet(G) /\ G # {}
  <2>1. IsFiniteSet(1 .. n)
    BY <1>1, FS_Interval
  <2> QED BY <1>1, <1>2, <2>1, ImageFinite
<1>4. PICK worst : worst = Max(G)
  OBVIOUS
<1>5. worst \in G /\ \A y \in G : y <= worst
  <2>1. PICK X : X = G
    OBVIOUS
  <2> QED BY <1>3, <1>4, <2>1, MaxIsGreatest
<1>6. PICK J : J = {i \in 1 .. n : gap[i] = worst}
  OBVIOUS
<1>7. J \subseteq Int /\ IsFiniteSet(J) /\ J # {}
  <2>1. J \in SUBSET (1 .. n) /\ IsFiniteSet(1 .. n)
    BY <1>1, <1>6, FS_Interval
  <2>2. PICK i \in 1 .. n : gap[i] = worst
    BY <1>5
  <2>3. i \in J
    BY <1>6, <2>2
  <2>4. IsFiniteSet(J)
    BY <2>1, FS_Subset
  <2> HIDE DEF n, gap
  <2> QED BY <2>1, <2>3, <2>4
<1>8. PICK j \in J : \A y \in J : j <= y
  BY <1>7, Extremes
<1>9. Min(J) = j
  BY <1>7, <1>8, MinIs
<1>10. cadence(times).worst = worst /\ cadence(times).worst_at = times[1 + j]
  BY <1>4, <1>6, <1>9 DEF cadence
<1>11. j \in 1 .. n /\ worst = times[j + 1] - times[j] /\ 1 + j = j + 1
  BY <1>1, <1>6, <1>8
<1>12. \A i \in 1 .. n : times[i + 1] - times[i] <= worst
  BY <1>5
<1> QED BY <1>10, <1>11, <1>12 DEF Longest

-----------------------------------------------------------------------------
(* A window of the ring: T[k] is when record k was, n how many were ever   *)
(* pushed, f how many of them are gone.                                    *)
Ascending(T, n)    == \A i, j \in 1 .. n : i < j => T[i] < T[j]
Spaced(T, f, n)    == \A i \in f + 1 .. n - 1 : T[i + 1] - T[i] >= HalfMs
NoneWithin(T, n, a, b) == \A k \in 1 .. n : T[k] <= a \/ T[k] >= b
InWindow(T, f, n, from, to) == {k \in f + 1 .. n : T[k] >= from /\ T[k] <= to}

(* The times the window reports: its records', in order. *)
TimesOf(h, I, times, T) ==
  /\ h \in [1 .. Len(times) -> I]
  /\ \A x, y \in 1 .. Len(times) : x < y => h[x] < h[y]
  /\ \A i \in I : \E x \in 1 .. Len(times) : h[x] = i
  /\ \A x \in 1 .. Len(times) : times[x] = T[h[x]]

LEMMA TimesAre ==
  ASSUME NEW lg \in Seq(Tick), lg = Refreshes, NEW T, T = [k \in 1 .. Len(lg) |-> lg[k].ts],
         NEW I, I \subseteq 1 .. Len(lg)
  PROVE  /\ Times("refresh", I) \in Seq(Int)
         /\ \E h : TimesOf(h, I, Times("refresh", I), T)
<1>2. PICK p \in Seq(Tick) : p = At(lg, I)
  BY AtPicks
<1>3. PICK h : Picks(h, lg, I, p)
  BY <1>2, AtPicks
<1>4. Len(p) \in Nat /\ \A x \in 1 .. Len(p) : p[x] \in Tick
  BY LenProperties, ElementOfSeq
<1>5. Times("refresh", I) = [x \in 1 .. Len(p) |-> p[x].ts]
  BY <1>2 DEF Times, Refreshes
<1>6. \A r \in Tick : r.ts \in Int
  BY DEF Tick
<1>7. PICK times : times = [x \in 1 .. Len(p) |-> p[x].ts]
  OBVIOUS
<1>8. times \in Seq(Int) /\ Len(times) = Len(p)
  <2>1. times \in [1 .. Len(p) -> Int]
    BY <1>4, <1>6, <1>7
  <2> QED BY <1>4, <2>1, SeqDef, LenProperties
<1>9. TimesOf(h, I, times, T)
  <2>1. \A x \in 1 .. Len(p) : h[x] \in I /\ p[x] = lg[h[x]]
    BY <1>3 DEF Picks
  <2>2. \A x \in 1 .. Len(p) : times[x] = T[h[x]]
    BY <1>7, <2>1
  <2> QED BY <1>3, <1>8, <2>2 DEF TimesOf, Picks
<1> QED BY <1>5, <1>7, <1>8, <1>9

(* Nothing in the ring lies between two times that follow each other. *)
LEMMA Between ==
  ASSUME NEW n \in Nat, NEW f \in Nat, NEW T \in [1 .. n -> Int], Ascending(T, n),
         NEW from \in Int, NEW to \in Int, NEW I, I = InWindow(T, f, n, from, to),
         NEW times \in Seq(Int), NEW h, TimesOf(h, I, times, T),
         NEW j \in 1 .. Len(times) - 1, NEW i \in 1 .. n
  PROVE  T[i] <= times[j] \/ times[j + 1] <= T[i]
<1>1. Len(times) \in Nat
  BY LenProperties
<1>2. j \in 1 .. Len(times) /\ j + 1 \in 1 .. Len(times)
  BY <1>1
<1>3. PICK a \in I : a = h[j] /\ times[j] = T[a]
  BY <1>2 DEF TimesOf
<1>4. PICK b \in I : b = h[j + 1] /\ times[j + 1] = T[b]
  BY <1>2 DEF TimesOf
<1>5. a \in f + 1 .. n /\ b \in f + 1 .. n /\ T[a] >= from /\ T[b] <= to
  BY DEF InWindow
<1>6. a \in 1 .. n /\ b \in 1 .. n /\ T[a] \in Int /\ T[b] \in Int /\ T[i] \in Int
  BY <1>5
<1> SUFFICES ASSUME T[a] < T[i], T[i] < T[b] PROVE FALSE
  <2>1. PICK x \in Int : x = T[a]
    BY <1>6
  <2>2. PICK y \in Int : y = T[b]
    BY <1>6
  <2>3. PICK z \in Int : z = T[i]
    BY <1>6
  <2>4. ~(x < z /\ z < y) => z <= x \/ y <= z
    OBVIOUS
  <2> QED BY <1>3, <1>4, <2>1, <2>2, <2>3, <2>4
<1>7. a < i /\ i < b
  <2>1. ~(i < a) /\ i # a
    BY <1>6 DEF Ascending
  <2>2. ~(b < i) /\ i # b
    BY <1>6 DEF Ascending
  <2> QED BY <1>6, <2>1, <2>2
<1>8. i \in I
  BY <1>5, <1>6, <1>7 DEF InWindow
<1>9. PICK x \in 1 .. Len(times) : h[x] = i
  BY <1>8 DEF TimesOf
<1>10. ~(x < j) /\ x # j /\ ~(j + 1 < x) /\ x # j + 1
  <2>1. x < j => i < a
    BY <1>2, <1>3, <1>9 DEF TimesOf
  <2>2. j + 1 < x => b < i
    BY <1>2, <1>4, <1>9 DEF TimesOf
  <2>3. a # i /\ b # i
    BY <1>6, <1>7
  <2>5. x # j /\ x # j + 1
    BY <1>3, <1>4, <1>9, <2>3
  <2>4. ~(i < a) /\ ~(b < i)
    BY <1>6, <1>7
  <2> QED BY <2>1, <2>2, <2>4, <2>5
<1> QED BY <1>10

(* Two records of the window that follow each other do so among its times. *)
Adjacent(times, T, i) ==
  \E j \in 1 .. Len(times) - 1 : times[j] = T[i] /\ times[j + 1] = T[i + 1]

LEMMA Neighbours ==
  ASSUME NEW n \in Nat, NEW f \in Nat, NEW T, NEW I, I \subseteq f + 1 .. n,
         NEW times \in Seq(Int), NEW h, TimesOf(h, I, times, T), NEW i \in I, i + 1 \in I
  PROVE  Adjacent(times, T, i)
<1>1. Len(times) \in Nat /\ i \in Int
  BY LenProperties
<1>2. PICK x \in 1 .. Len(times) : h[x] = i
  BY DEF TimesOf
<1>3. PICK y \in 1 .. Len(times) : h[y] = i + 1
  BY DEF TimesOf
<1>4. x < y
  <2>1. y < x => i + 1 < i
    BY <1>2, <1>3 DEF TimesOf
  <2> QED BY <1>1, <1>2, <1>3, <2>1
<1>5. y = x + 1
  <2> SUFFICES ASSUME x + 1 < y PROVE FALSE
    BY <1>1, <1>4
  <2>1. x + 1 \in 1 .. Len(times)
    BY <1>1
  <2>2. PICK z \in I : z = h[x + 1]
    BY <2>1 DEF TimesOf
  <2>3. i < z
    BY <1>2, <2>1, <2>2 DEF TimesOf
  <2>4. z < i + 1
    BY <1>3, <2>1, <2>2 DEF TimesOf
  <2> QED BY <1>1, <2>2, <2>3, <2>4
<1>6. times[x] = T[i] /\ times[y] = T[i + 1]
  BY <1>2, <1>3 DEF TimesOf
<1>7. x \in 1 .. Len(times) - 1
  BY <1>1, <1>4
<1> QED BY <1>5, <1>6, <1>7 DEF Adjacent

(* The longest gap is at least HalfMs. *)
LEMMA GapIsReal ==
  ASSUME NEW n \in Nat, NEW f \in Nat, NEW T \in [1 .. n -> Int], Ascending(T, n),
         Spaced(T, f, n),
         NEW I, I \subseteq f + 1 .. n,
         NEW times \in Seq(Int), Len(times) >= 2, NEW h, TimesOf(h, I, times, T),
         NEW c, Longest(c, times)
  PROVE  c.worst \in Int /\ HalfMs <= c.worst
<1>1. Len(times) \in Nat /\ \A k \in 1 .. Len(times) : times[k] \in Int
  BY LenProperties, ElementOfSeq
<1>2. 1 \in 1 .. Len(times) - 1 /\ 1 \in 1 .. Len(times) /\ 2 \in 1 .. Len(times)
  BY <1>1
<1>3. PICK a \in I : a = h[1] /\ times[1] = T[a]
  BY <1>2 DEF TimesOf
<1>4. PICK b \in I : b = h[2] /\ times[2] = T[b]
  BY <1>2 DEF TimesOf
<1>5. a \in f + 1 .. n /\ b \in f + 1 .. n /\ a < b
  <2>1. h[1] < h[2]
    BY <1>2 DEF TimesOf
  <2> QED BY <1>3, <1>4, <2>1
<1>6. a \in f + 1 .. n - 1 /\ a \in 1 .. n /\ a + 1 \in 1 .. n /\ b \in 1 .. n
  BY <1>5
<1>7. T[a] \in Int /\ T[b] \in Int /\ T[a + 1] \in Int /\ T[a + 1] - T[a] >= HalfMs
  BY <1>6 DEF Spaced
<1>8. T[a + 1] <= T[b]
  <2>1. a + 1 = b \/ a + 1 < b
    BY <1>5
  <2> QED BY <1>6, <1>7, <2>1 DEF Ascending
<1>9. times[2] - times[1] <= c.worst
  <2>1. 1 + 1 = 2
    OBVIOUS
  <2> QED BY <1>2, <2>1 DEF Longest
<1>10. c.worst \in Int
  <2>1. PICK j \in 1 .. Len(times) - 1 : c.worst = times[j + 1] - times[j]
    BY DEF Longest
  <2>2. j \in 1 .. Len(times) /\ j + 1 \in 1 .. Len(times)
    BY <1>1
  <2>3. times[j] \in Int /\ times[j + 1] \in Int
    BY <1>1, <2>2
  <2>4. \A x, y \in Int : x - y \in Int
    OBVIOUS
  <2> QED BY <2>1, <2>3, <2>4
<1>11. HalfMs \in Nat
  BY GpuTraceAssumption
<1>12. T[b] - T[a] <= c.worst
  BY <1>3, <1>4, <1>9
<1>13. PICK u \in Int : u = T[a]
  BY <1>7
<1>14. PICK v \in Int : v = T[b]
  BY <1>7
<1>15. PICK worst \in Int : worst = c.worst
  BY <1>10
<1>16. v - u >= HalfMs
  <2>1. PICK x \in Int : x = T[a + 1]
    BY <1>7
  <2>2. x - u >= HalfMs /\ x <= v
    BY <1>7, <1>8, <1>13, <1>14, <2>1
  <2> QED BY <1>11, <2>2
<1>17. v - u <= worst
  BY <1>12, <1>13, <1>14, <1>15
<1> QED BY <1>11, <1>15, <1>16, <1>17

(* What a refresh is told by: a record no more than HalfMs older, and no   *)
(* more than GpuDisorder newer.                                            *)
Recorded(t, T, n) == \E k \in 1 .. n : T[k] - GpuDisorder <= t /\ t < T[k] + HalfMs

(* No refresh came HalfMs or more after the longest gap opened and more    *)
(* than GpuDisorder before it closed.                                      *)
LEMMA NothingInside ==
  ASSUME NEW n \in Nat, NEW f \in Nat, NEW T \in [1 .. n -> Int], Ascending(T, n),
         NEW from \in Int, NEW to \in Int, NEW I, I = InWindow(T, f, n, from, to),
         NEW times \in Seq(Int), NEW h, TimesOf(h, I, times, T),
         NEW c, Longest(c, times), NEW t \in Int, Recorded(t, T, n)
  PROVE  ~(t >= c.worst_at - c.worst + HalfMs /\ t < c.worst_at - GpuDisorder)
<1>1. Len(times) \in Nat /\ \A k \in 1 .. Len(times) : times[k] \in Int
  BY LenProperties, ElementOfSeq
<1>2. PICK j \in 1 .. Len(times) - 1 : c.worst_at = times[j + 1] /\ c.worst = times[j + 1] - times[j]
  BY DEF Longest
<1>3. times[j] \in Int /\ times[j + 1] \in Int
  BY <1>1
<1>4. PICK k \in 1 .. n : T[k] - GpuDisorder <= t /\ t < T[k] + HalfMs
  BY DEF Recorded
<1>5. T[k] <= times[j] \/ times[j + 1] <= T[k]
  BY <1>1, <1>2, Between
<1>6. PICK u \in Int : u = T[k]
  OBVIOUS
<1>7. PICK x \in Int : x = times[j]
  BY <1>3
<1>8. PICK y \in Int : y = times[j + 1]
  BY <1>3
<1>9. c.worst_at - c.worst = x /\ c.worst_at = y
  BY <1>2, <1>7, <1>8
<1>10. HalfMs \in Nat /\ GpuDisorder \in Nat
  BY GpuTraceAssumption
<1>11. u - GpuDisorder <= t /\ t < u + HalfMs /\ (u <= x \/ y <= u)
  BY <1>4, <1>5, <1>6, <1>7, <1>8
<1>12. ~(t >= x + HalfMs /\ t < y - GpuDisorder)
  BY <1>10, <1>11
<1> QED BY <1>9, <1>12

(* The last of the records up to position i that is no later than a: its   *)
(* successor is later.                                                     *)
LEMMA LastBefore ==
  ASSUME NEW n \in Nat, NEW T \in [1 .. n -> Int], NEW a \in Int,
         NEW p \in 1 .. n, NEW i \in 1 .. n, p < i, T[p] <= a, T[i] > a
  PROVE  \E m \in p .. i - 1 : T[m] <= a /\ T[m + 1] > a
<1> DEFINE S == {m \in p + 1 .. i : T[m] > a}
<1>1. S \subseteq Nat /\ S # {}
  <2>1. i \in S
    OBVIOUS
  <2> QED BY <2>1
<1>2. PICK m \in S : \A k \in S : m <= k
  BY <1>1, LeastNatural
<1>3. PICK q \in p .. i - 1 : q + 1 = m
  OBVIOUS
<1>4. q \in 1 .. n /\ T[q] \in Int
  OBVIOUS
<1>5. T[q] <= a
  <2>1. CASE q = p
    BY <2>1
  <2>2. CASE q # p
    <3>1. q \notin S
      BY <1>2, <1>3
    <3> QED BY <1>3, <1>4, <2>2, <3>1
  <2> QED BY <2>1, <2>2
<1> QED BY <1>3, <1>5

(* No longer gap between refreshes went unreported. *)
LEMMA NothingLonger ==
  ASSUME NEW n \in Nat, NEW f \in Nat, NEW T \in [1 .. n -> Int], Ascending(T, n),
         Spaced(T, f, n),
         NEW from \in Int, NEW to \in Int, NEW I, I = InWindow(T, f, n, from, to),
         f < n, T[f + 1] <= from,
         NEW times \in Seq(Int), Len(times) >= 2, NEW h, TimesOf(h, I, times, T),
         NEW c, Longest(c, times),
         NEW a \in Int, NEW b \in Int, a >= from + HalfMs, b <= to - GpuDisorder, a < b,
         Recorded(a, T, n), Recorded(b, T, n), NoneWithin(T, n, a, b)
  PROVE  b - a <= Max2(c.worst, GpuDisorder)
<1>1. I \subseteq f + 1 .. n
  BY DEF InWindow
<1>2. c.worst \in Int /\ HalfMs <= c.worst /\ HalfMs \in Nat /\ GpuDisorder \in Nat
  BY <1>1, GapIsReal, GpuTraceAssumption
<1>3. PICK i \in 1 .. n : T[i] - GpuDisorder <= b /\ b < T[i] + HalfMs
  BY DEF Recorded
<1>4. PICK p \in 1 .. n : T[p] - GpuDisorder <= a /\ a < T[p] + HalfMs
  BY DEF Recorded
<1>5. PICK u \in Int : u = T[i]
  OBVIOUS
<1>6. PICK v \in Int : v = T[p]
  OBVIOUS
<1>7. PICK worst \in Int : worst = c.worst
  BY <1>2
<1>8. /\ u - GpuDisorder <= b /\ b < u + HalfMs /\ v - GpuDisorder <= a /\ a < v + HalfMs
      /\ HalfMs <= worst
  BY <1>2, <1>3, <1>4, <1>5, <1>6, <1>7
<1>9. (u <= a \/ u >= b) /\ (v <= a \/ v >= b)
  BY <1>5, <1>6 DEF NoneWithin
<1>10. ASSUME b - a <= worst \/ b - a <= GpuDisorder PROVE b - a <= Max2(c.worst, GpuDisorder)
  BY SMTT(30), <1>2, <1>7, <1>10 DEF Max2
<1>11. CASE u <= a
  <2>1. b - a <= worst
    BY <1>2, <1>8, <1>11
  <2> QED BY <1>10, <2>1
<1>12. CASE v >= b
  <2>1. b - a <= GpuDisorder
    BY <1>2, <1>8, <1>12
  <2> QED BY <1>10, <2>1
<1>13. CASE u >= b /\ v <= a
  <2>1. v < u /\ from < v
    BY <1>2, <1>8, <1>13
  <2>2. p < i
    <3>1. i < p => u < v
      BY <1>5, <1>6 DEF Ascending
    <3>2. i = p => u = v
      BY <1>5, <1>6
    <3> QED BY <2>1, <3>1, <3>2
  <2>3. PICK m \in p .. i - 1 : T[m] <= a /\ T[m + 1] > a
    <3>1. T[p] <= a /\ T[i] > a
      BY <1>5, <1>6, <1>13
    <3> QED BY <2>2, <3>1, LastBefore
  <2>4. m \in 1 .. n /\ m + 1 \in 1 .. n /\ m + 1 <= i
    BY <2>2
  <2>5. PICK x \in Int : x = T[m]
    BY <2>4
  <2>6. PICK y \in Int : y = T[m + 1]
    BY <2>4
  <2>7. v <= x /\ y <= u
    <3>1. v = x \/ v < x
      <4>1. p = m \/ p < m
        OBVIOUS
      <4> QED BY <1>6, <2>4, <2>5, <4>1 DEF Ascending
    <3>2. y = u \/ y < u
      <4>1. m + 1 = i \/ m + 1 < i
        BY <2>4
      <4> QED BY <1>5, <2>4, <2>6, <4>1 DEF Ascending
    <3> QED BY <3>1, <3>2
  <2>8. x <= a /\ y >= b
    <3>1. y <= a \/ y >= b
      BY <2>4, <2>6 DEF NoneWithin
    <3> QED BY <2>3, <2>5, <2>6, <3>1
  <2>9. from < x /\ x <= to /\ from <= y /\ y <= to
    <3>1. u <= b + GpuDisorder /\ b + GpuDisorder <= to
      BY <1>2, <1>8
    <3> QED BY <1>2, <2>1, <2>7, <2>8, <3>1
  <2>10. f + 1 < m
    <3>1. f + 1 \in 1 .. n
      OBVIOUS
    <3>2. PICK z \in Int : z = T[f + 1]
      BY <3>1
    <3>3. z < x
      BY <2>9, <3>2
    <3>4. ~(m < f + 1) /\ m # f + 1
      BY <2>4, <2>5, <3>1, <3>2, <3>3 DEF Ascending
    <3> QED BY <3>4
  <2>11. m \in f + 1 .. n /\ m + 1 \in f + 1 .. n
    BY <2>4, <2>10
  <2>12. m \in I /\ m + 1 \in I
    BY <2>5, <2>6, <2>9, <2>11 DEF InWindow
  <2>13. Adjacent(times, T, m)
    BY <1>1, <2>12, Neighbours
  <2>14. PICK j \in 1 .. Len(times) - 1 : times[j] = x /\ times[j + 1] = y
    BY <2>5, <2>6, <2>13 DEF Adjacent
  <2>15. y - x <= worst
    BY <1>7, <2>14 DEF Longest
  <2>16. b - a <= worst
    BY <2>8, <2>15
  <2> QED BY <1>10, <2>16
<1> QED BY <1>9, <1>11, <1>12, <1>13

(* DisplayStopIsReal, in every reachable state. *)
THEOREM DisplayStopReal == GpuSpec => []DisplayStopIsReal
<1>1. RefreshInv => DisplayStopIsReal
  <2> SUFFICES ASSUME RefreshInv,
                      NEW w \in {v \in Windows : gpu_covers("refresh", v[1])},
                      NEW c \in gpu_window(w[1], w[2]).display
               PROVE  /\ {t \in ticks : t >= c.worst_at - c.worst + HalfMs /\ t < c.worst_at - GpuDisorder} = {}
                      /\ \A a, b \in {t \in ticks : t >= w[1] + HalfMs /\ t <= w[2] - GpuDisorder} :
                           a < b /\ (\A t \in ticks : t <= a \/ t >= b) => b - a <= Max2(c.worst, GpuDisorder)
    BY DEF DisplayStopIsReal
  <2>1. PICK from : from = w[1]
    OBVIOUS
  <2>2. PICK to : to = w[2]
    OBVIOUS
  <2>3. from \in Int /\ to \in Int /\ gpu_covers("refresh", from)
    BY <2>1, <2>2 DEF Windows
  <2>4. PICK lg \in Seq(Tick) : lg = Refreshes
    BY DEF RefreshInv, RefreshTypes
  <2>5. PICK f \in Nat : f = Gone
    BY DEF RefreshInv, RefreshTypes
  <2>6. PICK n \in Nat : n = Len(lg)
    BY LenProperties
  <2>7. \A k \in 1 .. n : lg[k].ts \in Int
    <3>1. \A k \in 1 .. n : lg[k] \in Tick
      BY <2>6, ElementOfSeq
    <3> QED BY <3>1 DEF Tick
  <2>8. PICK T \in [1 .. n -> Int] : T = [k \in 1 .. n |-> lg[k].ts]
    BY <2>7
  <2>9. \A k \in 1 .. n : T[k] = lg[k].ts
    BY <2>8
  <2>10. Ascending(T, n) /\ (\A k \in 1 .. n : T[k] \in ticks) /\ ticks \subseteq Int
    BY <2>4, <2>6, <2>9 DEF RefreshInv, RefreshTypes, RefreshOrder, Ascending
  <2>11. Spaced(T, f, n)
    <3> SUFFICES ASSUME NEW i \in f + 1 .. n - 1 PROVE T[i + 1] - T[i] >= HalfMs
      BY DEF Spaced
    <3>1. i \in 1 .. n /\ i + 1 \in 1 .. n
      OBVIOUS
    <3> QED BY <2>4, <2>5, <2>6, <2>9, <3>1 DEF RefreshInv, RefreshesApart
  <2>12. \A t \in ticks : Recorded(t, T, n)
    BY <2>4, <2>6, <2>9 DEF RefreshInv, TicksCovered, Covered, Recorded
  <2>13. PICK I : I = InWindow(T, f, n, from, to)
    OBVIOUS
  <2>14. I = held_in("refresh", from, to)
    <3>1. held_in("refresh", from, to) = {k \in f + 1 .. n : lg[k].ts >= from /\ lg[k].ts <= to}
      BY <2>4, <2>5, <2>6 DEF held_in, GpuHeld, Refreshes, Gone
    <3>2. \A k \in f + 1 .. n : T[k] = lg[k].ts
      BY <2>9
    <3> QED BY <2>13, <3>1, <3>2 DEF InWindow
  <2>15. f < n /\ T[f + 1] <= from
    BY <2>3, <2>4, <2>5, <2>6, <2>9 DEF gpu_covers, Refreshes, Gone
  <2>16. PICK times : times = Times("refresh", I)
    OBVIOUS
  <2>17. I \subseteq 1 .. n
    BY <2>13 DEF InWindow
  <2>18. times \in Seq(Int) /\ \E h : TimesOf(h, I, times, T)
    BY <2>4, <2>6, <2>8, <2>16, <2>17, TimesAre
  <2>19. PICK h : TimesOf(h, I, times, T)
    BY <2>18
  <2>20. c \in cadences(times)
    BY <2>1, <2>2, <2>3, <2>14, <2>16 DEF gpu_window
  <2>21. Len(times) >= 2 /\ c = cadence(times)
    BY <2>18, <2>20, LenProperties DEF cadences
  <2>22. Longest(c, times)
    BY <2>18, <2>21, CadenceIs
  <2>23. ASSUME NEW t \in ticks PROVE ~(t >= c.worst_at - c.worst + HalfMs /\ t < c.worst_at - GpuDisorder)
    BY <2>3, <2>10, <2>12, <2>13, <2>18, <2>19, <2>22, NothingInside
  <2>24. ASSUME NEW a \in ticks, NEW b \in ticks, a >= from + HalfMs, b <= to - GpuDisorder, a < b,
                \A t \in ticks : t <= a \/ t >= b
         PROVE  b - a <= Max2(c.worst, GpuDisorder)
    <3>1. NoneWithin(T, n, a, b)
      BY <2>10, <2>24 DEF NoneWithin
    <3> QED BY <3>1, <2>3, <2>10, <2>11, <2>12, <2>13, <2>15, <2>18, <2>19, <2>21, <2>22, <2>24, NothingLonger
  <2> QED BY <2>1, <2>2, <2>23, <2>24
<1> QED BY <1>1, RefreshInvariant, PTL

=============================================================================
