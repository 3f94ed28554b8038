--------------------------- MODULE VerdictsProofs ---------------------------
(***************************************************************************)
(* What is said of one moment is what happened, for every number of        *)
(* threads, drives, requests and waits: DiskStuck's answers about one slow *)
(* request, Foreground's about the program in front, Verdict's about what  *)
(* a stall is blamed on, Sched's about why a probe was late, and its and   *)
(* Waits' about who was kept waiting.                                      *)
(***************************************************************************)
EXTENDS DiskStuck, Foreground, Verdict, Waits, Lemmas

Req      == [disk : Drives, tid : Threads, start : Int, op : Ops]
Whys     == {"disk", "lock", "user"}
DoneRec  == [end : Int, dur : Int, req : Req]
OffRec   == [ts : Nat, tid : Threads, reason : Whys]
WakeRec  == [ts : Int, tid : Threads, by : Threads \cup {Nobody}]

StuckTypes ==
  /\ clock \in Nat /\ under \subseteq Req
  /\ completed \in Seq(DoneRec) /\ offs \in Seq(OffRec) /\ wakes \in Seq(WakeRec)
  /\ DOMAIN doing = Threads /\ lock \in Threads \cup {Nobody}
  /\ \A t \in Threads : /\ doing[t].why \in Whys \cup {"runs"}
                        /\ doing[t].since \in Int /\ doing[t].since <= clock
  /\ \A j \in 1 .. Len(offs) : offs[j].ts <= clock

(* A request is under way or over, never both, and is known by its fields. *)
RequestsInv ==
  /\ \A q \in under : q.start <= clock
  /\ \A i \in 1 .. Len(completed) :
       /\ completed[i].req \notin under
       /\ completed[i].dur = completed[i].end - completed[i].req.start
       /\ completed[i].req.start < completed[i].end /\ completed[i].end <= clock
  /\ \A i, j \in 1 .. Len(completed) : completed[i].req = completed[j].req => i = j

(* The newest record of a thread going off its processor is that of its    *)
(* wait, and a wait for a request ends within Lag of its completion.       *)
LastOff(t, i) ==
  /\ offs[i].tid = t /\ offs[i].ts = doing[t].since /\ offs[i].reason = doing[t].why
  /\ \A j \in 1 .. Len(offs) : offs[j].tid = t => j <= i

DoingInv ==
  \A t \in Threads :
    /\ doing[t].why # "runs" => \E i \in 1 .. Len(offs) : LastOff(t, i)
    /\ doing[t].why = "runs" => \A j \in 1 .. Len(offs) : offs[j].tid = t => offs[j].ts <= doing[t].since
    /\ doing[t].why = "user" => lock # t
    /\ doing[t].why = "lock" => lock # Nobody
    /\ doing[t].why = "disk" =>
         /\ doing[t].what.start <= doing[t].since
         /\ \/ doing[t].what \in under
            \/ \E c \in 1 .. Len(completed) :
                 /\ completed[c].req = doing[t].what
                 /\ doing[t].since <= completed[c].end /\ clock <= completed[c].end + Lag

(* A finished wait, its two records, and the request it was for.           *)
OffOf(w, i) ==
  /\ offs[i].tid = w.tid /\ offs[i].ts = w.from /\ offs[i].reason = w.why
  /\ \A j \in 1 .. Len(offs) : offs[j].tid = w.tid => j <= i \/ offs[j].ts > w.to

DiskOf(w, c) ==
  /\ completed[c].req = w.what /\ completed[c].end = w.done
  /\ w.what.start <= w.from /\ w.from <= w.done /\ w.done <= w.to /\ w.to <= w.done + Lag

WaitedInv ==
  /\ \A w \in waited :
       /\ w.tid \in Threads /\ w.from \in Int /\ w.to \in Int /\ w.why \in Whys
       /\ w.from <= w.to /\ w.to <= doing[w.tid].since
       /\ doing[w.tid].why # "runs" => w.to < doing[w.tid].since
       /\ \E i \in 1 .. Len(offs) : OffOf(w, i)
       /\ \E k \in 1 .. Len(wakes) : wakes[k].tid = w.tid /\ wakes[k].ts = w.to
       /\ w.why = "disk" => \E c \in 1 .. Len(completed) : DiskOf(w, c)
  /\ \A w, v \in waited : w.tid = v.tid => w = v \/ w.to < v.from \/ v.to < w.from

(* Whoever holds the lock was not waiting for a message meanwhile: if it   *)
(* was away in between, it waited for something else too.                  *)
Away(t, after, until) == \E u \in waited : u.tid = t /\ after < u.to /\ u.to <= until
AwayNotIdle(t, after, until) ==
  \E u \in waited : u.tid = t /\ after < u.to /\ u.to <= until /\ u.why # "user"

LockInv ==
  \A t, x \in Threads :
    lock = t /\ doing[x].why = "lock" /\ Away(t, doing[x].since, clock)
      => AwayNotIdle(t, doing[x].since, clock)

(* Every wake-up ended a wait. *)
EndOf(w, k) ==
  /\ w.tid = wakes[k].tid /\ w.to = wakes[k].ts
  /\ w.why = "lock" /\ Away(wakes[k].by, w.from, w.to) => AwayNotIdle(wakes[k].by, w.from, w.to)

WakesInv ==
  \A k \in 1 .. Len(wakes) :
    /\ \E w \in waited : EndOf(w, k)
    /\ \A t \in Threads : wakes[k].by = t /\ doing[t].why = "user" => wakes[k].ts <= doing[t].since

(* An answer, once given, stays true. *)
StuckTrue(a) ==
  \A s \in a.stuck : \E w \in waited :
    /\ w.tid = s.tid /\ w.to = s.woke_at
    /\ w.what = a.slow.req \/ s.tid = a.slow.req.tid \/ (w.why = "disk" /\ w.to > w.done)

ChainTrue(a) ==
  \A c \in a.chains : \E w \in waited :
    /\ w.tid = c.waiter /\ w.to = c.woke_at /\ w.why = "lock" /\ c.waited = w.to - w.from
    /\ AwayNotIdle(c.holder, w.from, c.woke_at)

AnswersInv ==
  \A a \in answers :
    /\ \E i \in 1 .. Len(completed) : completed[i] = a.slow
    /\ clock > a.slow.end + ReadyAfter
    /\ StuckTrue(a) /\ ChainTrue(a)

WorldInv == StuckTypes /\ RequestsInv /\ DoingInv /\ WaitedInv /\ LockInv /\ WakesInv

AnswerInv == WorldInv /\ AnswersInv /\ EveryVictimIsNamed

-----------------------------------------------------------------------------
(* The records are what they are. *)
LEMMA Basics ==
  ASSUME StuckTypes
  PROVE  /\ clock \in Nat /\ Len(completed) \in Nat /\ Len(offs) \in Nat /\ Len(wakes) \in Nat
         /\ \A i \in 1 .. Len(completed) :
              /\ completed[i] \in DoneRec /\ completed[i].end \in Int /\ completed[i].dur \in Int
              /\ completed[i].req \in Req /\ completed[i].req.start \in Int
         /\ \A i \in 1 .. Len(offs) : offs[i] \in OffRec /\ offs[i].ts \in Nat
         /\ \A i \in 1 .. Len(wakes) : /\ wakes[i] \in WakeRec /\ wakes[i].ts \in Int
                                       /\ wakes[i].tid \in Threads
         /\ \A q \in under : q.start \in Int
         /\ DOMAIN completed = 1 .. Len(completed) /\ DOMAIN offs = 1 .. Len(offs)
         /\ DOMAIN wakes = 1 .. Len(wakes)
<1>1. completed \in Seq(DoneRec) /\ offs \in Seq(OffRec) /\ wakes \in Seq(WakeRec)
  BY DEF StuckTypes
<1>2. Len(completed) \in Nat /\ Len(offs) \in Nat /\ Len(wakes) \in Nat
  BY <1>1, LenProperties
<1>3. /\ \A i \in 1 .. Len(completed) : completed[i] \in DoneRec
      /\ \A i \in 1 .. Len(offs) : offs[i] \in OffRec
      /\ \A i \in 1 .. Len(wakes) : wakes[i] \in WakeRec
  BY <1>1, ElementOfSeq
<1>4. \A q \in Req : q.start \in Int
  BY DEF Req
<1>5. \A d \in DoneRec : d.end \in Int /\ d.dur \in Int /\ d.req \in Req /\ d.req.start \in Int
  BY <1>4 DEF DoneRec
<1>6. (\A o \in OffRec : o.ts \in Nat) /\ \A k \in WakeRec : k.ts \in Int /\ k.tid \in Threads
  BY DEF OffRec, WakeRec
<1>7. clock \in Nat /\ under \subseteq Req
  BY DEF StuckTypes
<1>8. /\ DOMAIN completed = 1 .. Len(completed) /\ DOMAIN offs = 1 .. Len(offs)
      /\ DOMAIN wakes = 1 .. Len(wakes)
  BY <1>1, LenProperties
<1> QED BY <1>2, <1>3, <1>4, <1>5, <1>6, <1>7, <1>8

(* A thread stops working: its new wait is told from all before it by the  *)
(* tick it worked in between.                                              *)
LEMMA OffStep ==
  ASSUME WorldInv, NEW t \in Threads, NEW why \in Whys, NEW what,
         Busily(t), Off(t, why, what), UNCHANGED <<clock, completed, wakes, lock, waited>>,
         under \subseteq under', under' \subseteq Req, RequestsInv',
         why = "user" => lock # t, why = "lock" => lock # Nobody,
         why = "disk" => what \in under' /\ what.start <= clock
  PROVE  WorldInv'
<1>0. PICK d : d = Starts(why, what)
  OBVIOUS
<1>1. d = Starts(why, what) /\ d.why = why /\ d.what = what /\ d.since = clock
  BY <1>0 DEF Starts
<1>2. PICK o : o = [ts |-> clock, tid |-> t, reason |-> why]
  OBVIOUS
<1>3. /\ StuckTypes /\ DoingInv /\ WaitedInv /\ LockInv /\ WakesInv
      /\ doing[t].why = "runs" /\ doing[t].since < clock /\ DOMAIN doing = Threads
      /\ clock \in Nat /\ offs \in Seq(OffRec) /\ Len(offs) \in Nat
      /\ \A i \in 1 .. Len(offs) : offs[i].ts \in Nat /\ offs[i].ts <= clock
  BY Basics DEF WorldInv, Busily, Runs, StuckTypes
<1>4. o \in OffRec /\ o.tid = t /\ o.ts = clock /\ o.reason = why
  BY <1>2, <1>3 DEF OffRec
<1>5. offs' = Append(offs, o) /\ doing' = [doing EXCEPT ![t] = d]
  BY <1>1, <1>2 DEF Off
<1>6. /\ offs' \in Seq(OffRec) /\ Len(offs') = Len(offs) + 1 /\ offs'[Len(offs) + 1] = o
      /\ \A i \in 1 .. Len(offs) : offs'[i] = offs[i]
  BY <1>3, <1>4, <1>5, PushSpec
<1>7. doing'[t] = d /\ DOMAIN doing' = Threads /\ \A x \in Threads \ {t} : doing'[x] = doing[x]
  BY <1>3, <1>5
<1>8. PICK n \in 1 .. Len(offs') :
        /\ n = Len(offs) + 1 /\ offs'[n] = o
        /\ \A j \in 1 .. Len(offs') : j = n \/ (j \in 1 .. Len(offs) /\ j < n /\ offs'[j] = offs[j])
  BY <1>3, <1>6
<1>9. StuckTypes'
  <2>1. \A x \in Threads : /\ doing'[x].why \in Whys \cup {"runs"}
                           /\ doing'[x].since \in Int /\ doing'[x].since <= clock
    BY <1>1, <1>3, <1>7 DEF StuckTypes
  <2>2. \A j \in 1 .. Len(offs') : offs'[j].ts <= clock
    BY <1>3, <1>4, <1>8
  <2> QED BY <1>3, <1>6, <1>7, <2>1, <2>2 DEF StuckTypes
<1>10. DoingInv'
  <2>1. ASSUME NEW x \in Threads, x # t, NEW i \in 1 .. Len(offs), LastOff(x, i)
        PROVE  i \in 1 .. Len(offs') /\ LastOff(x, i)'
    BY SMTT(30), <1>3, <1>4, <1>6, <1>7, <1>8, <2>1 DEF LastOff
  <2>2. n \in 1 .. Len(offs') /\ LastOff(t, n)'
    BY <1>1, <1>3, <1>4, <1>7, <1>8 DEF LastOff
  <2>3. ASSUME NEW x \in Threads, x # t, doing[x].why = "runs",
               NEW j \in 1 .. Len(offs'), offs'[j].tid = x
        PROVE  offs'[j].ts <= doing[x].since
    BY <1>3, <1>4, <1>8, <2>3 DEF DoingInv
  <2>4. ASSUME NEW x \in Threads, x # t
        PROVE  /\ doing'[x].why # "runs" => \E i \in 1 .. Len(offs') : LastOff(x, i)'
               /\ doing'[x].why = "runs" =>
                    \A j \in 1 .. Len(offs') : offs'[j].tid = x => offs'[j].ts <= doing'[x].since
               /\ doing'[x].why = "user" => lock' # x
               /\ doing'[x].why = "lock" => lock' # Nobody
    BY <1>3, <1>7, <2>1, <2>3, <2>4 DEF DoingInv
  <2>5. ASSUME NEW x \in Threads, x # t, doing'[x].why = "disk"
        PROVE  /\ doing'[x].what.start <= doing'[x].since
               /\ \/ doing'[x].what \in under'
                  \/ \E c \in 1 .. Len(completed') :
                       /\ completed'[c].req = doing'[x].what
                       /\ doing'[x].since <= completed'[c].end /\ clock' <= completed'[c].end + Lag
    BY <1>3, <1>7, <2>5 DEF DoingInv
  <2>6. /\ doing'[t].why # "runs"
        /\ doing'[t].why = "user" => lock' # t
        /\ doing'[t].why = "lock" => lock' # Nobody
        /\ doing'[t].why = "disk" => doing'[t].what.start <= doing'[t].since /\ doing'[t].what \in under'
    BY <1>1, <1>7 DEF Whys
  <2> QED BY <2>2, <2>4, <2>5, <2>6 DEF DoingInv
<1>11. WaitedInv'
  <2>1. ASSUME NEW w \in waited
        PROVE  w.to <= doing'[w.tid].since /\ (doing'[w.tid].why # "runs" => w.to < doing'[w.tid].since)
    <3>1. /\ w.tid \in Threads /\ w.to \in Int /\ w.to <= doing[w.tid].since
          /\ doing[w.tid].why # "runs" => w.to < doing[w.tid].since
      BY <1>3 DEF WaitedInv
    <3>2. CASE w.tid = t
      BY <1>1, <1>3, <1>7, <3>1, <3>2 DEF StuckTypes
    <3>3. CASE w.tid # t
      BY <1>7, <3>1, <3>3
    <3> QED BY <3>2, <3>3
  <2>2. ASSUME NEW w \in waited, NEW i \in 1 .. Len(offs), OffOf(w, i)
        PROVE  i \in 1 .. Len(offs') /\ OffOf(w, i)'
    <3>1. w.tid = t => w.to < clock
      BY <1>3 DEF WaitedInv, StuckTypes
    <3> QED BY <1>3, <1>4, <1>6, <1>8, <2>2, <3>1 DEF OffOf
  <2>3. ASSUME NEW w \in waited
        PROVE  /\ w.tid \in Threads /\ w.from \in Int /\ w.to \in Int /\ w.why \in Whys
               /\ w.from <= w.to
               /\ \E i \in 1 .. Len(offs') : OffOf(w, i)'
               /\ \E k \in 1 .. Len(wakes') : wakes'[k].tid = w.tid /\ wakes'[k].ts = w.to
               /\ w.why = "disk" => \E c \in 1 .. Len(completed') : DiskOf(w, c)'
    <3>1. /\ w.tid \in Threads /\ w.from \in Int /\ w.to \in Int /\ w.why \in Whys /\ w.from <= w.to
          /\ \E i \in 1 .. Len(offs) : OffOf(w, i)
          /\ \E k \in 1 .. Len(wakes) : wakes[k].tid = w.tid /\ wakes[k].ts = w.to
          /\ w.why = "disk" => \E c \in 1 .. Len(completed) : DiskOf(w, c)
      BY <1>3 DEF WaitedInv
    <3>2. \E i \in 1 .. Len(offs') : OffOf(w, i)'
      BY <2>2, <3>1
    <3> QED BY <3>1, <3>2 DEF DiskOf
  <2>4. \A w, v \in waited : w.tid = v.tid => w = v \/ w.to < v.from \/ v.to < w.from
    BY <1>3 DEF WaitedInv
  <2> QED BY <2>1, <2>3, <2>4 DEF WaitedInv
<1>12. LockInv'
  <2> SUFFICES ASSUME NEW y \in Threads, NEW x \in Threads, lock = y, doing'[x].why = "lock",
                      Away(y, doing'[x].since, clock)
               PROVE  AwayNotIdle(y, doing'[x].since, clock)
    BY DEF LockInv, Away, AwayNotIdle
  <2>1. CASE x = t
    <3>1. doing'[x].since = clock
      BY <1>1, <1>7, <2>1
    <3>2. \A u \in waited : u.to \in Int
      BY <1>3 DEF WaitedInv
    <3> QED BY <1>3, <3>1, <3>2 DEF Away
  <2>2. CASE x # t
    BY <1>3, <1>7, <2>2 DEF LockInv
  <2> QED BY <2>1, <2>2
<1>13. WakesInv'
  <2>1. ASSUME NEW k \in 1 .. Len(wakes) PROVE wakes[k].ts \in Int /\ wakes[k].ts <= clock
    <3>1. PICK w \in waited : EndOf(w, k)
      BY <1>3 DEF WakesInv
    <3>2. w.to \in Int /\ w.to <= doing[w.tid].since /\ w.tid \in Threads
      BY <1>3 DEF WaitedInv
    <3> QED BY <1>3, <3>1, <3>2 DEF EndOf, StuckTypes
  <2>2. ASSUME NEW k \in 1 .. Len(wakes), NEW x \in Threads, wakes[k].by = x, doing'[x].why = "user"
        PROVE  wakes[k].ts <= doing'[x].since
    <3>1. CASE x = t
      BY <1>1, <1>7, <2>1, <3>1
    <3>2. CASE x # t
      BY <1>3, <1>7, <2>2, <3>2 DEF WakesInv
    <3> QED BY <3>1, <3>2
  <2>3. \A w : \A k \in 1 .. Len(wakes) : EndOf(w, k)' <=> EndOf(w, k)
    BY DEF EndOf, Away, AwayNotIdle
  <2>4. \A k \in 1 .. Len(wakes) : \E w \in waited : EndOf(w, k)
    BY <1>3 DEF WakesInv
  <2> QED BY <2>2, <2>3, <2>4 DEF WakesInv
<1> QED BY <1>9, <1>10, <1>11, <1>12, <1>13 DEF WorldInv

(* A thread is woken: the wait that ends is told from all before it, and   *)
(* whoever held the lock it waited for was not idle in between.            *)
LEMMA WakeStep ==
  ASSUME WorldInv, NEW t \in Threads, NEW by \in Threads \cup {Nobody}, NEW done,
         Wake(t, by, done), doing[t].why # "runs", UNCHANGED <<clock, completed, under, offs>>,
         lock' = lock \/ (lock' = t /\ doing[t].why = "lock"),
         doing[t].why = "disk" =>
           \E c \in 1 .. Len(completed) : completed[c].req = doing[t].what /\ completed[c].end = done,
         doing[t].why = "user" => doing[t].since < clock,
         doing[t].why = "lock" /\ Away(by, doing[t].since, clock) => AwayNotIdle(by, doing[t].since, clock),
         by \in Threads => doing[by].why = "runs"
  PROVE  WorldInv'
<1>0. PICK d, r, w0 :
        /\ d = Starts("runs", Nobody)
        /\ r = [ts |-> clock, tid |-> t, by |-> by]
        /\ w0 = [tid |-> t, from |-> doing[t].since, to |-> clock, why |-> doing[t].why,
                 what |-> doing[t].what, done |-> done]
  OBVIOUS
<1>1. d.why = "runs" /\ d.since = clock
  BY <1>0 DEF Starts
<1>2. /\ StuckTypes /\ RequestsInv /\ DoingInv /\ WaitedInv /\ LockInv /\ WakesInv
      /\ doing[t].since \in Int /\ doing[t].since <= clock /\ DOMAIN doing = Threads
      /\ doing[t].why \in Whys
      /\ clock \in Nat /\ wakes \in Seq(WakeRec) /\ Len(wakes) \in Nat /\ Len(offs) \in Nat
      /\ Len(completed) \in Nat /\ lock \in Threads \cup {Nobody} /\ Nobody \notin Threads
      /\ \A i \in 1 .. Len(offs) : offs[i].ts \in Nat /\ offs[i].ts <= clock
      /\ \A k \in 1 .. Len(wakes) : wakes[k].ts \in Int
  BY Basics, StuckAssumption DEF WorldInv, StuckTypes
<1>3. /\ w0.tid = t /\ w0.from = doing[t].since /\ w0.to = clock /\ w0.why = doing[t].why
      /\ w0.what = doing[t].what /\ w0.done = done
      /\ r \in WakeRec /\ r.ts = clock /\ r.tid = t /\ r.by = by
  BY <1>0, <1>2 DEF WakeRec
<1>4. /\ wakes' = Append(wakes, r) /\ doing' = [doing EXCEPT ![t] = d] /\ waited' = waited \cup {w0}
  BY <1>0 DEF Wake
<1>5. doing'[t] = d /\ DOMAIN doing' = Threads /\ \A x \in Threads \ {t} : doing'[x] = doing[x]
  BY <1>2, <1>4
<1>6. wakes' \in Seq(WakeRec) /\ Len(wakes') = Len(wakes) + 1
  BY <1>2, <1>3, <1>4, PushSpec
<1>7. PICK n \in 1 .. Len(wakes') :
        /\ n = Len(wakes) + 1 /\ wakes'[n] = r
        /\ \A j \in 1 .. Len(wakes) : j \in 1 .. Len(wakes') /\ wakes'[j] = wakes[j]
        /\ \A j \in 1 .. Len(wakes') : j = n \/ j \in 1 .. Len(wakes)
  <2>1. wakes'[Len(wakes) + 1] = r /\ \A i \in 1 .. Len(wakes) : wakes'[i] = wakes[i]
    BY <1>2, <1>3, <1>4, PushSpec
  <2> QED BY <1>2, <1>6, <2>1
<1>8. ASSUME NEW w \in waited
      PROVE  /\ w.tid \in Threads /\ w.from \in Int /\ w.to \in Int /\ w.why \in Whys
             /\ w.from <= w.to /\ w.to <= doing[w.tid].since /\ w.to <= clock
             /\ doing[w.tid].why # "runs" => w.to < doing[w.tid].since
             /\ w.tid = t => w.to < w0.from
             /\ \E i \in 1 .. Len(offs) : OffOf(w, i)
             /\ \E k \in 1 .. Len(wakes) : wakes[k].tid = w.tid /\ wakes[k].ts = w.to
             /\ w.why = "disk" => \E c \in 1 .. Len(completed) : DiskOf(w, c)
  <2>1. /\ w.tid \in Threads /\ w.from \in Int /\ w.to \in Int /\ w.why \in Whys
        /\ w.from <= w.to /\ w.to <= doing[w.tid].since
        /\ doing[w.tid].why # "runs" => w.to < doing[w.tid].since
        /\ \E i \in 1 .. Len(offs) : OffOf(w, i)
        /\ \E k \in 1 .. Len(wakes) : wakes[k].tid = w.tid /\ wakes[k].ts = w.to
        /\ w.why = "disk" => \E c \in 1 .. Len(completed) : DiskOf(w, c)
    BY <1>2 DEF WaitedInv
  <2>2. doing[w.tid].since \in Int /\ doing[w.tid].since <= clock
    BY <1>2, <2>1 DEF StuckTypes
  <2> QED BY <1>2, <1>3, <2>1, <2>2
<1>9. RequestsInv'
  BY <1>2 DEF RequestsInv
<1>10. StuckTypes'
  BY <1>1, <1>2, <1>5, <1>6 DEF StuckTypes
<1>11. DoingInv'
  <2>1. ASSUME NEW x \in Threads, x # t, NEW i, LastOff(x, i)
        PROVE  LastOff(x, i)'
    BY <1>5, <2>1 DEF LastOff
  <2>2. ASSUME NEW x \in Threads, x # t
        PROVE  /\ doing'[x].why # "runs" => \E i \in 1 .. Len(offs') : LastOff(x, i)'
               /\ doing'[x].why = "runs" =>
                    \A j \in 1 .. Len(offs') : offs'[j].tid = x => offs'[j].ts <= doing'[x].since
               /\ doing'[x].why = "user" => lock' # x
               /\ doing'[x].why = "lock" => lock' # Nobody
    BY <1>2, <1>5, <2>1, <2>2 DEF DoingInv
  <2>3. ASSUME NEW x \in Threads, x # t, doing'[x].why = "disk"
        PROVE  /\ doing'[x].what.start <= doing'[x].since
               /\ \/ doing'[x].what \in under'
                  \/ \E c \in 1 .. Len(completed') :
                       /\ completed'[c].req = doing'[x].what
                       /\ doing'[x].since <= completed'[c].end /\ clock' <= completed'[c].end + Lag
    BY <1>2, <1>5, <2>3 DEF DoingInv
  <2>4. doing'[t].why = "runs" /\ \A j \in 1 .. Len(offs') : offs'[j].ts <= doing'[t].since
    BY <1>1, <1>2, <1>5
  <2> QED BY <2>2, <2>3, <2>4 DEF DoingInv
<1>12. WaitedInv'
  <2>1. \E i \in 1 .. Len(offs') : OffOf(w0, i)'
    <3>1. PICK i \in 1 .. Len(offs) : LastOff(t, i)
      BY <1>2 DEF DoingInv
    <3>2. OffOf(w0, i)'
      BY <1>3, <3>1 DEF LastOff, OffOf
    <3> QED BY <3>1, <3>2
  <2>2. w0.why = "disk" => \E c \in 1 .. Len(completed') : DiskOf(w0, c)'
    <3> SUFFICES ASSUME doing[t].why = "disk"
                 PROVE  \E c \in 1 .. Len(completed') : DiskOf(w0, c)'
      BY <1>3
    <3>1. PICK c \in 1 .. Len(completed) : completed[c].req = doing[t].what /\ completed[c].end = done
      OBVIOUS
    <3>2. doing[t].what \notin under /\ completed[c].end <= clock
      BY <1>2, <3>1 DEF RequestsInv
    <3>3. PICK e \in 1 .. Len(completed) :
            /\ completed[e].req = doing[t].what
            /\ doing[t].since <= completed[e].end /\ clock <= completed[e].end + Lag
      BY <1>2, <3>2 DEF DoingInv
    <3>4. e = c
      BY <1>2, <3>1, <3>3 DEF RequestsInv
    <3>5. doing[t].what.start <= doing[t].since
      BY <1>2 DEF DoingInv
    <3> QED BY <1>3, <3>1, <3>2, <3>3, <3>4, <3>5 DEF DiskOf
  <2>3. \A w, i, c : (OffOf(w, i)' <=> OffOf(w, i)) /\ (DiskOf(w, c)' <=> DiskOf(w, c))
    BY DEF OffOf, DiskOf
  <2>4. ASSUME NEW w \in waited
        PROVE  w.to <= doing'[w.tid].since /\ (doing'[w.tid].why # "runs" => w.to < doing'[w.tid].since)
    BY <1>1, <1>5, <1>8
  <2>5. ASSUME NEW w \in waited
        PROVE  \E k \in 1 .. Len(wakes') : wakes'[k].tid = w.tid /\ wakes'[k].ts = w.to
    BY <1>7, <1>8
  <2>6. \A w \in waited' :
          /\ w.tid \in Threads /\ w.from \in Int /\ w.to \in Int /\ w.why \in Whys /\ w.from <= w.to
          /\ w.to <= doing'[w.tid].since
          /\ doing'[w.tid].why # "runs" => w.to < doing'[w.tid].since
    BY <1>1, <1>2, <1>3, <1>4, <1>5, <1>8, <2>4
  <2>7. \A w \in waited' :
          /\ \E i \in 1 .. Len(offs') : OffOf(w, i)'
          /\ \E k \in 1 .. Len(wakes') : wakes'[k].tid = w.tid /\ wakes'[k].ts = w.to
          /\ w.why = "disk" => \E c \in 1 .. Len(completed') : DiskOf(w, c)'
    <3>1. \E k \in 1 .. Len(wakes') : wakes'[k].tid = w0.tid /\ wakes'[k].ts = w0.to
      BY <1>3, <1>7
    <3>2. ASSUME NEW w \in waited
          PROVE  /\ \E i \in 1 .. Len(offs') : OffOf(w, i)'
                 /\ w.why = "disk" => \E c \in 1 .. Len(completed') : DiskOf(w, c)'
      BY <1>8, <2>3
    <3> QED BY <1>4, <2>1, <2>2, <2>5, <3>1, <3>2
  <2>8. \A w, v \in waited' : w.tid = v.tid => w = v \/ w.to < v.from \/ v.to < w.from
    <3>1. \A w, v \in waited : w.tid = v.tid => w = v \/ w.to < v.from \/ v.to < w.from
      BY <1>2 DEF WaitedInv
    <3> QED BY <1>3, <1>4, <1>8, <3>1
  <2> QED BY <2>6, <2>7, <2>8 DEF WaitedInv
<1>13. LockInv'
  <2> SUFFICES ASSUME NEW y \in Threads, NEW x \in Threads, lock' = y, doing'[x].why = "lock",
                      NEW u \in waited', u.tid = y, doing'[x].since < u.to, u.to <= clock
               PROVE  \E v \in waited' : /\ v.tid = y /\ doing'[x].since < v.to /\ v.to <= clock
                                         /\ v.why # "user"
    BY DEF LockInv, Away, AwayNotIdle
  <2>1. x # t /\ doing'[x] = doing[x] /\ doing[x].since \in Int
    BY <1>1, <1>2, <1>5 DEF StuckTypes
  <2>2. CASE y = t
    <3>1. doing[t].why # "user"
      BY <1>2, <2>2 DEF DoingInv
    <3>2. u.to \in Int
      BY <1>2, <1>3, <1>4, <1>8
    <3> QED BY <1>2, <1>3, <1>4, <2>1, <2>2, <3>1, <3>2
  <2>3. CASE y # t
    <3>1. lock = y /\ u \in waited
      BY <1>3, <1>4, <2>3
    <3>2. AwayNotIdle(y, doing[x].since, clock)
      BY <1>2, <2>1, <3>1 DEF LockInv, Away
    <3> QED BY <1>4, <2>1, <3>2 DEF AwayNotIdle
  <2> QED BY <2>2, <2>3
<1>14. WakesInv'
  <2>1. ASSUME NEW k \in 1 .. Len(wakes), NEW w \in waited, EndOf(w, k)
        PROVE  EndOf(w, k)'
    <3>1. w.tid = wakes'[k].tid /\ w.to = wakes'[k].ts /\ wakes'[k] = wakes[k]
      BY <1>7, <2>1 DEF EndOf
    <3>2. ASSUME w.why = "lock", NEW u \in waited', u.tid = wakes[k].by, w.from < u.to, u.to <= w.to
          PROVE  \E v \in waited' : /\ v.tid = wakes[k].by /\ w.from < v.to /\ v.to <= w.to
                                    /\ v.why # "user"
      <4>1. CASE u \in waited
        <5>1. AwayNotIdle(wakes[k].by, w.from, w.to)
          BY <2>1, <3>2, <4>1 DEF EndOf, Away
        <5> QED BY <1>4, <5>1 DEF AwayNotIdle
      <4>2. CASE u = w0
        <5>1. CASE doing[t].why = "user"
          <6>1. wakes[k].ts <= doing[t].since /\ wakes[k].ts \in Int
            BY <1>2, <1>3, <3>2, <4>2, <5>1 DEF WakesInv
          <6> QED BY <1>2, <1>3, <2>1, <3>2, <4>2, <5>1, <6>1 DEF EndOf
        <5>2. CASE doing[t].why # "user"
          BY <1>3, <1>4, <3>2, <4>2, <5>2
        <5> QED BY <5>1, <5>2
      <4> QED BY <1>4, <3>2, <4>1, <4>2
    <3> QED BY <3>1, <3>2 DEF EndOf, Away, AwayNotIdle
  <2>2. EndOf(w0, n)'
    <3>1. ASSUME w0.why = "lock", NEW u \in waited', u.tid = by, w0.from < u.to, u.to <= w0.to
          PROVE  \E v \in waited' : v.tid = by /\ w0.from < v.to /\ v.to <= w0.to /\ v.why # "user"
      <4>1. CASE by = t
        <5>1. u.to \in Int
          BY <1>2, <1>3, <1>4, <1>8
        <5> QED BY <1>2, <1>3, <1>4, <3>1, <4>1, <5>1
      <4>2. CASE by # t
        <5>1. u \in waited
          BY <1>3, <1>4, <3>1, <4>2
        <5>2. AwayNotIdle(by, doing[t].since, clock)
          BY <1>3, <3>1, <5>1 DEF Away
        <5> QED BY <1>3, <1>4, <5>2 DEF AwayNotIdle
      <4> QED BY <4>1, <4>2
    <3> QED BY <1>3, <1>7, <3>1 DEF EndOf, Away, AwayNotIdle
  <2>3. ASSUME NEW k \in 1 .. Len(wakes') PROVE \E w \in waited' : EndOf(w, k)'
    <3>1. CASE k = n
      BY <1>4, <2>2, <3>1
    <3>2. CASE k \in 1 .. Len(wakes)
      <4>1. PICK w \in waited : EndOf(w, k)
        BY <1>2, <3>2 DEF WakesInv
      <4> QED BY <1>4, <2>1, <3>2, <4>1
    <3> QED BY <1>7, <3>1, <3>2
  <2>4. ASSUME NEW k \in 1 .. Len(wakes'), NEW x \in Threads, wakes'[k].by = x, doing'[x].why = "user"
        PROVE  wakes'[k].ts <= doing'[x].since
    <3>1. x # t /\ doing'[x] = doing[x]
      BY <1>1, <1>5, <2>4
    <3>2. CASE k = n
      BY <1>3, <1>7, <2>4, <3>1, <3>2
    <3>3. CASE k \in 1 .. Len(wakes)
      BY <1>2, <1>7, <2>4, <3>1, <3>3 DEF WakesInv
    <3> QED BY <1>7, <3>2, <3>3
  <2> QED BY <2>3, <2>4 DEF WakesInv
<1> QED BY <1>9, <1>10, <1>11, <1>12, <1>13, <1>14 DEF WorldInv

-----------------------------------------------------------------------------
(* What touches none of the waits: requests come and go, and the lock is   *)
(* taken or given up while nobody waits for it.                            *)
LEMMA IdleStep ==
  ASSUME WorldInv, UNCHANGED <<clock, offs, wakes, doing, waited>>,
         StuckTypes', RequestsInv',
         \A c \in 1 .. Len(completed) : c \in 1 .. Len(completed') /\ completed'[c] = completed[c],
         \A q \in under \ under' :
           \E c \in 1 .. Len(completed') : completed'[c].req = q /\ completed'[c].end = clock,
         lock' = lock \/ \A x \in Threads : doing[x].why # "lock",
         \A t \in Threads : doing[t].why = "user" => lock' # t
  PROVE  WorldInv'
<1>1. StuckTypes /\ DoingInv /\ WaitedInv /\ LockInv /\ WakesInv /\ clock \in Nat /\ Lag \in Nat
  BY StuckAssumption DEF WorldInv, StuckTypes
<1>2. DoingInv'
  <2>1. \A t, i : LastOff(t, i)' <=> LastOff(t, i)
    BY DEF LastOff
  <2>2. ASSUME NEW t \in Threads
        PROVE  /\ doing'[t].why # "runs" => \E i \in 1 .. Len(offs') : LastOff(t, i)'
               /\ doing'[t].why = "runs" =>
                    \A j \in 1 .. Len(offs') : offs'[j].tid = t => offs'[j].ts <= doing'[t].since
               /\ doing'[t].why = "user" => lock' # t
               /\ doing'[t].why = "lock" => lock' # Nobody
    BY <1>1, <2>1 DEF DoingInv
  <2>3. ASSUME NEW t \in Threads, doing[t].why = "disk"
        PROVE  /\ doing[t].what.start <= doing[t].since
               /\ \/ doing[t].what \in under'
                  \/ \E c \in 1 .. Len(completed') :
                       /\ completed'[c].req = doing[t].what
                       /\ doing[t].since <= completed'[c].end /\ clock <= completed'[c].end + Lag
    <3>1. doing[t].what.start <= doing[t].since /\ doing[t].since <= clock
      BY <1>1, <2>3 DEF DoingInv, StuckTypes
    <3>2. CASE doing[t].what \in under \ under'
      BY <1>1, <3>1, <3>2
    <3>3. CASE doing[t].what \in under'
      BY <3>1, <3>3
    <3>4. CASE doing[t].what \notin under
      BY <1>1, <2>3, <3>1, <3>4 DEF DoingInv
    <3> QED BY <3>2, <3>3, <3>4
  <2> QED BY <2>2, <2>3 DEF DoingInv
<1>3. WaitedInv'
  <2>1. \A w, i : OffOf(w, i)' <=> OffOf(w, i)
    BY DEF OffOf
  <2>2. ASSUME NEW w \in waited, w.why = "disk"
        PROVE  \E c \in 1 .. Len(completed') : DiskOf(w, c)'
    <3>1. PICK c \in 1 .. Len(completed) : DiskOf(w, c)
      BY <1>1, <2>2 DEF WaitedInv
    <3> QED BY <3>1 DEF DiskOf
  <2> QED BY <1>1, <2>1, <2>2 DEF WaitedInv
<1>4. LockInv'
  BY <1>1 DEF LockInv, Away, AwayNotIdle
<1>5. WakesInv'
  BY <1>1 DEF WakesInv, EndOf, Away, AwayNotIdle
<1> QED BY <1>2, <1>3, <1>4, <1>5 DEF WorldInv

(* Time passes, but not beyond the wake-ups that are due. *)
LEMMA PassStep == ASSUME WorldInv, Pass PROVE WorldInv'
<1>1. /\ clock' = clock + 1 /\ UNCHANGED <<completed, under, offs, wakes, doing, lock, waited>>
      /\ \A t \in Threads : doing[t].what \notin under /\ doing[t].why = "disk" =>
           \E i \in DOMAIN completed : completed[i].req = doing[t].what /\ clock < completed[i].end + Lag
  BY DEF Pass, Lapse
<1>2. /\ StuckTypes /\ RequestsInv /\ DoingInv /\ WaitedInv /\ LockInv /\ WakesInv /\ clock \in Nat
      /\ Lag \in Nat /\ DOMAIN completed = 1 .. Len(completed)
      /\ \A i \in 1 .. Len(completed) : completed[i].end \in Int
      /\ \A q \in under : q.start \in Int
      /\ \A i \in 1 .. Len(offs) : offs[i].ts \in Nat
  BY Basics, StuckAssumption DEF WorldInv
<1>3. StuckTypes'
  BY <1>1, <1>2 DEF StuckTypes
<1>4. RequestsInv'
  BY <1>1, <1>2 DEF RequestsInv
<1>5. DoingInv'
  <2>1. \A t, i : LastOff(t, i)' <=> LastOff(t, i)
    BY <1>1 DEF LastOff
  <2>2. ASSUME NEW t \in Threads
        PROVE  /\ doing[t].why # "runs" => \E i \in 1 .. Len(offs) : LastOff(t, i)
               /\ doing[t].why = "runs" =>
                    \A j \in 1 .. Len(offs) : offs[j].tid = t => offs[j].ts <= doing[t].since
               /\ doing[t].why = "user" => lock # t
               /\ doing[t].why = "lock" => lock # Nobody
    BY <1>2 DEF DoingInv
  <2>3. ASSUME NEW t \in Threads, doing[t].why = "disk"
        PROVE  /\ doing[t].what.start <= doing[t].since
               /\ \/ doing[t].what \in under
                  \/ \E c \in 1 .. Len(completed) :
                       /\ completed[c].req = doing[t].what
                       /\ doing[t].since <= completed[c].end /\ clock' <= completed[c].end + Lag
    <3>1. doing[t].what.start <= doing[t].since
      BY <1>2, <2>3 DEF DoingInv
    <3>2. CASE doing[t].what \notin under
      <4>1. PICK i \in 1 .. Len(completed) : completed[i].req = doing[t].what /\ clock < completed[i].end + Lag
        BY <1>1, <1>2, <2>3, <3>2
      <4>2. PICK c \in 1 .. Len(completed) : completed[c].req = doing[t].what /\ doing[t].since <= completed[c].end
        BY <1>2, <2>3, <3>2 DEF DoingInv
      <4>3. c = i
        BY <1>2, <4>1, <4>2 DEF RequestsInv
      <4> QED BY <1>1, <1>2, <3>1, <4>1, <4>2, <4>3
    <3> QED BY <3>1, <3>2
  <2> QED BY <1>1, <2>1, <2>2, <2>3 DEF DoingInv
<1>6. WaitedInv'
  BY <1>1, <1>2 DEF WaitedInv, OffOf, DiskOf
<1>7. LockInv'
  <2>1. ASSUME NEW u \in waited PROVE u.to \in Int /\ u.to <= clock
    <3>1. u.tid \in Threads /\ u.to \in Int /\ u.to <= doing[u.tid].since
      BY <1>2 DEF WaitedInv
    <3> QED BY <1>2, <3>1 DEF StuckTypes
  <2> QED BY <1>1, <1>2, <2>1 DEF LockInv, Away, AwayNotIdle
<1>8. WakesInv'
  BY <1>1, <1>2 DEF WakesInv, EndOf, Away, AwayNotIdle
<1> QED BY <1>3, <1>4, <1>5, <1>6, <1>7, <1>8 DEF WorldInv

(* A request is issued, by a thread that waits for it or goes on. *)
LEMMA IssueStep ==
  ASSUME WorldInv, NEW t \in Threads, NEW d \in Drives, NEW op \in Ops, NEW sleeps \in BOOLEAN,
         Issue(t, d, op, sleeps)
  PROVE  WorldInv'
<1>1. PICK q : q = [disk |-> d, tid |-> t, start |-> clock, op |-> op]
  OBVIOUS
<1>2. /\ StuckTypes /\ RequestsInv /\ DoingInv /\ clock \in Nat
      /\ \A i \in 1 .. Len(completed) : completed[i].end \in Int /\ completed[i].req.start \in Int
  BY Basics DEF WorldInv
<1>3. /\ Busily(t) /\ q \notin under /\ under' = under \cup {q}
      /\ IF sleeps THEN Off(t, "disk", q) ELSE UNCHANGED <<offs, doing>>
      /\ UNCHANGED <<clock, completed, wakes, lock, waited, answers>>
  BY <1>1 DEF Issue
<1>4. q \in Req /\ q.start = clock
  BY <1>1, <1>2 DEF Req
<1>5. RequestsInv'
  <2>1. \A i \in 1 .. Len(completed) : completed[i].req # q
    BY <1>2, <1>4 DEF RequestsInv
  <2> QED BY <1>2, <1>3, <1>4, <2>1 DEF RequestsInv
<1>6. under' \subseteq Req /\ under \subseteq under'
  BY <1>2, <1>3, <1>4 DEF StuckTypes
<1>7. CASE sleeps
  BY <1>2, <1>3, <1>4, <1>5, <1>6, <1>7, OffStep DEF Whys
<1>8. CASE ~sleeps
  <2>1. UNCHANGED <<clock, offs, wakes, doing, waited, lock, completed>>
    BY <1>3, <1>8
  <2>2. StuckTypes'
    BY <1>2, <1>6, <2>1 DEF StuckTypes
  <2>3. \A x \in Threads : doing[x].why = "user" => lock' # x
    BY <1>2, <2>1 DEF DoingInv
  <2> QED BY <1>5, <1>6, <2>1, <2>2, <2>3, IdleStep
<1> QED BY <1>7, <1>8

(* A request completes. *)
LEMMA FinishStep ==
  ASSUME WorldInv, NEW q \in under, Finish(q)
  PROVE  WorldInv' /\ \A c \in 1 .. Len(completed) : c \in 1 .. Len(completed') /\ completed'[c] = completed[c]
<1>1. PICK r : r = [end |-> clock, dur |-> clock - q.start, req |-> q]
  OBVIOUS
<1>2. /\ StuckTypes /\ RequestsInv /\ DoingInv /\ clock \in Nat /\ q \in Req /\ q.start \in Int
      /\ completed \in Seq(DoneRec) /\ Len(completed) \in Nat
      /\ \A i \in 1 .. Len(completed) : completed[i].end \in Int /\ completed[i].req.start \in Int
  BY Basics DEF WorldInv, StuckTypes
<1>3. /\ clock > q.start /\ under' = under \ {q} /\ completed' = Append(completed, r)
      /\ UNCHANGED <<clock, offs, wakes, doing, lock, waited>>
  BY <1>1 DEF Finish
<1>4. r \in DoneRec /\ r.end = clock /\ r.dur = clock - q.start /\ r.req = q
  BY <1>1, <1>2 DEF DoneRec
<1>5. /\ completed' \in Seq(DoneRec) /\ Len(completed') = Len(completed) + 1
      /\ completed'[Len(completed) + 1] = r
      /\ \A i \in 1 .. Len(completed) : completed'[i] = completed[i]
  BY <1>2, <1>3, <1>4, PushSpec
<1>6. PICK n \in 1 .. Len(completed') :
        /\ n = Len(completed) + 1 /\ completed'[n] = r
        /\ \A j \in 1 .. Len(completed) : j \in 1 .. Len(completed') /\ completed'[j] = completed[j]
        /\ \A j \in 1 .. Len(completed') : j = n \/ j \in 1 .. Len(completed)
  BY <1>2, <1>5
<1>7. StuckTypes'
  BY <1>2, <1>3, <1>5 DEF StuckTypes
<1>8. RequestsInv'
  <2>1. \A i \in 1 .. Len(completed') :
          /\ completed'[i].req \notin under'
          /\ completed'[i].dur = completed'[i].end - completed'[i].req.start
          /\ completed'[i].req.start < completed'[i].end /\ completed'[i].end <= clock
    BY <1>2, <1>3, <1>4, <1>6 DEF RequestsInv
  <2>2. \A i \in 1 .. Len(completed) : completed[i].req # q
    BY <1>2 DEF RequestsInv
  <2>3. \A i, j \in 1 .. Len(completed') : completed'[i].req = completed'[j].req => i = j
    BY <1>2, <1>4, <1>6, <2>2 DEF RequestsInv
  <2> QED BY <1>2, <1>3, <2>1, <2>3 DEF RequestsInv
<1>9. \A p \in under \ under' :
        \E c \in 1 .. Len(completed') : completed'[c].req = p /\ completed'[c].end = clock
  BY <1>3, <1>4, <1>6
<1>10. \A x \in Threads : doing[x].why = "user" => lock' # x
  BY <1>2, <1>3 DEF DoingInv
<1> QED BY <1>3, <1>6, <1>7, <1>8, <1>9, <1>10, IdleStep

(* A thread joins a wait that is on already, waits for the lock, or for a  *)
(* message.                                                                *)
LEMMA WaitingStep ==
  ASSUME WorldInv, NEW t \in Threads,
         (\E q \in under : Join(t, q)) \/ Block(t) \/ AwaitMessage(t)
  PROVE  WorldInv'
<1>1. StuckTypes /\ RequestsInv /\ under \subseteq Req /\ lock \in Threads \cup {Nobody}
  BY DEF WorldInv, StuckTypes
<1>2. ASSUME NEW q \in under, Join(t, q) PROVE WorldInv'
  <2>1. /\ Busily(t) /\ Off(t, "disk", q) /\ UNCHANGED <<clock, completed, under, wakes, lock, waited>>
    BY <1>2 DEF Join
  <2>2. q.start <= clock /\ RequestsInv'
    BY <1>1, <2>1 DEF RequestsInv
  <2> QED BY <1>1, <2>1, <2>2, OffStep DEF Whys
<1>3. CASE Block(t)
  <2>1. /\ Busily(t) /\ lock # Nobody /\ Off(t, "lock", lock)
        /\ UNCHANGED <<clock, completed, under, wakes, lock, waited>>
    BY <1>3 DEF Block
  <2>2. RequestsInv'
    BY <1>1, <2>1 DEF RequestsInv
  <2> QED BY <1>1, <2>1, <2>2, OffStep DEF Whys
<1>4. CASE AwaitMessage(t)
  <2>1. /\ Busily(t) /\ lock # t /\ Off(t, "user", Nobody)
        /\ UNCHANGED <<clock, completed, under, wakes, lock, waited>>
    BY <1>4 DEF AwaitMessage
  <2>2. RequestsInv'
    BY <1>1, <2>1 DEF RequestsInv
  <2> QED BY <1>1, <2>1, <2>2, OffStep DEF Whys
<1> QED BY <1>2, <1>3, <1>4

LEMMA TakeStep == ASSUME WorldInv, NEW t \in Threads, Take(t) PROVE WorldInv'
<1>1. /\ doing[t].why = "runs" /\ lock = Nobody /\ lock' = t
      /\ UNCHANGED <<clock, completed, under, offs, wakes, doing, waited>>
  BY DEF Take, Busily, Runs
<1>2. StuckTypes /\ RequestsInv /\ DoingInv
  BY DEF WorldInv
<1>3. StuckTypes' /\ RequestsInv'
  BY <1>1, <1>2 DEF StuckTypes, RequestsInv
<1>4. /\ \A x \in Threads : doing[x].why # "lock"
      /\ \A x \in Threads : doing[x].why = "user" => lock' # x
  BY <1>1, <1>2 DEF DoingInv
<1> QED BY <1>1, <1>3, <1>4, IdleStep

(* A completion, the lock's holder or a message wakes a thread. *)
LEMMA DiskWakeStep == ASSUME WorldInv, NEW t \in Threads, WakeFromDisk(t) PROVE WorldInv'
<1>1. DOMAIN completed = 1 .. Len(completed) /\ Nobody \notin Threads
  BY Basics, StuckAssumption DEF WorldInv
<1>2. PICK i \in 1 .. Len(completed) : completed[i].req = doing[t].what /\ Wake(t, Nobody, completed[i].end)
  BY <1>1 DEF WakeFromDisk
<1>3. doing[t].why = "disk" /\ UNCHANGED <<clock, completed, under, offs, lock>>
  BY DEF WakeFromDisk, Lapse
<1>4. \E c \in 1 .. Len(completed) : completed[c].req = doing[t].what /\ completed[c].end = completed[i].end
  BY <1>2
<1> QED BY <1>1, <1>2, <1>3, <1>4, WakeStep

LEMMA MessageStep == ASSUME WorldInv, NEW t \in Threads, NEW by \in Threads, Message(t, by) PROVE WorldInv'
<1>1. /\ doing[t].why = "user" /\ clock > doing[t].since /\ doing[by].why = "runs"
      /\ Wake(t, by, clock) /\ UNCHANGED <<clock, completed, under, offs, lock>>
  BY DEF Message, Busily, Runs
<1>2. doing[t].since \in Int /\ clock \in Nat
  BY DEF WorldInv, StuckTypes
<1> QED BY <1>1, <1>2, WakeStep

LEMMA ReleaseStep == ASSUME WorldInv, NEW t \in Threads, Release(t) PROVE WorldInv'
<1> DEFINE waiting == {u \in Threads : doing[u].why = "lock"}
<1>1. /\ doing[t].why = "runs" /\ lock = t /\ UNCHANGED <<clock, completed, under, offs>>
      /\ IF waiting = {} THEN lock' = Nobody /\ UNCHANGED <<wakes, doing, waited>>
         ELSE \E u \in waiting : lock' = u /\ Wake(u, t, clock)
  BY DEF Release, Busily, Runs
<1>2. StuckTypes /\ RequestsInv /\ DoingInv /\ LockInv /\ Nobody \notin Threads
  BY StuckAssumption DEF WorldInv
<1>3. CASE waiting = {}
  <2>1. lock' = Nobody /\ UNCHANGED <<wakes, doing, waited>> /\ \A x \in Threads : doing[x].why # "lock"
    BY <1>1, <1>3
  <2>2. StuckTypes' /\ RequestsInv'
    BY <1>1, <1>2, <2>1 DEF StuckTypes, RequestsInv
  <2> QED BY <1>1, <1>2, <2>1, <2>2, IdleStep
<1>4. CASE waiting # {}
  <2>1. PICK u \in Threads : doing[u].why = "lock" /\ lock' = u /\ Wake(u, t, clock)
    BY <1>1, <1>4
  <2>2. Away(t, doing[u].since, clock) => AwayNotIdle(t, doing[u].since, clock)
    BY <1>1, <1>2, <2>1 DEF LockInv
  <2> QED BY <1>1, <2>1, <2>2, WakeStep
<1> QED BY <1>3, <1>4

(* The invariants of the world read none of the other variables. *)
LEMMA WorldStutter ==
  WorldInv /\ UNCHANGED <<clock, completed, under, offs, wakes, doing, lock, waited>> => WorldInv'
<1> SUFFICES ASSUME WorldInv, UNCHANGED <<clock, completed, under, offs, wakes, doing, lock, waited>>
             PROVE  WorldInv'
  OBVIOUS
<1>1. StuckTypes'
  BY DEF WorldInv, StuckTypes
<1>2. RequestsInv'
  BY DEF WorldInv, RequestsInv
<1>3. DoingInv'
  BY DEF WorldInv, DoingInv, LastOff
<1>4. WaitedInv'
  BY DEF WorldInv, WaitedInv, OffOf, DiskOf
<1>5. LockInv'
  BY DEF WorldInv, LockInv, Away, AwayNotIdle
<1>6. WakesInv'
  BY DEF WorldInv, WakesInv, EndOf, Away, AwayNotIdle
<1> QED BY <1>1, <1>2, <1>3, <1>4, <1>5, <1>6 DEF WorldInv

(* The waits, their records and the lock are as they should be, whatever   *)
(* the threads do.                                                         *)
LEMMA WorldStep == WorldInv /\ StuckNext => WorldInv'
<1> SUFFICES ASSUME WorldInv, StuckNext PROVE WorldInv'
  OBVIOUS
<1>1. CASE Pass
  BY <1>1, PassStep
<1>2. ASSUME NEW t \in Threads,
             \/ \E d \in Drives, op \in Ops, sleeps \in BOOLEAN : Issue(t, d, op, sleeps)
             \/ \E q \in under : Join(t, q)
             \/ Take(t) \/ Block(t) \/ AwaitMessage(t) \/ WakeFromDisk(t) \/ Release(t)
             \/ \E by \in Threads : Message(t, by)
      PROVE  WorldInv'
  BY <1>2, IssueStep, WaitingStep, TakeStep, DiskWakeStep, ReleaseStep, MessageStep
<1>3. ASSUME NEW q \in under, Finish(q) PROVE WorldInv'
  BY <1>3, FinishStep
<1>4. ASSUME NEW i \in DOMAIN completed, explain_io(i) PROVE WorldInv'
  <2>1. UNCHANGED <<clock, completed, under, offs, wakes, doing, lock, waited>>
    BY <1>4 DEF explain_io
  <2> QED BY <2>1, WorldStutter
<1> QED BY <1>1, <1>2, <1>3, <1>4 DEF StuckNext

-----------------------------------------------------------------------------
(* Of the records of a thread's waits, the last before a wake-up is that   *)
(* of the wait it ended.                                                   *)
LEMMA WaitBefore ==
  ASSUME WorldInv, NEW w \in waited
  PROVE  /\ Before(w.tid, w.to) # {}
         /\ wait_before(w.tid, w.to).ts = w.from /\ wait_before(w.tid, w.to).reason = w.why
<1>1. WaitedInv /\ DOMAIN offs = 1 .. Len(offs) /\ Len(offs) \in Nat
      /\ \A j \in 1 .. Len(offs) : offs[j].ts \in Nat
  BY Basics DEF WorldInv
<1>2. w.from \in Int /\ w.to \in Int /\ w.from <= w.to
  BY <1>1 DEF WaitedInv
<1>3. PICK i \in 1 .. Len(offs) : OffOf(w, i)
  BY <1>1 DEF WaitedInv
<1> DEFINE B == Before(w.tid, w.to)
<1>4. i \in B /\ B \subseteq 1 .. Len(offs)
  BY <1>1, <1>2, <1>3 DEF Before, OffOf
<1>5. \A j \in B : j <= i
  BY <1>1, <1>2, <1>3 DEF Before, OffOf
<1> HIDE DEF B
<1>6. Max(B) \in B /\ \A y \in B : Max(B) >= y
  <2>1. \A y \in B : i >= y
    BY <1>4, <1>5
  <2> QED BY <1>4, <2>1 DEF Max
<1>7. Max(B) = i
  <2>1. PICK m : m = Max(B)
    OBVIOUS
  <2>2. m \in 1 .. Len(offs) /\ m <= i /\ m >= i
    BY <1>4, <1>5, <1>6, <2>1
  <2> QED BY <1>1, <2>1, <2>2
<1> QED BY <1>3, <1>4, <1>7 DEF wait_before, B, OffOf

(* The first of some records is one of them. *)
LEMMA FirstOf ==
  ASSUME NEW S, S \subseteq Nat, S # {}
  PROVE  Min(S) \in S /\ \A n \in S : Min(S) <= n
<1>1. \E m \in S : \A n \in S : m <= n
  BY LeastNatural
<1> QED BY <1>1 DEF Min

(* The largest of some bounded numbers is one of them. *)
LEMMA LargestOf ==
  ASSUME NEW S, S \subseteq Int, S # {}, NEW b \in Int, \A n \in S : n <= b
  PROVE  Max(S) \in S /\ \A n \in S : n <= Max(S)
<1> DEFINE T == {b - n : n \in S}
<1>1. T \subseteq Nat /\ T # {}
  <2>1. \A n \in S : b - n \in Nat
    OBVIOUS
  <2> QED BY <2>1
<1>2. PICK m \in T : \A k \in T : m <= k
  <2> HIDE DEF T
  <2> QED BY <1>1, LeastNatural
<1>3. PICK x \in S : m = b - x
  BY <1>2
<1>4. \A n \in S : x >= n
  <2> SUFFICES ASSUME NEW n \in S PROVE x >= n
    OBVIOUS
  <2>1. b - x <= b - n
    BY <1>2, <1>3
  <2> QED BY <2>1
<1>5. Max(S) \in S /\ \A n \in S : Max(S) >= n
  BY <1>3, <1>4 DEF Max
<1> QED BY <1>5

(* Whoever is said to have been stuck was woken by a wake-up of its own.   *)
LEMMA StuckBehind ==
  ASSUME StuckTypes, NEW slow, NEW s \in stuck_behind(slow)
  PROVE  /\ s.tid \in Threads
         /\ \E k \in 1 .. Len(wakes) :
              /\ wakes[k].tid = s.tid /\ wakes[k].ts = s.woke_at /\ Stuck(slow, wakes[k])
              /\ s.waited = wakes[k].ts - wait_before(s.tid, wakes[k].ts).ts
              /\ \A j \in 1 .. Len(wakes) : wakes[j].tid = s.tid /\ Stuck(slow, wakes[j]) => k <= j
<1>1. DOMAIN wakes = 1 .. Len(wakes) /\ Len(wakes) \in Nat
  BY Basics
<1> DEFINE ends(t) == {i \in DOMAIN wakes : wakes[i].tid = t /\ Stuck(slow, wakes[i])}
           first(t) == wakes[Min(ends(t))]
<1>2. PICK t \in Threads :
        /\ ends(t) # {}
        /\ s = [tid |-> t, woke_at |-> first(t).ts, waited |-> first(t).ts - wait_before(t, first(t).ts).ts]
  BY DEF stuck_behind
<1>3. ends(t) \subseteq 1 .. Len(wakes) /\ ends(t) \subseteq Nat
  BY <1>1
<1>4. PICK k : k = Min(ends(t))
  OBVIOUS
<1>5. k \in ends(t) /\ \A j \in ends(t) : k <= j
  <2> HIDE DEF ends
  <2> QED BY <1>2, <1>3, <1>4, FirstOf
<1>6. s.tid = t /\ s.woke_at = wakes[k].ts /\ s.waited = wakes[k].ts - wait_before(t, wakes[k].ts).ts
  BY <1>2, <1>4
<1> QED BY <1>1, <1>5, <1>6

(* What ended a wait for which a thread is said to have been stuck: the    *)
(* request itself, one it had issued, or one whose wake-up came late.      *)
LEMMA StuckRightly ==
  ASSUME WorldInv, NEW i \in 1 .. Len(completed), NEW k \in 1 .. Len(wakes),
         Stuck(completed[i], wakes[k])
  PROVE  \E w \in waited :
           /\ EndOf(w, k)
           /\ \/ w.what = completed[i].req
              \/ wakes[k].tid = completed[i].req.tid
              \/ w.why = "disk" /\ w.to > w.done
<1>1. PICK w \in waited : EndOf(w, k)
  BY DEF WorldInv, WakesInv
<1>2. w.tid = wakes[k].tid /\ w.to = wakes[k].ts
  BY <1>1 DEF EndOf
<1>3. wait_before(w.tid, w.to).ts = w.from /\ wait_before(w.tid, w.to).reason = w.why
  BY WaitBefore
<1> SUFFICES ASSUME w.what # completed[i].req, wakes[k].tid # completed[i].req.tid
             PROVE  w.why = "disk" /\ w.to > w.done
  BY <1>1
<1>4. PICK off : off = wait_before(w.tid, w.to)
  OBVIOUS
<1>5. /\ w.to <= completed[i].end + ReadyAfter /\ disk_wait(off.reason)
      /\ ~rival(completed[i], off, w.to) /\ w.to - off.ts >= StuckMin
  BY <1>2, <1>4 DEF Stuck
<1>6. w.why = "disk" /\ off.ts = w.from
  BY <1>3, <1>4, <1>5 DEF disk_wait
<1>7. /\ \A j \in 1 .. Len(completed) :
           /\ completed[j].end \in Int /\ completed[j].dur \in Int /\ completed[j].req.start \in Int
      /\ DOMAIN completed = 1 .. Len(completed)
      /\ w.from \in Int /\ w.to \in Int /\ StuckMin \in Nat \ {0}
  BY Basics, StuckAssumption DEF WorldInv, WaitedInv
<1>8. PICK c \in 1 .. Len(completed) : DiskOf(w, c)
  BY <1>6 DEF WorldInv, WaitedInv
<1>9. /\ completed[c].req = w.what /\ completed[c].end = w.done
      /\ w.what.start <= w.from /\ w.from <= w.done /\ w.done <= w.to
      /\ completed[c].dur = completed[c].end - completed[c].req.start
  BY <1>8 DEF DiskOf, WorldInv, RequestsInv
<1>10. ASSUME w.to = w.done PROVE FALSE
  <2>1. Started(completed[c]) = completed[c].req.start
    BY <1>7, <1>9 DEF Started
  <2>2. Started(completed[c]) <= off.ts /\ off.ts < completed[c].end
    BY <1>5, <1>6, <1>7, <1>9, <1>10, <2>1
  <2>3. Apart(completed[c].end, w.to) = 0 /\ 0 <= Apart(completed[i].end, w.to)
    BY <1>7, <1>9, <1>10 DEF Apart
  <2>4. completed[c].req # completed[i].req /\ completed[c].end <= completed[i].end + ReadyAfter
    BY <1>5, <1>9, <1>10
  <2> QED BY <1>5, <1>7, <2>2, <2>3, <2>4 DEF rival
<1> QED BY <1>6, <1>7, <1>9, <1>10

(* What is newly said of who was stuck, and of the locks they held. *)
LEMMA SaidOfStuck ==
  ASSUME WorldInv, NEW i \in 1 .. Len(completed), NEW a, a.slow = completed[i],
         a.stuck \subseteq stuck_behind(completed[i])
  PROVE  StuckTrue(a)
<1> SUFFICES ASSUME NEW s \in a.stuck
             PROVE  \E w \in waited :
                      /\ w.tid = s.tid /\ w.to = s.woke_at
                      /\ \/ w.what = a.slow.req \/ s.tid = a.slow.req.tid
                         \/ w.why = "disk" /\ w.to > w.done
  BY DEF StuckTrue
<1>1. PICK k \in 1 .. Len(wakes) :
        wakes[k].tid = s.tid /\ wakes[k].ts = s.woke_at /\ Stuck(completed[i], wakes[k])
  BY StuckBehind DEF WorldInv
<1>2. PICK w \in waited : /\ EndOf(w, k)
                          /\ \/ w.what = completed[i].req
                             \/ wakes[k].tid = completed[i].req.tid
                             \/ w.why = "disk" /\ w.to > w.done
  BY <1>1, StuckRightly
<1> QED BY <1>1, <1>2 DEF EndOf

LEMMA SaidOfChains ==
  ASSUME WorldInv, NEW i \in 1 .. Len(completed), NEW a,
         a.chains \subseteq lock_chains(completed[i], stuck_behind(completed[i]))
  PROVE  ChainTrue(a)
<1> DEFINE slow == completed[i]
           stuck == stuck_behind(slow)
           ends(t) == {j \in DOMAIN wakes : wakes[j].tid = t /\ Chain(slow, stuck, wakes[j])}
           first(t) == wakes[Min(ends(t))]
<1> SUFFICES ASSUME NEW c \in a.chains
             PROVE  \E w \in waited :
                      /\ w.tid = c.waiter /\ w.to = c.woke_at /\ w.why = "lock"
                      /\ c.waited = w.to - w.from /\ AwayNotIdle(c.holder, w.from, c.woke_at)
  BY DEF ChainTrue
<1>1. PICK t \in Threads :
        /\ ends(t) # {}
        /\ c = [waiter |-> t, holder |-> first(t).by, woke_at |-> first(t).ts,
                waited |-> first(t).ts - wait_before(t, first(t).ts).ts]
  BY DEF lock_chains
<1>2. DOMAIN wakes = 1 .. Len(wakes) /\ Len(wakes) \in Nat
  BY Basics DEF WorldInv
<1>3. PICK k : k = Min(ends(t))
  OBVIOUS
<1>4. k \in 1 .. Len(wakes) /\ wakes[k].tid = t /\ Chain(slow, stuck, wakes[k])
  <2>1. ends(t) \subseteq Nat
    BY <1>2
  <2>2. k \in ends(t)
    <3> HIDE DEF ends
    <3> QED BY <1>1, <1>3, <2>1, FirstOf
  <2> QED BY <1>2, <2>2
<1>5. /\ c.waiter = t /\ c.holder = wakes[k].by /\ c.woke_at = wakes[k].ts
      /\ c.waited = wakes[k].ts - wait_before(t, wakes[k].ts).ts
  BY <1>1, <1>3
<1>6. PICK w \in waited : EndOf(w, k)
  BY <1>4 DEF WorldInv, WakesInv
<1>7. w.tid = t /\ w.to = wakes[k].ts
  BY <1>4, <1>6 DEF EndOf
<1>8. wait_before(t, wakes[k].ts).ts = w.from /\ wait_before(t, wakes[k].ts).reason = w.why
  BY <1>7, WaitBefore
<1>9. PICK h \in stuck :
        /\ h.tid = wakes[k].by /\ h.woke_at <= wakes[k].ts
        /\ w.from < h.woke_at /\ lock_wait(w.why)
  BY <1>4, <1>7, <1>8 DEF Chain
<1>10. PICK u \in waited : u.tid = h.tid /\ u.to = h.woke_at
  <2>1. PICK j \in 1 .. Len(wakes) : wakes[j].tid = h.tid /\ wakes[j].ts = h.woke_at
    BY StuckBehind DEF WorldInv
  <2>2. PICK u \in waited : EndOf(u, j)
    BY DEF WorldInv, WakesInv
  <2> QED BY <2>1, <2>2 DEF EndOf
<1>11. Away(wakes[k].by, w.from, w.to)
  BY <1>7, <1>9, <1>10 DEF Away
<1>12. AwayNotIdle(wakes[k].by, w.from, w.to)
  BY <1>6, <1>9, <1>11 DEF EndOf, lock_wait
<1> QED BY <1>5, <1>7, <1>8, <1>9, <1>12 DEF lock_wait

(* Whoever waited long enough for a slow request, and for whom no other    *)
(* request completed as close, is among the ones found to be stuck.        *)
NoCloser(slow, w) ==
  \A i \in DOMAIN completed : completed[i].req # slow.req => Apart(completed[i].end, w.to) > Apart(slow.end, w.to)

LEMMA VictimFound ==
  ASSUME WorldInv, NEW i \in 1 .. Len(completed), NEW w \in waited,
         w.why = "disk", w.what = completed[i].req, w.from < completed[i].end,
         w.to - w.from >= StuckMin, NoCloser(completed[i], w)
  PROVE  \E s \in stuck_behind(completed[i]) : s.tid = w.tid /\ s.waited = w.to - w.from
<1> DEFINE slow == completed[i]
<1>1. /\ \A j \in 1 .. Len(completed) :
           /\ completed[j].end \in Int /\ completed[j].dur \in Int /\ completed[j].req.start \in Int
      /\ DOMAIN completed = 1 .. Len(completed) /\ DOMAIN wakes = 1 .. Len(wakes) /\ Len(wakes) \in Nat
      /\ \A k \in 1 .. Len(wakes) : wakes[k].ts \in Int
  BY Basics DEF WorldInv
<1>2. /\ w.tid \in Threads /\ w.from \in Int /\ w.to \in Int /\ w.from <= w.to
      /\ \E c \in 1 .. Len(completed) : DiskOf(w, c)
      /\ \E k \in 1 .. Len(wakes) : wakes[k].tid = w.tid /\ wakes[k].ts = w.to
  BY DEF WorldInv, WaitedInv
<1>3. /\ StuckMin \in Nat \ {0} /\ ReadyBefore \in Nat /\ ReadyAfter \in Nat /\ Lag \in Nat
      /\ ReadyBefore + ReadyAfter <= StuckMin /\ Lag <= ReadyAfter
  BY StuckAssumption
<1>4. PICK c \in 1 .. Len(completed) : DiskOf(w, c)
  BY <1>2
<1>5. c = i
  BY <1>4 DEF DiskOf, WorldInv, RequestsInv
<1>6. /\ slow.end = w.done /\ slow.req.start <= w.from /\ w.done <= w.to /\ w.to <= w.done + Lag
      /\ slow.dur = slow.end - slow.req.start /\ slow.end \in Int /\ slow.req.start \in Int
      /\ w.from < slow.end
  BY <1>1, <1>4, <1>5 DEF DiskOf, WorldInv, RequestsInv
<1>7. PICK k \in 1 .. Len(wakes) : wakes[k].tid = w.tid /\ wakes[k].ts = w.to
  BY <1>2
<1>8. /\ Before(w.tid, w.to) # {}
      /\ wait_before(w.tid, w.to).ts = w.from /\ wait_before(w.tid, w.to).reason = "disk"
  BY WaitBefore
<1>9. Stuck(slow, wakes[k])
  <2>1. Started(slow) = slow.req.start
    BY <1>6 DEF Started
  <2>2. \A off : ~rival(slow, off, w.to)
    <3>1. \A j \in 1 .. Len(completed) :
            completed[j].req # slow.req => ~(Apart(completed[j].end, w.to) <= Apart(slow.end, w.to))
      <4>1. \A j \in 1 .. Len(completed) : Apart(completed[j].end, w.to) \in Int
        <5>1. \A x, y \in Int : Apart(x, y) \in Int BY DEF Apart
        <5>2. \A j \in 1 .. Len(completed) : completed[j].end \in Int BY <1>1
        <5> QED BY <5>1, <5>2, <1>2
      <4>2. PICK b \in Int : b = Apart(slow.end, w.to)
        BY <4>1
      <4>3. \A j \in 1 .. Len(completed) : completed[j].req # slow.req => Apart(completed[j].end, w.to) > b
        BY <1>1, <4>2 DEF NoCloser
      <4>4. ASSUME NEW j \in 1 .. Len(completed), completed[j].req # slow.req
            PROVE  ~(Apart(completed[j].end, w.to) <= b)
        <5>1. PICK x \in Int : x = Apart(completed[j].end, w.to)
          BY <4>1
        <5>2. x > b
          BY <4>3, <4>4, <5>1
        <5> QED BY <5>1, <5>2
      <4> QED BY <4>2, <4>4
    <3> QED BY <1>1, <3>1 DEF rival
  <2>3. slow.end - ReadyBefore <= w.to /\ w.to <= slow.end + ReadyAfter
    <3>1. slow.end <= w.to /\ w.to <= slow.end + Lag
      BY <1>6
    <3> HIDE DEF slow
    <3>2. PICK e \in Int, f \in Int : e = slow.end /\ f = w.to
      BY <1>2, <1>6
    <3>3. e - ReadyBefore <= f
      BY <1>3, <3>1, <3>2
    <3>4. f <= e + ReadyAfter
      BY <1>3, <3>1, <3>2
    <3> QED BY <3>2, <3>3, <3>4
  <2> HIDE DEF slow
  <2> QED BY <1>6, <1>7, <1>8, <2>1, <2>2, <2>3 DEF Stuck, disk_wait, slow
<1> DEFINE ends(t) == {j \in DOMAIN wakes : wakes[j].tid = t /\ Stuck(slow, wakes[j])}
           first(t) == wakes[Min(ends(t))]
           s == [tid |-> w.tid, woke_at |-> first(w.tid).ts,
                 waited |-> first(w.tid).ts - wait_before(w.tid, first(w.tid).ts).ts]
<1>10. k \in ends(w.tid)
  BY <1>1, <1>7, <1>9
<1>11. s \in stuck_behind(slow)
  BY <1>2, <1>10 DEF stuck_behind
<1>12. PICK m : m = Min(ends(w.tid))
  OBVIOUS
<1>13. m \in 1 .. Len(wakes) /\ wakes[m].tid = w.tid /\ Stuck(slow, wakes[m])
  <2>1. ends(w.tid) \subseteq Nat
    BY <1>1
  <2>2. m \in ends(w.tid)
    <3> HIDE DEF ends
    <3> QED BY <1>10, <1>12, <2>1, FirstOf
  <2> QED BY <1>1, <2>2
<1>14. PICK v \in waited : v.tid = w.tid /\ v.to = wakes[m].ts
  <2>1. PICK v \in waited : EndOf(v, m)
    BY <1>13 DEF WorldInv, WakesInv
  <2> QED BY <1>13, <2>1 DEF EndOf
<1>15. v = w
  <2>1. v = w \/ v.to < w.from \/ w.to < v.from
    BY <1>14 DEF WorldInv, WaitedInv
  <2>2. wait_before(v.tid, v.to).ts = v.from
    BY WaitBefore
  <2>3. slow.end - ReadyBefore <= v.to /\ v.from < slow.end
    BY <1>13, <1>14, <2>2 DEF Stuck
  <2>4. v.from \in Int /\ v.to \in Int
    BY DEF WorldInv, WaitedInv
  <2> HIDE DEF slow
  <2>5. ~(w.to < v.from)
    BY <1>2, <1>6, <2>3, <2>4
  <2>6. ~(v.to < w.from)
    <3>1. PICK e \in Int, f \in Int, g \in Int, h \in Int :
            e = slow.end /\ f = w.to /\ g = w.from /\ h = v.to
      BY <1>2, <1>6, <2>4
    <3>2. e - ReadyBefore <= h /\ g < e /\ f <= e + Lag /\ f - g >= StuckMin
      BY <1>6, <2>3, <3>1
    <3>3. ~(h < g)
      <4> SUFFICES ASSUME h < g PROVE FALSE
        OBVIOUS
      <4>1. e - ReadyBefore < g
        BY <1>3, <3>2
      <4>2. f - g < ReadyAfter + ReadyBefore
        BY <1>3, <3>2, <4>1
      <4>3. f - g < StuckMin
        BY <1>3, <4>2
      <4> QED BY <1>3, <3>2, <4>3
    <3> QED BY <3>1, <3>3
  <2> QED BY <2>1, <2>5, <2>6
<1>16. s.tid = w.tid /\ s.waited = w.to - w.from
  BY <1>8, <1>12, <1>14, <1>15
<1> QED BY <1>11, <1>16

-----------------------------------------------------------------------------
(* What an answer owes the wait w: its thread is named with all of it. *)
OwedTo(a, w) ==
  /\ a.covered /\ w.why = "disk" /\ w.what = a.slow.req /\ w.from < a.slow.end
  /\ w.to - w.from >= StuckMin /\ Named(w.tid) /\ NoCloser(a.slow, w)

IsNamed(a, w) ==
  /\ \E s \in a.stuck : s.tid = w.tid /\ s.waited = w.to - w.from
  /\ \E v \in a.victims : v.name = thread_program(w.tid) /\ v.longest >= w.to - w.from

LEMMA VictimsNamed == EveryVictimIsNamed <=> \A a \in answers : \A w \in waited : OwedTo(a, w) => IsNamed(a, w)
  BY DEF EveryVictimIsNamed, OwedTo, IsNamed, NoCloser

(* Of the waits for one request none is added once it has been answered.   *)
LEMMA AnswersStay ==
  ASSUME AnswerInv, UNCHANGED answers, waited \subseteq waited', clock' \in Int, clock <= clock',
         \A c \in 1 .. Len(completed) : c \in 1 .. Len(completed') /\ completed'[c] = completed[c],
         DOMAIN completed' = 1 .. Len(completed'),
         \A w \in waited' \ waited : w.why = "disk" =>
           \E c \in 1 .. Len(completed) : completed[c].req = w.what /\ clock <= completed[c].end + Lag
  PROVE  AnswersInv' /\ EveryVictimIsNamed'
<1>1. /\ WorldInv /\ AnswersInv /\ \A a \in answers : \A w \in waited : OwedTo(a, w) => IsNamed(a, w)
  BY VictimsNamed DEF AnswerInv
<1>2. /\ DOMAIN completed = 1 .. Len(completed) /\ clock \in Nat
      /\ \A c \in 1 .. Len(completed) : completed[c].end \in Int
      /\ Lag \in Nat /\ ReadyAfter \in Nat /\ Lag <= ReadyAfter
  BY <1>1, Basics, StuckAssumption DEF WorldInv
<1>3. AnswersInv'
  <2> SUFFICES ASSUME NEW a \in answers
               PROVE  /\ \E i \in 1 .. Len(completed') : completed'[i] = a.slow
                      /\ clock' > a.slow.end + ReadyAfter
                      /\ StuckTrue(a)' /\ ChainTrue(a)'
    BY DEF AnswersInv
  <2>1. PICK i \in 1 .. Len(completed) : completed[i] = a.slow
    BY <1>1 DEF AnswersInv
  <2>2. clock > a.slow.end + ReadyAfter /\ StuckTrue(a) /\ ChainTrue(a)
    BY <1>1 DEF AnswersInv
  <2>3. StuckTrue(a)'
    BY <2>2 DEF StuckTrue
  <2>4. ChainTrue(a)'
    BY <2>2 DEF ChainTrue, AwayNotIdle
  <2>5. clock' > a.slow.end + ReadyAfter
    BY <1>2, <2>1, <2>2
  <2> QED BY <2>1, <2>3, <2>4, <2>5
<1>4. ASSUME NEW a \in answers, NEW w \in waited', OwedTo(a, w)'
      PROVE  IsNamed(a, w)
  <2>1. PICK i \in 1 .. Len(completed) : completed[i] = a.slow /\ clock > completed[i].end + ReadyAfter
    BY <1>1 DEF AnswersInv
  <2>2. CASE w \in waited
    <3>1. OwedTo(a, w)
      BY <1>2, <1>4 DEF OwedTo, NoCloser
    <3> QED BY <1>1, <2>2, <3>1
  <2>3. CASE w \notin waited
    <3>1. w.why = "disk" /\ w.what = completed[i].req
      BY <1>4, <2>1 DEF OwedTo
    <3>2. PICK c \in 1 .. Len(completed) : completed[c].req = w.what /\ clock <= completed[c].end + Lag
      BY <2>3, <3>1
    <3>3. c = i
      BY <1>1, <3>1, <3>2 DEF WorldInv, RequestsInv
    <3> QED BY <1>2, <2>1, <3>2, <3>3
  <2> QED BY <2>2, <2>3
<1>5. EveryVictimIsNamed'
  <2>1. \A a \in answers' : \A w \in waited' : OwedTo(a, w)' => IsNamed(a, w)'
    BY <1>4 DEF IsNamed
  <2> QED BY <2>1 DEF EveryVictimIsNamed, OwedTo, IsNamed, NoCloser
<1> QED BY <1>3, <1>5

(* What Windows does makes no answer untrue. *)
LEMMA AnswersAfterWorld ==
  ASSUME AnswerInv, WorldInv', UNCHANGED answers, StuckNext
  PROVE  AnswersInv' /\ EveryVictimIsNamed'
<1>1. /\ WorldInv /\ StuckTypes' /\ DOMAIN completed = 1 .. Len(completed)
      /\ DOMAIN completed' = 1 .. Len(completed') /\ clock \in Int /\ clock' \in Int
  <2>1. StuckTypes
    BY DEF AnswerInv, WorldInv
  <2>2. StuckTypes'
    BY DEF WorldInv
  <2>3. completed' \in Seq(DoneRec) /\ clock' \in Nat
    BY <2>2 DEF StuckTypes
  <2> QED BY <2>1, <2>2, <2>3, Basics, LenProperties DEF AnswerInv
<1>2. ASSUME waited' = waited, completed' = completed, clock <= clock'
      PROVE  AnswersInv' /\ EveryVictimIsNamed'
  BY <1>1, <1>2, AnswersStay
<1>3. CASE Pass
  BY <1>1, <1>2, <1>3 DEF Pass
<1>4. ASSUME NEW q \in under, Finish(q)
      PROVE  AnswersInv' /\ EveryVictimIsNamed'
  <2>1. waited' = waited /\ clock' = clock
    BY <1>4 DEF Finish
  <2> QED BY <1>1, <1>4, <2>1, FinishStep, AnswersStay
<1>5. ASSUME NEW t \in Threads, NEW by, NEW done, Wake(t, by, done), UNCHANGED <<clock, completed, under>>,
             doing[t].why = "disk" => doing[t].what \notin under
      PROVE  AnswersInv' /\ EveryVictimIsNamed'
  <2>1. PICK w0 : w0 = [tid |-> t, from |-> doing[t].since, to |-> clock, why |-> doing[t].why,
                        what |-> doing[t].what, done |-> done]
    OBVIOUS
  <2>2. waited' = waited \cup {w0} /\ w0.why = doing[t].why /\ w0.what = doing[t].what
    BY <1>5, <2>1 DEF Wake
  <2>3. w0.why = "disk" =>
          \E c \in 1 .. Len(completed) : completed[c].req = w0.what /\ clock <= completed[c].end + Lag
    BY <1>1, <1>5, <2>2 DEF WorldInv, DoingInv
  <2>4. \A w \in waited' \ waited : w.why = "disk" =>
          \E c \in 1 .. Len(completed) : completed[c].req = w.what /\ clock <= completed[c].end + Lag
    BY <2>2, <2>3
  <2> QED BY <1>1, <1>5, <2>2, <2>4, AnswersStay
<1>6. ASSUME NEW t \in Threads,
             \/ \E d \in Drives, op \in Ops, sleeps \in BOOLEAN : Issue(t, d, op, sleeps)
             \/ \E q \in under : Join(t, q)
             \/ Take(t) \/ Block(t) \/ AwaitMessage(t)
      PROVE  AnswersInv' /\ EveryVictimIsNamed'
  <2>1. waited' = waited /\ completed' = completed /\ clock' = clock
    BY <1>6 DEF Issue, Join, Take, Block, AwaitMessage
  <2> QED BY <1>1, <1>2, <2>1
<1>7. ASSUME NEW t \in Threads, WakeFromDisk(t)
      PROVE  AnswersInv' /\ EveryVictimIsNamed'
  BY <1>5, <1>7 DEF WakeFromDisk, Lapse
<1>8. ASSUME NEW t \in Threads, Release(t)
      PROVE  AnswersInv' /\ EveryVictimIsNamed'
  <2>1. UNCHANGED <<clock, completed, under>>
    BY <1>8 DEF Release
  <2>2. CASE waited' = waited
    BY <1>1, <1>2, <2>1, <2>2
  <2>3. CASE waited' # waited
    <3>1. PICK u \in Threads : doing[u].why = "lock" /\ Wake(u, t, clock)
      BY <1>8, <2>3 DEF Release
    <3> QED BY <1>5, <2>1, <3>1
  <2> QED BY <2>2, <2>3
<1>9. ASSUME NEW t \in Threads, NEW by \in Threads, Message(t, by)
      PROVE  AnswersInv' /\ EveryVictimIsNamed'
  BY <1>5, <1>9 DEF Message
<1>10. ASSUME NEW i \in DOMAIN completed, explain_io(i)
       PROVE  AnswersInv' /\ EveryVictimIsNamed'
  <2>1. waited' = waited /\ completed' = completed /\ clock' = clock
    BY <1>10 DEF explain_io
  <2> QED BY <1>1, <1>2, <2>1
<1> QED BY <1>3, <1>4, <1>6, <1>7, <1>8, <1>9, <1>10 DEF StuckNext

(* A program's longest wait is at least that of each of its threads. *)
LEMMA ProgramNamed ==
  ASSUME WorldInv, NEW slow, NEW s \in stuck_behind(slow), Named(s.tid), s.waited \in Int
  PROVE  \E v \in by_program(stuck_behind(slow)) :
           v.name = thread_program(s.tid) /\ v.longest >= s.waited
<1> DEFINE stuck == stuck_behind(slow)
           of(p) == {x \in stuck : thread_program(x.tid) = p}
           p == thread_program(s.tid)
           W == {x.waited : x \in of(p)}
           v == [name |-> p, threads |-> Cardinality(of(p)), longest |-> Max({x.waited : x \in of(p)})]
<1>1. v \in by_program(stuck)
  <2>1. s \in {u \in stuck : Named(u.tid)}
    OBVIOUS
  <2>2. p \in {thread_program(u.tid) : u \in {y \in stuck : Named(y.tid)}}
    BY <2>1
  <2> HIDE DEF stuck
  <2> QED BY <2>2 DEF by_program
<1>2. ASSUME NEW x \in stuck PROVE x.waited \in Int /\ x.waited <= clock
  <2>1. PICK k \in 1 .. Len(wakes) :
          /\ wakes[k].tid = x.tid /\ x.waited = wakes[k].ts - wait_before(x.tid, wakes[k].ts).ts
    BY StuckBehind DEF WorldInv
  <2>2. PICK w \in waited : EndOf(w, k)
    BY DEF WorldInv, WakesInv
  <2>3. w.tid = x.tid /\ w.to = wakes[k].ts
    BY <2>1, <2>2 DEF EndOf
  <2>4. x.waited = w.to - w.from
    BY <2>1, <2>3, WaitBefore
  <2>5. /\ w.tid \in Threads /\ w.from \in Int /\ w.to \in Int /\ w.to <= doing[w.tid].since
        /\ \E i \in 1 .. Len(offs) : OffOf(w, i)
    BY DEF WorldInv, WaitedInv
  <2>6. doing[w.tid].since \in Int /\ doing[w.tid].since <= clock /\ clock \in Nat
    BY <2>5 DEF WorldInv, StuckTypes
  <2>7. w.from >= 0
    BY <2>5, Basics DEF OffOf, WorldInv
  <2> QED BY <2>4, <2>5, <2>6, <2>7
<1>3. W \subseteq Int /\ (\A n \in W : n <= clock) /\ s.waited \in W /\ clock \in Int
  <2>1. s \in of(p)
    OBVIOUS
  <2>2. clock \in Int
    BY DEF WorldInv, StuckTypes
  <2> HIDE DEF stuck
  <2> QED BY <1>2, <2>1, <2>2
<1>4. \A n \in W : n <= Max(W)
  <2> HIDE DEF W
  <2> QED BY <1>3, LargestOf
<1>5. Max(W) \in W
  <2> HIDE DEF W
  <2> QED BY <1>3, LargestOf
<1>6. v.name = p /\ v.longest = Max(W)
  OBVIOUS
<1>7. Max(W) \in Int /\ s.waited <= Max(W)
  <2> HIDE DEF W
  <2> QED BY <1>3, <1>4, <1>5
<1> HIDE DEF W, v
<1> QED BY <1>1, <1>6, <1>7

(* A slow request is explained. *)
LEMMA ExplainStep ==
  ASSUME AnswerInv, NEW i \in 1 .. Len(completed), explain_io(i)
  PROVE  AnswersInv' /\ EveryVictimIsNamed'
<1> DEFINE slow == completed[i]
           stuck == stuck_behind(slow)
<1>1. WorldInv /\ AnswersInv /\ \A a \in answers : \A w \in waited : OwedTo(a, w) => IsNamed(a, w)
  BY VictimsNamed DEF AnswerInv
<1>a. PICK covered \in BOOLEAN :
        answers' = answers \cup
          {[slow |-> slow, covered |-> covered, cause |-> explain_cause(slow), thrashers |-> thrash(slow),
             stuck   |-> IF covered THEN {s \in stuck : Named(s.tid)} ELSE {},
             victims |-> IF covered THEN by_program(stuck) ELSE {},
             chains  |-> IF covered THEN {c \in lock_chains(slow, stuck) : Named(c.waiter)} ELSE {}]}
  BY DEF explain_io
<1>2. PICK a :
        /\ answers' = answers \cup {a}
        /\ a = [slow |-> slow, covered |-> covered, cause |-> explain_cause(slow), thrashers |-> thrash(slow),
                stuck   |-> IF covered THEN {s \in stuck : Named(s.tid)} ELSE {},
                victims |-> IF covered THEN by_program(stuck) ELSE {},
                chains  |-> IF covered THEN {c \in lock_chains(slow, stuck) : Named(c.waiter)} ELSE {}]
  BY <1>a
<1>3. /\ clock > slow.end + ReadyAfter + LockAfter
      /\ UNCHANGED <<clock, completed, under, offs, wakes, doing, lock, waited>>
  BY DEF explain_io
<1>4. /\ a.slow = slow /\ a.covered = covered
      /\ a.stuck = IF covered THEN {s \in stuck : Named(s.tid)} ELSE {}
      /\ a.victims = IF covered THEN by_program(stuck) ELSE {}
      /\ a.chains = IF covered THEN {c \in lock_chains(slow, stuck) : Named(c.waiter)} ELSE {}
  BY <1>2
<1>5. StuckTrue(a)
  <2>1. a.stuck \subseteq stuck
    <3> HIDE DEF stuck
    <3> QED BY <1>4
  <2> QED BY <1>1, <1>4, <2>1, SaidOfStuck
<1>6. ChainTrue(a)
  <2>1. a.chains \subseteq lock_chains(slow, stuck)
    <3> HIDE DEF stuck
    <3> QED BY <1>4
  <2> QED BY <1>1, <2>1, SaidOfChains
<1>7. AnswersInv'
  <2>1. clock > slow.end + ReadyAfter
    <3>1. slow.end \in Int /\ clock \in Int /\ ReadyAfter \in Nat /\ LockAfter \in Nat
      BY <1>1, Basics, StuckAssumption DEF WorldInv
    <3> HIDE DEF slow
    <3> QED BY <1>3, <3>1
  <2>2. ASSUME NEW b \in answers
        PROVE  /\ \E j \in 1 .. Len(completed) : completed[j] = b.slow
               /\ clock > b.slow.end + ReadyAfter /\ StuckTrue(b) /\ ChainTrue(b)
    BY <1>1 DEF AnswersInv
  <2>3. \A b : (StuckTrue(b)' <=> StuckTrue(b)) /\ (ChainTrue(b)' <=> ChainTrue(b))
    BY <1>3 DEF StuckTrue, ChainTrue, AwayNotIdle
  <2>4. /\ \E j \in 1 .. Len(completed) : completed[j] = a.slow
        /\ clock > a.slow.end + ReadyAfter
    BY <1>4, <2>1
  <2> QED BY <1>2, <1>3, <1>5, <1>6, <2>2, <2>3, <2>4 DEF AnswersInv
<1>8. ASSUME NEW w \in waited, OwedTo(a, w) PROVE IsNamed(a, w)
  <2>1. PICK s \in stuck : s.tid = w.tid /\ s.waited = w.to - w.from
    BY <1>1, <1>4, <1>8, VictimFound DEF OwedTo
  <2>2. Named(s.tid) /\ s \in a.stuck /\ covered
    BY <1>4, <1>8, <2>1 DEF OwedTo
  <2>3. s.waited \in Int
    BY <1>1, <2>1 DEF WorldInv, WaitedInv
  <2>4. PICK v \in by_program(stuck) : v.name = thread_program(s.tid) /\ v.longest >= s.waited
    BY <1>1, <2>2, <2>3, ProgramNamed
  <2> HIDE DEF stuck
  <2> QED BY <1>4, <2>1, <2>2, <2>4 DEF IsNamed
<1>9. EveryVictimIsNamed'
  <2>1. \A b, w : OwedTo(b, w)' <=> OwedTo(b, w)
    BY <1>3 DEF OwedTo, NoCloser
  <2>2. \A b \in answers' : \A w \in waited' : OwedTo(b, w) => IsNamed(b, w)
    BY <1>1, <1>2, <1>3, <1>8
  <2>3. \A b \in answers' : \A w \in waited' : OwedTo(b, w)' => IsNamed(b, w)'
    BY <2>1, <2>2 DEF IsNamed
  <2> QED BY <2>3 DEF EveryVictimIsNamed, OwedTo, IsNamed, NoCloser
<1> QED BY <1>7, <1>9

-----------------------------------------------------------------------------
LEMMA AnswerStart == StuckInit => AnswerInv
<1> SUFFICES ASSUME StuckInit PROVE AnswerInv
  OBVIOUS
<1>1. /\ completed = <<>> /\ offs = <<>> /\ wakes = <<>> /\ under = {} /\ waited = {} /\ answers = {}
      /\ clock = 0 /\ lock = Nobody
      /\ doing = [t \in Threads |-> [why |-> "runs", what |-> Nobody, since |-> -1]]
  BY DEF StuckInit
<1>2. /\ completed \in Seq(DoneRec) /\ offs \in Seq(OffRec) /\ wakes \in Seq(WakeRec)
      /\ Len(completed) = 0 /\ Len(offs) = 0 /\ Len(wakes) = 0
  BY <1>1, EmptySeq
<1>3. \A t \in Threads : doing[t].why = "runs" /\ doing[t].since = -1
  BY <1>1
<1>4. StuckTypes
  BY <1>1, <1>2, <1>3 DEF StuckTypes
<1>5. RequestsInv /\ DoingInv /\ WaitedInv /\ LockInv /\ WakesInv
  BY <1>1, <1>2, <1>3 DEF RequestsInv, DoingInv, WaitedInv, LockInv, WakesInv
<1>6. AnswersInv /\ EveryVictimIsNamed
  BY <1>1 DEF AnswersInv, EveryVictimIsNamed
<1> QED BY <1>4, <1>5, <1>6 DEF AnswerInv, WorldInv

LEMMA AnswerNext == AnswerInv /\ [StuckNext]_stuckVars => AnswerInv'
<1> SUFFICES ASSUME AnswerInv, [StuckNext]_stuckVars PROVE AnswerInv'
  OBVIOUS
<1>1. CASE StuckNext
  <2>1. WorldInv /\ WorldInv'
    BY <1>1, WorldStep DEF AnswerInv
  <2>2. CASE answers' = answers
    BY <1>1, <2>1, <2>2, AnswersAfterWorld DEF AnswerInv
  <2>3. CASE answers' # answers
    <3>1. PICK i \in DOMAIN completed : explain_io(i)
      BY <1>1, <2>3 DEF StuckNext, Pass, Issue, Join, Take, Block, AwaitMessage, WakeFromDisk, Release,
                        Message, Finish
    <3>2. i \in 1 .. Len(completed)
      BY <2>1, Basics DEF WorldInv
    <3> QED BY <2>1, <3>1, <3>2, ExplainStep DEF AnswerInv
  <2> QED BY <2>2, <2>3
<1>2. CASE UNCHANGED stuckVars
  <2>1. UNCHANGED <<clock, completed, under, offs, wakes, doing, lock, waited, answers>>
    BY <1>2 DEF stuckVars
  <2>2. WorldInv'
    BY <2>1, WorldStutter DEF AnswerInv
  <2>3. AnswersInv' /\ EveryVictimIsNamed'
    BY <2>1 DEF AnswerInv, AnswersInv, StuckTrue, ChainTrue, AwayNotIdle, EveryVictimIsNamed
  <2> QED BY <2>2, <2>3 DEF AnswerInv
<1> QED BY <1>1, <1>2

(* The wait that ended at a moment is the only one of its thread. *)
LEMMA TheWait == ASSUME WaitedInv, NEW w \in waited PROVE Really(w.tid, w.to) = w
<1>1. \A v \in waited : v.tid = w.tid /\ v.to = w.to => v = w
  BY DEF WaitedInv
<1> QED BY <1>1 DEF Really

(* Every wait has its two records, every record its wait, and no answer    *)
(* becomes untrue by what happens later.                                   *)
THEOREM AnswerInvariant == StuckSpec => []AnswerInv
<1> QED BY AnswerStart, AnswerNext, PTL DEF StuckSpec

(* Nobody is said to have been stuck behind a request who was not: neither *)
(* a later wait nor another request of the same moment can be mistaken for *)
(* it, unless the other's wake-up came late.                               *)
THEOREM StuckReal == StuckSpec => []StuckIsReal
<1>1. AnswerInv => StuckIsReal
  <2> SUFFICES ASSUME AnswerInv, NEW a \in answers, NEW s \in a.stuck
               PROVE  LET w == Really(s.tid, s.woke_at)
                      IN \/ w.what = a.slow.req \/ s.tid = a.slow.req.tid
                         \/ w.why = "disk" /\ w.to > w.done
    BY DEF StuckIsReal
  <2>1. PICK w \in waited :
          /\ w.tid = s.tid /\ w.to = s.woke_at
          /\ \/ w.what = a.slow.req \/ s.tid = a.slow.req.tid
             \/ w.why = "disk" /\ w.to > w.done
    BY DEF AnswerInv, AnswersInv, StuckTrue
  <2>2. Really(s.tid, s.woke_at) = w
    BY <2>1, TheWait DEF AnswerInv, WorldInv
  <2> QED BY <2>1, <2>2
<1> QED BY <1>1, AnswerInvariant, PTL

(* "Held by X, which was waiting on the drive": X had been away for        *)
(* something other than a message while the other waited for its lock.     *)
THEOREM ChainReal == StuckSpec => []ChainIsReal
<1>1. AnswerInv => ChainIsReal
  <2> SUFFICES ASSUME AnswerInv, NEW a \in answers, NEW c \in a.chains
               PROVE  LET w == Really(c.waiter, c.woke_at)
                          h == {u \in waited : /\ u.tid = c.holder /\ u.why # "user"
                                               /\ u.to <= c.woke_at /\ u.to > w.from}
                      IN w.why = "lock" /\ h # {} /\ c.waited = w.to - w.from
    BY DEF ChainIsReal
  <2>1. PICK w \in waited :
          /\ w.tid = c.waiter /\ w.to = c.woke_at /\ w.why = "lock" /\ c.waited = w.to - w.from
          /\ AwayNotIdle(c.holder, w.from, c.woke_at)
    BY DEF AnswerInv, AnswersInv, ChainTrue
  <2>2. Really(c.waiter, c.woke_at) = w
    BY <2>1, TheWait DEF AnswerInv, WorldInv
  <2>3. PICK u \in waited : u.tid = c.holder /\ w.from < u.to /\ u.to <= c.woke_at /\ u.why # "user"
    BY <2>1 DEF AwayNotIdle
  <2>4. u.to > w.from
    BY <2>3
  <2> QED BY <2>1, <2>2, <2>3, <2>4
<1> QED BY <1>1, AnswerInvariant, PTL

(* Whoever waited long for a slow request is named with all of it, and so  *)
(* is its program, whatever else its thread had waited for before.         *)
THEOREM VictimsAreNamed == StuckSpec => []EveryVictimIsNamed
<1>1. AnswerInv => EveryVictimIsNamed
  BY DEF AnswerInv
<1> QED BY <1>1, AnswerInvariant, PTL

-----------------------------------------------------------------------------
(***************************************************************************)
(* Foreground: the sampler keeps its time, so a sample lies before every   *)
(* moment that is looked at, no older than Stale.                          *)
(***************************************************************************)
Wins == FrontPids \cup {Nothing, Ours}

FrontTypes ==
  /\ time \in Nat /\ due \in Nat /\ reading \in Nat \cup {NoSample}
  /\ focus \in Seq([at : Nat, who : Wins]) /\ Len(focus) >= 1
  /\ fronts \in Seq([ts : Nat, front : Wins])
  /\ DOMAIN lives = FrontPids /\ DOMAIN names = FrontPids /\ DOMAIN had = FrontPids

(* The sampler is late by no more than SampleLate, on waking and in storing. *)
SamplerInv ==
  /\ reading = NoSample => time <= due + SampleLate
  /\ reading # NoSample => /\ due <= reading /\ reading <= due + SampleLate
                           /\ reading <= time /\ time <= reading + SampleLate
  /\ Len(fronts) = 0 => due = 0
  /\ Len(fronts) > 0 => /\ fronts[Len(fronts)].ts + SampleEvery <= due
                        /\ due <= fronts[Len(fronts)].ts + SampleLate + SampleEvery

(* The samples lie close, and either reach back to the start or are many.  *)
SamplesInv ==
  /\ Len(fronts) > 0 =>
       fronts[1].ts <= SampleLate \/ Len(fronts) > MaxSamples - MaxSamples \div 2
  /\ \A i \in 1 .. Len(fronts) : \A j \in i .. Len(fronts) :
       fronts[i].ts + (j - i) * SampleEvery <= fronts[j].ts
  /\ \A i \in 1 .. Len(fronts) - 1 : fronts[i + 1].ts <= fronts[i].ts + SampleEvery + 2 * SampleLate

(* Every sample is of who had the window when it was taken. *)
SeenInv ==
  /\ \A j \in 1 .. Len(focus) : focus[j].at <= time
  /\ \A i \in 1 .. Len(fronts) :
       fronts[i].ts <= time /\ fronts[i].front \in Had(fronts[i].ts, fronts[i].ts + SampleLate)

NamesInv ==
  \A p \in FrontPids : names[p] \in had[p] \cup {"unknown"} /\ lives[p] \in had[p] \cup {"gone"}

AskedInv ==
  \A a \in asked :
    /\ a.pid \in FrontPids => a.says = IF usable(names[a.pid]) THEN names[a.pid] ELSE Nothing
    /\ a.says # Nothing => a.pid \in FrontPids /\ a.pid \in a.before
    /\ \A p \in FrontPids : a.alone = {p} /\ ~a.early => a.pid = p

FrontInv == FrontTypes /\ SamplerInv /\ SamplesInv /\ SeenInv /\ NamesInv /\ AskedInv

-----------------------------------------------------------------------------
(* Products of numbers, for the spacing of the samples.                    *)
LEMMA OneMore == ASSUME NEW k \in Nat, NEW e \in Nat PROVE (k + 1) * e = k * e + e /\ 0 * e = 0
  OBVIOUS

LEMMA AtLeast == ASSUME NEW j \in Nat, NEW k \in Nat, k <= j, NEW e \in Nat PROVE k * e <= j * e
<1>1. PICK d \in Nat : j = k + d
  <2>1. j - k \in Nat /\ j = k + (j - k)
    OBVIOUS
  <2> QED BY <2>1
<1>2. (k + d) * e = k * e + d * e /\ k * e \in Nat /\ d * e \in Nat
  OBVIOUS
<1> QED BY <1>1, <1>2

(* One more sample, no sooner than it is due. *)
LEMMA OneMoreSpaced ==
  ASSUME NEW x \in Nat, NEW y \in Nat, NEW d \in Nat, NEW c \in Nat, NEW e \in Nat,
         x + c * e <= y, y + e <= d
  PROVE  x + (c + 1) * e <= d
<1>1. (c + 1) * e = c * e + e
  BY OneMore
<1>2. PICK p \in Nat : p = c * e
  OBVIOUS
<1>3. x + (p + e) <= d
  BY <1>2
<1> QED BY <1>1, <1>2, <1>3

(* The samples and the windows are what they are. *)
LEMMA FrontBasics ==
  ASSUME FrontTypes
  PROVE  /\ time \in Nat /\ due \in Nat /\ reading \in Int
         /\ reading # NoSample => reading \in Nat
         /\ Len(fronts) \in Nat /\ Len(focus) \in Nat /\ Len(focus) >= 1
         /\ DOMAIN fronts = 1 .. Len(fronts) /\ DOMAIN focus = 1 .. Len(focus)
         /\ \A i \in 1 .. Len(fronts) : fronts[i].ts \in Nat /\ fronts[i].front \in Wins
         /\ \A i \in 1 .. Len(focus) : focus[i].at \in Nat /\ focus[i].who \in Wins
         /\ WhoIs = focus[Len(focus)].who
<1>1. \A i \in 1 .. Len(fronts) : fronts[i].ts \in Nat /\ fronts[i].front \in Wins
  <2>1. \A i \in 1 .. Len(fronts) : fronts[i] \in [ts : Nat, front : Wins]
    BY ElementOfSeq DEF FrontTypes
  <2> QED BY <2>1
<1>2. \A i \in 1 .. Len(focus) : focus[i].at \in Nat /\ focus[i].who \in Wins
  <2>1. \A i \in 1 .. Len(focus) : focus[i] \in [at : Nat, who : Wins]
    BY ElementOfSeq DEF FrontTypes
  <2> QED BY <2>1
<1>3. /\ Len(fronts) \in Nat /\ Len(focus) \in Nat
      /\ DOMAIN fronts = 1 .. Len(fronts) /\ DOMAIN focus = 1 .. Len(focus)
  BY LenProperties DEF FrontTypes
<1>4. /\ time \in Nat /\ due \in Nat /\ reading \in Nat \cup {NoSample} /\ NoSample \in Int
      /\ Len(focus) >= 1
  BY DEF FrontTypes, NoSample
<1>5. reading \in Int /\ (reading # NoSample => reading \in Nat)
  BY <1>4
<1>6. WhoIs = focus[Len(focus)].who
  BY DEF WhoIs, Last
<1> QED BY <1>1, <1>2, <1>3, <1>4, <1>5, <1>6

(* What is left of the log when the oldest half went, if it did. *)
LEMMA Dropped ==
  ASSUME FrontTypes
  PROVE  \E k \in 0 .. Len(fronts) :
           /\ DropOldest(fronts) \in Seq([ts : Nat, front : Wins])
           /\ Len(DropOldest(fronts)) = Len(fronts) - k
           /\ \A i \in 1 .. Len(fronts) - k : DropOldest(fronts)[i] = fronts[i + k]
           /\ k = 0 \/ (Len(fronts) - k >= MaxSamples - MaxSamples \div 2 /\ Len(fronts) - k >= 1)
<1>0. /\ Len(fronts) \in Nat /\ fronts \in Seq([ts : Nat, front : Wins])
      /\ \A i \in 1 .. Len(fronts) : fronts[i] \in [ts : Nat, front : Wins]
  BY FrontBasics, ElementOfSeq DEF FrontTypes
<1>1. CASE Len(fronts) >= MaxSamples
  <2>1. PICK h \in Nat : h = MaxSamples \div 2 /\ h < MaxSamples
    BY ForegroundAssumption
  <2>2. MaxSamples \in Nat
    BY ForegroundAssumption
  <2>3. DropOldest(fronts) = SubSeq(fronts, h + 1, Len(fronts))
    BY <1>1, <2>1 DEF DropOldest
  <2>4. \A i \in h + 1 .. Len(fronts) : fronts[i] \in [ts : Nat, front : Wins]
    BY <1>0, <2>1
  <2>5. /\ DropOldest(fronts) \in Seq([ts : Nat, front : Wins])
        /\ Len(DropOldest(fronts)) = Len(fronts) - h
        /\ \A i \in 1 .. Len(fronts) - (h + 1) + 1 : DropOldest(fronts)[i] = fronts[(h + 1) + i - 1]
    <3>1. h + 1 \in Int /\ Len(fronts) \in Int /\ h + 1 <= Len(fronts)
          /\ Len(fronts) - (h + 1) + 1 = Len(fronts) - h
      BY <1>0, <1>1, <2>1, <2>2
    <3>2. /\ SubSeq(fronts, h + 1, Len(fronts)) \in Seq([ts : Nat, front : Wins])
          /\ Len(SubSeq(fronts, h + 1, Len(fronts)))
               = IF h + 1 <= Len(fronts) THEN Len(fronts) - (h + 1) + 1 ELSE 0
          /\ \A i \in 1 .. Len(fronts) - (h + 1) + 1 :
               SubSeq(fronts, h + 1, Len(fronts))[i] = fronts[(h + 1) + i - 1]
      BY <2>4, <3>1, SubSeqProperties
    <3> QED BY <2>3, <3>1, <3>2
  <2>6. \A i \in 1 .. Len(fronts) - h : DropOldest(fronts)[i] = fronts[i + h]
    <3>1. \A i \in 1 .. Len(fronts) - h : (h + 1) + i - 1 = i + h /\ i \in 1 .. Len(fronts) - (h + 1) + 1
      BY <1>0, <2>1
    <3> QED BY <2>5, <3>1
  <2>7. h \in 0 .. Len(fronts) /\ Len(fronts) - h >= MaxSamples - h /\ Len(fronts) - h >= 1
    BY <1>0, <1>1, <2>1, <2>2
  <2> QED BY <2>1, <2>5, <2>6, <2>7
<1>2. CASE ~(Len(fronts) >= MaxSamples)
  <2>1. DropOldest(fronts) = fronts
    BY <1>2 DEF DropOldest
  <2>2. 0 \in 0 .. Len(fronts) /\ Len(fronts) - 0 = Len(fronts) /\ \A i \in 1 .. Len(fronts) : i + 0 = i
    BY <1>0
  <2> QED BY <1>0, <2>1, <2>2
<1> QED BY <1>1, <1>2

(* A sample is stored: the log keeps its spacing and either its start or   *)
(* enough of its end.                                                      *)
LEMMA SampleStep ==
  ASSUME FrontInv, TakeSample
  PROVE  FrontTypes' /\ SamplerInv' /\ SamplesInv' /\ SeenInv'
<1>1. FrontTypes /\ SamplerInv /\ SamplesInv /\ SeenInv
  BY DEF FrontInv
<1>2. PICK k \in 0 .. Len(fronts) :
        /\ DropOldest(fronts) \in Seq([ts : Nat, front : Wins])
        /\ Len(DropOldest(fronts)) = Len(fronts) - k
        /\ \A i \in 1 .. Len(fronts) - k : DropOldest(fronts)[i] = fronts[i + k]
        /\ k = 0 \/ (Len(fronts) - k >= MaxSamples - MaxSamples \div 2 /\ Len(fronts) - k >= 1)
  BY <1>1, Dropped
<1>3. PICK r : r = [ts |-> reading, front |-> WhoIs]
  OBVIOUS
<1>4. /\ fronts' = Append(DropOldest(fronts), r) /\ reading' = NoSample /\ due' = time + SampleEvery
      /\ UNCHANGED <<time, lives, focus, had, names>> /\ reading # NoSample
  BY <1>3 DEF TakeSample
<1>5. r.ts = reading /\ r.front = WhoIs /\ r \in [ts : Nat, front : Wins] /\ reading \in Nat /\ time \in Nat
  <2>1. r.ts = reading /\ r.front = WhoIs
    BY <1>3
  <2>2. reading \in Nat /\ time \in Nat
    BY <1>1, <1>4, FrontBasics
  <2>3. WhoIs \in Wins
    <3>1. Len(focus) \in 1 .. Len(focus)
      BY <1>1, FrontBasics
    <3> QED BY <1>1, <3>1, FrontBasics
  <2> QED BY <1>3, <2>1, <2>2, <2>3
<1>6. PICK n \in Nat, m \in Nat : n = Len(fronts) /\ m = n - k /\ n = m + k /\ k \in Nat
  <2>1. Len(fronts) \in Nat
    BY <1>1, FrontBasics
  <2>2. k \in Nat /\ Len(fronts) - k \in Nat /\ Len(fronts) = (Len(fronts) - k) + k
    BY <2>1
  <2> QED BY <2>1, <2>2
<1>7. PICK q : q = DropOldest(fronts)
  OBVIOUS
<1>8. /\ fronts' \in Seq([ts : Nat, front : Wins]) /\ Len(fronts') = m + 1 /\ fronts'[m + 1] = r
      /\ \A i \in 1 .. m : fronts'[i] = fronts[i + k]
  <2>1. q \in Seq([ts : Nat, front : Wins]) /\ Len(q) = m /\ fronts' = Append(q, r)
    BY <1>2, <1>4, <1>6, <1>7
  <2>2. \A i \in 1 .. m : q[i] = fronts[i + k]
    BY <1>2, <1>6, <1>7
  <2>3. /\ Append(q, r) \in Seq([ts : Nat, front : Wins]) /\ Len(Append(q, r)) = Len(q) + 1
        /\ \A i \in 1 .. Len(q) : Append(q, r)[i] = q[i]
        /\ Append(q, r)[Len(q) + 1] = r
    BY <1>5, <2>1, PushSpec
  <2> QED BY <2>1, <2>2, <2>3
<1>9. PICK e \in Nat, l \in Nat : e = SampleEvery /\ l = SampleLate
  BY ForegroundAssumption
<1>10. (\A i \in 1 .. m : i + k \in 1 .. n) /\ \A i \in 1 .. n : fronts[i].ts \in Nat
  BY <1>1, <1>6, FrontBasics
<1>a. /\ due \in Nat /\ due <= reading /\ reading <= due + l /\ reading <= time /\ time <= reading + l
      /\ n = 0 => due = 0
      /\ n > 0 => fronts[n].ts + e <= due /\ due <= fronts[n].ts + l + e
  BY <1>1, <1>4, <1>6, <1>9, FrontBasics DEF SamplerInv
<1>11. FrontTypes'
  BY <1>1, <1>4, <1>5, <1>8, ForegroundAssumption DEF FrontTypes, NoSample
<1>12. SamplerInv'
  <2>1. due' = time + e /\ time' <= due' + l
    BY <1>4, <1>5, <1>9
  <2>2. reading + e <= time + e /\ time + e <= reading + l + e
    BY <1>5, <1>9, <1>a
  <2>3. /\ Len(fronts') > 0 /\ Len(fronts') # 0 /\ fronts'[Len(fronts')].ts = reading
    BY <1>5, <1>6, <1>8
  <2>4. reading' = NoSample
    BY <1>4
  <2> QED BY <1>9, <2>1, <2>2, <2>3, <2>4 DEF SamplerInv
<1>13. SamplesInv'
  <2>1. ASSUME NEW i \in 1 .. m + 1, NEW j \in i .. m + 1
        PROVE  fronts'[i].ts + (j - i) * e <= fronts'[j].ts
    <3>1. CASE j <= m
      <4>1. i + k \in 1 .. n /\ j + k \in i + k .. n /\ (j + k) - (i + k) = j - i
        BY <1>6, <3>1
      <4>2. fronts[i + k].ts + ((j + k) - (i + k)) * e <= fronts[j + k].ts
        BY <1>1, <1>6, <1>9, <4>1 DEF SamplesInv
      <4>3. i \in 1 .. m /\ j \in 1 .. m
        BY <1>6, <3>1
      <4>4. fronts'[i] = fronts[i + k] /\ fronts'[j] = fronts[j + k]
        BY <1>8, <4>3
      <4> QED BY <4>1, <4>2, <4>4
    <3>2. CASE i = m + 1
      <4>1. j = m + 1 /\ j - i = 0 /\ fronts'[i].ts = reading /\ fronts'[j].ts = reading
        BY <1>5, <1>8, <3>2
      <4> QED BY <1>5, <4>1, OneMore
    <3>3. CASE i <= m /\ j = m + 1
      <4>1. i + k \in 1 .. n /\ n \in i + k .. n /\ n - (i + k) \in Nat /\ j - i = (n - (i + k)) + 1 /\ n > 0
        BY <1>6, <3>3
      <4>2. fronts[i + k].ts + (n - (i + k)) * e <= fronts[n].ts
        BY <1>1, <1>6, <1>9, <4>1 DEF SamplesInv
      <4>3. PICK c \in Nat : c = n - (i + k) /\ j - i = c + 1
        BY <4>1
      <4>4. fronts'[i] = fronts[i + k] /\ fronts'[j].ts = reading
        BY <1>5, <1>8, <3>3
      <4>5. PICK x \in Nat, y \in Nat : x = fronts[i + k].ts /\ y = fronts[n].ts
        <5>1. n \in 1 .. n
          BY <4>1
        <5>2. fronts[i + k].ts \in Nat /\ fronts[n].ts \in Nat
          BY <1>10, <4>1, <5>1
        <5> QED BY <5>2
      <4>6. y + e <= reading
        <5>1. y + e <= due /\ due <= reading /\ due \in Nat
          BY <1>a, <4>1, <4>5
        <5> QED BY <1>5, <5>1
      <4>7. x + c * e <= y
        BY <4>2, <4>3, <4>5
      <4>8. x + (c + 1) * e <= reading
        BY <1>5, <4>6, <4>7, OneMoreSpaced
      <4> QED BY <4>3, <4>4, <4>5, <4>8
    <3>4. j <= m \/ i = m + 1 \/ (i <= m /\ j = m + 1)
      BY <1>6
    <3> QED BY <3>1, <3>2, <3>3, <3>4
  <2>2. ASSUME NEW i \in 1 .. m PROVE fronts'[i + 1].ts <= fronts'[i].ts + e + 2 * l
    <3>1. fronts'[i] = fronts[i + k] /\ i + k \in 1 .. n
      BY <1>8, <1>10
    <3>2. CASE i < m
      <4>1. i + 1 \in 1 .. m /\ i + k \in 1 .. n - 1 /\ (i + 1) + k = (i + k) + 1
        BY <1>6, <3>2
      <4>2. fronts'[i + 1] = fronts[(i + k) + 1]
        BY <1>8, <4>1
      <4>3. fronts[(i + k) + 1].ts <= fronts[i + k].ts + e + 2 * l
        BY <1>1, <1>6, <1>9, <4>1 DEF SamplesInv
      <4> QED BY <3>1, <4>2, <4>3
    <3>3. CASE i = m
      <4>1. i + k = n /\ n > 0 /\ fronts'[i + 1].ts = reading
        BY <1>5, <1>6, <1>8, <3>3
      <4>2. fronts[n].ts \in Nat /\ due <= fronts[n].ts + l + e /\ reading <= due + l /\ due \in Nat
        <5>1. n \in 1 .. n
          BY <4>1
        <5> QED BY <1>10, <1>a, <4>1, <5>1
      <4>3. PICK x \in Nat : x = fronts[n].ts
        BY <4>2
      <4>4. reading <= x + e + 2 * l
        <5>1. due \in Nat /\ due <= x + l + e /\ reading <= due + l /\ reading \in Nat
          BY <1>5, <4>2, <4>3
        <5> QED BY <5>1
      <4> QED BY <3>1, <4>1, <4>3, <4>4
    <3> QED BY <3>2, <3>3
  <2>3. fronts'[1].ts <= l \/ m + 1 > MaxSamples - MaxSamples \div 2
    <3>0. PICK z \in Int : z = MaxSamples - MaxSamples \div 2
      BY ForegroundAssumption
    <3>1. CASE k = 0
      <4>1. CASE m = 0
        BY <1>5, <1>6, <1>8, <1>a, <3>1, <4>1
      <4>2. CASE m # 0
        <5>1. 1 \in 1 .. m /\ n > 0 /\ fronts'[1] = fronts[1] /\ n = m
          BY <1>6, <1>8, <3>1, <4>2
        <5>2. fronts[1].ts <= l \/ n > z
          BY <1>1, <1>6, <1>9, <3>0, <5>1 DEF SamplesInv
        <5> QED BY <3>0, <5>1, <5>2
      <4> QED BY <4>1, <4>2
    <3>2. CASE k # 0
      <4>1. m >= z
        BY <1>2, <1>6, <3>0, <3>2
      <4> QED BY <3>0, <4>1
    <3> QED BY <3>1, <3>2
  <2>4. Len(fronts') = m + 1 /\ Len(fronts') - 1 = m
    BY <1>8
  <2> QED BY <1>9, <2>1, <2>2, <2>3, <2>4 DEF SamplesInv
<1>14. SeenInv'
  <2>1. ASSUME NEW i \in 1 .. m
        PROVE  fronts'[i].ts <= time /\ fronts'[i].front \in Had(fronts'[i].ts, fronts'[i].ts + SampleLate)
    BY <1>1, <1>6, <1>8, <1>10 DEF SeenInv
  <2>2. WhoIs \in Had(reading, reading + SampleLate)
    <3>1. /\ Len(focus) \in DOMAIN focus /\ focus[Len(focus)].at <= time /\ focus[Len(focus)].at \in Nat
          /\ WhoIs = focus[Len(focus)].who
      BY <1>1, FrontBasics DEF SeenInv
    <3>2. focus[Len(focus)].at <= reading + SampleLate
      BY <1>5, <1>9, <1>a, <3>1
    <3> QED BY <3>1, <3>2 DEF Had
  <2>3. r.ts <= time /\ r.front \in Had(r.ts, r.ts + SampleLate)
    BY <1>5, <1>a, <2>2
  <2>4. \A i \in 1 .. m + 1 :
          fronts'[i].ts <= time /\ fronts'[i].front \in Had(fronts'[i].ts, fronts'[i].ts + SampleLate)
    <3>1. \A i \in 1 .. m + 1 : i \in 1 .. m \/ i = m + 1
      OBVIOUS
    <3> QED BY <1>8, <2>1, <2>3, <3>1
  <2>5. \A x, y : Had(x, y)' = Had(x, y)
    BY <1>4 DEF Had
  <2>6. \A j \in 1 .. Len(focus) : focus[j].at <= time
    BY <1>1 DEF SeenInv
  <2> QED BY <1>4, <1>8, <2>4, <2>5, <2>6 DEF SeenInv
<1> QED BY <1>11, <1>12, <1>13, <1>14

(* The window goes to another: who had it while a sample was taken stays so. *)
LEMMA FocusStep ==
  ASSUME FrontInv, NEW who \in Wins, focus' = Append(focus, [at |-> time, who |-> who]),
         UNCHANGED <<time, due, reading, fronts, names>>, DOMAIN lives' = FrontPids, DOMAIN had' = FrontPids
  PROVE  FrontTypes' /\ SamplerInv' /\ SamplesInv' /\ SeenInv'
<1>1. FrontTypes /\ SamplerInv /\ SamplesInv /\ SeenInv
  BY DEF FrontInv
<1>2. PICK g : g = [at |-> time, who |-> who]
  OBVIOUS
<1>3. PICK n \in Nat : n = Len(focus) /\ n >= 1
  BY <1>1, FrontBasics
<1>4. g.at = time /\ g.who = who /\ time \in Nat /\ focus \in Seq([at : Nat, who : Wins])
  BY <1>1, <1>2 DEF FrontTypes
<1>5. /\ focus' \in Seq([at : Nat, who : Wins]) /\ Len(focus') = n + 1 /\ focus'[n + 1] = g
      /\ \A i \in 1 .. n : focus'[i] = focus[i]
  <2>1. g \in [at : Nat, who : Wins] /\ focus' = Append(focus, g)
    BY <1>2, <1>4
  <2> QED BY <1>3, <1>4, <2>1, PushSpec
<1>6. DOMAIN focus = 1 .. n /\ DOMAIN focus' = 1 .. n + 1
  BY <1>3, <1>4, <1>5, LenProperties
<1>7. ASSUME NEW x \in Nat, x <= time, NEW y, NEW p \in Had(x, y) PROVE p \in Had(x, y)'
  <2>1. PICK j \in 1 .. n : focus[j].who = p /\ focus[j].at <= y /\ (j = n \/ focus[j + 1].at >= x)
    BY <1>3, <1>6 DEF Had
  <2>2. j \in 1 .. n + 1 /\ focus'[j] = focus[j] /\ j # n + 1
    BY <1>5
  <2>3. focus'[j + 1].at >= x
    <3>1. CASE j = n
      BY <1>4, <1>5, <1>7, <3>1
    <3>2. CASE j # n
      <4>1. j + 1 \in 1 .. n
        BY <3>2
      <4> QED BY <1>5, <2>1, <3>2, <4>1
    <3> QED BY <3>1, <3>2
  <2> QED BY <1>5, <1>6, <2>1, <2>2, <2>3 DEF Had
<1>8. FrontTypes' /\ SamplerInv' /\ SamplesInv'
  BY <1>1, <1>3, <1>5 DEF FrontTypes, SamplerInv, SamplesInv
<1>9. SeenInv'
  <2>1. \A j \in 1 .. n + 1 : focus'[j].at <= time
    <3>1. \A j \in 1 .. n : focus[j].at <= time
      BY <1>1, <1>3 DEF SeenInv
    <3>2. \A j \in 1 .. n + 1 : j \in 1 .. n \/ j = n + 1
      OBVIOUS
    <3> QED BY <1>4, <1>5, <3>1, <3>2
  <2>2. ASSUME NEW i \in 1 .. Len(fronts)
        PROVE  fronts[i].ts <= time /\ fronts[i].front \in Had(fronts[i].ts, fronts[i].ts + SampleLate)'
    BY <1>1, <1>7, FrontBasics DEF SeenInv
  <2>3. \A i \in 1 .. Len(fronts) :
          fronts'[i].ts <= time' /\ fronts'[i].front \in Had(fronts[i].ts, fronts[i].ts + SampleLate)'
    BY <2>2
  <2> QED BY <1>5, <2>1, <2>3 DEF SeenInv, Had
<1> QED BY <1>8, <1>9

(* Had grows with the span. *)
LEMMA HadWithin ==
  ASSUME FrontTypes, NEW x \in Int, NEW y \in Int, NEW u \in Int, NEW v \in Int, u <= x, y <= v
  PROVE  Had(x, y) \subseteq Had(u, v)
<1>1. \A j \in DOMAIN focus : focus[j].at \in Int
  BY FrontBasics
<1>2. Len(focus) \in Nat /\ DOMAIN focus = 1 .. Len(focus)
  BY FrontBasics
<1>3. ASSUME NEW j \in DOMAIN focus, focus[j].at <= y, j = Len(focus) \/ focus[j + 1].at >= x
      PROVE  focus[j].at <= v /\ (j = Len(focus) \/ focus[j + 1].at >= u)
  <2>1. focus[j].at <= v
    BY <1>1, <1>3
  <2>2. j # Len(focus) => j + 1 \in DOMAIN focus
    BY <1>2
  <2> QED BY <1>1, <1>3, <2>1, <2>2
<1> QED BY <1>3 DEF Had

(* Before every moment that is looked at lies a sample no older than Stale, *)
(* if the run is that old: none is missing at either end of the log.       *)
LEMMA SampleThere ==
  ASSUME FrontInv, NEW at \in Nat, time - at \in Lags, NEW f \in Nat, f + Stale <= at
  PROVE  \E i \in 1 .. Len(fronts) : f <= fronts[i].ts /\ fronts[i].ts <= at
<1>1. FrontTypes /\ SamplerInv /\ SamplesInv /\ SeenInv
  BY DEF FrontInv
<1>2. PICK e \in Nat, l \in Nat, s \in Nat, g \in Nat, z \in Nat, n \in Nat :
        /\ e = SampleEvery /\ l = SampleLate /\ s = Stale /\ g = time - at /\ z = MaxSamples - MaxSamples \div 2
        /\ n = Len(fronts) /\ e > 0 /\ e + 2 * l <= s /\ l <= g /\ g <= z * e
  <2>1. PICK h \in Nat : h = MaxSamples \div 2 /\ h <= MaxSamples
    BY ForegroundAssumption
  <2>2. PICK z \in Nat : z = MaxSamples - MaxSamples \div 2
    <3>1. MaxSamples - h \in Nat
      BY <2>1, ForegroundAssumption
    <3> QED BY <2>1, <3>1
  <2>3. /\ SampleEvery \in Nat /\ SampleEvery > 0 /\ SampleLate \in Nat /\ Stale \in Nat
        /\ SampleEvery + 2 * SampleLate <= Stale
    BY ForegroundAssumption
  <2>4. time - at \in Nat /\ SampleLate <= time - at /\ time - at <= z * SampleEvery
    BY <2>2, ForegroundAssumption
  <2>5. Len(fronts) \in Nat
    BY <1>1, FrontBasics
  <2> QED BY <2>2, <2>3, <2>4, <2>5
<1>3. time \in Nat /\ due \in Nat /\ reading \in Int /\ time = at + g
  BY <1>1, <1>2, FrontBasics
<1>4. \A i \in 1 .. n : fronts[i].ts \in Nat
  BY <1>1, <1>2, FrontBasics
<1>5. time <= due + l + l
  BY SMTT(30), <1>2, <1>3 , <1>1 DEF SamplerInv
<1>6. n > 0
  <2> SUFFICES ASSUME n = 0 PROVE FALSE
    BY <1>2
  <2>1. due = 0
    BY <1>1, <1>2 DEF SamplerInv
  <2> QED BY <1>2, <1>3, <1>5, <2>1
<1>7. PICK b \in Nat, h \in Nat : b = fronts[n].ts /\ h = fronts[1].ts
  BY <1>4, <1>6
<1>8. b + e <= due /\ due <= b + l + e
  BY <1>1, <1>2, <1>6, <1>7 DEF SamplerInv
<1>9. b + s >= at
  BY <1>2, <1>3, <1>5, <1>8
<1>10. h <= at
  <2>1. h <= l \/ n > z
    BY <1>1, <1>2, <1>6, <1>7 DEF SamplesInv
  <2>2. CASE h <= l
    BY <1>2, <2>2
  <2>3. CASE n > z
    <3>1. h + (n - 1) * e <= b
      <4>1. 1 \in 1 .. n /\ n \in 1 .. n
        BY <1>6
      <4>2. fronts[1].ts + (n - 1) * SampleEvery <= fronts[n].ts
        BY <1>1, <1>2, <4>1 DEF SamplesInv
      <4> QED BY <1>2, <1>7, <4>2
    <3>2. n - 1 \in Nat /\ z <= n - 1
      BY <1>6, <2>3
    <3>3. z * e <= (n - 1) * e
      BY <3>2, AtLeast
    <3>4. b <= time
      BY <1>1, <1>2, <1>6, <1>7 DEF SeenInv
    <3>5. PICK p \in Nat, q \in Nat : p = z * e /\ q = (n - 1) * e
      BY <3>2
    <3>6. p <= q /\ h + q <= b /\ g <= p
      BY <1>2, <3>1, <3>3, <3>5
    <3> QED BY <1>3, <3>4, <3>6
  <2> QED BY <2>1, <2>2, <2>3
<1>11. CASE b <= at
  BY SMTT(30), <1>2, <1>6, <1>7, <1>9, <1>11
<1>12. CASE at < b
  <2> DEFINE T == {i \in 1 .. n : fronts[i].ts <= at}
  <2>1. T \subseteq Int /\ 1 \in T /\ \A i \in T : i <= n
    BY <1>6, <1>7, <1>10
  <2>2. PICK i \in T : \A j \in T : j <= i
    <3>1. n \in Int
      OBVIOUS
    <3> HIDE DEF T
    <3>2. T # {}
      BY <2>1
    <3>3. Max(T) \in T /\ \A j \in T : j <= Max(T)
      BY <2>1, <3>1, <3>2, LargestOf
    <3> QED BY <3>3
  <2>3. i \in 1 .. n /\ fronts[i].ts <= at /\ i # n
    BY <1>7, <1>12, <2>2
  <2>4. i + 1 \in 1 .. n /\ ~(fronts[i + 1].ts <= at)
    <3>1. i + 1 \in 1 .. n /\ ~(i + 1 <= i)
      BY <2>3
    <3>2. i + 1 \notin T
      <4> HIDE DEF T
      <4> QED BY <2>2, <3>1
    <3> QED BY <3>1, <3>2
  <2>5. fronts[i + 1].ts <= fronts[i].ts + e + 2 * l
    BY <1>1, <1>2, <2>3, <2>4 DEF SamplesInv
  <2>6. PICK x \in Nat, y \in Nat : x = fronts[i].ts /\ y = fronts[i + 1].ts
    BY <1>4, <2>3, <2>4
  <2>7. f <= x
    <3>1. y <= x + e + 2 * l /\ y > at
      BY <2>4, <2>5, <2>6
    <3>2. f + s <= at /\ e + 2 * l <= s
      BY <1>2
    <3> QED BY <3>1, <3>2
  <2> QED BY <1>2, <2>3, <2>6, <2>7
<1> QED BY <1>7, <1>11, <1>12

(* The process said to be in front had the window in the span that counts, *)
(* and if one process alone had it all that while, it is the one.          *)
LEMMA InFront ==
  ASSUME FrontInv, NEW at \in Nat, NEW from \in Nat, time - at \in Lags,
         NEW f, f = floor_of(from, at), NEW p, p = in_front(from, at)
  PROVE  /\ p \in FrontPids => p \in Had(f, at + SampleLate)
         /\ \A x \in FrontPids : Had(f, time) = {x} /\ ~(f < 0) => p = x
<1>1. FrontTypes /\ SeenInv
  BY DEF FrontInv
<1>2. PICK s \in Nat, l \in Nat, m \in Nat :
        s = Stale /\ l = SampleLate /\ l <= time - at /\ m = Min({from, at}) /\ m <= at
  <2>1. Min({from, at}) \in {from, at} /\ \A n \in {from, at} : Min({from, at}) <= n
    <3>1. {from, at} \subseteq Nat /\ {from, at} # {}
      OBVIOUS
    <3> QED BY <3>1, FirstOf
  <2> QED BY <2>1, ForegroundAssumption
<1>3. f = m - s /\ f \in Int /\ time \in Nat /\ at + l <= time
  BY <1>1, <1>2, FrontBasics DEF floor_of
<1>4. PICK T : T = Telling(from, at)
  OBVIOUS
<1>5. \A i \in T : /\ i \in 1 .. Len(fronts) /\ fronts[i].ts \in Nat
                   /\ fronts[i].ts <= at /\ fronts[i].ts >= f /\ fronts[i].front # Ours
  BY <1>1, <1>4, FrontBasics DEF Telling
<1>6. \A i \in 1 .. Len(fronts) :
        fronts[i].ts <= at /\ fronts[i].ts >= f /\ fronts[i].front # Ours => i \in T
  BY <1>1, <1>4, FrontBasics DEF Telling
<1>7. p = IF T = {} THEN Nothing ELSE fronts[Max(T)].front
  BY <1>4 DEF in_front
<1>8. ASSUME T # {} PROVE Max(T) \in T
  <2>1. Len(fronts) \in Nat
    BY <1>1, FrontBasics
  <2>2. T \subseteq Int /\ \A i \in T : i <= Len(fronts)
    BY <1>5, <2>1
  <2>3. Len(fronts) \in Int
    BY <2>1
  <2> QED BY <1>8, <2>2, <2>3, LargestOf
<1>9. ASSUME NEW i \in 1 .. Len(fronts), fronts[i].ts <= at, fronts[i].ts >= f
      PROVE  fronts[i].front \in Had(f, at + SampleLate) /\ fronts[i].front \in Had(f, time)
  <2>1. PICK b \in Nat : b = fronts[i].ts /\ b <= at /\ f <= b
    BY <1>1, <1>9, FrontBasics
  <2>2. fronts[i].front \in Had(b, b + l)
    BY <1>1, <1>2, <2>1 DEF SeenInv
  <2>3. b + l <= at + l /\ b + l <= time /\ b + l \in Int /\ at + l \in Int
    BY <1>3, <2>1
  <2>4. Had(b, b + l) \subseteq Had(f, at + l) /\ Had(b, b + l) \subseteq Had(f, time)
    BY <1>1, <1>3, <2>1, <2>3, HadWithin
  <2> QED BY <1>2, <2>2, <2>4
<1>10. p \in FrontPids => p \in Had(f, at + SampleLate)
  BY <1>5, <1>7, <1>8, <1>9, ForegroundAssumption
<1>11. ASSUME NEW x \in FrontPids, Had(f, time) = {x}, ~(f < 0) PROVE p = x
  <2>1. f \in Nat /\ f + Stale <= at
    BY <1>2, <1>3, <1>11
  <2>2. PICK i \in 1 .. Len(fronts) : f <= fronts[i].ts /\ fronts[i].ts <= at
    BY <2>1, SampleThere
  <2>3. fronts[i].ts >= f
    BY <1>1, <1>3, <2>2, FrontBasics
  <2>4. fronts[i].front = x
    BY <1>9, <1>11, <2>2, <2>3
  <2>5. T # {}
    BY <1>6, <2>2, <2>3, <2>4, ForegroundAssumption
  <2> QED BY <1>5, <1>7, <1>8, <1>9, <1>11, <2>5
<1> QED BY <1>10, <1>11

(* A moment is looked at, and the names are read again if they must be.    *)
LEMMA AskStep ==
  ASSUME FrontInv, NEW at \in 0 .. MaxTime, NEW back \in Backs, Ask(at - back, at)
  PROVE  NamesInv' /\ AskedInv'
<1>1. PICK from, f, p : from = at - back /\ f = floor_of(from, at) /\ p = in_front(from, at)
  OBVIOUS
<1>2. at \in Nat /\ from \in Nat /\ time - at \in Lags
  BY <1>1, ForegroundAssumption DEF Ask
<1>3. /\ p \in FrontPids => p \in Had(f, at + SampleLate)
      /\ \A x \in FrontPids : Had(f, time) = {x} /\ ~(f < 0) => p = x
  BY <1>1, <1>2, InFront
<1>4. PICK a :
        /\ asked' = {a}
        /\ a = [pid |-> p, says |-> front_program(from, at), alone |-> Had(f, time),
                before |-> Had(f, at + SampleLate), early |-> f < 0]
  BY <1>1 DEF Ask
<1>5. /\ a.pid = p /\ a.says = front_program(from, at) /\ a.alone = Had(f, time)
      /\ a.before = Had(f, at + SampleLate) /\ a.early = (f < 0)
  BY <1>4
<1>6. front_program(from, at) = IF p \in FrontPids /\ usable(label(p)) THEN label(p) ELSE Nothing
  BY <1>1 DEF front_program
<1>7. UNCHANGED <<lives, had>> /\ DOMAIN names = FrontPids
  BY DEF Ask, FrontInv, FrontTypes
<1>8. ASSUME NEW q \in FrontPids PROVE names'[q] = names[q] \/ (lives[q] # "gone" /\ names'[q] = lives[q])
  BY <1>7 DEF Ask
<1>9. ASSUME p \in FrontPids PROVE names'[p] = label(p)
  <2>1. IF Refreshes(p) THEN names' = [q \in FrontPids |-> IF lives[q] # "gone" THEN lives[q] ELSE names[q]]
                        ELSE names' = names
    BY <1>1, <1>9 DEF Ask
  <2> QED BY <1>9, <2>1 DEF label
<1>10. NamesInv'
  BY <1>7, <1>8 DEF FrontInv, NamesInv
<1>11. AskedInv'
  <2>1. a.pid \in FrontPids => a.says = IF usable(names'[a.pid]) THEN names'[a.pid] ELSE Nothing
    BY <1>5, <1>6, <1>9
  <2>2. a.says # Nothing => a.pid \in FrontPids /\ a.pid \in a.before
    BY <1>3, <1>5, <1>6
  <2>3. \A x \in FrontPids : a.alone = {x} /\ ~a.early => a.pid = x
    BY <1>3, <1>5
  <2> QED BY <1>4, <2>1, <2>2, <2>3 DEF AskedInv, usable
<1> QED BY <1>10, <1>11

LEMMA FrontStart == ForegroundInit => FrontInv
<1> SUFFICES ASSUME ForegroundInit PROVE FrontInv
  OBVIOUS
<1>1. PICK p \in FrontPids, a \in Apps :
        /\ lives = [q \in FrontPids |-> IF q = p THEN a ELSE "gone"]
        /\ names = [q \in FrontPids |-> IF q = p THEN a ELSE "unknown"]
        /\ had = [q \in FrontPids |-> IF q = p THEN {a} ELSE {}]
        /\ focus = <<[at |-> 0, who |-> p]>>
  BY DEF ForegroundInit
<1>2. time = 0 /\ due = 0 /\ reading = NoSample /\ fronts = <<>> /\ asked = {}
  BY DEF ForegroundInit
<1>3. /\ fronts \in Seq([ts : Nat, front : Wins]) /\ Len(fronts) = 0
      /\ focus \in Seq([at : Nat, who : Wins]) /\ Len(focus) = 1 /\ focus[1].at = 0
  <2>1. PICK g : g = [at |-> 0, who |-> p]
    OBVIOUS
  <2>2. g \in [at : Nat, who : Wins] /\ g.at = 0 /\ focus = <<g>>
    BY <1>1, <2>1 DEF Wins
  <2>3. fronts \in Seq([ts : Nat, front : Wins]) /\ Len(fronts) = 0
    BY <1>2, EmptySeq
  <2> QED BY <2>2, <2>3
<1>4. FrontTypes
  BY <1>1, <1>2, <1>3 DEF FrontTypes
<1>5. SamplerInv /\ SamplesInv
  BY <1>2, <1>3, ForegroundAssumption DEF SamplerInv, SamplesInv
<1>6. SeenInv
  BY <1>2, <1>3 DEF SeenInv
<1>7. NamesInv /\ AskedInv
  BY <1>1, <1>2 DEF NamesInv, AskedInv
<1> QED BY <1>4, <1>5, <1>6, <1>7 DEF FrontInv

LEMMA FrontNext == FrontInv /\ [ForegroundNext]_frontVars => FrontInv'
<1> SUFFICES ASSUME FrontInv, [ForegroundNext]_frontVars PROVE FrontInv'
  OBVIOUS
<1>0. FrontTypes /\ SamplerInv /\ SamplesInv /\ SeenInv /\ NamesInv /\ AskedInv
  BY DEF FrontInv
<1>a. ASSUME UNCHANGED <<fronts, focus>>, time' \in Nat, time <= time' PROVE SamplesInv' /\ SeenInv'
  <2>1. \A x, y : Had(x, y)' = Had(x, y)
    BY <1>a DEF Had
  <2>2. SamplesInv'
    BY <1>0, <1>a DEF SamplesInv
  <2>3. (\A j \in 1 .. Len(focus) : focus[j].at <= time') /\ \A i \in 1 .. Len(fronts) : fronts[i].ts <= time'
    <3>1. \A j \in 1 .. Len(focus) : focus[j].at \in Nat /\ focus[j].at <= time
      BY <1>0, FrontBasics DEF SeenInv
    <3>2. \A j \in 1 .. Len(fronts) : fronts[j].ts \in Nat /\ fronts[j].ts <= time
      BY <1>0, FrontBasics DEF SeenInv
    <3>3. time \in Nat
      BY <1>0, FrontBasics
    <3> QED BY <1>a, <3>1, <3>2, <3>3
  <2>4. \A i \in 1 .. Len(fronts) : fronts[i].front \in Had(fronts[i].ts, fronts[i].ts + SampleLate)
    BY <1>0 DEF SeenInv
  <2>5. SeenInv'
    BY <1>a, <2>1, <2>3, <2>4 DEF SeenInv
  <2> QED BY <2>2, <2>5
<1>b. ASSUME UNCHANGED <<lives, had, names, asked>> PROVE NamesInv' /\ AskedInv'
  BY <1>0, <1>b DEF NamesInv, AskedInv
<1>1. CASE TimePasses
  <2>1. /\ time' = time + 1 /\ UNCHANGED <<lives, focus, had, due, reading, fronts, names, asked>>
        /\ time \in Nat /\ due \in Nat /\ reading \in Int /\ SampleLate \in Nat
        /\ reading = NoSample => time < due + SampleLate
        /\ reading # NoSample => time < reading + SampleLate
    BY <1>0, <1>1, FrontBasics, ForegroundAssumption DEF TimePasses
  <2>2. FrontTypes'
    BY <1>0, <2>1 DEF FrontTypes
  <2>3. SamplerInv'
    <3>1. reading = NoSample => time + 1 <= due + SampleLate
      BY <2>1
    <3>2. reading # NoSample => reading <= time + 1 /\ time + 1 <= reading + SampleLate
      BY <1>0, <2>1 DEF SamplerInv
    <3> QED BY <1>0, <2>1, <3>1, <3>2 DEF SamplerInv
  <2> QED BY <1>a, <1>b, <2>1, <2>2, <2>3 DEF FrontInv
<1>2. CASE ReadClock
  <2>1. /\ reading = NoSample /\ time >= due /\ reading' = time
        /\ UNCHANGED <<time, lives, focus, had, due, fronts, names, asked>>
        /\ time \in Nat /\ due \in Nat /\ SampleLate \in Nat
    BY <1>0, <1>2, FrontBasics, ForegroundAssumption DEF ReadClock
  <2>2. FrontTypes'
    BY <1>0, <2>1 DEF FrontTypes
  <2>3. SamplerInv'
    BY <1>0, <2>1 DEF SamplerInv, NoSample
  <2> QED BY <1>a, <1>b, <2>1, <2>2, <2>3 DEF FrontInv
<1>3. CASE TakeSample
  <2>1. UNCHANGED <<lives, had, names, asked>>
    BY <1>3 DEF TakeSample
  <2> QED BY <1>3, <1>b, <2>1, SampleStep DEF FrontInv
<1>4. ASSUME NEW who \in Wins, BringToFront(who) PROVE FrontInv'
  <2>1. focus' = Append(focus, [at |-> time, who |-> who])
        /\ UNCHANGED <<time, lives, had, due, reading, fronts, names, asked>>
    BY <1>4 DEF BringToFront
  <2>2. DOMAIN lives' = FrontPids /\ DOMAIN had' = FrontPids
    BY <1>0, <2>1 DEF FrontTypes
  <2> QED BY <1>b, <2>1, <2>2, FocusStep DEF FrontInv
<1>5. ASSUME NEW p \in FrontPids, NEW a \in Apps \cup {"gone"}, Replace(p, a) PROVE FrontInv'
  <2>1. /\ lives' = [lives EXCEPT ![p] = a]
        /\ had' = IF a = "gone" THEN had ELSE [had EXCEPT ![p] = @ \cup {a}]
        /\ UNCHANGED <<time, due, reading, fronts, names, asked>>
    BY <1>5 DEF Replace
  <2>2. DOMAIN lives = FrontPids /\ DOMAIN had = FrontPids
    BY <1>0 DEF FrontTypes
  <2>3. DOMAIN lives' = FrontPids /\ DOMAIN had' = FrontPids
    BY <2>1, <2>2
  <2>4. FrontTypes' /\ SamplerInv' /\ SamplesInv' /\ SeenInv'
    <3>1. CASE WhoIs = p
      <4>1. focus' = Append(focus, [at |-> time, who |-> Nothing]) /\ Nothing \in Wins
        BY <1>5, <3>1 DEF Replace, Wins
      <4> QED BY <2>1, <2>3, <4>1, FocusStep
    <3>2. CASE WhoIs # p
      <4>1. focus' = focus
        BY <1>5, <3>2 DEF Replace
      <4>2. FrontTypes' /\ SamplerInv'
        BY <1>0, <2>1, <2>3, <4>1 DEF FrontTypes, SamplerInv
      <4>3. time' \in Nat /\ time <= time'
        BY <1>0, <2>1, FrontBasics
      <4> QED BY <1>a, <2>1, <4>1, <4>2, <4>3
    <3> QED BY <3>1, <3>2
  <2>5. NamesInv'
    <3>1. ASSUME NEW q \in FrontPids
          PROVE  had[q] \subseteq had'[q] /\ (lives'[q] = lives[q] \/ lives'[q] \in had'[q] \cup {"gone"})
      BY <2>1, <2>2
    <3> QED BY <1>0, <2>1, <3>1 DEF NamesInv
  <2>6. AskedInv'
    BY <1>0, <2>1 DEF AskedInv
  <2> QED BY <2>4, <2>5, <2>6 DEF FrontInv
<1>6. ASSUME NEW at \in 0 .. MaxTime, NEW back \in Backs, Ask(at - back, at) PROVE FrontInv'
  <2>1. UNCHANGED <<time, lives, focus, had, due, reading, fronts>>
    BY <1>6 DEF Ask
  <2>2. DOMAIN names' = FrontPids
    BY <1>0, <1>6 DEF Ask, FrontTypes
  <2>3. FrontTypes' /\ SamplerInv'
    BY <1>0, <2>1, <2>2 DEF FrontTypes, SamplerInv
  <2>4. time' \in Nat /\ time <= time'
    BY <1>0, <2>1, FrontBasics
  <2> QED BY <1>6, <1>a, <2>1, <2>3, <2>4, AskStep DEF FrontInv
<1>7. CASE UNCHANGED frontVars
  <2>1. UNCHANGED <<time, lives, focus, had, due, reading, fronts, names, asked>>
    BY <1>7 DEF frontVars
  <2>2. FrontTypes' /\ SamplerInv'
    BY <1>0, <2>1 DEF FrontTypes, SamplerInv
  <2>3. time' \in Nat /\ time <= time'
    BY <1>0, <2>1, FrontBasics
  <2> QED BY <1>a, <1>b, <2>1, <2>2, <2>3 DEF FrontInv
<1> QED BY <1>1, <1>2, <1>3, <1>4, <1>5, <1>6, <1>7 DEF ForegroundNext, Wins

(* However late the sampler is within SampleLate, and whatever half of its *)
(* log it drops, every answer given about a moment is true.                *)
THEOREM FrontInvariant == ForegroundSpec => []FrontInv
<1> QED BY FrontStart, FrontNext, PTL DEF ForegroundSpec

(* The program said to be in front had the window then, is given a name it *)
(* really had, and one that alone had it, and is named at all, is named.   *)
THEOREM FrontReal == ForegroundSpec => []FrontIsReal
<1>1. FrontInv => FrontIsReal
  <2> SUFFICES ASSUME FrontInv, NEW a \in asked
               PROVE  /\ a.says # Nothing => a.pid \in a.before /\ a.says \in had[a.pid]
                      /\ \A p \in FrontPids : \A app \in Apps \ NotUsed :
                           a.alone = {p} /\ ~a.early /\ had[p] = {app} /\ names[p] # "unknown" => a.says = app
    BY DEF FrontIsReal
  <2>1. /\ a.pid \in FrontPids => a.says = IF usable(names[a.pid]) THEN names[a.pid] ELSE Nothing
        /\ a.says # Nothing => a.pid \in FrontPids /\ a.pid \in a.before
        /\ \A p \in FrontPids : a.alone = {p} /\ ~a.early => a.pid = p
    BY DEF FrontInv, AskedInv
  <2>2. \A p \in FrontPids : names[p] \in had[p] \cup {"unknown"}
    BY DEF FrontInv, NamesInv
  <2> QED BY <2>1, <2>2 DEF usable
<1> QED BY <1>1, FrontInvariant, PTL

-----------------------------------------------------------------------------
(* Blame: what the records and samples of a stall allow to say.            *)

(* Ticks of a slot, and the slot of a tick. *)
LEMMA SlotOf ==
  ASSUME NEW i \in Nat, NEW r \in Nat, NEW u \in Nat \ {0}, r < u
  PROVE  (i * u + r) \div u = i
  OBVIOUS

(* A tick is so many into its slot. *)
LEMMA TickSplit ==
  ASSUME NEW a \in Nat, NEW u \in Nat \ {0}
  PROVE  /\ a \div u \in Nat /\ a % u \in 0 .. u - 1
         /\ a = (a \div u) * u + (a % u)
  OBVIOUS

(* Slots do not overlap. *)
LEMMA LaterSlot ==
  ASSUME NEW i \in Int, NEW j \in Int, NEW u \in Nat, i < j
  PROVE  i * u + u <= j * u
<1>1. PICK d \in Nat : j = i + 1 + d
  <2>1. j - i - 1 \in Nat /\ j = i + 1 + (j - i - 1) OBVIOUS
  <2> QED BY <2>1
<1>2. d * u \in Nat /\ i * u \in Int OBVIOUS
<1>3. j * u = i * u + u + d * u BY <1>1
<1> QED BY <1>2, <1>3

(* The greatest of a set of integers with a bound. *)
LEMMA MaxIs ==
  ASSUME NEW S, S \subseteq Int, S # {}, NEW n \in Int, \A x \in S : x <= n
  PROVE  Max(S) \in S /\ \A x \in S : x <= Max(S)
<1> DEFINE D == {n - x : x \in S}
<1>1. D \subseteq Nat /\ D # {}
  <2>1. ASSUME NEW x \in S PROVE n - x \in Nat
    <3>1. x \in Int /\ x <= n OBVIOUS
    <3> QED BY <3>1
  <2> QED BY <2>1
<1>2. PICK m \in D : \A k \in D : m <= k BY <1>1, LeastNatural
<1>3. PICK x \in S : m = n - x BY <1>2
<1>4. \A y \in S : x >= y
  <2>1. TAKE y \in S
  <2>2. n - y \in D OBVIOUS
  <2> QED BY <2>2, <1>2, <1>3
<1> QED BY <1>3, <1>4 DEF Max

(* A set that maps into a finite one without a clash is no larger. *)
LEMMA IntoCard ==
  ASSUME NEW S, NEW T, IsFiniteSet(T), NEW f \in [S -> T], \A a, b \in S : f[a] = f[b] => a = b
  PROVE  /\ IsFiniteSet(S) /\ Cardinality(S) <= Cardinality(T)
         /\ Cardinality(S) \in Nat /\ Cardinality(T) \in Nat
<1>1. f \in Injection(S, T) BY DEF Injection, IsInjective
<1> QED BY <1>1, FS_Injection, FS_CardinalityType

(* There are StallLen slots. *)
LEMMA SlotsFinite == IsFiniteSet(Slots) /\ Cardinality(Slots) = StallLen
  BY VerdictAssumption, FS_Interval DEF Slots

(* The stall is over. *)
TrackDone == track \in [Cpus -> Seq(Doings)] /\ \A c \in Cpus : Len(track[c]) = StallLen

(* What a processor did in a slot is one of the things it may do. *)
LEMMA AtSlotIs ==
  ASSUME TrackDone, NEW c \in Cpus, NEW i \in Slots
  PROVE  AtSlot(c, i) \in Doings
<1>1. track[c] \in Seq(Doings) /\ i + 1 \in 1 .. Len(track[c])
  BY VerdictAssumption DEF TrackDone, Slots
<1> QED BY <1>1, ElementOfSeq DEF AtSlot

(* The slots one long DPC runs through, and no more. *)
LEMMA ThroughIs ==
  ASSUME NEW c \in Cpus, NEW i \in Slots
  PROVE  /\ Through(c, i) \in Slots /\ i <= Through(c, i)
         /\ \A k \in i .. Through(c, i) : AtSlot(c, k) = AtSlot(c, i)
         /\ \A j \in Slots : i <= j /\ (\A k \in i .. j : AtSlot(c, k) = AtSlot(c, i)) => j <= Through(c, i)
<1> DEFINE S == {j \in Slots : i <= j /\ \A k \in i .. j : AtSlot(c, k) = AtSlot(c, i)}
<1>1. Slots \subseteq Int /\ \A j \in Slots : j <= StallLen
  BY VerdictAssumption DEF Slots
<1>2. S \subseteq Int /\ \A j \in S : j <= StallLen BY <1>1
<1>3. i \in S
  <2>1. \A k \in i .. i : k = i BY <1>1
  <2> QED BY <2>1, <1>1
<1>4. Max(S) \in S /\ \A x \in S : x <= Max(S)
  <2>1. StallLen \in Int /\ S # {} BY VerdictAssumption, <1>3
  <2> HIDE DEF S
  <2> QED BY <1>2, <2>1, MaxIs
<1>5. Through(c, i) = Max(S) BY DEF Through
<1> QED BY <1>4, <1>5

(* A record of a slot is one of what its processor did there. *)
LEMMA ExecIs ==
  ASSUME NEW c \in Cpus, NEW i \in Slots, NEW e \in ExecsAt(c, i)
  PROVE  \/ AtLevel(c, i) /\ e = Exec(i * Unit, i * Unit + 1, Clock, FALSE)
         \/ /\ AtSlot(c, i).kind = "storm"
            /\ \E t \in i * Unit .. i * Unit + Unit - 1 : e = Exec(t, t + 1, AtSlot(c, i).mod, FALSE)
         \/ AtSlot(c, i).kind = "nests" /\ e = Exec(i * Unit, i * Unit + Unit, AtSlot(c, i).mod, FALSE)
         \/ AtSlot(c, i).kind = "nests" /\ e = Exec(i * Unit + 1, i * Unit + Unit, AtSlot(c, i).mod, TRUE)
         \/ /\ AtSlot(c, i).kind = "long" /\ (i = 0 \/ AtSlot(c, i - 1) # AtSlot(c, i))
            /\ e = Exec(i * Unit, (Through(c, i) + 1) * Unit, AtSlot(c, i).mod, FALSE)
  BY DEF ExecsAt

(* When it began and ended, and whose code it was. *)
LEMMA ExecFields ==
  ASSUME NEW c \in Cpus, NEW i \in Slots, NEW e \in ExecsAt(c, i)
  PROVE  \/ AtLevel(c, i) /\ e.from = i * Unit /\ e.to = i * Unit + 1 /\ e.mod = Clock
         \/ /\ AtSlot(c, i).kind \in {"storm", "nests"} /\ e.from \in i * Unit .. i * Unit + Unit - 1
            /\ e.to \in Int /\ e.to <= i * Unit + Unit /\ e.mod = AtSlot(c, i).mod
         \/ /\ AtSlot(c, i).kind = "long" /\ (i = 0 \/ AtSlot(c, i - 1) # AtSlot(c, i))
            /\ e.from = i * Unit /\ e.to = (Through(c, i) + 1) * Unit /\ e.mod = AtSlot(c, i).mod
<1>0. i * Unit \in Int /\ Unit \in Nat /\ 1 < Unit BY VerdictAssumption DEF Slots
<1>1. CASE AtLevel(c, i) /\ e = Exec(i * Unit, i * Unit + 1, Clock, FALSE)
  <2>1. e.from = i * Unit BY <1>1 DEF Exec
  <2>2. e.to = i * Unit + 1 BY <1>1 DEF Exec
  <2>3. e.mod = Clock BY <1>1 DEF Exec
  <2> QED BY <2>1, <2>2, <2>3, <1>1
<1>2. CASE /\ AtSlot(c, i).kind = "storm"
           /\ \E t \in i * Unit .. i * Unit + Unit - 1 : e = Exec(t, t + 1, AtSlot(c, i).mod, FALSE)
  <2>1. PICK t \in i * Unit .. i * Unit + Unit - 1 : e = Exec(t, t + 1, AtSlot(c, i).mod, FALSE) BY <1>2
  <2>2. e.from = t BY <2>1 DEF Exec
  <2>3. e.to = t + 1 BY <2>1 DEF Exec
  <2>4. e.mod = AtSlot(c, i).mod BY <2>1 DEF Exec
  <2>5. e.to \in Int /\ e.to <= i * Unit + Unit BY <2>3, <1>0
  <2> QED BY <2>1, <2>2, <2>4, <2>5, <1>2
<1>3. CASE AtSlot(c, i).kind = "nests" /\ e = Exec(i * Unit, i * Unit + Unit, AtSlot(c, i).mod, FALSE)
  <2>1. e.from = i * Unit BY <1>3 DEF Exec
  <2>2. e.to = i * Unit + Unit BY <1>3 DEF Exec
  <2>3. e.mod = AtSlot(c, i).mod BY <1>3 DEF Exec
  <2>4. e.from \in i * Unit .. i * Unit + Unit - 1 /\ e.to \in Int /\ e.to <= i * Unit + Unit
    BY <2>1, <2>2, <1>0
  <2> QED BY <2>3, <2>4, <1>3
<1>4. CASE AtSlot(c, i).kind = "nests" /\ e = Exec(i * Unit + 1, i * Unit + Unit, AtSlot(c, i).mod, TRUE)
  <2>1. e.from = i * Unit + 1 BY <1>4 DEF Exec
  <2>2. e.to = i * Unit + Unit BY <1>4 DEF Exec
  <2>3. e.mod = AtSlot(c, i).mod BY <1>4 DEF Exec
  <2>4. e.from \in i * Unit .. i * Unit + Unit - 1 /\ e.to \in Int /\ e.to <= i * Unit + Unit
    BY <2>1, <2>2, <1>0
  <2> QED BY <2>3, <2>4, <1>4
<1>5. CASE /\ AtSlot(c, i).kind = "long" /\ (i = 0 \/ AtSlot(c, i - 1) # AtSlot(c, i))
           /\ e = Exec(i * Unit, (Through(c, i) + 1) * Unit, AtSlot(c, i).mod, FALSE)
  <2>1. e.from = i * Unit BY <1>5 DEF Exec
  <2>2. e.to = (Through(c, i) + 1) * Unit BY <1>5 DEF Exec
  <2>3. e.mod = AtSlot(c, i).mod BY <1>5 DEF Exec
  <2> QED BY <2>1, <2>2, <2>3, <1>5
<1> QED BY <1>1, <1>2, <1>3, <1>4, <1>5, ExecIs

(* The slot of a record follows from its start. *)
LEMMA FromIs ==
  ASSUME NEW c \in Cpus, NEW i \in Slots, NEW e \in ExecsAt(c, i)
  PROVE  /\ e.from \in i * Unit .. i * Unit + Unit - 1 /\ e.from \in Nat
         /\ e.from \div Unit = i /\ e.from < StallLen * Unit
<1>0. i \in Nat /\ Unit \in Nat \ {0} /\ i * Unit \in Nat BY VerdictAssumption DEF Slots
<1>1. e.from \in i * Unit .. i * Unit + Unit - 1 BY <1>0, ExecFields
<1>2. e.from \in Nat BY <1>0, <1>1
<1>3. PICK q \in Nat : q = i * Unit BY <1>0
<1>4. PICK r \in Nat : r = e.from - q /\ r < Unit BY <1>0, <1>1, <1>3
<1>5. (i * Unit + r) \div Unit = i BY <1>0, <1>4, SlotOf
<1>6. e.from = i * Unit + r BY <1>2, <1>3, <1>4
<1>7. i * Unit + Unit <= StallLen * Unit BY <1>0, VerdictAssumption, LaterSlot DEF Slots
<1>8. e.from < StallLen * Unit
  <2>1. PICK w \in Int : w = StallLen * Unit BY VerdictAssumption
  <2> QED BY <2>1, <1>0, <1>2, <1>3, <1>4, <1>7
<1> QED BY <1>1, <1>2, <1>5, <1>6, <1>8

(* Multiplying by a natural number keeps the order. *)
LEMMA GrowsWith ==
  ASSUME NEW a \in Nat, NEW b \in Nat, NEW u \in Nat, a <= b
  PROVE  a * u \in Nat /\ b * u \in Nat /\ a * u <= b * u
<1>1. PICK d \in Nat : b = a + d
  <2>1. b - a \in Nat /\ b = a + (b - a) OBVIOUS
  <2> QED BY <2>1
<1>2. b * u = a * u + d * u BY <1>1
<1>3. a * u \in Nat /\ d * u \in Nat OBVIOUS
<1> QED BY <1>2, <1>3

(* A part of a finite set and the rest of it. *)
LEMMA Parted ==
  ASSUME NEW S, NEW T, IsFiniteSet(S), T \subseteq S
  PROVE  /\ IsFiniteSet(T) /\ Cardinality(T) \in Nat /\ Cardinality(S \ T) \in Nat
         /\ Cardinality(S) = Cardinality(T) + Cardinality(S \ T)
<1>1. IsFiniteSet(T) /\ IsFiniteSet(S \ T) BY FS_Subset
<1>2. T \cup (S \ T) = S /\ T \cap (S \ T) = {} OBVIOUS
<1>3. Cardinality(T) \in Nat /\ Cardinality(S \ T) \in Nat BY <1>1, FS_CardinalityType
<1>4. Cardinality(T \cup (S \ T)) = Cardinality(T) + Cardinality(S \ T) - Cardinality(T \cap (S \ T))
  BY <1>1, FS_Union
<1>5. Cardinality(T \cup (S \ T)) = Cardinality(S) BY <1>2
<1>6. Cardinality(T \cap (S \ T)) = 0 BY <1>2, FS_EmptySet
<1> QED BY <1>1, <1>3, <1>4, <1>5, <1>6

(* In a slot in which DPCs can run, one runs at its start.                 *)
LEMMA OwnDpc ==
  ASSUME TrackDone, NEW c \in Cpus, NEW i \in FreeSlots(c)
  PROVE  \E e \in Execs(c) : e.from = i * Unit /\ ~e.isr
<1>0. i \in Slots /\ AtSlot(c, i).kind \notin {"spins", "dark", "long"} BY DEF FreeSlots
<1>1. AtSlot(c, i).kind \in Kinds BY <1>0, AtSlotIs, VerdictAssumption
<1>2. ASSUME NEW to, NEW mod, Exec(i * Unit, to, mod, FALSE) \in ExecsAt(c, i)
      PROVE  \E e \in Execs(c) : e.from = i * Unit /\ ~e.isr
  <2>1. PICK e \in Execs(c) : e = Exec(i * Unit, to, mod, FALSE) BY <1>0, <1>2 DEF Execs
  <2>2. e.from = i * Unit BY <2>1 DEF Exec
  <2>3. e.isr = FALSE BY <2>1 DEF Exec
  <2> QED BY <2>2, <2>3
<1>3. CASE AtLevel(c, i)
  <2>1. Exec(i * Unit, i * Unit + 1, Clock, FALSE) \in ExecsAt(c, i) BY <1>3 DEF ExecsAt, AtLevel
  <2> QED BY <2>1, <1>2
<1>4. CASE ~AtLevel(c, i) /\ AtSlot(c, i).kind = "storm"
  <2>1. i * Unit \in i * Unit .. i * Unit + Unit - 1 BY <1>0, VerdictAssumption DEF Slots
  <2>2. Exec(i * Unit, i * Unit + 1, AtSlot(c, i).mod, FALSE) \in ExecsAt(c, i) BY <1>4, <2>1 DEF ExecsAt
  <2> QED BY <2>2, <1>2
<1>5. CASE ~AtLevel(c, i) /\ AtSlot(c, i).kind = "nests"
  <2>1. Exec(i * Unit, i * Unit + Unit, AtSlot(c, i).mod, FALSE) \in ExecsAt(c, i) BY <1>5 DEF ExecsAt
  <2> QED BY <2>1, <1>2
<1> QED BY <1>0, <1>1, <1>3, <1>4, <1>5 DEF Kinds, AtLevel

(* No two DPCs of a slot begin together. *)
LEMMA OneDpc ==
  ASSUME NEW c \in Cpus, NEW i \in Slots, NEW a \in ExecsAt(c, i), NEW b \in ExecsAt(c, i),
         ~a.isr, ~b.isr, a.from = b.from
  PROVE  a = b
<1>1. \A from, to, mod : Exec(from, to, mod, TRUE).isr = TRUE BY DEF Exec
<1>2. ASSUME NEW e \in ExecsAt(c, i), ~e.isr
      PROVE  \/ AtLevel(c, i) /\ e = Exec(i * Unit, i * Unit + 1, Clock, FALSE)
             \/ AtSlot(c, i).kind = "storm" /\ e = Exec(e.from, e.from + 1, AtSlot(c, i).mod, FALSE)
             \/ AtSlot(c, i).kind = "nests" /\ e = Exec(i * Unit, i * Unit + Unit, AtSlot(c, i).mod, FALSE)
             \/ /\ AtSlot(c, i).kind = "long"
                /\ e = Exec(i * Unit, (Through(c, i) + 1) * Unit, AtSlot(c, i).mod, FALSE)
  <2>1. e # Exec(i * Unit + 1, i * Unit + Unit, AtSlot(c, i).mod, TRUE) BY <1>1, <1>2
  <2>2. (\E t \in i * Unit .. i * Unit + Unit - 1 : e = Exec(t, t + 1, AtSlot(c, i).mod, FALSE)) =>
           e = Exec(e.from, e.from + 1, AtSlot(c, i).mod, FALSE)
    <3>1. ASSUME NEW t, NEW m, e = Exec(t, t + 1, m, FALSE) PROVE e = Exec(e.from, e.from + 1, m, FALSE)
      <4>1. e.from = t BY <3>1 DEF Exec
      <4> QED BY <3>1, <4>1, Zenon
    <3> QED BY <3>1
  <2> QED BY <2>1, <2>2, ExecIs
<1>3. AtLevel(c, i) => AtSlot(c, i).kind \notin {"storm", "nests", "long"} BY DEF AtLevel
<1>4. CASE AtSlot(c, i).kind = "storm"
  <2>1. a = Exec(a.from, a.from + 1, AtSlot(c, i).mod, FALSE) BY <1>2, <1>3, <1>4
  <2>2. b = Exec(b.from, b.from + 1, AtSlot(c, i).mod, FALSE) BY <1>2, <1>3, <1>4
  <2> QED BY <2>1, <2>2, Zenon
<1>5. CASE AtSlot(c, i).kind # "storm" BY <1>2, <1>3, <1>5
<1> QED BY <1>4, <1>5

(* The DPCs of a processor, and the slices the starts of slots lie in. *)
DpcsOf(c) == {e \in Execs(c) : ~e.isr}
SlicesOf(S) == {slice_of(i * Unit) : i \in S}

(* DPCs that are not enough to say that they kept running leave too few    *)
(* slots, or too few slices, to what lets DPCs run.                        *)
LEMMA HeldWhenNotKept ==
  ASSUME TrackDone, NEW c \in Cpus, ~kept(c)
  PROVE  \/ Cardinality(FreeSlots(c)) < MinDpcs
         \/ ~Percent(Cardinality(SlicesOf(FreeSlots(c))), Slices, SliceShare)
<1> DEFINE G == FreeSlots(c)
           dpcs == DpcsOf(c)
           seen == {slice_of(e.from) : e \in dpcs}
<1>0. StallLen * Unit \in Nat \ {0}
  <2>1. StallLen * Unit >= 1 * Unit BY VerdictAssumption, GrowsWith
  <2> QED BY <2>1, VerdictAssumption
<1>1. ASSUME NEW e \in dpcs
      PROVE  /\ e.from \in 0 .. StallLen * Unit - 1 /\ ~e.isr
             /\ e.from \div Unit \in Slots /\ e \in ExecsAt(c, e.from \div Unit)
  <2>1. PICK i \in Slots : e \in ExecsAt(c, i) BY DEF Execs, DpcsOf
  <2>2. ~e.isr BY DEF DpcsOf
  <2>3. e.from \in Nat /\ e.from \div Unit = i /\ e.from < StallLen * Unit BY <2>1, FromIs
  <2> QED BY <2>1, <2>2, <2>3, <1>0
<1>2. \A i \in G : \E e \in dpcs : e.from = i * Unit BY OwnDpc DEF DpcsOf
<1>3. IsFiniteSet(dpcs)
  <2> DEFINE T == 0 .. StallLen * Unit - 1
             f == [e \in dpcs |-> e.from]
  <2>1. f \in [dpcs -> T] BY <1>1
  <2>2. ASSUME NEW a \in dpcs, NEW b \in dpcs, f[a] = f[b] PROVE a = b
    <3>1. a.from = b.from BY <2>2
    <3>2. PICK i \in Slots : a \in ExecsAt(c, i) /\ b \in ExecsAt(c, i) BY <1>1, <3>1
    <3>3. ~a.isr /\ ~b.isr BY <1>1
    <3> QED BY <3>1, <3>2, <3>3, OneDpc
  <2>3. IsFiniteSet(T) BY <1>0, FS_Interval
  <2> HIDE DEF f, dpcs, T
  <2> QED BY <2>1, <2>2, <2>3, IntoCard
<1>4. Cardinality(G) <= Cardinality(dpcs) /\ Cardinality(dpcs) \in Nat /\ Cardinality(G) \in Nat
  <2> DEFINE f == [i \in G |-> CHOOSE e \in dpcs : e.from = i * Unit]
  <2>1. \A i \in G : f[i] \in dpcs /\ f[i].from = i * Unit BY <1>2
  <2>2. f \in [G -> dpcs] BY <2>1
  <2>3. ASSUME NEW a \in G, NEW b \in G, f[a] = f[b] PROVE a = b
    <3>1. a * Unit = b * Unit BY <2>1, <2>3
    <3>2. a \in Nat /\ b \in Nat /\ Unit \in Nat \ {0} BY VerdictAssumption DEF FreeSlots, Slots
    <3>3. (a * Unit + 0) \div Unit = a /\ (b * Unit + 0) \div Unit = b BY <3>2, SlotOf
    <3>4. a * Unit + 0 = b * Unit + 0 BY <3>1
    <3> QED BY <3>3, <3>4
  <2> HIDE DEF f, dpcs, G
  <2> QED BY <2>2, <2>3, <1>3, IntoCard
<1>5. Cardinality(SlicesOf(G)) <= Cardinality(seen) /\ Cardinality(seen) \in Nat
      /\ Cardinality(SlicesOf(G)) \in Nat
  <2> DEFINE f == [e \in dpcs |-> slice_of(e.from)]
  <2>1. ASSUME NEW e \in dpcs PROVE slice_of(e.from) \in Int
    <3>1. PICK t \in Nat : t = e.from BY <1>1, <1>0
    <3>2. t * Slices \in Nat BY VerdictAssumption
    <3> QED BY <3>1, <3>2, <1>0 DEF slice_of, End
  <2>2. f \in [dpcs -> Int] BY <2>1
  <2>3. seen = {f[e] : e \in dpcs} OBVIOUS
  <2>4. SlicesOf(G) \subseteq seen
    <3>1. SUFFICES ASSUME NEW i \in G PROVE slice_of(i * Unit) \in seen BY DEF SlicesOf
    <3>2. PICK e \in dpcs : e.from = i * Unit BY <1>2
    <3> QED BY <3>2
  <2>5. IsFiniteSet(seen)
    <3> HIDE DEF f, dpcs, seen
    <3> QED BY <2>2, <2>3, <1>3, ImageFinite
  <2> HIDE DEF seen, G
  <2> QED BY <2>4, <2>5, FS_Subset, FS_CardinalityType
<1>6. ~(Cardinality(dpcs) >= MinDpcs /\ Percent(Cardinality(seen), Slices, SliceShare))
  BY DEF kept, slices_covered, DpcsOf
<1> HIDE DEF G, dpcs, seen
<1>7. Percent(Cardinality(SlicesOf(G)), Slices, SliceShare) => Percent(Cardinality(seen), Slices, SliceShare)
  <2>1. PICK p \in Int : p = SliceShare * Slices BY VerdictAssumption
  <2> QED BY <2>1, <1>5 DEF Percent
<1>8. Cardinality(G) >= MinDpcs => Cardinality(dpcs) >= MinDpcs BY <1>4, VerdictAssumption
<1>9. ~(Cardinality(G) >= MinDpcs) => Cardinality(G) < MinDpcs BY <1>4, VerdictAssumption
<1> QED BY <1>6, <1>7, <1>8, <1>9 DEF G

(* A tick between two slots is in a slot between them. *)
LEMMA SlotBetween ==
  ASSUME NEW t \in Nat, NEW i \in Nat, NEW k \in Nat, NEW u \in Nat \ {0}, i * u <= t, t < k * u + u
  PROVE  t \div u \in i .. k
<1>1. PICK j \in Nat, r \in 0 .. u - 1 : j = t \div u /\ t = j * u + r BY TickSplit
<1>2. ~(j < i)
  <2>1. j < i => j * u + u <= i * u BY LaterSlot
  <2>2. j * u \in Nat /\ i * u \in Nat OBVIOUS
  <2> QED BY <2>1, <2>2, <1>1
<1>3. ~(k < j)
  <2>1. k < j => k * u + u <= j * u BY LaterSlot
  <2>2. j * u \in Nat /\ k * u \in Nat OBVIOUS
  <2> QED BY <2>1, <2>2, <1>1
<1> QED BY <1>1, <1>2, <1>3

(* The slots in which DPC or ISR code of m runs. *)
TookSlots(c, m) == {i \in Slots : ~AtLevel(c, i) /\ AtSlot(c, i).kind \notin {"spins", "dark"} /\ AtSlot(c, i).mod = m}

(* The ticks m's records cover. *)
Ticks(c, m) == UNION {e.from .. e.to - 1 : e \in ExecsOf(c, m)}

(* A tick that m's records cover is in a slot in which m's code ran. *)
LEMMA TicksInTook ==
  ASSUME TrackDone, NEW c \in Cpus, NEW m, m # Clock, NEW t \in Ticks(c, m)
  PROVE  t \in Nat /\ t \div Unit \in TookSlots(c, m)
<1>1. PICK e \in ExecsOf(c, m) : t \in e.from .. e.to - 1 BY DEF Ticks
<1>2. PICK i \in Slots : e \in ExecsAt(c, i) BY <1>1 DEF ExecsOf, Execs
<1>3. e.mod = m BY <1>1 DEF ExecsOf
<1>4. i \in Nat /\ Unit \in Nat \ {0} BY VerdictAssumption DEF Slots
<1>6. e.mod # Clock BY <1>3
<1>7. CASE AtSlot(c, i).kind \in {"storm", "nests"}
  <2>1. i * Unit \in Nat BY <1>4
  <2>2. /\ e.from \in i * Unit .. i * Unit + Unit - 1 /\ e.to \in Int /\ e.to <= i * Unit + Unit
        /\ AtSlot(c, i).mod = m
    BY <1>2, <1>3, <1>6, <1>7, ExecFields DEF AtLevel
  <2>3. t \in Nat /\ i * Unit <= t /\ t < i * Unit + Unit BY <1>1, <1>4, <2>1, <2>2
  <2>4. t \div Unit = i BY <2>3, <1>4, SlotBetween
  <2> QED BY <2>2, <2>3, <2>4, <1>7 DEF TookSlots, AtLevel
<1>8. CASE AtSlot(c, i).kind = "long"
  <2>1. e.from = i * Unit /\ e.to = (Through(c, i) + 1) * Unit /\ AtSlot(c, i).mod = m
    BY <1>2, <1>3, <1>6, <1>8, ExecFields
  <2>2. PICK k \in Slots : k = Through(c, i) /\ \A j \in i .. k : AtSlot(c, j) = AtSlot(c, i)
    BY ThroughIs
  <2>3. k \in Nat /\ i * Unit \in Nat /\ (k + 1) * Unit = k * Unit + Unit /\ k * Unit \in Nat
    BY <1>4, VerdictAssumption DEF Slots
  <2>4. t \in Nat /\ i * Unit <= t /\ t < k * Unit + Unit BY <1>1, <1>4, <2>1, <2>2, <2>3
  <2>5. t \div Unit \in i .. k BY <2>3, <2>4, <1>4, SlotBetween
  <2>6. t \div Unit \in Slots BY <2>5, <1>4, VerdictAssumption DEF Slots
  <2>7. AtSlot(c, t \div Unit) = AtSlot(c, i) BY <2>5, <2>2
  <2> QED BY <2>1, <2>4, <2>6, <2>7, <1>8 DEF TookSlots, AtLevel
<1> QED BY <1>2, <1>6, <1>7, <1>8, ExecFields

(* The ordinary DPCs of a slot do not cover enough of it. *)
LEMMA ClockTicks ==
  ASSUME TrackDone, NEW c \in Cpus, NEW t \in Ticks(c, Clock)
  PROVE  \E i \in Slots : t = i * Unit
<1>1. PICK e \in ExecsOf(c, Clock) : t \in e.from .. e.to - 1 BY DEF Ticks
<1>2. PICK i \in Slots : e \in ExecsAt(c, i) BY <1>1 DEF ExecsOf, Execs
<1>3. e.mod = Clock BY <1>1 DEF ExecsOf
<1>4. AtSlot(c, i).mod # Clock BY AtSlotIs, VerdictAssumption
<1>7. i * Unit \in Int BY VerdictAssumption DEF Slots
<1>8. e.from = i * Unit /\ e.to = i * Unit + 1 BY <1>2, <1>3, <1>4, ExecFields
<1> QED BY <1>1, <1>7, <1>8

(* So the records cover no more ticks than these slots have. *)
LEMMA TicksBounded ==
  ASSUME TrackDone, NEW c \in Cpus, NEW m, m # Clock
  PROVE  /\ Cardinality(TookSlots(c, m)) \in Nat /\ Cardinality(Ticks(c, m)) \in Nat
         /\ Cardinality(Ticks(c, m)) <= Cardinality(TookSlots(c, m)) * Unit
<1> DEFINE f == [t \in Ticks(c, m) |-> <<t \div Unit, t % Unit>>]
           W == 0 .. Unit - 1
           P == TookSlots(c, m) \X W
<1>1. Unit \in Nat \ {0} BY VerdictAssumption
<1>2. IsFiniteSet(TookSlots(c, m)) /\ Cardinality(TookSlots(c, m)) \in Nat
  BY SlotsFinite, Parted DEF TookSlots
<1>3. IsFiniteSet(W) /\ Cardinality(W) = Unit BY <1>1, FS_Interval
<1>4. IsFiniteSet(P) /\ Cardinality(P) = Cardinality(TookSlots(c, m)) * Unit
  BY <1>2, <1>3, FS_Product
<1>5. f \in [Ticks(c, m) -> P]
  <2>1. ASSUME NEW t \in Ticks(c, m) PROVE <<t \div Unit, t % Unit>> \in P
    BY TicksInTook, TickSplit, <1>1
  <2> QED BY <2>1
<1>6. ASSUME NEW a \in Ticks(c, m), NEW b \in Ticks(c, m), f[a] = f[b] PROVE a = b
  <2>1. a \in Nat /\ b \in Nat BY TicksInTook
  <2>2. a \div Unit = b \div Unit /\ a % Unit = b % Unit BY <1>6
  <2>3. a = (a \div Unit) * Unit + (a % Unit) /\ b = (b \div Unit) * Unit + (b % Unit)
    BY <2>1, <1>1, TickSplit
  <2> QED BY <2>2, <2>3
<1> HIDE DEF f, P
<1> QED BY <1>2, <1>4, <1>5, <1>6, IntoCard

(* Ordinary DPCs cover one tick of each slot. *)
LEMMA ClockTicksBounded ==
  ASSUME TrackDone, NEW c \in Cpus
  PROVE  Cardinality(Ticks(c, Clock)) \in Nat /\ Cardinality(Ticks(c, Clock)) <= StallLen
<1> DEFINE f == [t \in Ticks(c, Clock) |-> CHOOSE i \in Slots : t = i * Unit]
<1>1. \A t \in Ticks(c, Clock) : f[t] \in Slots /\ t = f[t] * Unit
  <2>1. TAKE t \in Ticks(c, Clock)
  <2>2. \E i \in Slots : t = i * Unit BY ClockTicks
  <2> QED BY <2>2
<1>2. f \in [Ticks(c, Clock) -> Slots] BY <1>1
<1> HIDE DEF f
<1>3. \A a, b \in Ticks(c, Clock) : f[a] = f[b] => a = b BY <1>1, Zenon
<1> QED BY <1>2, <1>3, IntoCard, SlotsFinite

(* What union_len counts. *)
LEMMA TicksAreUnion == ASSUME NEW c, NEW m PROVE union_len(ExecsOf(c, m)) = Cardinality(Ticks(c, m))
  BY DEF union_len, Ticks

(* A processor that a driver's records cover is one in whose slots the     *)
(* driver's code ran for that share; ordinary DPCs cover none.             *)
LEMMA CoveredTook ==
  ASSUME TrackDone, NEW m, m # Clock, NEW c \in CoveredBy(m)
  PROVE  c \in Cpus /\ Percent(Cardinality(TookSlots(c, m)), StallLen, CoverRule)
<1>1. c \in Cpus /\ Cardinality(Ticks(c, m)) * 100 >= CoverRule * (StallLen * Unit)
  BY TicksAreUnion DEF CoveredBy, Percent, End
<1>2. PICK n \in Nat, k \in Nat : /\ n = Cardinality(TookSlots(c, m)) /\ k = Cardinality(Ticks(c, m))
                                 /\ k <= n * Unit
  BY <1>1, TicksBounded
<1>3. PICK p \in Nat : p = CoverRule * StallLen BY VerdictAssumption
<1>4. CoverRule * (StallLen * Unit) = p * Unit BY <1>3, VerdictAssumption
<1>5. n * Unit \in Nat /\ (n * 100) * Unit = (n * Unit) * 100 BY VerdictAssumption
<1>6. p * Unit <= (n * 100) * Unit
  <2>1. PICK a \in Int, b \in Int : a = n * Unit /\ b = p * Unit BY VerdictAssumption
  <2>2. k * 100 >= b BY <1>1, <1>2, <1>4, <2>1
  <2>3. k <= a BY <1>2, <2>1
  <2> QED BY <2>1, <2>2, <2>3, <1>5
<1>7. ~(n * 100 < p)
  <2>1. SUFFICES ASSUME n * 100 + 1 <= p PROVE FALSE OBVIOUS
  <2>2. (n * 100 + 1) * Unit <= p * Unit BY <2>1, GrowsWith, VerdictAssumption
  <2>3. (n * 100 + 1) * Unit = (n * 100) * Unit + Unit BY VerdictAssumption
  <2>4. PICK a \in Int, b \in Int : a = (n * 100) * Unit /\ b = p * Unit BY VerdictAssumption
  <2> QED BY <2>2, <2>3, <2>4, <1>6, VerdictAssumption
<1> QED BY <1>1, <1>2, <1>3, <1>7 DEF Percent

(* So they cover no processor. *)
LEMMA ClockCoversNone ==
  ASSUME TrackDone
  PROVE  CoveredBy(Clock) = {}
<1>1. SUFFICES ASSUME NEW c \in CoveredBy(Clock) PROVE FALSE OBVIOUS
<1>2. c \in Cpus /\ Cardinality(Ticks(c, Clock)) * 100 >= CoverRule * (StallLen * Unit)
  BY TicksAreUnion DEF CoveredBy, Percent, End
<1>3. PICK p \in Nat : p = CoverRule * Unit /\ 101 <= p BY VerdictAssumption
<1>4. CoverRule * (StallLen * Unit) = p * StallLen BY <1>3, VerdictAssumption
<1>5. 101 * StallLen <= p * StallLen BY <1>3, GrowsWith, VerdictAssumption
<1>6. PICK k \in Nat : k = Cardinality(Ticks(c, Clock)) /\ k <= StallLen BY <1>2, ClockTicksBounded
<1>7. PICK q \in Int : q = p * StallLen BY VerdictAssumption
<1> QED BY <1>2, <1>4, <1>5, <1>6, <1>7, VerdictAssumption

(* There are processors, and finitely many. *)
LEMMA CpusCount == Cardinality(Cpus) \in Nat /\ Cardinality(Cpus) > 0
  BY VerdictAssumption, FS_CardinalityType, FS_EmptySet

(* Half of the processors, and more of them. *)
LEMMA MoreThanHalf ==
  ASSUME NEW S, NEW T, S \subseteq T, T \subseteq Cpus, Half(Cardinality(S))
  PROVE  Half(Cardinality(T))
<1>1. IsFiniteSet(T) /\ IsFiniteSet(S) /\ Cardinality(S) <= Cardinality(T)
  BY VerdictAssumption, FS_Subset, Zenon
<1>2. Cardinality(S) \in Nat /\ Cardinality(T) \in Nat BY <1>1, FS_CardinalityType
<1> QED BY <1>1, <1>2, CpusCount DEF Half

(* Who is blamed ran on half of the processors. *)
LEMMA BlamedTook ==
  ASSUME TrackDone, NEW m \in blame
  PROVE  Took(m)
<1>1. Half(Cardinality(CoveredBy(m))) BY DEF blame
<1>2. m # Clock
  <2>1. ~Half(0) BY CpusCount DEF Half
  <2> QED BY <2>1, <1>1, ClockCoversNone, FS_EmptySet, Zenon
<1> DEFINE T == {c \in Cpus : Percent(Cardinality(TookSlots(c, m)), StallLen, CoverRule)}
<1>3. CoveredBy(m) \subseteq T BY <1>2, CoveredTook
<1>4. Half(Cardinality(T)) BY <1>1, <1>3, MoreThanHalf
<1> QED BY <1>4 DEF Took, TookSlots

(* A processor with too few slots for DPCs to say that they kept running. *)
FewFree(c) ==
  \/ Cardinality(FreeSlots(c)) < MinDpcs
  \/ ~Percent(Cardinality(SlicesOf(FreeSlots(c))), Slices, SliceShare)

(* When the processors could have been held, half of them had too few. *)
LEMMA HeldEnough ==
  ASSUME TrackDone, could_be_held
  PROVE  Half(Cardinality({c \in Cpus : FewFree(c)}))
<1> DEFINE S == {c \in Cpus : ~kept(c)}
           T == {c \in Cpus : FewFree(c)}
<1>1. Half(Cardinality(S)) BY DEF could_be_held, Half
<1>2. S \subseteq T BY HeldWhenNotKept DEF FewFree
<1> HIDE DEF S
<1>3. T \subseteq Cpus OBVIOUS
<1> HIDE DEF T
<1>4. Half(Cardinality(T)) BY <1>1, <1>2, <1>3, MoreThanHalf
<1> QED BY <1>4 DEF T

(* A sample lands in its slot, after its ordinary DPC. *)
LEMMA TickIs ==
  ASSUME NEW i \in Slots
  PROVE  /\ i * Unit \in Nat /\ SampleTick(i) \in Nat
         /\ i * Unit + 1 < SampleTick(i) /\ SampleTick(i) < i * Unit + Unit
<1>1. i \in Nat /\ i * Unit \in Nat BY VerdictAssumption DEF Slots
<1>2. Unit \in Nat /\ Unit >= 4 BY VerdictAssumption
<1>3. Unit \div 2 \in Nat /\ 2 <= Unit \div 2 /\ Unit \div 2 < Unit BY <1>2
<1>4. PICK q \in Nat, w \in Nat : q = i * Unit /\ w = Unit \div 2 BY <1>1, <1>3
<1>5. SampleTick(i) = q + w BY <1>4 DEF SampleTick
<1> QED BY <1>2, <1>3, <1>4, <1>5

(* A long DPC has one record over all its slots. *)
LEMMA LongCovers ==
  ASSUME NEW c \in Cpus, NEW i \in Slots, AtSlot(c, i).kind = "long"
  PROVE  \E e \in Execs(c) : e.from \in Nat /\ e.to \in Nat /\ e.from <= i * Unit /\ i * Unit + Unit <= e.to
<1> DEFINE D == {j \in 0 .. i : \A k \in j .. i : AtSlot(c, k) = AtSlot(c, i)}
<1>1. i \in Nat /\ Unit \in Nat BY VerdictAssumption DEF Slots
<1>2. D \subseteq Nat /\ i \in D
  <2>1. \A k \in i .. i : k = i BY <1>1
  <2> QED BY <2>1, <1>1
<1>3. PICK j \in D : \A k \in D : j <= k BY <1>2, LeastNatural
<1>4. j \in Nat /\ j <= i /\ j \in Slots /\ AtSlot(c, j) = AtSlot(c, i)
  BY <1>1, VerdictAssumption DEF Slots
<1>5. j = 0 \/ AtSlot(c, j - 1) # AtSlot(c, j)
  <2>1. SUFFICES ASSUME j # 0, AtSlot(c, j - 1) = AtSlot(c, j) PROVE FALSE OBVIOUS
  <2>2. j - 1 \in 0 .. i BY <1>1, <1>4, <2>1
  <2>3. ASSUME NEW k \in j - 1 .. i PROVE AtSlot(c, k) = AtSlot(c, i)
    <3>1. k = j - 1 \/ k \in j .. i BY <1>1, <1>4
    <3> QED BY <3>1, <2>1, <1>4
  <2>4. j - 1 \in D BY <2>2, <2>3
  <2> QED BY <2>4, <1>3, <1>4
<1>6. Exec(j * Unit, (Through(c, j) + 1) * Unit, AtSlot(c, j).mod, FALSE) \in ExecsAt(c, j)
  BY <1>4, <1>5 DEF ExecsAt, AtLevel
<1>7. PICK t \in Slots : t = Through(c, j) /\ i <= t
  <2>1. \A k \in j .. i : AtSlot(c, k) = AtSlot(c, j) BY <1>4
  <2> QED BY <2>1, <1>4, ThroughIs
<1>8. t \in Nat BY VerdictAssumption DEF Slots
<1>9. j * Unit \in Nat /\ j * Unit <= i * Unit BY <1>1, <1>4, GrowsWith
<1>10. (i + 1) * Unit <= (t + 1) * Unit /\ (t + 1) * Unit \in Nat /\ (i + 1) * Unit = i * Unit + Unit
  <2>1. (i + 1) * Unit = i * Unit + Unit BY <1>1
  <2>2. i + 1 \in Nat /\ t + 1 \in Nat /\ i + 1 <= t + 1 BY <1>1, <1>7, <1>8
  <2> QED BY <2>1, <2>2, <1>1, GrowsWith
<1>11. PICK e \in Execs(c) : e.from = j * Unit /\ e.to = (t + 1) * Unit
  BY <1>4, <1>6, <1>7 DEF Execs, Exec
<1> QED BY <1>9, <1>10, <1>11

(* A sample in DPC or ISR code is seen there.                              *)
LEMMA HeavyInSpan ==
  ASSUME NEW c \in Cpus, NEW i \in Slots, AtSlot(c, i).kind \in {"storm", "nests", "long"}, NEW s, s = <<c, i>>
  PROVE  in_spans(s)
<1>0. /\ i * Unit \in Nat /\ SampleTick(i) \in Nat /\ Unit \in Nat
      /\ i * Unit + 1 < SampleTick(i) /\ SampleTick(i) < i * Unit + Unit
  BY TickIs, VerdictAssumption
<1>1. CASE AtSlot(c, i).kind = "long"
  <2>1. PICK e \in Execs(c) : e.from \in Nat /\ e.to \in Nat /\ e.from <= i * Unit /\ i * Unit + Unit <= e.to
    BY <1>1, LongCovers
  <2>2. e.from <= SampleTick(i) /\ SampleTick(i) <= e.to BY <2>1, <1>0
  <2> QED BY <2>2 DEF in_spans
<1>2. CASE AtSlot(c, i).kind = "nests"
  <2>1. Exec(i * Unit, i * Unit + Unit, AtSlot(c, i).mod, FALSE) \in ExecsAt(c, i)
    BY <1>2 DEF ExecsAt, AtLevel
  <2>2. PICK e \in Execs(c) : e.from = i * Unit /\ e.to = i * Unit + Unit BY <2>1 DEF Execs, Exec
  <2>3. e.from <= SampleTick(i) /\ SampleTick(i) <= e.to BY <2>2, <1>0
  <2> QED BY <2>3 DEF in_spans
<1>3. CASE AtSlot(c, i).kind = "storm"
  <2>1. PICK t \in i * Unit .. i * Unit + Unit - 1 : t = SampleTick(i) BY <1>0
  <2>2. Exec(t, t + 1, AtSlot(c, i).mod, FALSE) \in ExecsAt(c, i) BY <1>3 DEF ExecsAt, AtLevel
  <2>3. PICK e \in Execs(c) : e.from = t /\ e.to = t + 1 BY <2>2 DEF Execs, Exec
  <2>4. e.from <= SampleTick(i) /\ SampleTick(i) <= e.to BY <2>1, <2>3, <1>0
  <2> QED BY <2>4 DEF in_spans
<1> QED BY <1>1, <1>2, <1>3

(* Where a processor idles, no DPC or ISR is over the sample.              *)
LEMMA IdleClear ==
  ASSUME TrackDone, NEW c \in Cpus, NEW i \in Slots, AtSlot(c, i).kind \in {"idle", "page"}, NEW s, s = <<c, i>>
  PROVE  ~in_spans(s)
<1>1. SUFFICES ASSUME NEW e \in Execs(c), e.from <= SampleTick(i), SampleTick(i) <= e.to PROVE FALSE
  BY DEF in_spans
<1>2. PICK j \in Slots : e \in ExecsAt(c, j) BY DEF Execs
<1>3. i \in Nat /\ j \in Nat /\ Unit \in Nat /\ Unit >= 4 BY VerdictAssumption DEF Slots
<1>4. PICK q \in Nat, p \in Nat : q = i * Unit /\ p = j * Unit BY <1>3
<1>5. SampleTick(i) \in Nat /\ q + 1 < SampleTick(i) /\ SampleTick(i) < q + Unit BY <1>4, TickIs
<1>6. CASE i = j
  <2>1. e.to = i * Unit + 1 BY <1>2, <1>6, ExecFields
  <2> QED BY <2>1, <1>1, <1>4, <1>5
<1>7. CASE i < j
  <2>1. q + Unit <= p BY <1>3, <1>4, <1>7, LaterSlot
  <2>2. e.from \in Nat /\ p <= e.from BY <1>2, <1>3, <1>4, FromIs
  <2> QED BY <2>1, <2>2, <1>1, <1>3, <1>5
<1>8. CASE j < i
  <2>1. p + Unit <= q BY <1>3, <1>4, <1>8, LaterSlot
  <2>2. CASE e.to \in Int /\ e.to <= p + Unit
    BY <2>1, <2>2, <1>1, <1>3, <1>5
  <2>3. CASE AtSlot(c, j).kind = "long" /\ e.to = (Through(c, j) + 1) * Unit
    <3>1. PICK t \in Slots : t = Through(c, j) /\ \A k \in j .. t : AtSlot(c, k) = AtSlot(c, j) BY ThroughIs
    <3>2. t \in Nat BY VerdictAssumption DEF Slots
    <3>3. ~(i <= t)
      <4>1. i <= t => i \in j .. t BY <1>3, <1>8, <3>2
      <4> QED BY <4>1, <3>1, <2>3
    <3>4. t + 1 \in Nat /\ t + 1 <= i BY <3>2, <3>3, <1>3
    <3>5. (t + 1) * Unit \in Nat /\ (t + 1) * Unit <= i * Unit BY <3>4, <1>3, GrowsWith
    <3> QED BY <3>1, <3>5, <2>3, <1>1, <1>4, <1>5
  <2>4. \/ e.to = p + 1
        \/ e.to \in Int /\ e.to <= p + Unit
        \/ AtSlot(c, j).kind = "long" /\ e.to = (Through(c, j) + 1) * Unit
    BY <1>2, <1>4, ExecFields
  <2>5. e.to = p + 1 => e.to \in Int /\ e.to <= p + Unit BY <1>3
  <2> QED BY <2>2, <2>3, <2>4, <2>5
<1> QED BY <1>3, <1>6, <1>7, <1>8

(* There is a sample in every slot that is not dark. *)
LEMMA OnIs ==
  ASSUME NEW c \in Cpus
  PROVE  /\ \A s \in On(c) : \E i \in Slots : s = <<c, i>> /\ s[2] = i /\ AtSlot(c, i).kind # "dark"
         /\ \A i \in Slots : AtSlot(c, i).kind # "dark" => <<c, i>> \in On(c)
  BY DEF On, Sampled

(* There is one sample to a slot. *)
LEMMA OnFinite ==
  ASSUME NEW c \in Cpus
  PROVE  IsFiniteSet(On(c)) /\ Cardinality(On(c)) \in Nat /\ Cardinality(On(c)) <= StallLen
<1> DEFINE f == [s \in On(c) |-> s[2]]
<1>1. f \in [On(c) -> Slots] BY OnIs
<1>2. \A a, b \in On(c) : f[a] = f[b] => a = b BY OnIs
<1> HIDE DEF f
<1> QED BY <1>1, <1>2, IntoCard, SlotsFinite

(* What is counted for a program is what it ran itself.                    *)
LEMMA ThreadRan ==
  ASSUME TrackDone, NEW c \in Cpus, NEW p, p # "Idle"
  PROVE  LET ran == {i \in Slots : AtSlot(c, i).kind \in {"runs", "calls", "spins"} /\ AtSlot(c, i).prog = p}
         IN  /\ Cardinality(ThreadOf(c, p)) \in Nat /\ Cardinality(ran) \in Nat
             /\ Cardinality(ThreadOf(c, p)) <= Cardinality(ran)
<1> DEFINE ran == {i \in Slots : AtSlot(c, i).kind \in {"runs", "calls", "spins"} /\ AtSlot(c, i).prog = p}
           f == [s \in ThreadOf(c, p) |-> s[2]]
<1>1. ASSUME NEW s \in ThreadOf(c, p) PROVE s[2] \in ran /\ s = <<c, s[2]>>
  <2>1. s \in On(c) /\ ~in_spans(s) /\ AtSlot(c, s[2]).prog = p BY DEF ThreadOf, Within
  <2>2. PICK i \in Slots : s = <<c, i>> /\ s[2] = i /\ AtSlot(c, i).kind # "dark" BY <2>1, OnIs
  <2>3. AtSlot(c, i) \in Doings BY AtSlotIs
  <2>4. AtSlot(c, i).kind \in Kinds BY <2>3, VerdictAssumption
  <2>5. AtSlot(c, i).kind \notin {"idle", "page"} BY <2>1, <2>2, <2>3, VerdictAssumption
  <2>6. AtSlot(c, i).kind \notin {"storm", "nests", "long"} BY <2>1, <2>2, HeavyInSpan
  <2>7. AtSlot(c, i).kind \in {"runs", "calls", "spins"} BY <2>2, <2>4, <2>5, <2>6 DEF Kinds
  <2> QED BY <2>1, <2>2, <2>7
<1>2. IsFiniteSet(ran) BY SlotsFinite, FS_Subset
<1>3. f \in [ThreadOf(c, p) -> ran] BY <1>1
<1>4. \A a, b \in ThreadOf(c, p) : f[a] = f[b] => a = b
  <2>1. TAKE a, b \in ThreadOf(c, p)
  <2>2. a = <<c, a[2]>> /\ b = <<c, b[2]>> BY <1>1
  <2> QED BY <2>2
<1> HIDE DEF f, ran
<1>5. /\ Cardinality(ThreadOf(c, p)) \in Nat /\ Cardinality(ran) \in Nat
      /\ Cardinality(ThreadOf(c, p)) <= Cardinality(ran)
  BY <1>2, <1>3, <1>4, IntoCard
<1> QED BY <1>5 DEF ran

(* A busy core was not simply idle.                                        *)
LEMMA HotWasBusy ==
  ASSUME TrackDone, NEW c \in pegged_cores
  PROVE  c \in Cpus /\ Percent(StallLen - Spent(c, {"idle", "page"}), StallLen, ShareRule)
<1>1. c \in Cpus /\ Percent(Cardinality(On(c)) - Cardinality(ReallyIdle(c)), Cardinality(On(c)), PeggedBusy)
  BY DEF pegged_cores
<1> DEFINE I == {i \in Slots : AtSlot(c, i).kind \in {"idle", "page"}}
           f == [i \in I |-> <<c, i>>]
<1>2. ASSUME NEW i \in I PROVE <<c, i>> \in ReallyIdle(c)
  <2>1. <<c, i>> \in On(c) BY <1>1, OnIs
  <2>2. AtSlot(c, i).prog = "Idle" BY <1>1, AtSlotIs, VerdictAssumption
  <2>3. ~in_spans(<<c, i>>) BY <1>1, IdleClear
  <2> QED BY <2>1, <2>2, <2>3 DEF ReallyIdle, IdleSample
<1>3. IsFiniteSet(ReallyIdle(c)) /\ Cardinality(ReallyIdle(c)) \in Nat
      /\ Cardinality(ReallyIdle(c)) <= Cardinality(On(c))
  <2>1. ReallyIdle(c) \subseteq On(c) BY DEF ReallyIdle
  <2> QED BY <2>1, <1>1, OnFinite, FS_Subset, FS_CardinalityType
<1>4. Cardinality(I) \in Nat /\ Cardinality(I) <= Cardinality(ReallyIdle(c))
  <2>1. f \in [I -> ReallyIdle(c)] BY <1>2
  <2>2. \A a, b \in I : f[a] = f[b] => a = b OBVIOUS
  <2> HIDE DEF f, I
  <2> QED BY <2>1, <2>2, <1>3, IntoCard
<1>5. Spent(c, {"idle", "page"}) = Cardinality(I) BY DEF Spent
<1> HIDE DEF I, f
<1>6. PICK n \in Nat, r \in Nat, k \in Nat, l \in Nat :
        /\ n = Cardinality(On(c)) /\ r = Cardinality(ReallyIdle(c)) /\ k = Cardinality(I) /\ l = StallLen
        /\ k <= r /\ r <= n /\ n <= l
  BY <1>1, <1>3, <1>4, OnFinite, VerdictAssumption
<1>7. PICK d \in Nat : l = n + d
  <2>1. l - n \in Nat /\ l = n + (l - n) BY <1>6
  <2> QED BY <2>1
<1>8. PICK x \in Nat, y \in Nat, z \in Nat : x = ShareRule * n /\ y = ShareRule * d /\ z = PeggedBusy * n
  BY VerdictAssumption
<1>9. x <= z /\ y <= 100 * d
  <2>1. ShareRule \in Nat /\ PeggedBusy \in Nat /\ ShareRule <= PeggedBusy /\ ShareRule <= 100
    BY VerdictAssumption
  <2> QED BY <2>1, <1>8, GrowsWith
<1>10. ShareRule * l = x + y BY <1>7, <1>8, VerdictAssumption
<1>11. (n - r) * 100 >= z BY <1>1, <1>6, <1>8 DEF Percent
<1>12. (l - k) * 100 >= x + y BY <1>6, <1>7, <1>9, <1>11
<1> QED BY <1>1, <1>5, <1>6, <1>10, <1>12 DEF Percent

-----------------------------------------------------------------------------
(* The parts of a culprit. *)
LEMMA CulpritIs == ASSUME NEW a, NEW b PROVE Culprit(a, b).is = a /\ Culprit(a, b).who = b
  BY DEF Culprit
(* These blame nobody. *)
LEMMA NotDriver ==
  ASSUME NEW z
  PROVE  \A a \in {"starved", "paging", "unexplained"} :
           Culprit(a, z).is \notin {"driver", "driver at raised IRQL", "process at raised IRQL", "went dark", "whole-PC freeze"}
  BY DEF Culprit

(* A core's program is one that was sampled there outside of drivers.      *)
LEMMA HolderIs == ASSUME NEW c \in Cpus, NEW h \in core_holder(c), h.is = "program"
  PROVE /\ h.who \in Progs \ {"Idle"} 
        /\ Percent(Cardinality(ThreadOf(c, h.who)), Cardinality(On(c)), ShareRule)
<1> DEFINE enough(S) == Percent(Cardinality(S), Cardinality(On(c)), ShareRule)
           mods  == {e.mod : e \in Execs(c)}
           progs == {p \in Progs \ {"Idle"} : enough(ThreadOf(c, p))}
           A == {Culprit("driver", m) : m \in {n \in mods : \A o \in mods : TimeBetween(c, o) <= TimeBetween(c, n)}}
           B == {Culprit("program", p) :
             p \in {q \in progs : \A o \in progs : Cardinality(ThreadOf(c, o)) <= Cardinality(ThreadOf(c, q))}}
<1>1. core_holder(c) = IF enough(Within(c)) THEN A ELSE IF progs = {} THEN {Culprit("unnamed", "")} ELSE B
  BY Zenon DEF core_holder
<1> HIDE DEF A, B, enough, progs
<1>2. h \notin A BY CulpritIs DEF A
<1>3. h # Culprit("unnamed", "")
  <2>1. \A z : h # Culprit("unnamed", z) BY DEF Culprit
  <2> QED BY <2>1, Zenon
<1>4. h \in B BY <1>1, <1>2, <1>3
<1>5. PICK p \in progs : h = Culprit("program", p) BY <1>4 DEF B
<1> QED BY <1>5, CulpritIs DEF progs, enough
(* What a kernel stall is blamed on. *)
LEMMA KernelCulprit == ASSUME NEW profile, NEW probes, NEW x \in kernel_culprits(profile, probes)
 PROVE /\ x.is \in {"driver at raised IRQL", "process at raised IRQL", "went dark"} => could_be_held
       /\ x.is = "driver" => x.who \in blame
       /\ x.is # "whole-PC freeze"
<1> DEFINE mods == {m \in FirstMod : Enough(ModOf(m)) /\ could_be_held}
      procs == {p \in FirstProc : Enough(ProcOf(p)) /\ p # "Idle" /\ could_be_held}
      wholly == Cardinality(Cpus) * StallLen
      dark == profile /\ could_be_held /\ wholly >= 3 /\ ~Percent(Cardinality(Sampled), wholly, DarkBelow)
      A == {Culprit("driver", m) : m \in blame}
      B == {Culprit("driver at raised IRQL", m) : m \in mods}
      D == {Culprit("process at raised IRQL", p) : p \in procs}
      E == {Culprit(not_woken_culprit(probes, "not woken"), "")}
<1>1. x = Culprit("paging", "") \/ x \in A \/ (dark /\ x = Culprit("went dark", "")) \/ x \in B \/ x \in D \/ x \in E \/ x = Culprit("unexplained", "")
  <2> HIDE DEF A, B, D, E, dark, mods, procs
  <2>1. x \in CASE paging        -> {Culprit("paging", "")}
       [] blame # {}    -> A
       [] dark          -> {Culprit("went dark", "")}
       [] mods # {}     -> B
       [] procs # {}    -> D
       [] ~could_be_held -> E
       [] OTHER         -> {Culprit("unexplained", "")}
    BY Zenon DEF kernel_culprits, A, B, D, E, dark, mods, procs
  <2> QED BY <2>1
<1> HIDE DEF dark, mods, procs
<1>2. CASE x \in A
  <2>1. PICK m \in blame : x = Culprit("driver", m) BY <1>2
  <2> QED BY <2>1 DEF Culprit
<1>3. CASE x \in B
  <2>1. PICK m \in mods : x = Culprit("driver at raised IRQL", m) BY <1>3
  <2>2. x.is = "driver at raised IRQL" BY <2>1 DEF Culprit
  <2>3. could_be_held BY <2>1 DEF mods
  <2> QED BY <2>2, <2>3
<1>4. CASE x \in D
  <2>1. PICK m \in procs : x = Culprit("process at raised IRQL", m) BY <1>4
  <2>2. x.is = "process at raised IRQL" BY <2>1 DEF Culprit
  <2>3. could_be_held BY <2>1 DEF procs
  <2> QED BY <2>2, <2>3
<1>5. CASE x \in E
  <2>1. x.is = not_woken_culprit(probes, "not woken") BY <1>5, CulpritIs, Zenon
  <2>2. x.is \in {"nothing woke the thread", "given no processor", "not woken"} BY <2>1 DEF not_woken_culprit
  <2> QED BY <2>2
<1>6. CASE dark /\ x = Culprit("went dark", "")
  BY <1>6 DEF Culprit, dark
<1>7. CASE x = Culprit("paging", "") \/ x = Culprit("unexplained", "")
  <2>1. CASE x = Culprit("paging", "") BY <2>1, NotDriver, Zenon
  <2>2. CASE x = Culprit("unexplained", "") BY <2>2, NotDriver, Zenon
  <2> QED BY <1>7, <2>1, <2>2, Zenon
<1> HIDE DEF A, B, D, E
<1> QED BY <1>1, <1>2, <1>3, <1>4, <1>5, <1>6, <1>7

(* What a scheduler stall is blamed on is never the kernel. *)
LEMMA SchedCulprit ==
  ASSUME NEW profile, NEW probes, NEW x \in sched_culprits(profile, probes)
  PROVE  x.is \notin {"driver", "driver at raised IRQL", "process at raised IRQL", "went dark", "whole-PC freeze"}
<1> DEFINE busy == Progs \ {"Idle"}
           top == {p \in busy : \A q \in busy : ProcOf(q) <= ProcOf(p)}
           A == {Culprit("process", p) : p \in IF top = {} THEN {"?"} ELSE top}
           B == {Culprit("disk", r.disk) : r \in disk_waits}
           E == {Culprit(not_woken_culprit(probes, "idle CPUs"), "")}
<1>1. \/ x = Culprit("starved", "") \/ x \in A \/ x \in B \/ x = Culprit("paging", "") \/ x \in E
  <2> HIDE DEF A, B, E
  <2>1. x \in CASE ~profile \/ Sampled = {} -> {Culprit("starved", "")}
       [] saturated         -> A
       [] disk_waits # {}   -> B
       [] own_fault         -> {Culprit("paging", "")}
       [] OTHER             -> E
    BY Zenon DEF sched_culprits, A, B, E
  <2> QED BY <2>1
<1> HIDE DEF top
<1>2. CASE x \in A
  <2>1. PICK m : x = Culprit("process", m) BY <1>2
  <2> QED BY <2>1 DEF Culprit
<1>3. CASE x \in B
  <2>1. PICK m : x = Culprit("disk", m) BY <1>3
  <2> QED BY <2>1 DEF Culprit
<1>4. CASE x \in E
  <2>1. x.is = not_woken_culprit(probes, "idle CPUs") BY <1>4, CulpritIs, Zenon
  <2>2. x.is \in {"nothing woke the thread", "given no processor", "idle CPUs"} BY <2>1 DEF not_woken_culprit
  <2> QED BY <2>2
<1>5. CASE x = Culprit("starved", "") \/ x = Culprit("paging", "")
  <2>1. CASE x = Culprit("starved", "") BY <2>1, NotDriver, Zenon
  <2>2. CASE x = Culprit("paging", "") BY <2>2, NotDriver, Zenon
  <2> QED BY <1>5, <2>1, <2>2, Zenon
<1> HIDE DEF A, B, E
<1> QED BY <1>1, <1>2, <1>3, <1>4, <1>5, Zenon

(* The parts of a verdict. *)
LEMMA SayIs == ASSUME NEW k, NEW more, Say(k, more) PROVE verdict'.culprit = k /\ verdict'.more = more
  BY DEF Say

(* What is more than enough is enough. *)
LEMMA MoreOfShare ==
  ASSUME NEW a \in Nat, NEW b \in Nat, NEW w \in Nat, a <= b, Percent(a, w, ShareRule)
  PROVE  Percent(b, w, ShareRule)
<1>1. PICK q \in Int : q = ShareRule * w BY VerdictAssumption
<1> QED BY <1>1 DEF Percent

(* A blame that was earned still is, once it is said. *)
LEMMA StillEarned ==
  ASSUME track' = track, NEW k, NEW more, verdict'.culprit = k, verdict'.more = more,
         k.is = "driver" => Took(k.who),
         k.is = "whole-PC freeze" => \A f \in more : f.holding # "none" => Took(f.holding)
  PROVE  BlameIsEarned'
  BY ZenonT(30) DEF BlameIsEarned, Took, AtLevel, AtSlot, Slots, Half, Percent

(* What a verdict on a delay says is so.                                   *)
LEMMA SaidWell ==
  ASSUME TrackDone, track' = track, NEW k, NEW more, Say(k, more),
         k.is = "driver" => k.who \in blame,
         k.is \in {"driver at raised IRQL", "process at raised IRQL", "went dark"} => could_be_held,
         k.is # "whole-PC freeze",
         \A m \in more : m[1] \in pegged_cores /\ m[2] \in core_holder(m[1])
  PROVE  BlameIsEarned' /\ NobodyIsFramed' /\ CoreHolderIsReal'
<1>1. verdict'.culprit = k /\ verdict'.more = more BY SayIs
<1>2. BlameIsEarned'
  <2>1. k.is = "driver" => Took(k.who) BY BlamedTook
  <2> QED BY <2>1, <1>1, StillEarned
<1>3. NobodyIsFramed'
  <2>1. k.is \in {"driver at raised IRQL", "process at raised IRQL", "went dark"} =>
          Half(Cardinality({c \in Cpus : FewFree(c)}))
    BY HeldEnough
  <2> QED BY <2>1, <1>1 DEF NobodyIsFramed, FewFree, SlicesOf, FreeSlots, slice_of, End, AtSlot, Slots, Half, Percent
<1>4. ASSUME NEW m \in more
      PROVE  /\ m[2].is = "program" =>
                  Percent(Cardinality({i \in Slots : AtSlot(m[1], i).kind \in {"runs", "calls", "spins"} /\ AtSlot(m[1], i).prog = m[2].who}),
                          Cardinality(On(m[1])), ShareRule)
             /\ Percent(StallLen - Spent(m[1], {"idle", "page"}), StallLen, ShareRule)
  <2>1. PICK c, h : c \in Cpus /\ c = m[1] /\ h = m[2] /\ c \in pegged_cores /\ h \in core_holder(c)
    <3>1. m[1] \in pegged_cores /\ m[2] \in core_holder(m[1]) OBVIOUS
    <3>2. m[1] \in Cpus BY <3>1, HotWasBusy
    <3> QED BY <3>1, <3>2
  <2>2. Percent(StallLen - Spent(c, {"idle", "page"}), StallLen, ShareRule) BY <2>1, HotWasBusy
  <2>3. ASSUME h.is = "program"
        PROVE  Percent(Cardinality({i \in Slots : AtSlot(c, i).kind \in {"runs", "calls", "spins"} /\ AtSlot(c, i).prog = h.who}),
                       Cardinality(On(c)), ShareRule)
    <3>1. h.who # "Idle" /\ Percent(Cardinality(ThreadOf(c, h.who)), Cardinality(On(c)), ShareRule)
      BY <2>1, <2>3, HolderIs
    <3>2. PICK a \in Nat, b \in Nat :
            /\ a = Cardinality(ThreadOf(c, h.who)) /\ a <= b
            /\ b = Cardinality({i \in Slots : AtSlot(c, i).kind \in {"runs", "calls", "spins"} /\ AtSlot(c, i).prog = h.who})
      BY <2>1, <3>1, ThreadRan
    <3>3. Cardinality(On(c)) \in Nat BY <2>1, OnFinite
    <3>4. Percent(b, Cardinality(On(c)), ShareRule) BY <3>1, <3>2, <3>3, MoreOfShare
    <3> QED BY <3>2, <3>4
  <2> QED BY <2>1, <2>2, <2>3
<1>5. CoreHolderIsReal'
  BY <1>1, <1>4 DEF CoreHolderIsReal, Spent, On, Sampled, AtSlot, Slots, Percent
<1> QED BY <1>2, <1>3, <1>5

(* What is said to have held a part of a freeze did. *)
LEMMA FreezeSaidWell ==
  ASSUME TrackDone, track' = track, NEW more, Say(Culprit("whole-PC freeze", ""), more),
         \A f \in more : f.holding = "none" \/ f.holding \in blame
  PROVE  BlameIsEarned' /\ NobodyIsFramed' /\ CoreHolderIsReal'
<1>1. verdict'.culprit.is = "whole-PC freeze" /\ verdict'.more = more
  <2>1. PICK k : k = Culprit("whole-PC freeze", "") OBVIOUS
  <2>2. k.is = "whole-PC freeze" BY <2>1, CulpritIs, Zenon
  <2>3. verdict'.culprit = k /\ verdict'.more = more BY <2>1, SayIs, Zenon
  <2> QED BY <2>2, <2>3
<1>2. \A f \in more : f.holding # "none" => Took(f.holding) BY BlamedTook
<1> QED BY ZenonT(30), <1>1, <1>2 DEF BlameIsEarned, NobodyIsFramed, CoreHolderIsReal, Took, AtLevel, AtSlot, Slots, Half, Percent

-----------------------------------------------------------------------------
(* The processors keep step, nothing is said before the stall is over, and *)
(* what is said then is so.                                                *)
TrackTypes ==
  /\ does \in [Cpus -> Doings] /\ track \in [Cpus -> Seq(Doings)]
  /\ \A c \in Cpus : Len(track[c]) = Lasted
  /\ Lasted <= StallLen

SaidAfter == Said => Lasted = StallLen

SaysTrue == BlameIsEarned /\ NobodyIsFramed /\ CoreHolderIsReal

VerdictInv == TrackTypes /\ SaidAfter /\ SaysTrue

(* How long the stall has lasted. *)
LEMMA LastedIs == ASSUME TrackTypes PROVE Lasted \in Nat
<1>1. PICK d \in Cpus : d = CHOOSE c \in Cpus : TRUE BY VerdictAssumption
<1>2. track[d] \in Seq(Doings) /\ Lasted = Len(track[d]) BY <1>1 DEF TrackTypes, Lasted
<1> QED BY <1>2, LenProperties

(* As long as nothing is said, nothing wrong is. *)
LEMMA UnsaidSaysTrue == ~Said => SaysTrue
  BY DEF SaysTrue, BlameIsEarned, NobodyIsFramed, CoreHolderIsReal

(* At the start nothing is said. *)
LEMMA VerdictInitInv == VerdictInit => VerdictInv
<1> SUFFICES ASSUME VerdictInit PROVE VerdictInv OBVIOUS
<1>1. PICK d \in Cpus : d = CHOOSE c \in Cpus : TRUE BY VerdictAssumption
<1>2. TrackTypes
  <2>1. \A c \in Cpus : track[c] = <<>> BY DEF VerdictInit
  <2>2. Lasted = 0 BY <1>1, <2>1 DEF Lasted
  <2>3. track \in [Cpus -> Seq(Doings)] BY EmptySeq DEF VerdictInit
  <2> QED BY <2>1, <2>2, <2>3, VerdictAssumption DEF TrackTypes, VerdictInit
<1>3. ~Said BY DEF VerdictInit, Said
<1> QED BY <1>2, <1>3, UnsaidSaysTrue DEF VerdictInv, SaidAfter

(* A slot passes: the stall was not over, and nothing was said. *)
LEMMA SlotInv == ASSUME VerdictInv, Slot PROVE VerdictInv'
<1>1. PICK d \in Cpus : d = CHOOSE c \in Cpus : TRUE BY VerdictAssumption
<1>2. Lasted \in Nat /\ Lasted < StallLen BY LastedIs DEF Slot, VerdictInv
<1>3. ASSUME NEW c \in Cpus PROVE track'[c] \in Seq(Doings) /\ Len(track'[c]) = Lasted + 1
  <2>1. track[c] \in Seq(Doings) /\ does[c] \in Doings /\ Len(track[c]) = Lasted
    BY DEF VerdictInv, TrackTypes
  <2>2. track'[c] = Append(track[c], does[c]) BY DEF Slot
  <2> QED BY <2>1, <2>2, AppendProperties
<1>4. Lasted' = Lasted + 1 BY <1>1, <1>3 DEF Lasted
<1>5. TrackTypes'
  BY <1>2, <1>3, <1>4, VerdictAssumption DEF TrackTypes, VerdictInv, Slot
<1>6. ~Said' BY <1>2 DEF VerdictInv, SaidAfter, Slot, Said
<1>7. SaysTrue' BY <1>6 DEF SaysTrue, BlameIsEarned, NobodyIsFramed, CoreHolderIsReal
<1> QED BY <1>5, <1>6, <1>7 DEF VerdictInv, SaidAfter

(* A processor turns to something else, before the stall is over. *)
LEMMA TurnInv == ASSUME VerdictInv, NEW c \in Cpus, NEW d \in Doings, Turn(c, d) PROVE VerdictInv'
<1>1. TrackTypes' BY DEF Turn, VerdictInv, TrackTypes, Lasted
<1>2. ~Said' BY LastedIs DEF Turn, VerdictInv, SaidAfter, Said
<1>3. SaysTrue' BY <1>2 DEF SaysTrue, BlameIsEarned, NobodyIsFramed, CoreHolderIsReal
<1> QED BY <1>1, <1>2, <1>3 DEF VerdictInv, SaidAfter

(* Judging changes nothing but the verdict. *)
LEMMA JudgedInv == ASSUME VerdictInv, Lasted = StallLen, UNCHANGED <<does, track>>, SaysTrue' PROVE VerdictInv'
  BY DEF VerdictInv, SaidAfter, TrackTypes, Lasted

(* When the stall is over, every processor's slots are known. *)
LEMMA StalledIsDone == ASSUME VerdictInv, Lasted = StallLen PROVE TrackDone
  BY DEF VerdictInv, TrackTypes, TrackDone

(* A delay is judged. *)
LEMMA JudgeInv == ASSUME VerdictInv, Judge PROVE VerdictInv'
<1>1. Lasted = StallLen /\ UNCHANGED <<does, track>> BY DEF Judge
<1>2. TrackDone BY <1>1, StalledIsDone
<1>3. PICK profile \in BOOLEAN, probes \in Verdicts :
        \/ \E k \in kernel_culprits(profile, probes) : Say(k, {})
        \/ \E k \in sched_culprits(profile, probes) :
             IF ~profile \/ saturated \/ pegged_cores = {} THEN Say(k, {})
             ELSE \E c \in pegged_cores : \E h \in core_holder(c) : Say(k, {<<c, h>>})
  BY DEF Judge
<1>4. CASE \E k \in kernel_culprits(profile, probes) : Say(k, {})
  <2>1. PICK k \in kernel_culprits(profile, probes) : Say(k, {}) BY <1>4
  <2>2. /\ k.is \in {"driver at raised IRQL", "process at raised IRQL", "went dark"} => could_be_held
        /\ k.is = "driver" => k.who \in blame
        /\ k.is # "whole-PC freeze"
    BY <2>1, KernelCulprit
  <2>3. PICK more : more = {} OBVIOUS
  <2>4. Say(k, more) /\ \A m \in more : m[1] \in pegged_cores /\ m[2] \in core_holder(m[1])
    BY <2>1, <2>3
  <2>5. SaysTrue' BY <2>2, <2>4, <1>1, <1>2, SaidWell DEF SaysTrue
  <2> QED BY <2>5, <1>1, JudgedInv
<1>5. ASSUME NEW k \in sched_culprits(profile, probes), NEW more, Say(k, more),
             \A m \in more : m[1] \in pegged_cores /\ m[2] \in core_holder(m[1])
      PROVE  VerdictInv'
  BY <1>1, <1>2, <1>5, SchedCulprit, SaidWell, JudgedInv DEF SaysTrue
<1>6. CASE \E k \in sched_culprits(profile, probes) : Say(k, {})
  BY <1>6, <1>5
<1>7. CASE \E k \in sched_culprits(profile, probes) :
             \E c \in pegged_cores : \E h \in core_holder(c) : Say(k, {<<c, h>>})
  <2>1. PICK k, c, h : /\ k \in sched_culprits(profile, probes) /\ c \in pegged_cores /\ h \in core_holder(c)
                      /\ Say(k, {<<c, h>>})
    BY <1>7
  <2>2. \A m \in {<<c, h>>} : m[1] \in pegged_cores /\ m[2] \in core_holder(m[1]) BY <2>1
  <2> QED BY <2>1, <2>2, <1>5
<1> QED BY <1>3, <1>4, <1>6, <1>7

(* A freeze is judged. *)
LEMMA JudgeFreezeInv == ASSUME VerdictInv, JudgeFreeze PROVE VerdictInv'
<1>1. Lasted = StallLen /\ UNCHANGED <<does, track>> BY DEF JudgeFreeze
<1>2. TrackDone BY <1>1, StalledIsDone
<1>3. PICK more : /\ Say(Culprit("whole-PC freeze", ""), more)
                  /\ \A f \in more : f.holding = "none" \/ f.holding \in blame
  <2>1. PICK holding, a, b, x, y :
          holding \in (IF blame = {} THEN {"none"} ELSE blame) /\ Say(Culprit("whole-PC freeze", ""), {[holding |-> holding, dpcs_kept_running |-> a, continued |-> b, timer |-> x, roles |-> y]})
    BY Zenon DEF JudgeFreeze
  <2>2. holding = "none" \/ holding \in blame BY <2>1
  <2>3. \A f \in {[holding |-> holding, dpcs_kept_running |-> a, continued |-> b, timer |-> x, roles |-> y]} : f.holding = holding
    OBVIOUS
  <2>4. PICK more : more = {[holding |-> holding, dpcs_kept_running |-> a, continued |-> b, timer |-> x, roles |-> y]}
    OBVIOUS
  <2>5. Say(Culprit("whole-PC freeze", ""), more) BY <2>1, <2>4, Zenon
  <2>6. \A f \in more : f.holding = "none" \/ f.holding \in blame BY <2>2, <2>3, <2>4
  <2> QED BY <2>5, <2>6, Zenon
<1> QED BY <1>1, <1>2, <1>3, FreezeSaidWell, JudgedInv DEF SaysTrue

(* Nothing is said before the stall is over, and what is said then is so, *)
(* for every number of processors, drivers and slots.                      *)
THEOREM VerdictInvariant == VerdictSpec => []VerdictInv
<1>1. VerdictInit => VerdictInv BY VerdictInitInv
<1>2. VerdictInv /\ [VerdictNext]_verdictVars => VerdictInv'
  <2> SUFFICES ASSUME VerdictInv, [VerdictNext]_verdictVars PROVE VerdictInv' OBVIOUS
  <2>1. CASE Slot BY <2>1, SlotInv
  <2>2. CASE \E c \in Cpus, d \in Doings : Turn(c, d) BY <2>2, TurnInv
  <2>3. CASE Judge BY <2>3, JudgeInv
  <2>4. CASE JudgeFreeze BY <2>4, JudgeFreezeInv
  <2>5. CASE UNCHANGED verdictVars
    <3>1. TrackTypes' /\ SaidAfter'
      BY <2>5 DEF verdictVars, VerdictInv, TrackTypes, SaidAfter, Said, Lasted
    <3>2. SaysTrue /\ track' = track /\ verdict' = verdict BY <2>5 DEF verdictVars, VerdictInv
    <3>3. BlameIsEarned'
      <4>1. CASE ~Said BY <3>2, <4>1 DEF BlameIsEarned, Said
      <4>2. CASE Said
        <5>1. PICK k, more : k = verdict.culprit /\ more = verdict.more OBVIOUS
        <5>2. /\ k.is = "driver" => Took(k.who)
              /\ k.is = "whole-PC freeze" => \A f \in more : f.holding # "none" => Took(f.holding)
          BY <3>2, <4>2, <5>1 DEF SaysTrue, BlameIsEarned
        <5> QED BY <3>2, <5>1, <5>2, StillEarned
      <4> QED BY <4>1, <4>2
    <3>4. NobodyIsFramed'
      BY <3>2 DEF SaysTrue, NobodyIsFramed, Said, FreeSlots, slice_of, End, AtSlot, Slots, Half, Percent
    <3>5. CoreHolderIsReal'
      BY <3>2 DEF SaysTrue, CoreHolderIsReal, Said, Spent, On, Sampled, AtSlot, Slots, Percent
    <3> QED BY <3>1, <3>3, <3>4, <3>5 DEF VerdictInv, SaysTrue
  <2> QED BY <2>1, <2>2, <2>3, <2>4, <2>5 DEF VerdictNext
<1> QED BY <1>1, <1>2, PTL DEF VerdictSpec

(* A driver that is blamed took up its share of the time on half of the   *)
(* processors.                                                             *)
THEOREM BlameEarned == VerdictSpec => []BlameIsEarned
  BY VerdictInvariant, PTL DEF VerdictInv, SaysTrue

(* Nothing is said to have been at raised IRQL unless on half of the       *)
(* processors the slots in which a DPC could begin were too few, or lay in *)
(* too few slices, to say that DPCs kept running.                          *)
THEOREM NobodyFramed == VerdictSpec => []NobodyIsFramed
  BY VerdictInvariant, PTL DEF VerdictInv, SaysTrue

(* A program said to keep a core busy ran there for that share itself, and *)
(* the core was not simply idle.                                           *)
THEOREM CoreHolderReal == VerdictSpec => []CoreHolderIsReal
  BY VerdictInvariant, PTL DEF VerdictInv, SaysTrue

-----------------------------------------------------------------------------
(* What the scheduler's records link: Sched's two streams as one set of     *)
(* events, ordered by Sooner, each naming the threads it changes and what   *)
(* they do from then on.  Two events of a thread with none between them     *)
(* bound a stretch of its life, and every finished stretch is so bounded.   *)

Why       == Reasons \cup {"none", "timer"}
(* What a record says of the threads it names. *)
ReadyRec   == [ts : Nat, tid : SchedThreads]
SwitchRec == [ts : Nat, cpu : Procs, new_tid : SchedThreads \cup {IdleTid},
              old_tid : SchedThreads \cup {IdleTid}, old_state : {"waiting", "ready", "gone"},
              reason : Why]
DoingRec  == [is : {"running", "waiting", "ready", "gone"}, since : Int, reason : Why]
Stretch   == [tid : SchedThreads, is : {"running", "waiting", "ready", "gone"}, from : Int, to : Int,
              reason : Why, on : SUBSET Procs]

WakeEvents(r)   == {[ts |-> r[i].ts, rank |-> 0, i |-> i] : i \in DOMAIN r}
SwitchEvents(q) == {[ts |-> q[i].ts, rank |-> 1, i |-> i] : i \in DOMAIN q}
NamedBy(q, r, e)  == IF e.rank = 0 THEN {r[e.i].tid} ELSE {q[e.i].new_tid, q[e.i].old_tid}

(* What the thread t is doing from the event e on. *)
Became(q, e, t) ==
  IF e.rank = 0 THEN [is |-> "ready", since |-> e.ts, reason |-> "none"]
  ELSE IF q[e.i].new_tid = t THEN [is |-> "running", since |-> e.ts, reason |-> "none"]
  ELSE [is |-> q[e.i].old_state, since |-> e.ts, reason |-> q[e.i].reason]

(* Events of a thread with none between them. *)
Following(E, who, d, e, t) ==
  /\ t \in who[d] /\ t \in who[e] /\ Sooner(d, e)
  /\ \A f \in E : t \in who[f] => ~(Sooner(d, f) /\ Sooner(f, e))

(* The stretch off the processors that began with what b says and ends at e. *)
SpentIn(b, e, t) == [tid |-> t, is |-> b.is, from |-> b.since, to |-> e.ts, reason |-> b.reason, on |-> {}]

(* What t was doing until the event e: one of these. *)
Ends(q, e, t) ==
  IF e.rank = 0 THEN {"waiting", "gone"} ELSE IF q[e.i].new_tid = t THEN {"ready"} ELSE {"running"}

(* The events of t, what it is doing and its finished stretches agree. *)
Links(E, who, became, ends, st, str, t) ==
  /\ \A e \in E : t \in who[e] =>
       /\ became[e][t].since = e.ts /\ e.ts <= st[t].since
       /\ (\A d \in E : t \in who[d] => ~Sooner(e, d)) => became[e][t] = st[t]
  /\ \A d, e \in E : Following(E, who, d, e, t) =>
       /\ became[d][t].is \in ends[e][t]
       /\ became[d][t].is \in {"waiting", "ready"} => SpentIn(became[d][t], e, t) \in str
  /\ st[t].is # "running" /\ st[t].since # NoTime =>
       \E e \in E : t \in who[e] /\ \A d \in E : t \in who[d] => ~Sooner(e, d)
  /\ \A x \in str : x.tid = t /\ x.is \in {"waiting", "ready"} /\ x.from # NoTime =>
       \E d, e \in E : Following(E, who, d, e, t) /\ SpentIn(became[d][t], e, t) = x

EventsOf(q, r) == WakeEvents(r) \cup SwitchEvents(q)
WhoOf(q, r)    == [e \in EventsOf(q, r) |-> NamedBy(q, r, e)]
BecomeOf(q, r) == [e \in EventsOf(q, r) |-> [t \in SchedThreads |-> Became(q, e, t)]]
EndingOf(q, r)    == [e \in EventsOf(q, r) |-> [t \in SchedThreads |-> Ends(q, e, t)]]

LinkedBy(q, r, st, str) ==
  \A t \in SchedThreads : Links(EventsOf(q, r), WhoOf(q, r), BecomeOf(q, r), EndingOf(q, r), st, str, t)

(* A thread that has a processor is running, on that one alone. *)
OnProcs ==
  /\ runs \in [Procs -> SchedThreads \cup {IdleTid}]
  /\ \A c \in Procs : runs[c] # IdleTid => state[runs[c]].is = "running"
  /\ \A c, d \in Procs : runs[c] = runs[d] /\ runs[c] # IdleTid => c = d

SchedTypes ==
  /\ tick \in Nat /\ rd \in Seq(ReadyRec) /\ sw \in Seq(SwitchRec)
  /\ state \in [SchedThreads -> DoingRec] /\ stretches \subseteq Stretch
  /\ \A t \in SchedThreads : state[t].since <= tick
  /\ \A i \in DOMAIN sw : sw[i].new_tid # sw[i].old_tid
  /\ \A x \in stretches : x.from <= x.to

(* The inductive invariant. *)
SchedInv == SchedTypes /\ OnProcs /\ LinkedBy(sw, rd, state, stretches)

Event == [ts : Nat, rank : {0, 1}, i : Nat]

(* Sooner is a strict total order of events. *)
LEMMA SoonerOrders ==
  /\ \A a, b \in Event : ~(Sooner(a, b) /\ Sooner(b, a))
  /\ \A a, b \in Event : a = b \/ Sooner(a, b) \/ Sooner(b, a)
  /\ \A a, b, c \in Event : Sooner(a, b) /\ Sooner(b, c) => Sooner(a, c)
<1>1. \A a \in Event : a.ts \in Int /\ a.rank \in {0, 1} /\ a.i \in Nat
  BY DEF Event
<1>2. \A a, b \in Event : ~(Sooner(a, b) /\ Sooner(b, a))
  BY <1>1 DEF Sooner
<1>3. \A a, b \in Event : a = b \/ Sooner(a, b) \/ Sooner(b, a)
  <2>1. TAKE a, b \in Event
  <2>2. a.ts = b.ts /\ a.rank = b.rank /\ a.i = b.i => a = b
    BY DEF Event
  <2> QED BY <1>1, <2>2 DEF Sooner
<1>4. \A a, b, c \in Event : Sooner(a, b) /\ Sooner(b, c) => Sooner(a, c)
  BY <1>1 DEF Sooner
<1> QED BY <1>2, <1>3, <1>4

Grown(E, n, who, became, ends, who2, became2, ends2, t) ==
  /\ E \subseteq Event /\ n \in Event /\ n \notin E
  /\ \A e \in E : who2[e] = who[e] /\ became2[e][t] = became[e][t] /\ ends2[e][t] = ends[e][t]

Tells(E, n, who, st, str, who2, became2, ends2, st2, str2, t) ==
  /\ str \subseteq str2
  /\ IF t \in who2[n]
     THEN /\ \A d \in E : t \in who[d] => Sooner(d, n)
          /\ st[t].since \in Int /\ n.ts \in Int /\ st[t].since <= n.ts
          /\ became2[n][t] = st2[t] /\ st2[t].since = n.ts
          /\ st[t].is \in ends2[n][t]
          /\ st[t].is \in {"waiting", "ready"} => SpentIn(st[t], n, t) \in str2
          /\ \A x \in str2 \ str : x.tid = t /\ x.is \in {"waiting", "ready"} => x = SpentIn(st[t], n, t)
     ELSE st2[t] = st[t] /\ \A x \in str2 \ str : x.tid # t

(* One more event, later than all others of the threads it names. *)
LEMMA Appended ==
  ASSUME NEW E, NEW n, NEW who, NEW became, NEW ends, NEW st, NEW str,
         NEW who2, NEW became2, NEW ends2, NEW st2, NEW str2, NEW t,
         Links(E, who, became, ends, st, str, t),
         Grown(E, n, who, became, ends, who2, became2, ends2, t),
         Tells(E, n, who, st, str, who2, became2, ends2, st2, str2, t)
  PROVE  Links(E \cup {n}, who2, became2, ends2, st2, str2, t)
<1> DEFINE F == E \cup {n}
<1>a. /\ E \subseteq Event /\ n \in Event /\ n \notin E /\ str \subseteq str2
      /\ \A e \in E : who2[e] = who[e] /\ became2[e][t] = became[e][t] /\ ends2[e][t] = ends[e][t]
  BY DEF Grown, Tells
<1>0. /\ \A e \in E : t \in who[e] => became[e][t].since = e.ts /\ e.ts <= st[t].since /\ e.ts \in Int
      /\ \A e \in E : t \in who[e] /\ (\A d \in E : t \in who[d] => ~Sooner(e, d)) => became[e][t] = st[t]
      /\ \A d, e \in E : Following(E, who, d, e, t) =>
           /\ became[d][t].is \in ends[e][t]
           /\ became[d][t].is \in {"waiting", "ready"} => SpentIn(became[d][t], e, t) \in str
      /\ st[t].is # "running" /\ st[t].since # NoTime =>
           \E e \in E : t \in who[e] /\ \A d \in E : t \in who[d] => ~Sooner(e, d)
      /\ \A x \in str : x.tid = t /\ x.is \in {"waiting", "ready"} /\ x.from # NoTime =>
           \E d, e \in E : Following(E, who, d, e, t) /\ SpentIn(became[d][t], e, t) = x
  BY <1>a DEF Links, Event
<1>1. CASE t \notin who2[n]
  <2>1. \A d, e \in F : Following(F, who2, d, e, t) => d \in E /\ e \in E /\ Following(E, who, d, e, t)
    BY <1>a, <1>1 DEF Following
  <2>2. \A d, e \in E : Following(E, who, d, e, t) => Following(F, who2, d, e, t)
    BY <1>a, <1>1 DEF Following
  <2>3. st2[t] = st[t] /\ \A x \in str2 : x.tid = t => x \in str
    BY <1>a, <1>1 DEF Tells
  <2>4. \A e \in F : t \in who2[e] => e \in E /\ t \in who[e]
    BY <1>a, <1>1
  <2>5. \A e \in F : t \in who2[e] =>
          /\ became2[e][t].since = e.ts /\ e.ts <= st2[t].since
          /\ (\A d \in F : t \in who2[d] => ~Sooner(e, d)) => became2[e][t] = st2[t]
    BY <1>a, <1>0, <2>3, <2>4
  <2>6. \A d, e \in F : Following(F, who2, d, e, t) =>
          /\ became2[d][t].is \in ends2[e][t]
          /\ became2[d][t].is \in {"waiting", "ready"} => SpentIn(became2[d][t], e, t) \in str2
    BY <1>a, <1>0, <2>1
  <2>7. st2[t].is # "running" /\ st2[t].since # NoTime =>
          \E e \in F : t \in who2[e] /\ \A d \in F : t \in who2[d] => ~Sooner(e, d)
    BY <1>a, <1>0, <2>3, <2>4
  <2>8. \A x \in str2 : x.tid = t /\ x.is \in {"waiting", "ready"} /\ x.from # NoTime =>
          \E d, e \in F : Following(F, who2, d, e, t) /\ SpentIn(became2[d][t], e, t) = x
    <3> SUFFICES ASSUME NEW x \in str, x.tid = t, x.is \in {"waiting", "ready"}, x.from # NoTime
                 PROVE  \E d, e \in F : Following(F, who2, d, e, t) /\ SpentIn(became2[d][t], e, t) = x
      BY <1>a, <2>3
    <3>1. PICK d \in E, e \in E : Following(E, who, d, e, t) /\ SpentIn(became[d][t], e, t) = x
      BY <1>a, <1>0
    <3>2. d \in F /\ e \in F /\ Following(F, who2, d, e, t) /\ SpentIn(became2[d][t], e, t) = x
      BY <1>a, <2>2, <3>1
    <3> QED BY <1>a, <3>2
  <2> QED BY <1>a, <2>5, <2>6, <2>7, <2>8 DEF Links
<1>2. CASE t \in who2[n]
  <2>0. /\ \A d \in E : t \in who[d] => Sooner(d, n)
        /\ st[t].since \in Int /\ n.ts \in Int /\ st[t].since <= n.ts
        /\ became2[n][t] = st2[t] /\ st2[t].since = n.ts
        /\ st[t].is \in ends2[n][t]
        /\ st[t].is \in {"waiting", "ready"} => SpentIn(st[t], n, t) \in str2
        /\ \A x \in str2 \ str : x.tid = t /\ x.is \in {"waiting", "ready"} => x = SpentIn(st[t], n, t)
    BY <1>2 DEF Tells
  <2>1. \A e \in F : t \in who2[e] => e = n \/ (e \in E /\ t \in who[e] /\ Sooner(e, n) /\ ~Sooner(n, e))
    BY <1>a, <2>0, SoonerOrders
  <2>2. ~Sooner(n, n)
    BY <1>a, SoonerOrders
  <2>3. \A d, e \in F : Following(F, who2, d, e, t) => d \in E
    BY <1>a, <2>1, <2>2 DEF Following
  <2>4. \A d, e \in E : Following(F, who2, d, e, t) <=> Following(E, who, d, e, t)
    <3> SUFFICES ASSUME NEW d \in E, NEW e \in E
                 PROVE  Following(F, who2, d, e, t) <=> Following(E, who, d, e, t)
      OBVIOUS
    <3>1. t \in who[e] => ~Sooner(n, e)
      BY <1>a, <2>1
    <3>2. \A f \in F : f = n \/ f \in E
      OBVIOUS
    <3> QED BY <1>a, <3>1, <3>2 DEF Following
  <2>5. \A d \in E : Following(F, who2, d, n, t) <=> t \in who[d] /\ \A f \in E : t \in who[f] => ~Sooner(d, f)
    <3> SUFFICES ASSUME NEW d \in E
                 PROVE  Following(F, who2, d, n, t) <=> t \in who[d] /\ \A f \in E : t \in who[f] => ~Sooner(d, f)
      OBVIOUS
    <3>1. \A f \in F : f = n \/ f \in E
      OBVIOUS
    <3>2. \A f \in E : t \in who[f] => Sooner(f, n)
      BY <1>a, <2>0
    <3> QED BY <1>a, <1>2, <2>2, <3>1, <3>2 DEF Following
  <2>6. \A d \in E : Following(F, who2, d, n, t) => became2[d][t] = st[t]
    BY <1>a, <1>0, <2>5
  <2>7. \A e \in F : t \in who2[e] =>
          /\ became2[e][t].since = e.ts /\ e.ts <= st2[t].since
          /\ (\A d \in F : t \in who2[d] => ~Sooner(e, d)) => became2[e][t] = st2[t]
    <3> SUFFICES ASSUME NEW e \in F, t \in who2[e]
                 PROVE  /\ became2[e][t].since = e.ts /\ e.ts <= st2[t].since
                        /\ (\A d \in F : t \in who2[d] => ~Sooner(e, d)) => became2[e][t] = st2[t]
      OBVIOUS
    <3>1. CASE e = n
      BY <1>a, <2>0, <3>1
    <3>2. CASE e # n
      <4>1. e \in E /\ t \in who[e] /\ Sooner(e, n)
        BY <1>a, <2>1, <3>2
      <4>2. became2[e][t].since = e.ts /\ e.ts <= st2[t].since
        BY <1>a, <1>0, <2>0, <4>1
      <4>3. n \in F /\ t \in who2[n]
        BY <1>a, <1>2
      <4> QED BY <1>a, <4>1, <4>2, <4>3
    <3> QED BY <1>a, <3>1, <3>2
  <2>8. \A d, e \in F : Following(F, who2, d, e, t) =>
          /\ became2[d][t].is \in ends2[e][t]
          /\ became2[d][t].is \in {"waiting", "ready"} => SpentIn(became2[d][t], e, t) \in str2
    <3> SUFFICES ASSUME NEW d \in F, NEW e \in F, Following(F, who2, d, e, t)
                 PROVE  /\ became2[d][t].is \in ends2[e][t]
                        /\ became2[d][t].is \in {"waiting", "ready"} => SpentIn(became2[d][t], e, t) \in str2
      OBVIOUS
    <3>1. d \in E
      BY <1>a, <2>3
    <3>2. CASE e = n
      BY <1>a, <2>0, <2>6, <3>1, <3>2
    <3>3. CASE e # n
      <4>1. e \in E
        BY <1>a, <3>3
      <4> QED BY <1>a, <1>0, <2>4, <3>1, <4>1
    <3> QED BY <1>a, <3>2, <3>3
  <2>9. st2[t].is # "running" /\ st2[t].since # NoTime =>
          \E e \in F : t \in who2[e] /\ \A d \in F : t \in who2[d] => ~Sooner(e, d)
    <3>1. \A d \in F : t \in who2[d] => ~Sooner(n, d)
      BY <1>a, <2>1, <2>2
    <3>2. n \in F
      OBVIOUS
    <3> QED BY <1>a, <1>2, <3>1, <3>2
  <2>10. \A x \in str2 : x.tid = t /\ x.is \in {"waiting", "ready"} /\ x.from # NoTime =>
          \E d, e \in F : Following(F, who2, d, e, t) /\ SpentIn(became2[d][t], e, t) = x
    <3> SUFFICES ASSUME NEW x \in str2, x.tid = t, x.is \in {"waiting", "ready"}, x.from # NoTime
                 PROVE  \E d, e \in F : Following(F, who2, d, e, t) /\ SpentIn(became2[d][t], e, t) = x
      OBVIOUS
    <3>1. CASE x \in str
      <4>1. PICK d \in E, e \in E : Following(E, who, d, e, t) /\ SpentIn(became[d][t], e, t) = x
        BY <1>a, <1>0, <3>1
      <4>2. d \in F /\ e \in F /\ Following(F, who2, d, e, t) /\ SpentIn(became2[d][t], e, t) = x
        BY <1>a, <2>4, <4>1
      <4> QED BY <1>a, <4>2
    <3>2. CASE x \notin str
      <4>1. x = SpentIn(st[t], n, t)
        BY <1>a, <2>0, <3>2
      <4>2. x.is = st[t].is /\ x.from = st[t].since
        BY <1>a, <4>1 DEF SpentIn
      <4>3. st[t].is # "running"
        BY <1>a, <4>2
      <4>4. PICK d \in E : t \in who[d] /\ \A f \in E : t \in who[f] => ~Sooner(d, f)
        BY <1>a, <1>0, <4>2, <4>3
      <4>5. Following(F, who2, d, n, t) /\ became2[d][t] = st[t] /\ d \in F /\ n \in F
        BY <1>a, <2>5, <2>6, <4>4
      <4>6. SpentIn(became2[d][t], n, t) = x
        BY <1>a, <4>1, <4>5
      <4> QED BY <1>a, <4>5, <4>6
    <3> QED BY <1>a, <3>1, <3>2
  <2> HIDE DEF F
  <2> QED BY <1>a, <2>7, <2>8, <2>9, <2>10 DEF Links, F
<1> QED BY <1>a, <1>1, <1>2

(* An event is a record of its stream. *)
LEMMA EventTypes ==
  ASSUME NEW q \in Seq(SwitchRec), NEW r \in Seq(ReadyRec)
  PROVE  /\ EventsOf(q, r) \subseteq Event
         /\ \A e \in EventsOf(q, r) : /\ e.rank = 0 => e.i \in 1 .. Len(r) /\ e.ts = r[e.i].ts
                                      /\ e.rank = 1 => e.i \in 1 .. Len(q) /\ e.ts = q[e.i].ts
<1>1. \A i \in 1 .. Len(r) : r[i].ts \in Nat
  <2>1. \A i \in 1 .. Len(r) : r[i] \in ReadyRec
    BY ElementOfSeq
  <2> QED BY <2>1 DEF ReadyRec
<1>2. \A i \in 1 .. Len(q) : q[i].ts \in Nat
  <2>1. \A i \in 1 .. Len(q) : q[i] \in SwitchRec
    BY ElementOfSeq
  <2> QED BY <2>1 DEF SwitchRec
<1>3. DOMAIN r = 1 .. Len(r) /\ DOMAIN q = 1 .. Len(q) /\ Len(r) \in Nat /\ Len(q) \in Nat
  BY LenProperties
<1>4. ASSUME NEW e \in WakeEvents(r)
      PROVE  e \in Event /\ e.rank = 0 /\ e.i \in 1 .. Len(r) /\ e.ts = r[e.i].ts
  BY <1>1, <1>3 DEF WakeEvents, Event
<1>5. ASSUME NEW e \in SwitchEvents(q)
      PROVE  e \in Event /\ e.rank = 1 /\ e.i \in 1 .. Len(q) /\ e.ts = q[e.i].ts
  BY <1>2, <1>3 DEF SwitchEvents, Event
<1> QED BY <1>4, <1>5 DEF EventsOf

(* A wake-up record x is appended to r, and n is its event. *)
OneWake(q, r, x, n, r2) ==
  /\ q \in Seq(SwitchRec) /\ r \in Seq(ReadyRec) /\ x \in ReadyRec
  /\ n = [ts |-> x.ts, rank |-> 0, i |-> Len(r) + 1] /\ r2 = Append(r, x)

WakeAdds(q, r, x, n, r2) ==
  /\ n \in Event /\ n \notin EventsOf(q, r) /\ EventsOf(q, r2) = EventsOf(q, r) \cup {n}
  /\ \A e \in EventsOf(q, r) : e.ts < x.ts => Sooner(e, n)
  /\ WhoOf(q, r2)[n] = {x.tid}
  /\ \A t \in SchedThreads : /\ BecomeOf(q, r2)[n][t] = [is |-> "ready", since |-> x.ts, reason |-> "none"]
                             /\ EndingOf(q, r2)[n][t] = {"waiting", "gone"}
  /\ \A e \in EventsOf(q, r) : /\ WhoOf(q, r2)[e] = WhoOf(q, r)[e]
                               /\ \A t \in SchedThreads : /\ BecomeOf(q, r2)[e][t] = BecomeOf(q, r)[e][t]
                                                          /\ EndingOf(q, r2)[e][t] = EndingOf(q, r)[e][t]

(* One wake-up record more is one event more. *)
LEMMA MoreWakes ==
  ASSUME NEW q, NEW r, NEW x, NEW n, NEW r2, OneWake(q, r, x, n, r2)
  PROVE  WakeAdds(q, r, x, n, r2)
<1>0. /\ q \in Seq(SwitchRec) /\ r \in Seq(ReadyRec) /\ x \in ReadyRec
      /\ n = [ts |-> x.ts, rank |-> 0, i |-> Len(r) + 1] /\ r2 = Append(r, x)
  BY DEF OneWake
<1> USE <1>0
<1>1. PICK m \in Nat : m = Len(r)
  BY LenProperties
<1>2. r2 \in Seq(ReadyRec) /\ Len(r2) = m + 1 /\ r2[m + 1] = x /\ (\A i \in 1 .. m : r2[i] = r[i])
      /\ DOMAIN r = 1 .. m /\ DOMAIN r2 = 1 .. m + 1
  BY <1>1, AppendProperties, LenProperties
<1>3. n \in Event /\ n.ts = x.ts /\ n.rank = 0 /\ n.i = m + 1
  BY <1>1 DEF Event, ReadyRec
<1>4. WakeEvents(r2) = WakeEvents(r) \cup {n}
  <2>1. \A i \in 1 .. m + 1 : i \in 1 .. m \/ i = m + 1
    OBVIOUS
  <2>2. \A i \in 1 .. m : i \in 1 .. m + 1
    OBVIOUS
  <2>3. WakeEvents(r2) \subseteq WakeEvents(r) \cup {n}
    BY <1>1, <1>2, <2>1 DEF WakeEvents
  <2>4. WakeEvents(r) \subseteq WakeEvents(r2)
    BY <1>2, <2>2 DEF WakeEvents
  <2>5. n \in WakeEvents(r2)
    BY <1>1, <1>2 DEF WakeEvents
  <2> QED BY <2>3, <2>4, <2>5
<1>5. EventsOf(q, r2) = EventsOf(q, r) \cup {n}
  BY <1>4 DEF EventsOf
<1>6. \A e \in EventsOf(q, r) : /\ e \in Event
                                /\ e.rank = 0 => e.i \in 1 .. m
  BY <1>1, EventTypes
<1>7. n \notin EventsOf(q, r)
  BY <1>3, <1>6
<1>8. \A e \in EventsOf(q, r) : e.ts < x.ts => Sooner(e, n)
  BY <1>3 DEF Sooner
<1>9. n \in EventsOf(q, r2) /\ \A e \in EventsOf(q, r) : e \in EventsOf(q, r2)
  BY <1>5
<1>10. WhoOf(q, r2)[n] = {x.tid}
  BY <1>2, <1>3, <1>9 DEF WhoOf, NamedBy
<1>11. \A t \in SchedThreads : /\ BecomeOf(q, r2)[n][t] = [is |-> "ready", since |-> x.ts, reason |-> "none"]
                               /\ EndingOf(q, r2)[n][t] = {"waiting", "gone"}
  BY <1>3, <1>9 DEF BecomeOf, EndingOf, Became, Ends
<1>12. \A e \in EventsOf(q, r) : NamedBy(q, r2, e) = NamedBy(q, r, e)
  <2>1. ASSUME NEW e \in EventsOf(q, r), e.rank = 0 PROVE r2[e.i] = r[e.i]
    <3>1. e.i \in 1 .. m
      BY <1>6, <2>1
    <3> QED BY <1>2, <3>1
  <2> QED BY <2>1 DEF NamedBy
<1>13. \A e \in EventsOf(q, r) : /\ WhoOf(q, r2)[e] = WhoOf(q, r)[e]
                                 /\ \A t \in SchedThreads : /\ BecomeOf(q, r2)[e][t] = BecomeOf(q, r)[e][t]
                                                            /\ EndingOf(q, r2)[e][t] = EndingOf(q, r)[e][t]
  BY <1>9, <1>12 DEF WhoOf, BecomeOf, EndingOf
<1> QED BY <1>3, <1>5, <1>7, <1>8, <1>10, <1>11, <1>13 DEF WakeAdds

(* A switch record x is appended to q, and n is its event. *)
OneSwitch(q, r, x, n, q2) ==
  /\ q \in Seq(SwitchRec) /\ r \in Seq(ReadyRec) /\ x \in SwitchRec
  /\ n = [ts |-> x.ts, rank |-> 1, i |-> Len(q) + 1] /\ q2 = Append(q, x)

SwitchAdds(q, r, x, n, q2) ==
  /\ n \in Event /\ n \notin EventsOf(q, r) /\ EventsOf(q2, r) = EventsOf(q, r) \cup {n}
  /\ \A e \in EventsOf(q, r) : e.ts <= x.ts => Sooner(e, n)
  /\ WhoOf(q2, r)[n] = {x.new_tid, x.old_tid}
  /\ \A t \in SchedThreads : /\ BecomeOf(q2, r)[n][t] =
                                  IF t = x.new_tid THEN [is |-> "running", since |-> x.ts, reason |-> "none"]
                                  ELSE [is |-> x.old_state, since |-> x.ts, reason |-> x.reason]
                             /\ EndingOf(q2, r)[n][t] = IF t = x.new_tid THEN {"ready"} ELSE {"running"}
  /\ \A e \in EventsOf(q, r) : /\ WhoOf(q2, r)[e] = WhoOf(q, r)[e]
                               /\ \A t \in SchedThreads : /\ BecomeOf(q2, r)[e][t] = BecomeOf(q, r)[e][t]
                                                          /\ EndingOf(q2, r)[e][t] = EndingOf(q, r)[e][t]

(* One switch record more is one event more. *)
LEMMA MoreSwitches ==
  ASSUME NEW q, NEW r, NEW x, NEW n, NEW q2, OneSwitch(q, r, x, n, q2)
  PROVE  SwitchAdds(q, r, x, n, q2)
<1>0. /\ q \in Seq(SwitchRec) /\ r \in Seq(ReadyRec) /\ x \in SwitchRec
      /\ n = [ts |-> x.ts, rank |-> 1, i |-> Len(q) + 1] /\ q2 = Append(q, x)
  BY DEF OneSwitch
<1> USE <1>0
<1>1. PICK m \in Nat : m = Len(q)
  BY LenProperties
<1>2. q2 \in Seq(SwitchRec) /\ Len(q2) = m + 1 /\ q2[m + 1] = x /\ (\A i \in 1 .. m : q2[i] = q[i])
      /\ DOMAIN q = 1 .. m /\ DOMAIN q2 = 1 .. m + 1
  BY <1>1, AppendProperties, LenProperties
<1>3. n \in Event /\ n.ts = x.ts /\ n.rank = 1 /\ n.i = m + 1
  BY <1>1 DEF Event, SwitchRec
<1>4. SwitchEvents(q2) = SwitchEvents(q) \cup {n}
  <2>1. \A i \in 1 .. m + 1 : i \in 1 .. m \/ i = m + 1
    OBVIOUS
  <2>2. \A i \in 1 .. m : i \in 1 .. m + 1
    OBVIOUS
  <2>3. SwitchEvents(q2) \subseteq SwitchEvents(q) \cup {n}
    BY <1>1, <1>2, <2>1 DEF SwitchEvents
  <2>4. SwitchEvents(q) \subseteq SwitchEvents(q2)
    BY <1>2, <2>2 DEF SwitchEvents
  <2>5. n \in SwitchEvents(q2)
    BY <1>1, <1>2 DEF SwitchEvents
  <2> QED BY <2>3, <2>4, <2>5
<1>5. EventsOf(q2, r) = EventsOf(q, r) \cup {n}
  BY <1>4 DEF EventsOf
<1>6. \A e \in EventsOf(q, r) : /\ e \in Event
                                /\ e.rank = 1 => e.i \in 1 .. m
  BY <1>1, EventTypes
<1>a. \A e \in EventsOf(q, r) : e.rank \in {0, 1} /\ e.ts \in Int
  <2> SUFFICES ASSUME NEW e \in EventsOf(q, r) PROVE e.rank \in {0, 1} /\ e.ts \in Int
    OBVIOUS
  <2>1. e \in Event
    BY <1>6
  <2> QED BY <2>1 DEF Event
<1>7. n \notin EventsOf(q, r)
  BY <1>3, <1>6
<1>8. \A e \in EventsOf(q, r) : e.ts <= x.ts => Sooner(e, n)
  <2>1. x.ts \in Int
    BY DEF SwitchRec
  <2>2. ASSUME NEW e \in EventsOf(q, r), e.rank = 1 PROVE e.i \in Nat /\ e.i < n.i
    <3>1. e.i \in 1 .. m
      BY <1>6, <2>2
    <3> QED BY <1>3, <3>1
  <2> QED BY <1>3, <1>a, <2>1, <2>2 DEF Sooner
<1>9. n \in EventsOf(q2, r) /\ \A e \in EventsOf(q, r) : e \in EventsOf(q2, r)
  BY <1>5
<1>10. WhoOf(q2, r)[n] = {x.new_tid, x.old_tid}
  BY <1>2, <1>3, <1>9 DEF WhoOf, NamedBy
<1>11. \A t \in SchedThreads : /\ BecomeOf(q2, r)[n][t] =
                                   IF t = x.new_tid THEN [is |-> "running", since |-> x.ts, reason |-> "none"]
                                   ELSE [is |-> x.old_state, since |-> x.ts, reason |-> x.reason]
                               /\ EndingOf(q2, r)[n][t] = IF t = x.new_tid THEN {"ready"} ELSE {"running"}
  BY <1>2, <1>3, <1>9 DEF BecomeOf, EndingOf, Became, Ends
<1>12. \A e \in EventsOf(q, r) : e.rank = 0 \/ q2[e.i] = q[e.i]
  <2>1. ASSUME NEW e \in EventsOf(q, r), e.rank = 1 PROVE q2[e.i] = q[e.i]
    <3>1. e.i \in 1 .. m
      BY <1>6, <2>1
    <3> QED BY <1>2, <3>1
  <2> QED BY <1>a, <2>1
<1>13. \A e \in EventsOf(q, r) : /\ NamedBy(q2, r, e) = NamedBy(q, r, e)
                                 /\ \A t \in SchedThreads : Became(q2, e, t) = Became(q, e, t) /\ Ends(q2, e, t) = Ends(q, e, t)
  BY <1>12 DEF NamedBy, Became, Ends
<1>14. \A e \in EventsOf(q, r) : /\ WhoOf(q2, r)[e] = WhoOf(q, r)[e]
                                 /\ \A t \in SchedThreads : /\ BecomeOf(q2, r)[e][t] = BecomeOf(q, r)[e][t]
                                                            /\ EndingOf(q2, r)[e][t] = EndingOf(q, r)[e][t]
  BY <1>9, <1>13 DEF WhoOf, BecomeOf, EndingOf
<1> QED BY <1>3, <1>5, <1>7, <1>8, <1>10, <1>11, <1>14 DEF SwitchAdds

-----------------------------------------------------------------------------
(* Every step of the scheduler keeps the link.                              *)

LEMMA SchedStart ==
  ASSUME SchedInit
  PROVE  SchedInv
<1>1. tick = 0 /\ sw = <<>> /\ rd = <<>> /\ stretches = {}
  BY DEF SchedInit
<1>2. rd \in Seq(ReadyRec) /\ sw \in Seq(SwitchRec) /\ DOMAIN sw = {} /\ DOMAIN rd = {}
  BY <1>1, EmptySeq
<1>3. NoTime \in Int /\ NoTime <= 0
  BY DEF NoTime
<1>4. state \in [SchedThreads -> DoingRec] /\ \A t \in SchedThreads : state[t].since <= tick
  <2>1. \A t \in SchedThreads : state[t] = IF t = Probe THEN [is |-> "running", since |-> 0, reason |-> "none"]
                                           ELSE [is |-> "ready", since |-> NoTime, reason |-> "none"]
    BY DEF SchedInit
  <2>2. /\ [is |-> "running", since |-> 0, reason |-> "none"] \in DoingRec
        /\ [is |-> "ready", since |-> NoTime, reason |-> "none"] \in DoingRec
    BY <1>3 DEF DoingRec, Why
  <2>3. state \in [SchedThreads -> DoingRec]
    BY <2>2 DEF SchedInit
  <2> QED BY <1>1, <1>3, <2>1, <2>3
<1>5. SchedTypes
  BY <1>1, <1>2, <1>4 DEF SchedTypes
<1>6. OnProcs
  BY SchedAssumption DEF SchedInit, OnProcs
<1>7. LinkedBy(sw, rd, state, stretches)
  <2>1. EventsOf(sw, rd) = {}
    BY <1>2 DEF EventsOf, WakeEvents, SwitchEvents
  <2>2. \A t \in SchedThreads : state[t].is # "running" => state[t].since = NoTime
    BY DEF SchedInit
  <2> QED BY <1>1, <2>1, <2>2 DEF LinkedBy, Links
<1> QED BY <1>5, <1>6, <1>7 DEF SchedInv

(* Time that goes on changes no stretch. *)
LEMMA TimeGoesOn ==
  ASSUME SchedInv, Later
  PROVE  SchedInv'
<1>1. UNCHANGED <<sw, rd, runs, state, stretches>> /\ tick' \in Nat /\ tick <= tick'
  BY SchedAssumption DEF Later, SchedInv, SchedTypes
<1>2. OnProcs' /\ LinkedBy(sw, rd, state, stretches)'
  BY <1>1 DEF SchedInv, OnProcs, LinkedBy
<1>3. \A t \in SchedThreads : state'[t].since <= tick'
  <2>1. \A t \in SchedThreads : state[t].since \in Int /\ state[t].since <= tick /\ tick \in Nat
    BY DEF SchedInv, SchedTypes, DoingRec
  <2> QED BY <1>1, <2>1
<1>4. SchedTypes'
  BY <1>1, <1>3 DEF SchedInv, SchedTypes
<1> QED BY <1>2, <1>4 DEF SchedInv

(* A thread that is made ready ends its wait, if it waited. *)
LEMMA MadeReady ==
  ASSUME SchedInv, NEW u \in SchedThreads, Ready(u)
  PROVE  SchedInv'
<1> DEFINE x == [ts |-> tick, tid |-> u]
           n == [ts |-> tick, rank |-> 0, i |-> Len(rd) + 1]
           now == [is |-> "ready", since |-> tick, reason |-> "none"]
<1>1. /\ tick \in Nat /\ rd \in Seq(ReadyRec) /\ sw \in Seq(SwitchRec)
      /\ state \in [SchedThreads -> DoingRec] /\ stretches \subseteq Stretch
      /\ \A t \in SchedThreads : state[t] \in DoingRec /\ state[t].since \in Int /\ state[t].since <= tick
  BY DEF SchedInv, SchedTypes, DoingRec
<1>2. /\ state[u].is \in {"waiting", "gone"} /\ tick > state[u].since
      /\ rd' = Append(rd, x) /\ state' = [state EXCEPT ![u] = now]
      /\ stretches' = IF state[u].is = "waiting" THEN stretches \cup Over(u) ELSE stretches
      /\ UNCHANGED <<tick, sw, runs>>
  BY DEF Ready, Doing
<1>3. x \in ReadyRec /\ now \in DoingRec
  BY <1>1 DEF ReadyRec, DoingRec, Why
<1>4. Over(u) = {SpentIn(state[u], n, u)} /\ SpentIn(state[u], n, u) \in Stretch
  <2>1. u # IdleTid
    BY SchedAssumption
  <2>2. {c \in Procs : runs[c] = u} = {}
    BY <1>2, <2>1 DEF SchedInv, OnProcs
  <2>3. Over(u) = {SpentIn(state[u], n, u)}
    BY <2>1, <2>2 DEF Over, SpentIn
  <2> QED BY <1>1, <2>3 DEF SpentIn, Stretch, DoingRec
<1>5. stretches \subseteq stretches' /\ (\A y \in stretches' \ stretches : y = SpentIn(state[u], n, u) /\ y.tid = u)
      /\ (state[u].is \in {"waiting", "ready"} => SpentIn(state[u], n, u) \in stretches')
  BY <1>2, <1>4 DEF SpentIn
<1>6. SchedTypes'
  <2>1. rd' \in Seq(ReadyRec)
    BY <1>1, <1>2, <1>3, AppendProperties
  <2>2. state' \in [SchedThreads -> DoingRec]
    BY <1>1, <1>2, <1>3
  <2>3. \A t \in SchedThreads : state'[t].since <= tick'
    BY <1>1, <1>2
  <2>4. \A y \in stretches' : y \in Stretch /\ y.from <= y.to
    <3>1. SpentIn(state[u], n, u).from <= SpentIn(state[u], n, u).to
      BY <1>1 DEF SpentIn
    <3> QED BY <1>4, <1>5, <3>1 DEF SchedInv, SchedTypes
  <2> QED BY <1>2, <2>1, <2>2, <2>3, <2>4 DEF SchedInv, SchedTypes
<1>7. OnProcs'
  BY <1>1, <1>2 DEF SchedInv, OnProcs
<1>8. LinkedBy(sw', rd', state', stretches')
  <2> SUFFICES ASSUME NEW t \in SchedThreads
               PROVE  Links(EventsOf(sw', rd'), WhoOf(sw', rd'), BecomeOf(sw', rd'), EndingOf(sw', rd'), state', stretches', t)
    BY DEF LinkedBy
  <2>0. PICK q, r, r2, w, m : q = sw /\ r = rd /\ r2 = rd' /\ w = x /\ m = n
    OBVIOUS
  <2>1. PICK E, who, bec, ends : E = EventsOf(q, r) /\ who = WhoOf(q, r) /\ bec = BecomeOf(q, r) /\ ends = EndingOf(q, r)
    OBVIOUS
  <2>2. PICK who2, bec2, ends2 : who2 = WhoOf(q, r2) /\ bec2 = BecomeOf(q, r2) /\ ends2 = EndingOf(q, r2)
    OBVIOUS
  <2>a. PICK st, str, st2, str2 : st = state /\ str = stretches /\ st2 = state' /\ str2 = stretches'
    OBVIOUS
  <2>3. Links(E, who, bec, ends, st, str, t)
    BY <2>0, <2>1, <2>a DEF SchedInv, LinkedBy
  <2>b. /\ q \in Seq(SwitchRec) /\ r \in Seq(ReadyRec) /\ w \in ReadyRec /\ r2 = Append(r, w)
        /\ m = [ts |-> w.ts, rank |-> 0, i |-> Len(r) + 1] /\ w.ts = tick /\ w.tid = u /\ m.ts = tick
    BY <1>1, <1>2, <1>3, <2>0
  <2>c. WakeAdds(q, r, w, m, r2)
    BY <2>b, MoreWakes DEF OneWake
  <2>4. /\ m \in Event /\ m \notin E /\ EventsOf(q, r2) = E \cup {m} /\ E \subseteq Event
        /\ \A e \in E : e.ts < tick => Sooner(e, m)
        /\ who2[m] = {u}
        /\ bec2[m][t] = now /\ ends2[m][t] = {"waiting", "gone"}
        /\ \A e \in E : who2[e] = who[e] /\ bec2[e][t] = bec[e][t] /\ ends2[e][t] = ends[e][t]
    <3>1. /\ m \in Event /\ m \notin E /\ EventsOf(q, r2) = E \cup {m} /\ E \subseteq Event
          /\ \A e \in E : e.ts < w.ts => Sooner(e, m)
          /\ who2[m] = {w.tid}
      <4>1. E \subseteq Event
        BY <2>1, <2>b, EventTypes
      <4>2. /\ m \in Event /\ m \notin EventsOf(q, r) /\ EventsOf(q, r2) = EventsOf(q, r) \cup {m}
            /\ \A e \in EventsOf(q, r) : e.ts < w.ts => Sooner(e, m)
            /\ WhoOf(q, r2)[m] = {w.tid}
        BY <2>c DEF WakeAdds
      <4> QED BY <2>1, <2>2, <4>1, <4>2
    <3>2. bec2[m][t] = [is |-> "ready", since |-> w.ts, reason |-> "none"] /\ ends2[m][t] = {"waiting", "gone"}
      BY <2>1, <2>2, <2>c DEF WakeAdds
    <3>3. \A e \in E : who2[e] = who[e] /\ bec2[e][t] = bec[e][t] /\ ends2[e][t] = ends[e][t]
      <4>1. \A e \in EventsOf(q, r) : /\ WhoOf(q, r2)[e] = WhoOf(q, r)[e]
                                      /\ BecomeOf(q, r2)[e][t] = BecomeOf(q, r)[e][t]
                                      /\ EndingOf(q, r2)[e][t] = EndingOf(q, r)[e][t]
        BY <2>c DEF WakeAdds
      <4> QED BY <2>1, <2>2, <4>1
    <3> QED BY <2>b, <3>1, <3>2, <3>3
  <2>5. Grown(E, m, who, bec, ends, who2, bec2, ends2, t) /\ str \subseteq str2
    BY <1>5, <2>4, <2>a DEF Grown
  <2>6. Links(E \cup {m}, who2, bec2, ends2, st2, str2, t)
    <3>1. CASE t = u
      <4>1. \A d \in E : t \in who[d] => Sooner(d, m)
        <5>1. \A d \in E : t \in who[d] => d.ts <= st[t].since
          BY <2>3 DEF Links
        <5>2. \A d \in Event : d.ts \in Int
          BY DEF Event
        <5> QED BY <1>1, <1>2, <2>4, <2>a, <3>1, <5>1, <5>2
      <4>2. /\ st[t].since \in Int /\ m.ts \in Int /\ st[t].since <= m.ts
            /\ bec2[m][t] = st2[t] /\ st2[t].since = m.ts /\ st[t].is \in ends2[m][t] /\ t \in who2[m]
        BY <1>1, <1>2, <2>4, <2>a, <2>b, <3>1
      <4>3. /\ st[t].is \in {"waiting", "ready"} => SpentIn(st[t], m, t) \in str2
            /\ \A y \in str2 \ str : y.tid = t => y = SpentIn(st[t], m, t)
        BY <1>5, <2>0, <2>a, <3>1
      <4>4. Tells(E, m, who, st, str, who2, bec2, ends2, st2, str2, t)
        BY <2>5, <4>1, <4>2, <4>3 DEF Tells
      <4> QED BY <2>3, <2>5, <4>4, Appended
    <3>2. CASE t # u
      <4>1. st2[t] = st[t] /\ t \notin who2[m]
        BY <1>1, <1>2, <2>4, <2>a, <3>2
      <4>2. \A y \in str2 \ str : y.tid # t
        BY <1>5, <2>a, <3>2
      <4>3. Tells(E, m, who, st, str, who2, bec2, ends2, st2, str2, t)
        BY <2>5, <4>1, <4>2 DEF Tells
      <4> QED BY <2>3, <2>5, <4>3, Appended
    <3> QED BY <3>1, <3>2
  <2> QED BY <1>2, <2>0, <2>2, <2>4, <2>6, <2>a
<1> QED BY <1>6, <1>7, <1>8 DEF SchedInv, LinkedBy

(* A processor handed over ends what two threads were doing. *)
LEMMA HandedOver ==
  ASSUME SchedInv, NEW c \in Procs, NEW u \in SchedThreads \cup {IdleTid},
         NEW is \in {"waiting", "ready", "gone"}, NEW reason \in Why, Hand(c, u, is, reason)
  PROVE  SchedInv'
<1>0. PICK old : old = runs[c]
  OBVIOUS
<1> DEFINE x == [ts |-> tick, cpu |-> c, new_tid |-> u, old_tid |-> old, old_state |-> is, reason |-> reason]
           n == [ts |-> tick, rank |-> 1, i |-> Len(sw) + 1]
           into == [is |-> "running", since |-> tick, reason |-> "none"]
           out  == [is |-> is, since |-> tick, reason |-> reason]
           Gone(t) == [tid |-> t, is |-> state[t].is, from |-> state[t].since, to |-> tick,
                       reason |-> state[t].reason, on |-> {d \in Procs : runs[d] = t}]
<1>1. /\ tick \in Nat /\ rd \in Seq(ReadyRec) /\ sw \in Seq(SwitchRec)
      /\ state \in [SchedThreads -> DoingRec] /\ stretches \subseteq Stretch
      /\ \A t \in SchedThreads : state[t] \in DoingRec /\ state[t].since \in Int /\ state[t].since <= tick
      /\ \A i \in DOMAIN sw : sw[i].new_tid # sw[i].old_tid
      /\ \A y \in stretches : y.from <= y.to
  BY DEF SchedInv, SchedTypes, DoingRec
<1>2. /\ u # old /\ (u # IdleTid => state[u].is = "ready")
      /\ (old # IdleTid => tick > state[old].since)
      /\ sw' = Append(sw, x) /\ runs' = [runs EXCEPT ![c] = u]
      /\ state' = [t \in SchedThreads |-> IF t = u THEN into ELSE IF t = old THEN out ELSE state[t]]
      /\ stretches' = stretches \cup Over(u) \cup Over(old)
      /\ UNCHANGED <<tick, rd>>
  BY <1>0 DEF Hand, Doing
<1>3. /\ old \in SchedThreads \cup {IdleTid} /\ runs \in [Procs -> SchedThreads \cup {IdleTid}]
      /\ old # IdleTid => state[old].is = "running"
  BY <1>0 DEF SchedInv, OnProcs
<1>4. x \in SwitchRec /\ into \in DoingRec /\ out \in DoingRec
  BY <1>1, <1>3 DEF SwitchRec, DoingRec, Why
<1>5. \A t \in SchedThreads \cup {IdleTid} : Over(t) = IF t = IdleTid THEN {} ELSE {Gone(t)}
  BY DEF Over
<1>6. \A t \in SchedThreads : /\ Gone(t) \in Stretch /\ Gone(t).tid = t /\ Gone(t).from <= Gone(t).to
                              /\ Gone(t).is = state[t].is
                              /\ state[t].is # "running" => Gone(t) = SpentIn(state[t], n, t)
  <2> SUFFICES ASSUME NEW t \in SchedThreads
               PROVE  /\ Gone(t) \in Stretch /\ Gone(t).tid = t /\ Gone(t).from <= Gone(t).to
                      /\ Gone(t).is = state[t].is
                      /\ state[t].is # "running" => Gone(t) = SpentIn(state[t], n, t)
    OBVIOUS
  <2>1. Gone(t) \in Stretch /\ Gone(t).tid = t /\ Gone(t).from <= Gone(t).to /\ Gone(t).is = state[t].is
    BY <1>1 DEF Stretch, DoingRec
  <2>2. ASSUME state[t].is # "running" PROVE Gone(t) = SpentIn(state[t], n, t)
    <3>1. t # IdleTid
      BY SchedAssumption
    <3>2. {d \in Procs : runs[d] = t} = {}
      BY <2>2, <3>1 DEF SchedInv, OnProcs
    <3> QED BY <3>2 DEF SpentIn
  <2> QED BY <2>1, <2>2
<1>7. /\ stretches \subseteq stretches'
      /\ \A y \in stretches' \ stretches : \E t \in {u, old} \ {IdleTid} : y = Gone(t)
      /\ \A t \in {u, old} \ {IdleTid} : Gone(t) \in stretches'
  <2>1. \A y : y \in stretches' <=> y \in stretches \/ y \in Over(u) \/ y \in Over(old)
    BY <1>2
  <2> QED BY <1>3, <1>5, <2>1
<1>8. SchedTypes'
  <2>1. sw' \in Seq(SwitchRec)
    BY <1>1, <1>2, <1>4, AppendProperties
  <2>2. state' \in [SchedThreads -> DoingRec]
    BY <1>1, <1>2, <1>4
  <2>3. \A t \in SchedThreads : state'[t].since <= tick'
    BY <1>1, <1>2
  <2>4. \A y \in stretches' : y \in Stretch /\ y.from <= y.to
    BY <1>1, <1>3, <1>6, <1>7
  <2>5. \A i \in DOMAIN sw' : sw'[i].new_tid # sw'[i].old_tid
    <3>1. PICK m \in Nat : m = Len(sw)
      BY <1>1, LenProperties
    <3>2. DOMAIN sw = 1 .. m /\ DOMAIN sw' = 1 .. m + 1 /\ (\A i \in 1 .. m : sw'[i] = sw[i]) /\ sw'[m + 1] = x
      BY <1>1, <1>2, <1>4, <2>1, <3>1, AppendProperties, LenProperties
    <3>3. \A i \in 1 .. m + 1 : i \in 1 .. m \/ i = m + 1
      OBVIOUS
    <3>4. x.new_tid # x.old_tid
      BY <1>2
    <3> HIDE DEF x
    <3> QED BY <1>1, <3>2, <3>3, <3>4
  <2> QED BY <1>1, <1>2, <2>1, <2>2, <2>3, <2>4, <2>5 DEF SchedTypes
<1>9. OnProcs'
  <2>1. runs' \in [Procs -> SchedThreads \cup {IdleTid}]
    BY <1>2, <1>3
  <2>2. \A d \in Procs : runs'[d] = IF d = c THEN u ELSE runs[d]
    BY <1>2, <1>3
  <2>3. \A d \in Procs : /\ runs[d] # IdleTid => state[runs[d]].is = "running"
                          /\ \A e \in Procs : runs[d] = runs[e] /\ runs[d] # IdleTid => d = e
    BY DEF SchedInv, OnProcs
  <2>4. \A d \in Procs : runs[d] # IdleTid /\ d # c => runs[d] # old /\ runs[d] # u
    BY <1>0, <1>2, <2>3
  <2>5. \A d \in Procs : runs'[d] # IdleTid => state'[runs'[d]].is = "running"
    <3> SUFFICES ASSUME NEW d \in Procs, runs'[d] # IdleTid PROVE state'[runs'[d]].is = "running"
      OBVIOUS
    <3>1. CASE d = c
      <4>1. runs'[d] = u /\ u \in SchedThreads
        BY <2>2, <3>1
      <4>2. state'[u] = into
        BY <1>2, <4>1
      <4> QED BY <4>1, <4>2
    <3>2. CASE d # c
      <4>1. runs'[d] = runs[d] /\ runs[d] \in SchedThreads /\ runs[d] # old /\ runs[d] # u
        BY <1>3, <2>2, <2>4, <3>2
      <4>2. state'[runs[d]] = state[runs[d]]
        BY <1>2, <4>1
      <4> QED BY <2>3, <4>1, <4>2
    <3> QED BY <3>1, <3>2
  <2>6. \A d, e \in Procs : runs'[d] = runs'[e] /\ runs'[d] # IdleTid => d = e
    BY <2>2, <2>3, <2>4
  <2> QED BY <2>1, <2>5, <2>6 DEF OnProcs
<1>10. LinkedBy(sw', rd', state', stretches')
  <2> SUFFICES ASSUME NEW t \in SchedThreads
               PROVE  Links(EventsOf(sw', rd'), WhoOf(sw', rd'), BecomeOf(sw', rd'), EndingOf(sw', rd'), state', stretches', t)
    BY DEF LinkedBy
  <2>0. PICK q, r, q2, w, m : q = sw /\ r = rd /\ q2 = sw' /\ w = x /\ m = n
    OBVIOUS
  <2>1. PICK E, who, bec, ends : E = EventsOf(q, r) /\ who = WhoOf(q, r) /\ bec = BecomeOf(q, r) /\ ends = EndingOf(q, r)
    OBVIOUS
  <2>2. PICK who2, bec2, ends2 : who2 = WhoOf(q2, r) /\ bec2 = BecomeOf(q2, r) /\ ends2 = EndingOf(q2, r)
    OBVIOUS
  <2>a. PICK st, str, st2, str2 : st = state /\ str = stretches /\ st2 = state' /\ str2 = stretches'
    OBVIOUS
  <2>3. Links(E, who, bec, ends, st, str, t)
    BY <2>0, <2>1, <2>a DEF SchedInv, LinkedBy
  <2>b. /\ q \in Seq(SwitchRec) /\ r \in Seq(ReadyRec) /\ w \in SwitchRec /\ q2 = Append(q, w)
        /\ m = [ts |-> w.ts, rank |-> 1, i |-> Len(q) + 1] /\ w.ts = tick /\ m.ts = tick
        /\ w.new_tid = u /\ w.old_tid = old /\ w.old_state = is /\ w.reason = reason
    BY <1>1, <1>2, <1>4, <2>0
  <2>c. SwitchAdds(q, r, w, m, q2)
    BY <2>b, MoreSwitches DEF OneSwitch
  <2>4. /\ m \in Event /\ m \notin E /\ EventsOf(q2, r) = E \cup {m} /\ E \subseteq Event
        /\ \A e \in E : e.ts <= tick => Sooner(e, m)
        /\ who2[m] = {u, old}
        /\ bec2[m][t] = IF t = u THEN into ELSE out
        /\ ends2[m][t] = IF t = u THEN {"ready"} ELSE {"running"}
        /\ \A e \in E : who2[e] = who[e] /\ bec2[e][t] = bec[e][t] /\ ends2[e][t] = ends[e][t]
    <3>1. E \subseteq Event
      BY <2>1, <2>b, EventTypes
    <3>2. /\ m \in Event /\ m \notin E /\ EventsOf(q2, r) = E \cup {m}
          /\ \A e \in E : e.ts <= w.ts => Sooner(e, m)
          /\ who2[m] = {w.new_tid, w.old_tid}
      BY <2>1, <2>2, <2>c DEF SwitchAdds
    <3>3. /\ bec2[m][t] = IF t = w.new_tid THEN [is |-> "running", since |-> w.ts, reason |-> "none"]
                          ELSE [is |-> w.old_state, since |-> w.ts, reason |-> w.reason]
          /\ ends2[m][t] = IF t = w.new_tid THEN {"ready"} ELSE {"running"}
      BY <2>1, <2>2, <2>c DEF SwitchAdds
    <3>4. \A e \in E : who2[e] = who[e] /\ bec2[e][t] = bec[e][t] /\ ends2[e][t] = ends[e][t]
      BY <2>1, <2>2, <2>c DEF SwitchAdds
    <3> QED BY <2>b, <3>1, <3>2, <3>3, <3>4
  <2>5. Grown(E, m, who, bec, ends, who2, bec2, ends2, t) /\ str \subseteq str2
    BY <1>7, <2>4, <2>a DEF Grown
  <2>6. Links(E \cup {m}, who2, bec2, ends2, st2, str2, t)
    <3>1. CASE t \in {u, old}
      <4>0. t # IdleTid
        BY SchedAssumption
      <4>1. \A d \in E : t \in who[d] => Sooner(d, m)
        <5>1. \A d \in E : t \in who[d] => d.ts <= st[t].since
          BY <2>3 DEF Links
        <5>2. \A d \in Event : d.ts \in Int
          BY DEF Event
        <5> QED BY <1>1, <2>4, <2>a, <3>1, <5>1, <5>2
      <4>2. /\ st[t].since \in Int /\ m.ts \in Int /\ st[t].since <= m.ts /\ t \in who2[m]
        BY <1>1, <2>4, <2>a, <2>b, <3>1
      <4>3. /\ st2[t] = IF t = u THEN into ELSE out
            /\ bec2[m][t] = st2[t] /\ st2[t].since = m.ts
        BY <1>2, <2>4, <2>a, <2>b, <3>1
      <4>4. st[t].is \in ends2[m][t]
        BY <1>2, <1>3, <2>4, <2>a, <3>1, <4>0
      <4>5. st[t].is \in {"waiting", "ready"} => SpentIn(st[t], m, t) \in str2
        <5>1. Gone(t) \in str2 /\ st[t] = state[t] /\ m = n
          BY <1>7, <2>0, <2>a, <3>1, <4>0
        <5>2. state[t].is # "running" => Gone(t) = SpentIn(state[t], n, t)
          BY <1>6
        <5> HIDE DEF Gone, n
        <5> QED BY <5>1, <5>2
      <4>6. \A y \in str2 \ str : y.tid = t /\ y.is \in {"waiting", "ready"} => y = SpentIn(st[t], m, t)
        <5> SUFFICES ASSUME NEW y \in str2 \ str, y.tid = t, y.is \in {"waiting", "ready"}
                     PROVE  y = SpentIn(st[t], m, t)
          OBVIOUS
        <5>1. PICK v \in {u, old} \ {IdleTid} : y = Gone(v)
          BY <1>7, <2>a
        <5>2. v \in SchedThreads
          BY <1>3
        <5>3. v = t /\ state[t].is # "running"
          BY <1>6, <5>1, <5>2
        <5> QED BY <1>6, <2>0, <2>a, <5>1, <5>3
      <4>7. Tells(E, m, who, st, str, who2, bec2, ends2, st2, str2, t)
        BY <2>5, <4>1, <4>2, <4>3, <4>4, <4>5, <4>6 DEF Tells
      <4> QED BY <2>3, <2>5, <4>7, Appended
    <3>2. CASE t \notin {u, old}
      <4>1. st2[t] = st[t] /\ t \notin who2[m]
        BY <1>2, <2>4, <2>a, <3>2
      <4>2. \A y \in str2 \ str : y.tid # t
        <5> SUFFICES ASSUME NEW y \in str2 \ str PROVE y.tid # t
          OBVIOUS
        <5>1. PICK v \in {u, old} \ {IdleTid} : y = Gone(v)
          BY <1>7, <2>a
        <5>2. y.tid = v
          BY <5>1
        <5> QED BY <3>2, <5>2
      <4>3. Tells(E, m, who, st, str, who2, bec2, ends2, st2, str2, t)
        BY <2>5, <4>1, <4>2 DEF Tells
      <4> QED BY <2>3, <2>5, <4>3, Appended
    <3> QED BY <3>1, <3>2
  <2> QED BY <1>2, <2>0, <2>2, <2>4, <2>6, <2>a
<1> QED BY <1>8, <1>9, <1>10 DEF SchedInv, LinkedBy

(* Every step of the scheduler keeps the link. *)
LEMMA SchedStep ==
  ASSUME SchedInv, SchedNext
  PROVE  SchedInv'
<1>1. CASE Later
  BY <1>1, TimeGoesOn
<1>2. ASSUME NEW t \in SchedThreads, Ready(t) PROVE SchedInv'
  BY <1>2, MadeReady
<1>3. ASSUME NEW c \in Procs, NEW u \in SchedThreads \cup {IdleTid},
             NEW is \in {"waiting", "ready", "gone"}, NEW reason \in Why, Hand(c, u, is, reason)
      PROVE  SchedInv'
  BY <1>3, HandedOver
<1>4. ASSUME NEW c \in Procs, NEW u \in SchedThreads \cup {IdleTid},
             NEW is \in {"waiting", "ready", "gone"}, NEW reason \in Why, Switch(c, u, is, reason)
      PROVE  SchedInv'
  BY <1>3, <1>4 DEF Switch
<1>5. ASSUME NEW c \in Procs, NEW u \in SchedThreads \cup {IdleTid}, ProbeLoop(c, u)
      PROVE  SchedInv'
  <2>1. "timer" \in Why /\ Hand(c, u, "waiting", "timer")
    BY <1>5 DEF Why, ProbeLoop
  <2> QED BY <1>3, <2>1
<1>6. Reasons \subseteq Why /\ "none" \in Why
  BY DEF Why
<1> QED BY <1>1, <1>2, <1>4, <1>5, <1>6 DEF SchedNext

-----------------------------------------------------------------------------
(* What a fold over the events of a window knows of one thread: what the    *)
(* last of its events made it, and its longest waits so far.                *)

(* What the fold knows of a thread after the event that made it b. *)
Live(b) ==
  [ready   |-> IF b.is = "ready" THEN b.since ELSE NoTime,
   blocked |-> IF b.is = "waiting" THEN b.since ELSE NoTime,
   reason  |-> IF b.is = "waiting" THEN b.reason ELSE "none"]

(* The live entry of t tells what the last of its events in T made of it. *)
Past(T, who, became, l, t) ==
  \/ l = Unseen /\ \A e \in T : t \notin who[e]
  \/ \E d \in T : /\ t \in who[d] /\ l = Live(became[d][t])
                  /\ \A f \in T : t \in who[f] => ~Sooner(d, f)

(* ...and so, at the next of its events, what ends with it. *)
Prior(E, T, who, became, l, m, t) ==
  \/ l = Unseen /\ \A d \in T : ~Following(E, who, d, m, t)
  \/ \E d \in T : /\ Following(E, who, d, m, t) /\ l = Live(became[d][t])
                  /\ \A c \in T : Following(E, who, c, m, t) => c = d

(* T is the beginning of the window S. *)
Beginning(T, S) == T \subseteq S /\ \A a \in T, b \in S : Sooner(b, a) => b \in T
EndsWith(T, m)     == m \in T /\ \A d \in T \ {m} : Sooner(d, m)

(* What is kept of t is real, and within the window. *)
Real(str, w, from, to, t) ==
  /\ w.ready > 0 => \E x \in str : /\ x.tid = t /\ x.is = "ready" /\ from <= x.from /\ x.to <= to
                                   /\ x.from = w.ready_from /\ x.to = w.ready_to /\ x.to - x.from = w.ready
  /\ w.blocked > 0 => \E x \in str : /\ x.tid = t /\ x.is = "waiting" /\ from <= x.from /\ x.to <= to
                                     /\ x.to - x.from = w.blocked /\ x.reason = w.reason

(* ...and no shorter than any stretch between two events of T. *)
Longer(E, T, who, became, w, t) ==
  \A d, e \in T : Following(E, who, d, e, t) =>
    /\ became[d][t].is = "ready" => w.ready >= e.ts - d.ts
    /\ became[d][t].is = "waiting" => w.blocked >= e.ts - d.ts

(* What the fold knows of a thread is what its event before m made it. *)
LEMMA PriorIs ==
  ASSUME NEW E, E \subseteq Event, NEW from, NEW to, NEW S, S = {e \in E : e.ts >= from /\ e.ts <= to},
         from \in Int, to \in Int,
         NEW T, Beginning(T, S), NEW m, EndsWith(T, m), NEW who, NEW became, NEW l, NEW t,
         t \in who[m], Past(T \ {m}, who, became, l, t)
  PROVE  Prior(E, T, who, became, l, m, t)
<1>1. /\ T \subseteq S /\ S \subseteq E /\ m \in T /\ m \in Event
      /\ \A a \in T, b \in S : Sooner(b, a) => b \in T
      /\ \A d \in T \ {m} : Sooner(d, m)
      /\ \A e \in S : e.ts >= from /\ e.ts <= to
  BY DEF Beginning, EndsWith
<1>2. \A a, b \in Event : ~(Sooner(a, b) /\ Sooner(b, a))
  BY SoonerOrders
<1>3. \A c \in T : Following(E, who, c, m, t) => c \in T \ {m} /\ t \in who[c]
  BY <1>1, <1>2 DEF Following
<1>4. CASE l = Unseen /\ \A e \in T \ {m} : t \notin who[e]
  BY <1>3, <1>4 DEF Prior
<1>5. ASSUME NEW d \in T \ {m}, t \in who[d], l = Live(became[d][t]),
             \A f \in T \ {m} : t \in who[f] => ~Sooner(d, f)
      PROVE  Prior(E, T, who, became, l, m, t)
  <2>1. d \in Event /\ Sooner(d, m) /\ d \in S /\ m \in S
    BY <1>1, <1>5
  <2>2. \A f \in E : t \in who[f] => ~(Sooner(d, f) /\ Sooner(f, m))
    <3> SUFFICES ASSUME NEW f \in E, t \in who[f], Sooner(d, f), Sooner(f, m) PROVE FALSE
      OBVIOUS
    <3>1. f \in Event /\ f.ts \in Int /\ d.ts \in Int /\ m.ts \in Int
      BY <2>1, <1>1 DEF Event
    <3>2. d.ts <= f.ts /\ f.ts <= m.ts
      BY <3>1 DEF Sooner
    <3>3. from <= d.ts /\ m.ts <= to
      BY <1>1, <2>1
    <3>4. from <= f.ts /\ f.ts <= to
      BY <3>1, <3>2, <3>3
    <3>5. f \in T
      BY <1>1, <3>4
    <3>6. f # m
      BY <1>1, <1>2
    <3> QED BY <1>5, <3>5, <3>6
  <2>3. Following(E, who, d, m, t)
    BY <1>5, <2>1, <2>2 DEF Following
  <2>4. \A c \in T : Following(E, who, c, m, t) => c = d
    <3> SUFFICES ASSUME NEW c \in T, Following(E, who, c, m, t) PROVE c = d
      OBVIOUS
    <3>1. c \in T \ {m} /\ t \in who[c] /\ c \in Event
      BY <1>1, <1>3
    <3>2. ~Sooner(d, c)
      BY <1>5, <3>1
    <3>3. ~Sooner(c, d)
      BY <1>1, <1>5, <2>1 DEF Following
    <3> QED BY <2>1, <3>1, <3>2, <3>3, SoonerOrders
  <2> QED BY <1>5, <2>3, <2>4 DEF Prior
<1> QED BY <1>4, <1>5 DEF Past

(* The thread that an event names has it for its last. *)
LEMMA PastIs ==
  ASSUME NEW T, T \subseteq Event, NEW m, EndsWith(T, m), NEW who, NEW became, NEW t, t \in who[m]
  PROVE  Past(T, who, became, Live(became[m][t]), t)
<1>1. m \in T /\ \A f \in T : ~Sooner(m, f)
  BY SoonerOrders DEF EndsWith
<1> QED BY <1>1 DEF Past

(* One that the event does not name. *)
LEMMA OthersStay ==
  ASSUME NEW E, NEW T, NEW m, NEW who, NEW became, NEW t, t \notin who[m], NEW l, NEW w,
         Past(T \ {m}, who, became, l, t), Longer(E, T \ {m}, who, became, w, t)
  PROVE  Past(T, who, became, l, t) /\ Longer(E, T, who, became, w, t)
<1>1. \A e \in T : t \in who[e] => e \in T \ {m}
  OBVIOUS
<1>2. Past(T, who, became, l, t)
  BY <1>1 DEF Past
<1>3. Longer(E, T, who, became, w, t)
  BY <1>1 DEF Longer, Following
<1> QED BY <1>2, <1>3

(* What the fold knows of a thread, and the waits it keeps. *)
Known == [ready : Int, blocked : Int, reason : Why]
Wait  == [ready : Int, ready_cpu : Procs, ready_from : Int, ready_to : Int, blocked : Int, reason : Why]

(* The fold has come to the event m, whose predecessor for t is known. *)
AtEvent(E, T, who, became, ends, st, str, from, to, l, w, m, t) ==
  /\ E \subseteq Event /\ T \subseteq E /\ \A e \in T : e.ts >= from /\ e.ts <= to
  /\ EndsWith(T, m) /\ t \in who[m] /\ Links(E, who, became, ends, st, str, t)
  /\ l \in Known /\ w \in Wait /\ Prior(E, T, who, became, l, m, t)
  /\ Real(str, w, from, to, t) /\ Longer(E, T \ {m}, who, became, w, t)
  /\ t \in SchedThreads /\ from \in Int /\ to \in Int

(* A longer worst wait is still no shorter than those before. *)
LEMMA LongerGrows ==
  ASSUME NEW E, NEW T, T \subseteq Event, NEW m, EndsWith(T, m), NEW who, NEW became, NEW t,
         NEW w \in Wait, NEW w2 \in Wait, w.ready <= w2.ready, w.blocked <= w2.blocked,
         Longer(E, T \ {m}, who, became, w, t),
         \A d \in T : Following(E, who, d, m, t) =>
           /\ became[d][t].is = "ready" => w2.ready >= m.ts - d.ts
           /\ became[d][t].is = "waiting" => w2.blocked >= m.ts - d.ts
  PROVE  Longer(E, T, who, became, w2, t)
<1>1. w.ready \in Int /\ w2.ready \in Int /\ w.blocked \in Int /\ w2.blocked \in Int /\ m \in T
      /\ \A e \in T : e.ts \in Int
  BY DEF Wait, EndsWith, Event
<1> SUFFICES ASSUME NEW d \in T, NEW e \in T, Following(E, who, d, e, t)
             PROVE  /\ became[d][t].is = "ready" => w2.ready >= e.ts - d.ts
                    /\ became[d][t].is = "waiting" => w2.blocked >= e.ts - d.ts
  BY DEF Longer
<1>2. CASE e = m
  BY <1>2
<1>3. CASE e # m
  <2>1. Sooner(d, e) /\ Sooner(e, m)
    BY <1>3 DEF Following, EndsWith
  <2>2. d # m
    BY <1>1, <2>1, SoonerOrders
  <2>3. /\ became[d][t].is = "ready" => w.ready >= e.ts - d.ts
        /\ became[d][t].is = "waiting" => w.blocked >= e.ts - d.ts
    BY <1>3, <2>2 DEF Longer
  <2>4. e.ts - d.ts \in Int
    BY <1>1
  <2> QED BY <1>1, <2>3, <2>4
<1> QED BY <1>2, <1>3

(* What AtEvent says of the event before. *)
LEMMA BeforeIt ==
  ASSUME NEW E, NEW T, NEW who, NEW became, NEW ends, NEW st, NEW str, NEW from, NEW to, NEW l, NEW w,
         NEW m, NEW t, AtEvent(E, T, who, became, ends, st, str, from, to, l, w, m, t),
         NEW d \in T, Following(E, who, d, m, t)
  PROVE  /\ l = Live(became[d][t]) /\ became[d][t].since = d.ts /\ d.ts \in Nat /\ m.ts \in Nat
         /\ from <= d.ts /\ m.ts <= to /\ d.ts <= m.ts
         /\ became[d][t].is \in ends[m][t]
         /\ became[d][t].is \in {"waiting", "ready"} => SpentIn(became[d][t], m, t) \in str
<1>1. d \in Event /\ m \in Event /\ m \in T /\ d \in E /\ m \in E /\ Sooner(d, m) /\ t \in who[d]
  BY DEF AtEvent, EndsWith, Following
<1>2. d.ts \in Nat /\ m.ts \in Nat
  BY <1>1 DEF Event
<1>3. from <= d.ts /\ m.ts <= to /\ d.ts <= m.ts
  <2>1. from \in Int /\ d.ts >= from /\ m.ts <= to
    BY <1>1 DEF AtEvent
  <2> QED BY <1>1, <1>2, <2>1 DEF Sooner
<1>4. /\ became[d][t].since = d.ts /\ became[d][t].is \in ends[m][t]
      /\ became[d][t].is \in {"waiting", "ready"} => SpentIn(became[d][t], m, t) \in str
  BY <1>1 DEF AtEvent, Links
<1>5. l = Live(became[d][t])
  BY <1>1 DEF AtEvent, Prior
<1> QED BY <1>2, <1>3, <1>4, <1>5

(* The worst waits of a thread after its wake-up... *)
AfterWake(w, l, ts) ==
  IF l.blocked = NoTime \/ ts - l.blocked <= w.blocked THEN w
  ELSE [w EXCEPT !.blocked = ts - l.blocked, !.reason = l.reason]

(* The wake-up of a thread: it was waiting, and not runnable. *)
LEMMA Woken ==
  ASSUME NEW E, NEW T, NEW who, NEW became, NEW ends, NEW st, NEW str, NEW from, NEW to, NEW l, NEW w,
         NEW m, NEW t, AtEvent(E, T, who, became, ends, st, str, from, to, l, w, m, t),
         ends[m][t] = {"waiting", "gone"}
  PROVE  /\ l.ready = NoTime /\ AfterWake(w, l, m.ts) \in Wait
         /\ Real(str, AfterWake(w, l, m.ts), from, to, t)
         /\ Longer(E, T, who, became, AfterWake(w, l, m.ts), t)
<1>0. /\ l \in Known /\ w \in Wait /\ EndsWith(T, m) /\ T \subseteq Event /\ Prior(E, T, who, became, l, m, t)
      /\ Real(str, w, from, to, t) /\ Longer(E, T \ {m}, who, became, w, t) /\ m \in Event /\ m.ts \in Nat
      /\ NoTime = -1
  BY DEF AtEvent, EndsWith, Event, NoTime
<1>1. PICK w2 : w2 = AfterWake(w, l, m.ts)
  OBVIOUS
<1>2. CASE \A d \in T : ~Following(E, who, d, m, t)
  <2>1. l = Unseen
    BY <1>0, <1>2 DEF Prior
  <2>2. w2 = w /\ l.ready = NoTime
    BY <1>1, <2>1 DEF AfterWake, Unseen
  <2>3. Longer(E, T, who, became, w, t)
    BY <1>0, <1>2, LongerGrows DEF Wait
  <2> QED BY <1>0, <1>1, <2>2, <2>3
<1>3. ASSUME NEW d \in T, Following(E, who, d, m, t)
      PROVE  /\ l.ready = NoTime /\ w2 \in Wait /\ Real(str, w2, from, to, t) /\ Longer(E, T, who, became, w2, t)
  <2>1. PICK b : b = became[d][t]
    OBVIOUS
  <2>2. /\ l = Live(b) /\ b.since = d.ts /\ d.ts \in Nat /\ from <= d.ts /\ m.ts <= to
        /\ b.is \in {"waiting", "gone"}
        /\ b.is \in {"waiting", "ready"} => SpentIn(b, m, t) \in str
    BY <1>3, <2>1, BeforeIt
  <2>3. l.ready = NoTime
    BY <2>2 DEF Live
  <2>a. \A c \in T : Following(E, who, c, m, t) => c = d
    BY <1>0, <1>3 DEF Prior
  <2>4. CASE b.is = "gone" \/ m.ts - l.blocked <= w.blocked
    <3>1. w2 = w
      BY <1>1, <2>2, <2>4 DEF AfterWake, Live
    <3>2. b.is = "waiting" => w.blocked >= m.ts - d.ts
      BY <2>2, <2>4 DEF Live
    <3>3. Longer(E, T, who, became, w, t)
      <4>1. \A c \in T : Following(E, who, c, m, t) =>
              /\ became[c][t].is = "ready" => w.ready >= m.ts - c.ts
              /\ became[c][t].is = "waiting" => w.blocked >= m.ts - c.ts
        BY <2>1, <2>2, <2>a, <3>2
      <4>2. w.ready <= w.ready /\ w.blocked <= w.blocked
        BY <1>0 DEF Wait
      <4> QED BY <1>0, <4>1, <4>2, LongerGrows
    <3> QED BY <1>0, <2>3, <3>1, <3>3
  <2>5. CASE b.is = "waiting" /\ ~(m.ts - l.blocked <= w.blocked)
    <3>1. l.blocked = d.ts /\ l.reason = b.reason /\ d.ts # NoTime
      BY <1>0, <2>2, <2>5 DEF Live
    <3>2. w2 = [[w EXCEPT !.blocked = m.ts - d.ts] EXCEPT !.reason = b.reason]
      BY <1>1, <2>5, <3>1 DEF AfterWake
    <3>3. b.reason \in Why
      BY <1>0, <3>1 DEF Known
    <3>4. w2 \in Wait /\ w2.blocked = m.ts - d.ts /\ w2.reason = b.reason /\ w2.ready = w.ready
          /\ w2.ready_from = w.ready_from /\ w2.ready_to = w.ready_to
      <4>1. PICK v : v = [w EXCEPT !.blocked = m.ts - d.ts]
        OBVIOUS
      <4>2. v \in Wait /\ v.blocked = m.ts - d.ts /\ v.ready = w.ready
            /\ v.ready_from = w.ready_from /\ v.ready_to = w.ready_to
        BY <1>0, <2>2, <4>1 DEF Wait
      <4>3. w2 = [v EXCEPT !.reason = b.reason]
        BY <3>2, <4>1
      <4> QED BY <3>3, <4>2, <4>3 DEF Wait
    <3>5. Real(str, w2, from, to, t)
      <4>1. SpentIn(b, m, t) \in str /\ SpentIn(b, m, t).tid = t /\ SpentIn(b, m, t).is = "waiting"
            /\ SpentIn(b, m, t).from = d.ts /\ SpentIn(b, m, t).to = m.ts /\ SpentIn(b, m, t).reason = b.reason
        BY <2>2, <2>5 DEF SpentIn
      <4> QED BY <1>0, <2>2, <3>4, <4>1 DEF Real
    <3>6. Longer(E, T, who, became, w2, t)
      <4>1. \A c \in T : Following(E, who, c, m, t) =>
              /\ became[c][t].is = "ready" => w2.ready >= m.ts - c.ts
              /\ became[c][t].is = "waiting" => w2.blocked >= m.ts - c.ts
        BY <1>0, <2>1, <2>2, <2>a, <3>4
      <4>2. w.ready <= w2.ready /\ w.blocked <= w2.blocked
        BY <1>0, <2>2, <2>5, <3>1, <3>4 DEF Wait
      <4> QED BY <1>0, <3>4, <4>1, <4>2, LongerGrows
    <3> QED BY <2>3, <3>4, <3>5, <3>6
  <2> QED BY <2>2, <2>4, <2>5
<1> QED BY <1>1, <1>2, <1>3

(* ...and once it has a processor. *)
AfterIn(w, l, s) ==
  IF l.ready = NoTime \/ s.ts - l.ready <= w.ready THEN w
  ELSE [w EXCEPT !.ready = s.ts - l.ready, !.ready_cpu = s.cpu, !.ready_from = l.ready, !.ready_to = s.ts]

(* A thread that gets a processor was runnable. *)
LEMMA SwitchedTo ==
  ASSUME NEW E, NEW T, NEW who, NEW became, NEW ends, NEW st, NEW str, NEW from, NEW to, NEW l, NEW w,
         NEW m, NEW t, AtEvent(E, T, who, became, ends, st, str, from, to, l, w, m, t),
         ends[m][t] = {"ready"}, NEW s, s.ts = m.ts, s.cpu \in Procs
  PROVE  /\ AfterIn(w, l, s) \in Wait
         /\ Real(str, AfterIn(w, l, s), from, to, t)
         /\ Longer(E, T, who, became, AfterIn(w, l, s), t)
<1>0. /\ l \in Known /\ w \in Wait /\ EndsWith(T, m) /\ T \subseteq Event /\ Prior(E, T, who, became, l, m, t)
      /\ Real(str, w, from, to, t) /\ Longer(E, T \ {m}, who, became, w, t) /\ m \in Event /\ m.ts \in Nat
      /\ NoTime = -1
  BY DEF AtEvent, EndsWith, Event, NoTime
<1>1. PICK w2 : w2 = AfterIn(w, l, s)
  OBVIOUS
<1>2. CASE \A d \in T : ~Following(E, who, d, m, t)
  <2>1. l = Unseen
    BY <1>0, <1>2 DEF Prior
  <2>2. w2 = w
    BY <1>1, <2>1 DEF AfterIn, Unseen
  <2>3. Longer(E, T, who, became, w, t)
    BY <1>0, <1>2, LongerGrows DEF Wait
  <2> QED BY <1>0, <1>1, <2>2, <2>3
<1>3. ASSUME NEW d \in T, Following(E, who, d, m, t)
      PROVE  w2 \in Wait /\ Real(str, w2, from, to, t) /\ Longer(E, T, who, became, w2, t)
  <2>1. PICK b : b = became[d][t]
    OBVIOUS
  <2>2. /\ l = Live(b) /\ b.since = d.ts /\ d.ts \in Nat /\ from <= d.ts /\ m.ts <= to
        /\ b.is = "ready" /\ SpentIn(b, m, t) \in str
    BY <1>3, <2>1, BeforeIt
  <2>3. l.ready = d.ts /\ d.ts # NoTime
    BY <1>0, <2>2 DEF Live
  <2>a. \A c \in T : Following(E, who, c, m, t) => c = d
    BY <1>0, <1>3 DEF Prior
  <2>4. CASE m.ts - d.ts <= w.ready
    <3>1. w2 = w
      BY <1>1, <2>3, <2>4 DEF AfterIn
    <3>2. Longer(E, T, who, became, w, t)
      <4>1. \A c \in T : Following(E, who, c, m, t) =>
              /\ became[c][t].is = "ready" => w.ready >= m.ts - c.ts
              /\ became[c][t].is = "waiting" => w.blocked >= m.ts - c.ts
        BY <2>1, <2>2, <2>a, <2>4
      <4>2. w.ready <= w.ready /\ w.blocked <= w.blocked
        BY <1>0 DEF Wait
      <4> QED BY <1>0, <4>1, <4>2, LongerGrows
    <3> QED BY <1>0, <3>1, <3>2
  <2>5. CASE ~(m.ts - d.ts <= w.ready)
    <3>1. w2 = [[[[w EXCEPT !.ready = m.ts - d.ts] EXCEPT !.ready_cpu = s.cpu] EXCEPT !.ready_from = d.ts] EXCEPT !.ready_to = m.ts]
      BY <1>1, <2>3, <2>5 DEF AfterIn
    <3>2. w2 \in Wait /\ w2.blocked = w.blocked /\ w2.reason = w.reason /\ w2.ready = m.ts - d.ts
          /\ w2.ready_from = d.ts /\ w2.ready_to = m.ts
      <4>1. PICK u : u = [w EXCEPT !.ready = m.ts - d.ts]
        OBVIOUS
      <4>2. u \in Wait /\ u.blocked = w.blocked /\ u.reason = w.reason /\ u.ready = m.ts - d.ts
        BY <1>0, <2>2, <4>1 DEF Wait
      <4>3. PICK v : v = [u EXCEPT !.ready_cpu = s.cpu]
        OBVIOUS
      <4>4. v \in Wait /\ v.blocked = w.blocked /\ v.reason = w.reason /\ v.ready = m.ts - d.ts
        BY <4>2, <4>3 DEF Wait
      <4>5. PICK y : y = [v EXCEPT !.ready_from = d.ts]
        OBVIOUS
      <4>6. /\ y \in Wait /\ y.blocked = w.blocked /\ y.reason = w.reason /\ y.ready = m.ts - d.ts
            /\ y.ready_from = d.ts
        BY <2>2, <4>4, <4>5 DEF Wait
      <4>7. w2 = [y EXCEPT !.ready_to = m.ts]
        BY <3>1, <4>1, <4>3, <4>5
      <4> QED BY <1>0, <4>6, <4>7 DEF Wait
    <3>3. Real(str, w2, from, to, t)
      <4>1. SpentIn(b, m, t) \in str /\ SpentIn(b, m, t).tid = t /\ SpentIn(b, m, t).is = "ready"
            /\ SpentIn(b, m, t).from = d.ts /\ SpentIn(b, m, t).to = m.ts
        BY <2>2 DEF SpentIn
      <4> QED BY <1>0, <2>2, <3>2, <4>1 DEF Real
    <3>4. Longer(E, T, who, became, w2, t)
      <4>1. \A c \in T : Following(E, who, c, m, t) =>
              /\ became[c][t].is = "ready" => w2.ready >= m.ts - c.ts
              /\ became[c][t].is = "waiting" => w2.blocked >= m.ts - c.ts
        BY <1>0, <2>1, <2>2, <2>a, <3>2
      <4>2. w.ready <= w2.ready /\ w.blocked <= w2.blocked
        BY <1>0, <2>2, <2>5, <3>2 DEF Wait
      <4> QED BY <1>0, <3>2, <4>1, <4>2, LongerGrows
    <3> QED BY <3>2, <3>3, <3>4
  <2> QED BY <2>4, <2>5
<1> QED BY <1>1, <1>2, <1>3

(* A thread that runs was not waiting for anything. *)
LEMMA SwitchedFrom ==
  ASSUME NEW E, NEW T, NEW who, NEW became, NEW ends, NEW st, NEW str, NEW from, NEW to, NEW l, NEW w,
         NEW m, NEW t, AtEvent(E, T, who, became, ends, st, str, from, to, l, w, m, t),
         ends[m][t] = {"running"}
  PROVE  Longer(E, T, who, became, w, t)
<1>1. \A c \in T : Following(E, who, c, m, t) => became[c][t].is = "running"
  BY BeforeIt
<1>2. w \in Wait /\ EndsWith(T, m) /\ T \subseteq Event /\ Longer(E, T \ {m}, who, became, w, t)
  BY DEF AtEvent
<1>3. w.ready <= w.ready /\ w.blocked <= w.blocked
  BY <1>2 DEF Wait
<1> QED BY <1>1, <1>2, <1>3, LongerGrows

-----------------------------------------------------------------------------
(* What one record makes of the fold (StepReady, SwitchedIn, SwitchedOut),  *)
(* seen from one thread.                                                    *)

(* The accumulator of the fold. *)
Facts == [live : [SchedThreads -> Known], worst : [SchedThreads -> Wait]]

(* What one record changes, seen from one thread. *)
Recorded(acc, a2, m, t) ==
  /\ t \notin NamedBy(sw, rd, m) => a2.live[t] = acc.live[t] /\ a2.worst[t] = acc.worst[t]
  /\ m.rank = 0 /\ t \in NamedBy(sw, rd, m) =>
       /\ a2.live[t] = [ready |-> IF acc.live[t].ready = NoTime THEN m.ts ELSE acc.live[t].ready,
                        blocked |-> NoTime, reason |-> "none"]
       /\ a2.worst[t] = AfterWake(acc.worst[t], acc.live[t], m.ts)
  /\ m.rank = 1 /\ t = sw[m.i].new_tid =>
       a2.live[t] = Unseen /\ a2.worst[t] = AfterIn(acc.worst[t], acc.live[t], sw[m.i])
  /\ m.rank = 1 /\ t = sw[m.i].old_tid =>
       a2.live[t] = Out(acc.live[t], sw[m.i]) /\ a2.worst[t] = acc.worst[t]

(* The worst waits stay what they are, after a wake-up... *)
LEMMA AfterTypes ==
  ASSUME NEW w \in Wait, NEW l \in Known, NEW ts \in Nat
  PROVE  AfterWake(w, l, ts) \in Wait
<1>1. PICK d \in Int : d = ts - l.blocked
  BY DEF Known
<1>2. PICK v : v = [w EXCEPT !.blocked = d]
  OBVIOUS
<1>3. v \in Wait /\ l.reason \in Why
  BY <1>2 DEF Wait, Known
<1>4. [v EXCEPT !.reason = l.reason] \in Wait
  BY <1>3 DEF Wait
<1>5. AfterWake(w, l, ts) = IF l.blocked = NoTime \/ d <= w.blocked THEN w ELSE [v EXCEPT !.reason = l.reason]
  BY <1>1, <1>2 DEF AfterWake
<1> QED BY <1>4, <1>5

(* ...and after a switch. *)
LEMMA AfterInTypes ==
  ASSUME NEW w \in Wait, NEW l \in Known, NEW s \in SwitchRec, s.cpu \in Procs
  PROVE  AfterIn(w, l, s) \in Wait
<1>1. PICK d \in Int : d = s.ts - l.ready
  BY DEF Known, SwitchRec
<1>2. PICK u : u = [w EXCEPT !.ready = d]
  OBVIOUS
<1>3. PICK v : v = [u EXCEPT !.ready_cpu = s.cpu]
  OBVIOUS
<1>4. PICK y : y = [v EXCEPT !.ready_from = l.ready]
  OBVIOUS
<1>5. u \in Wait
  BY <1>2 DEF Wait
<1>6. v \in Wait
  BY <1>3, <1>5 DEF Wait
<1>7. y \in Wait
  BY <1>4, <1>6 DEF Wait, Known
<1>8. [y EXCEPT !.ready_to = s.ts] \in Wait
  BY <1>7 DEF Wait, SwitchRec
<1>9. AfterIn(w, l, s) = IF l.ready = NoTime \/ d <= w.ready THEN w ELSE [y EXCEPT !.ready_to = s.ts]
  BY <1>1, <1>2, <1>3, <1>4 DEF AfterIn
<1> QED BY <1>8, <1>9

(* StepReady, thread by thread. *)
LEMMA ReadyIs ==
  ASSUME NEW acc \in Facts, NEW r \in ReadyRec, NEW a2, a2 = StepReady(acc, r)
  PROVE  /\ a2 \in Facts
         /\ \A t \in SchedThreads \ {r.tid} : a2.live[t] = acc.live[t] /\ a2.worst[t] = acc.worst[t]
         /\ a2.live[r.tid] = [ready |-> IF acc.live[r.tid].ready = NoTime THEN r.ts ELSE acc.live[r.tid].ready,
                              blocked |-> NoTime, reason |-> "none"]
         /\ a2.worst[r.tid] = AfterWake(acc.worst[r.tid], acc.live[r.tid], r.ts)
<1>1. PICK t, l, w, ts : t = r.tid /\ l = acc.live[t] /\ w = acc.worst[t] /\ ts = r.ts
  OBVIOUS
<1>2. t \in SchedThreads /\ l \in Known /\ w \in Wait /\ ts \in Nat
      /\ acc.live \in [SchedThreads -> Known] /\ acc.worst \in [SchedThreads -> Wait]
  BY <1>1 DEF Facts, ReadyRec
<1>3. PICK now : now = [ready |-> IF l.ready = NoTime THEN ts ELSE l.ready, blocked |-> NoTime, reason |-> "none"]
  OBVIOUS
<1>4. now \in Known
  BY <1>2, <1>3 DEF Known, NoTime, Why
<1>5. PICK w2 \in Wait : w2 = AfterWake(w, l, ts)
  BY <1>2, AfterTypes
<1>6. a2.live = [acc.live EXCEPT ![t] = now]
  BY <1>1, <1>3 DEF StepReady
<1>7. a2.worst = [acc.worst EXCEPT ![t] = w2]
  <2>1. CASE l.blocked = NoTime \/ ts - l.blocked <= w.blocked
    <3>1. a2.worst = acc.worst /\ w2 = w
      BY <1>1, <1>5, <2>1 DEF StepReady, AfterWake
    <3>2. [acc.worst EXCEPT ![t] = w] = acc.worst
      BY <1>1, <1>2
    <3> QED BY <3>1, <3>2
  <2>2. CASE ~(l.blocked = NoTime \/ ts - l.blocked <= w.blocked)
    <3>1. a2.worst = [acc.worst EXCEPT ![t].blocked = ts - l.blocked, ![t].reason = l.reason]
      BY <1>1, <2>2 DEF StepReady
    <3>2. w2 = [w EXCEPT !.blocked = ts - l.blocked, !.reason = l.reason]
      BY <1>5, <2>2 DEF AfterWake
    <3> QED BY <1>1, <1>2, <3>1, <3>2
  <2> QED BY <2>1, <2>2
<1>8. a2 = [live |-> a2.live, worst |-> a2.worst]
  BY DEF StepReady
<1>9. a2.live \in [SchedThreads -> Known] /\ a2.worst \in [SchedThreads -> Wait]
  BY <1>2, <1>4, <1>6, <1>7
<1>10. a2 \in Facts
  BY <1>8, <1>9 DEF Facts
<1>11. \A v \in SchedThreads : /\ a2.live[v] = IF v = t THEN now ELSE acc.live[v]
                               /\ a2.worst[v] = IF v = t THEN w2 ELSE acc.worst[v]
  BY <1>2, <1>6, <1>7
<1> QED BY <1>1, <1>2, <1>3, <1>5, <1>10, <1>11

(* SwitchedIn, thread by thread. *)
LEMMA InIs ==
  ASSUME NEW acc \in Facts, NEW s \in SwitchRec, NEW a2, a2 = SwitchedIn(acc, s)
  PROVE  /\ a2 \in Facts
         /\ \A t \in SchedThreads \ {s.new_tid} : a2.live[t] = acc.live[t] /\ a2.worst[t] = acc.worst[t]
         /\ \A t \in SchedThreads : t = s.new_tid =>
              a2.live[t] = Unseen /\ a2.worst[t] = AfterIn(acc.worst[t], acc.live[t], s)
<1>1. CASE s.new_tid = IdleTid
  <2>1. a2 = acc
    BY <1>1 DEF SwitchedIn
  <2> QED BY <1>1, <2>1, SchedAssumption
<1>2. CASE s.new_tid # IdleTid
  <2>1. PICK t, l, w : t = s.new_tid /\ l = acc.live[t] /\ w = acc.worst[t]
    OBVIOUS
  <2>2. t \in SchedThreads /\ l \in Known /\ w \in Wait /\ s.cpu \in Procs
         /\ acc.live \in [SchedThreads -> Known] /\ acc.worst \in [SchedThreads -> Wait]
    BY <1>2, <2>1 DEF Facts, SwitchRec
  <2>3. PICK w2 \in Wait : w2 = AfterIn(w, l, s)
    BY <2>2, AfterInTypes
  <2>4. a2.live = [acc.live EXCEPT ![t] = Unseen]
    BY <1>2, <2>1 DEF SwitchedIn
  <2>5. a2.worst = [acc.worst EXCEPT ![t] = w2]
    <3>1. CASE l.ready = NoTime \/ s.ts - l.ready <= w.ready
      <4>1. a2.worst = acc.worst /\ w2 = w
        BY <1>2, <2>1, <2>3, <3>1 DEF SwitchedIn, AfterIn
      <4>2. [acc.worst EXCEPT ![t] = w] = acc.worst
        BY <2>1, <2>2
      <4> QED BY <4>1, <4>2
    <3>2. CASE ~(l.ready = NoTime \/ s.ts - l.ready <= w.ready)
      <4>1. a2.worst = [acc.worst EXCEPT ![t] =
              [@ EXCEPT !.ready = s.ts - l.ready, !.ready_cpu = s.cpu, !.ready_from = l.ready, !.ready_to = s.ts]]
        BY <1>2, <2>1, <3>2 DEF SwitchedIn
      <4>2. w2 = [w EXCEPT !.ready = s.ts - l.ready, !.ready_cpu = s.cpu, !.ready_from = l.ready, !.ready_to = s.ts]
        BY <2>3, <3>2 DEF AfterIn
      <4> QED BY <2>1, <2>2, <4>1, <4>2
    <3> QED BY <3>1, <3>2
  <2>6. a2 = [live |-> a2.live, worst |-> a2.worst]
    BY <1>2 DEF SwitchedIn
  <2>7. Unseen \in Known
    BY DEF Unseen, Known, NoTime, Why
  <2>8. a2 \in Facts
    BY <2>2, <2>4, <2>5, <2>6, <2>7 DEF Facts
  <2>9. \A v \in SchedThreads : /\ a2.live[v] = IF v = t THEN Unseen ELSE acc.live[v]
                                /\ a2.worst[v] = IF v = t THEN w2 ELSE acc.worst[v]
    BY <2>2, <2>4, <2>5
  <2> QED BY <2>1, <2>3, <2>8, <2>9
<1> QED BY <1>1, <1>2

(* SwitchedOut, thread by thread. *)
LEMMA OutIs ==
  ASSUME NEW acc \in Facts, NEW s \in SwitchRec, NEW a2, a2 = SwitchedOut(acc, s)
  PROVE  /\ a2 \in Facts
         /\ \A t \in SchedThreads \ {s.old_tid} : a2.live[t] = acc.live[t] /\ a2.worst[t] = acc.worst[t]
         /\ \A t \in SchedThreads : t = s.old_tid =>
              a2.live[t] = Out(acc.live[t], s) /\ a2.worst[t] = acc.worst[t]
<1>1. CASE s.old_tid = IdleTid
  <2>1. a2 = acc
    BY <1>1 DEF SwitchedOut
  <2> QED BY <1>1, <2>1, SchedAssumption
<1>2. CASE s.old_tid # IdleTid
  <2>1. PICK t, l, o : t = s.old_tid /\ l = acc.live[t] /\ o = Out(l, s)
    OBVIOUS
  <2>2. t \in SchedThreads /\ l \in Known
         /\ acc.live \in [SchedThreads -> Known] /\ acc.worst \in [SchedThreads -> Wait]
         /\ acc = [live |-> acc.live, worst |-> acc.worst]
    BY <1>2, <2>1 DEF Facts, SwitchRec
  <2>3. o \in Known
    <3>1. s.ts \in Nat /\ s.reason \in Why
      BY DEF SwitchRec
    <3>2. Unseen \in Known /\ [Unseen EXCEPT !.ready = s.ts] \in Known
          /\ [Unseen EXCEPT !.blocked = s.ts, !.reason = s.reason] \in Known
      <4>1. Unseen \in Known
        BY DEF Unseen, Known, NoTime, Why
      <4>2. PICK u : u = [Unseen EXCEPT !.blocked = s.ts]
        OBVIOUS
      <4>3. u \in Known
        BY <3>1, <4>1, <4>2 DEF Known
      <4>4. [u EXCEPT !.reason = s.reason] \in Known
        BY <3>1, <4>3 DEF Known
      <4>5. [Unseen EXCEPT !.ready = s.ts] \in Known
        BY <3>1, <4>1 DEF Known
      <4>6. [Unseen EXCEPT !.blocked = s.ts, !.reason = s.reason] = [u EXCEPT !.reason = s.reason]
        BY <4>1, <4>2 DEF Unseen
      <4> QED BY <4>1, <4>4, <4>5, <4>6
    <3> QED BY <2>1, <3>2 DEF Out
  <2>4. a2 = [acc EXCEPT !.live = [acc.live EXCEPT ![t] = o]]
    <3>1. a2 = [acc EXCEPT !.live[t] = Out(@, s)]
      BY <1>2, <2>1 DEF SwitchedOut
    <3> QED BY <2>1, <2>2, <3>1
  <2>5. a2.live = [acc.live EXCEPT ![t] = o] /\ a2.worst = acc.worst /\ a2 = [live |-> a2.live, worst |-> a2.worst]
    BY <2>2, <2>4
  <2>6. a2 \in Facts
    BY <2>2, <2>3, <2>5 DEF Facts
  <2>7. \A v \in SchedThreads : a2.live[v] = IF v = t THEN o ELSE acc.live[v]
    BY <2>2, <2>5
  <2> QED BY <2>1, <2>5, <2>6, <2>7
<1> QED BY <1>1, <1>2

(* One record, thread by thread. *)
LEMMA RecordIs ==
  ASSUME SchedInv, NEW acc \in Facts, NEW m \in EventsOf(sw, rd), NEW a2, a2 = Record(acc, m)
  PROVE  a2 \in Facts /\ \A t \in SchedThreads : Recorded(acc, a2, m, t)
<1>1. sw \in Seq(SwitchRec) /\ rd \in Seq(ReadyRec) /\ \A i \in DOMAIN sw : sw[i].new_tid # sw[i].old_tid
  BY DEF SchedInv, SchedTypes
<1>2. /\ m.rank \in {0, 1}
      /\ m.rank = 0 => rd[m.i] \in ReadyRec /\ m.ts = rd[m.i].ts
      /\ m.rank = 1 => sw[m.i] \in SwitchRec /\ sw[m.i].new_tid # sw[m.i].old_tid
  <2>1. m \in Event /\ (m.rank = 0 => m.i \in 1 .. Len(rd) /\ m.ts = rd[m.i].ts)
        /\ (m.rank = 1 => m.i \in 1 .. Len(sw))
    BY <1>1, EventTypes
  <2>2. DOMAIN sw = 1 .. Len(sw)
    BY <1>1, LenProperties
  <2> QED BY <1>1, <2>1, <2>2, ElementOfSeq DEF Event
<1>3. CASE m.rank = 0
  <2>1. PICK r \in ReadyRec : r = rd[m.i] /\ m.ts = r.ts /\ a2 = StepReady(acc, r)
    BY <1>2, <1>3 DEF Record
  <2>2. /\ a2 \in Facts
        /\ \A t \in SchedThreads \ {r.tid} : a2.live[t] = acc.live[t] /\ a2.worst[t] = acc.worst[t]
        /\ a2.live[r.tid] = [ready |-> IF acc.live[r.tid].ready = NoTime THEN r.ts ELSE acc.live[r.tid].ready,
                             blocked |-> NoTime, reason |-> "none"]
        /\ a2.worst[r.tid] = AfterWake(acc.worst[r.tid], acc.live[r.tid], r.ts)
    BY <2>1, ReadyIs
  <2>3. NamedBy(sw, rd, m) = {r.tid}
    BY <1>3, <2>1 DEF NamedBy
  <2>4. ASSUME NEW t \in SchedThreads PROVE Recorded(acc, a2, m, t)
    <3>1. CASE t # r.tid
      BY <1>3, <2>2, <2>3, <3>1 DEF Recorded
    <3>2. CASE t = r.tid
      BY <1>3, <2>1, <2>2, <2>3, <3>2 DEF Recorded
    <3> QED BY <3>1, <3>2
  <2> QED BY <2>2, <2>4
<1>4. CASE m.rank = 1
  <2>1. PICK s \in SwitchRec : s = sw[m.i] /\ s.new_tid # s.old_tid
    BY <1>2, <1>4
  <2>2. PICK a1 : a1 = SwitchedIn(acc, s)
    OBVIOUS
  <2>3. a2 = SwitchedOut(a1, s)
    BY <1>4, <2>1, <2>2 DEF Record
  <2>4. /\ a1 \in Facts
        /\ \A t \in SchedThreads \ {s.new_tid} : a1.live[t] = acc.live[t] /\ a1.worst[t] = acc.worst[t]
        /\ \A t \in SchedThreads : t = s.new_tid =>
             a1.live[t] = Unseen /\ a1.worst[t] = AfterIn(acc.worst[t], acc.live[t], s)
    BY <2>2, InIs
  <2>5. /\ a2 \in Facts
        /\ \A t \in SchedThreads \ {s.old_tid} : a2.live[t] = a1.live[t] /\ a2.worst[t] = a1.worst[t]
        /\ \A t \in SchedThreads : t = s.old_tid =>
             a2.live[t] = Out(a1.live[t], s) /\ a2.worst[t] = a1.worst[t]
    BY <2>3, <2>4, OutIs
  <2>6. NamedBy(sw, rd, m) = {s.new_tid, s.old_tid}
    BY <1>4, <2>1 DEF NamedBy
  <2>7. ASSUME NEW t \in SchedThreads PROVE Recorded(acc, a2, m, t)
    <3>1. CASE t \notin {s.new_tid, s.old_tid}
      BY <1>4, <2>1, <2>4, <2>5, <2>6, <3>1 DEF Recorded
    <3>2. CASE t = s.new_tid
      BY <1>4, <2>1, <2>4, <2>5, <2>6, <3>2 DEF Recorded
    <3>3. CASE t = s.old_tid
      BY <1>4, <2>1, <2>4, <2>5, <2>6, <3>3 DEF Recorded
    <3> QED BY <3>1, <3>2, <3>3
  <2> QED BY <2>5, <2>7
<1> QED BY <1>2, <1>3, <1>4

-----------------------------------------------------------------------------
(* The fold of waits, over the set of the events of a window.               *)

(* The record that a fold over S takes last. *)
LastRecord(S) == CHOOSE s \in S : \A r \in S \ {s} : Sooner(r, s)

(* A finite set of events has a last one. *)
LEMMA LastRecordIs ==
  ASSUME NEW T, IsFiniteSet(T), T \subseteq Event, T # {}
  PROVE  EndsWith(T, LastRecord(T))
<1>1. PICK P : P = {R \in SUBSET T : R = {} \/ \E s \in R : \A r \in R \ {s} : Sooner(r, s)}
  OBVIOUS
<1>2. ASSUME NEW R \in SUBSET T, \A x \in R : R \ {x} \in P PROVE R \in P
  <2>1. CASE R = {}
    BY <1>1, <2>1
  <2>2. CASE R # {}
    <3>1. PICK x \in R : TRUE
      BY <2>2
    <3>2. R \ {x} = {} \/ \E s \in R \ {x} : \A r \in (R \ {x}) \ {s} : Sooner(r, s)
      BY <1>1, <1>2, <3>1
    <3>3. CASE R \ {x} = {}
      <4>1. \A r \in R \ {x} : Sooner(r, x)
        BY <3>3
      <4> QED BY <1>1, <3>1, <4>1
    <3>4. ASSUME NEW s \in R \ {x}, \A r \in (R \ {x}) \ {s} : Sooner(r, s) PROVE R \in P
      <4>1. s \in Event /\ x \in Event /\ s # x
        BY <3>1, <3>4
      <4>2. CASE Sooner(x, s)
        <5>1. \A r \in R \ {s} : Sooner(r, s)
          BY <3>4, <4>2
        <5> QED BY <1>1, <3>4, <5>1
      <4>3. CASE Sooner(s, x)
        <5>1. \A r \in R \ {x} : r \in Event /\ (r = s \/ Sooner(r, s))
          BY <3>4
        <5>2. \A r \in R \ {x} : Sooner(r, x)
          BY <4>1, <4>3, <5>1, SoonerOrders
        <5> QED BY <1>1, <3>1, <5>2
      <4> QED BY <4>1, <4>2, <4>3, SoonerOrders
    <3> QED BY <3>2, <3>3, <3>4
  <2> QED BY <2>1, <2>2
<1>3. T \in P
  BY <1>2, SubsetInduction
<1>4. \E s \in T : \A r \in T \ {s} : Sooner(r, s)
  BY <1>1, <1>3
<1> QED BY <1>4 DEF LastRecord, EndsWith

(* The function that waits defines, on the subsets of a window. *)
Folds(acc, S) ==
  acc = [T \in SUBSET S |-> IF T = {} THEN NothingSeen ELSE Record(acc[T \ {LastRecord(T)}], LastRecord(T))]

(* The fold starts with nothing seen. *)
LEMMA NothingSeenTypes ==
  NothingSeen \in Facts
<1>1. Unseen \in Known
  BY DEF Unseen, Known, NoTime, Why
<1>2. NoWait \in Wait
  BY SchedAssumption DEF NoWait, Wait, NoTime, Why
<1> QED BY <1>1, <1>2 DEF NothingSeen, Facts

(* There is one fold of a window: the function that waits defines. *)
LEMMA FoldExists ==
  ASSUME SchedInv, NEW S, S \subseteq EventsOf(sw, rd), IsFiniteSet(S)
  PROVE  \E acc : Folds(acc, S)
<1>0. S \subseteq Event
  BY EventTypes DEF SchedInv, SchedTypes
<1>1. PICK pick : pick = [T \in SUBSET S |-> LastRecord(T)]
  OBVIOUS
<1>2. \A T \in SUBSET S : pick[T] = LastRecord(T) /\ (T # {} => pick[T] \in T)
  <2> SUFFICES ASSUME NEW T \in SUBSET S, T # {} PROVE LastRecord(T) \in T
    BY <1>1
  <2>1. IsFiniteSet(T) /\ T \subseteq Event
    BY <1>0, FS_Subset
  <2> QED BY <2>1, LastRecordIs DEF EndsWith
<1>3. PICK step : step = [m \in S |-> [a \in Facts |-> Record(a, m)]]
  OBVIOUS
<1>4. step \in [S -> [Facts -> Facts]]
  <2>1. ASSUME NEW m \in S, NEW a \in Facts PROVE Record(a, m) \in Facts
    BY RecordIs
  <2> QED BY <1>3, <2>1
<1>5. PICK acc \in [SUBSET S -> Facts] : Peels(acc, S, NothingSeen, pick, step)
  <2>1. Chooses(pick, S)
    BY <1>2 DEF Chooses
  <2> QED BY <1>4, <2>1, NothingSeenTypes, SetRecursion
<1>6. \A T \in SUBSET S : acc[T] = IF T = {} THEN NothingSeen ELSE step[pick[T]][acc[T \ {pick[T]}]]
  BY <1>5 DEF Peels
<1>7. \A T \in SUBSET S : acc[T] = IF T = {} THEN NothingSeen ELSE Record(acc[T \ {LastRecord(T)}], LastRecord(T))
  <2> SUFFICES ASSUME NEW T \in SUBSET S, T # {} PROVE acc[T] = Record(acc[T \ {LastRecord(T)}], LastRecord(T))
    BY <1>6
  <2>1. PICK m \in S : m = LastRecord(T) /\ m = pick[T] /\ T \ {m} \in SUBSET S
    BY <1>2
  <2>2. PICK a \in Facts : a = acc[T \ {m}]
    BY <1>5, <2>1
  <2>3. acc[T] = step[m][a]
    BY <1>6, <2>1, <2>2
  <2>4. step[m][a] = Record(a, m)
    BY <1>3
  <2> QED BY <2>1, <2>2, <2>3, <2>4
<1>8. acc = [T \in SUBSET S |-> acc[T]]
  BY <1>5
<1> QED BY <1>7, <1>8 DEF Folds

(* What the fold has made of the beginning T of the window. *)
Told(T, a, from, to) ==
  \A t \in SchedThreads :
    /\ Past(T, WhoOf(sw, rd), BecomeOf(sw, rd), a.live[t], t)
    /\ Real(stretches, a.worst[t], from, to, t)
    /\ Longer(EventsOf(sw, rd), T, WhoOf(sw, rd), BecomeOf(sw, rd), a.worst[t], t)

(* Of no events nothing is said. *)
LEMMA NothingTold ==
  ASSUME NEW from, NEW to
  PROVE  Told({}, NothingSeen, from, to)
<1> SUFFICES ASSUME NEW t \in SchedThreads
             PROVE  /\ Past({}, WhoOf(sw, rd), BecomeOf(sw, rd), NothingSeen.live[t], t)
                    /\ Real(stretches, NothingSeen.worst[t], from, to, t)
                    /\ Longer(EventsOf(sw, rd), {}, WhoOf(sw, rd), BecomeOf(sw, rd), NothingSeen.worst[t], t)
  BY DEF Told
<1>1. NothingSeen.live[t] = Unseen /\ NothingSeen.worst[t] = NoWait
  BY DEF NothingSeen
<1>2. NoWait.ready = 0 /\ NoWait.blocked = 0
  BY DEF NoWait
<1> QED BY <1>1, <1>2 DEF Past, Real, Longer

(* The window of a fold, a beginning of it and its last event. *)
Window(S, from, to) ==
  /\ from \in Int /\ to \in Int
  /\ S = {e \in EventsOf(sw, rd) : e.ts >= from /\ e.ts <= to}

(* What is said of the events up to m is so, when that before it was. *)
LEMMA ToldMore ==
  ASSUME SchedInv, NEW S, NEW from, NEW to, Window(S, from, to),
         NEW T, Beginning(T, S), NEW m, EndsWith(T, m),
         NEW a \in Facts, Told(T \ {m}, a, from, to)
  PROVE  Told(T, Record(a, m), from, to)
<1>1. PICK E, who, became, ends : /\ E = EventsOf(sw, rd) /\ who = WhoOf(sw, rd)
                                  /\ became = BecomeOf(sw, rd) /\ ends = EndingOf(sw, rd)
  OBVIOUS
<1>2. /\ E \subseteq Event /\ S \subseteq E /\ T \subseteq S /\ m \in T /\ m \in E /\ m \in Event
      /\ from \in Int /\ to \in Int /\ S = {e \in E : e.ts >= from /\ e.ts <= to}
      /\ \A e \in T : e.ts >= from /\ e.ts <= to
  <2>1. E \subseteq Event
    BY <1>1, EventTypes DEF SchedInv, SchedTypes
  <2>2. from \in Int /\ to \in Int /\ S = {e \in E : e.ts >= from /\ e.ts <= to}
    BY <1>1 DEF Window
  <2>3. T \subseteq S /\ m \in T
    BY DEF Beginning, EndsWith
  <2> QED BY <2>1, <2>2, <2>3
<1>3. PICK a2 : a2 = Record(a, m)
  OBVIOUS
<1>4. a2 \in Facts /\ \A t \in SchedThreads : Recorded(a, a2, m, t)
  BY <1>1, <1>2, <1>3, RecordIs
<1>5. /\ who[m] = NamedBy(sw, rd, m)
      /\ \A t \in SchedThreads : became[m][t] = Became(sw, m, t) /\ ends[m][t] = Ends(sw, m, t)
  BY <1>1, <1>2 DEF WhoOf, BecomeOf, EndingOf
<1> SUFFICES ASSUME NEW t \in SchedThreads
             PROVE  /\ Past(T, who, became, a2.live[t], t)
                    /\ Real(stretches, a2.worst[t], from, to, t)
                    /\ Longer(E, T, who, became, a2.worst[t], t)
  BY <1>1, <1>3 DEF Told
<1>6. PICK l, w : l = a.live[t] /\ w = a.worst[t]
  OBVIOUS
<1>7. l \in Known /\ w \in Wait
  BY <1>6 DEF Facts
<1>8. /\ Past(T \ {m}, who, became, l, t) /\ Real(stretches, w, from, to, t)
      /\ Longer(E, T \ {m}, who, became, w, t)
  BY <1>1, <1>6 DEF Told
<1>9. Recorded(a, a2, m, t)
  BY <1>4
<1>10. CASE t \notin who[m]
  <2>1. a2.live[t] = l /\ a2.worst[t] = w
    BY <1>5, <1>6, <1>9, <1>10 DEF Recorded
  <2>2. Past(T, who, became, l, t) /\ Longer(E, T, who, became, w, t)
    BY <1>8, <1>10, OthersStay
  <2> QED BY <1>8, <2>1, <2>2
<1>11. CASE t \in who[m]
  <2>1. AtEvent(E, T, who, became, ends, state, stretches, from, to, l, w, m, t)
    <3>1. Links(E, who, became, ends, state, stretches, t)
      BY <1>1 DEF SchedInv, LinkedBy
    <3>2. Prior(E, T, who, became, l, m, t)
      BY <1>2, <1>8, <1>11, PriorIs
    <3>3. T \subseteq E
      BY <1>2
    <3> QED BY <1>2, <1>7, <1>8, <1>11, <3>1, <3>2, <3>3 DEF AtEvent
  <2>2. Past(T, who, became, Live(became[m][t]), t)
    <3>1. T \subseteq Event
      BY <1>2
    <3> QED BY <1>11, <3>1, PastIs
  <2>3. m.ts \in Nat /\ m.rank \in {0, 1}
    BY <1>2 DEF Event
  <2>4. CASE m.rank = 0
    <3>1. became[m][t] = [is |-> "ready", since |-> m.ts, reason |-> "none"] /\ ends[m][t] = {"waiting", "gone"}
      BY <1>5, <2>4 DEF Became, Ends
    <3>2. /\ a2.live[t] = [ready |-> IF l.ready = NoTime THEN m.ts ELSE l.ready, blocked |-> NoTime, reason |-> "none"]
          /\ a2.worst[t] = AfterWake(w, l, m.ts)
      BY <1>5, <1>6, <1>9, <1>11, <2>4 DEF Recorded
    <3>3. /\ l.ready = NoTime /\ Real(stretches, AfterWake(w, l, m.ts), from, to, t)
          /\ Longer(E, T, who, became, AfterWake(w, l, m.ts), t)
      BY <2>1, <3>1, Woken
    <3>4. a2.live[t] = Live(became[m][t])
      BY <3>1, <3>2, <3>3 DEF Live
    <3> QED BY <2>2, <3>2, <3>3, <3>4
  <2>5. CASE m.rank = 1 /\ t = sw[m.i].new_tid
    <3>1. became[m][t] = [is |-> "running", since |-> m.ts, reason |-> "none"] /\ ends[m][t] = {"ready"}
      BY <1>5, <2>5 DEF Became, Ends
    <3>2. a2.live[t] = Unseen /\ a2.worst[t] = AfterIn(w, l, sw[m.i])
      BY <1>6, <1>9, <2>5 DEF Recorded
    <3>3. sw[m.i].ts = m.ts /\ sw[m.i].cpu \in Procs
      <4>1. sw \in Seq(SwitchRec) /\ m.i \in 1 .. Len(sw) /\ m.ts = sw[m.i].ts
        BY <1>1, <1>2, <2>5, EventTypes DEF SchedInv, SchedTypes
      <4>2. sw[m.i] \in SwitchRec
        BY <4>1, ElementOfSeq
      <4> QED BY <4>1, <4>2 DEF SwitchRec
    <3>4. /\ Real(stretches, AfterIn(w, l, sw[m.i]), from, to, t)
          /\ Longer(E, T, who, became, AfterIn(w, l, sw[m.i]), t)
      BY <2>1, <3>1, <3>3, SwitchedTo
    <3>5. a2.live[t] = Live(became[m][t])
      BY <3>1, <3>2 DEF Live, Unseen
    <3> QED BY <2>2, <3>2, <3>4, <3>5
  <2>6. CASE m.rank = 1 /\ t = sw[m.i].old_tid /\ t # sw[m.i].new_tid
    <3>1. /\ became[m][t] = [is |-> sw[m.i].old_state, since |-> m.ts, reason |-> sw[m.i].reason]
          /\ ends[m][t] = {"running"}
      BY <1>5, <2>6 DEF Became, Ends
    <3>2. a2.live[t] = Out(l, sw[m.i]) /\ a2.worst[t] = w
      BY <1>6, <1>9, <2>6 DEF Recorded
    <3>3. sw[m.i].ts = m.ts
      BY <1>1, <1>2, <2>6, EventTypes DEF SchedInv, SchedTypes
    <3>4. Longer(E, T, who, became, w, t)
      BY <2>1, <3>1, SwitchedFrom
    <3>5. a2.live[t] = Live(became[m][t])
      <4>1. sw[m.i].old_state = "waiting" => Out(l, sw[m.i]) = [ready |-> NoTime, blocked |-> m.ts, reason |-> sw[m.i].reason]
        BY <3>3 DEF Out, Unseen
      <4>2. sw[m.i].old_state = "ready" => Out(l, sw[m.i]) = [ready |-> m.ts, blocked |-> NoTime, reason |-> "none"]
        BY <3>3 DEF Out, Unseen
      <4>3. sw[m.i].old_state \notin {"waiting", "ready"} => Out(l, sw[m.i]) = Unseen
        BY DEF Out
      <4> QED BY <3>1, <3>2, <4>1, <4>2, <4>3 DEF Live, Unseen
    <3> QED BY <1>8, <2>2, <3>2, <3>4, <3>5
  <2>7. m.rank = 0 \/ t = sw[m.i].new_tid \/ t = sw[m.i].old_tid
    BY <1>5, <1>11 DEF NamedBy
  <2> QED BY <2>3, <2>4, <2>5, <2>6, <2>7
<1> QED BY <1>10, <1>11

(* What is said of the whole window is so. *)
LEMMA FoldTells ==
  ASSUME SchedInv, NEW S, NEW from, NEW to, Window(S, from, to), IsFiniteSet(S), NEW acc, Folds(acc, S)
  PROVE  acc[S] \in Facts /\ Told(S, acc[S], from, to)
<1>0. S \subseteq EventsOf(sw, rd) /\ S \subseteq Event
  <2>1. S \subseteq EventsOf(sw, rd)
    BY DEF Window
  <2> QED BY <2>1, EventTypes DEF SchedInv, SchedTypes
<1>1. PICK P : P = {T \in SUBSET S : Beginning(T, S) => acc[T] \in Facts /\ Told(T, acc[T], from, to)}
  OBVIOUS
<1>2. ASSUME NEW T \in SUBSET S, \A x \in T : T \ {x} \in P, Beginning(T, S)
      PROVE  acc[T] \in Facts /\ Told(T, acc[T], from, to)
  <2>1. acc[T] = IF T = {} THEN NothingSeen ELSE Record(acc[T \ {LastRecord(T)}], LastRecord(T))
    BY DEF Folds
  <2>2. CASE T = {}
    BY <2>1, <2>2, NothingSeenTypes, NothingTold
  <2>3. CASE T # {}
    <3>1. PICK m : m = LastRecord(T)
      OBVIOUS
    <3>2. EndsWith(T, m)
      BY <1>0, <2>3, <3>1, FS_Subset, LastRecordIs
    <3>3. m \in T /\ \A d \in T \ {m} : Sooner(d, m)
      BY <3>2 DEF EndsWith
    <3>4. Beginning(T \ {m}, S)
      <4> SUFFICES ASSUME NEW x \in T \ {m}, NEW b \in S, Sooner(b, x) PROVE b \in T \ {m}
        BY DEF Beginning
      <4>1. b \in T
        BY <1>2 DEF Beginning
      <4>2. b # m
        BY <1>0, <3>3, SoonerOrders
      <4> QED BY <4>1, <4>2
    <3>5. PICK a : a = acc[T \ {m}]
      OBVIOUS
    <3>6. a \in Facts /\ Told(T \ {m}, a, from, to)
      BY <1>1, <1>2, <3>3, <3>4, <3>5
    <3>7. Told(T, Record(a, m), from, to)
      BY <1>2, <3>2, <3>6, ToldMore
    <3>8. Record(a, m) \in Facts
      <4>1. m \in EventsOf(sw, rd)
        BY <1>0, <3>3
      <4> QED BY <3>6, <4>1, RecordIs
    <3> QED BY <2>1, <2>3, <3>1, <3>5, <3>7, <3>8
  <2> QED BY <2>2, <2>3
<1>3. \A T \in SUBSET S : (\A x \in T : T \ {x} \in P) => T \in P
  BY <1>1, <1>2
<1>4. S \in P
  BY <1>3, SubsetInduction
<1>5. Beginning(S, S)
  BY DEF Beginning
<1> QED BY <1>1, <1>4, <1>5

(* The records of a window are finitely many of the events. *)
LEMMA WindowIs ==
  ASSUME SchedInv, NEW from \in Int, NEW to \in Int
  PROVE  Window(merged(from, to), from, to) /\ IsFiniteSet(merged(from, to))
<1>1. Wakings = WakeEvents(rd) /\ Switches = SwitchEvents(sw)
  BY DEF Wakings, Switches, WakeEvents, SwitchEvents
<1>2. Window(merged(from, to), from, to)
  BY <1>1 DEF merged, EventsOf, Window
<1>3. DOMAIN rd = 1 .. Len(rd) /\ DOMAIN sw = 1 .. Len(sw) /\ Len(rd) \in Nat /\ Len(sw) \in Nat
  BY LenProperties DEF SchedInv, SchedTypes
<1>4. IsFiniteSet(DOMAIN rd) /\ IsFiniteSet(DOMAIN sw)
  BY <1>3, FS_Interval
<1>5. IsFiniteSet(WakeEvents(rd)) /\ IsFiniteSet(SwitchEvents(sw))
  <2>1. [i \in DOMAIN rd |-> [ts |-> rd[i].ts, rank |-> 0, i |-> i]] \in Surjection(DOMAIN rd, WakeEvents(rd))
    BY DEF WakeEvents, Surjection
  <2>2. [i \in DOMAIN sw |-> [ts |-> sw[i].ts, rank |-> 1, i |-> i]] \in Surjection(DOMAIN sw, SwitchEvents(sw))
    BY DEF SwitchEvents, Surjection
  <2> QED BY <1>4, <2>1, <2>2, FS_Surjection
<1>6. IsFiniteSet(EventsOf(sw, rd))
  BY <1>5, FS_Union DEF EventsOf
<1>7. merged(from, to) \in SUBSET EventsOf(sw, rd)
  BY <1>1 DEF merged, EventsOf
<1> QED BY <1>2, <1>6, <1>7, FS_Subset

(* Every wait that is reported was spent, and none was longer. *)
LEMMA WaitsTell ==
  ASSUME SchedInv, NEW from \in Int, NEW to \in Int
  PROVE  \A t \in SchedThreads :
           /\ waits(from, to)[t] \in Wait
           /\ Real(stretches, waits(from, to)[t], from, to, t)
           /\ Longer(EventsOf(sw, rd), merged(from, to), WhoOf(sw, rd), BecomeOf(sw, rd), waits(from, to)[t], t)
<1>1. PICK S : S = merged(from, to)
  OBVIOUS
<1>2. Window(S, from, to) /\ IsFiniteSet(S) /\ S \subseteq EventsOf(sw, rd)
  BY <1>1, WindowIs DEF Window
<1>3. PICK acc : acc = CHOOSE f : Folds(f, S)
  OBVIOUS
<1>4. Folds(acc, S)
  BY <1>2, <1>3, FoldExists
<1>5. acc[S] \in Facts /\ Told(S, acc[S], from, to)
  BY <1>2, <1>4, FoldTells
<1>6. waits(from, to) = acc[S].worst
  BY <1>1, <1>3 DEF waits, Folds, LastRecord
<1> QED BY <1>1, <1>5, <1>6 DEF Told, Facts

(* Nothing changes when nothing of the scheduler changes. *)
LEMMA SchedStays ==
  ASSUME SchedInv, UNCHANGED schedVars
  PROVE  SchedInv'
<1>1. UNCHANGED <<tick, sw, rd, runs, state, stretches>>
  BY DEF schedVars
<1>2. OnProcs' /\ LinkedBy(sw, rd, state, stretches)'
  BY <1>1 DEF SchedInv, OnProcs, LinkedBy
<1>3. SchedTypes'
  BY <1>1 DEF SchedInv, SchedTypes
<1> QED BY <1>2, <1>3 DEF SchedInv

(* The two streams are linked to what really happened in every state, for   *)
(* every number of threads, processors and records.                         *)
THEOREM SchedInvariant == SchedSpec => []SchedInv
<1>1. SchedInit => SchedInv
  BY SchedStart
<1>2. SchedInv /\ [SchedNext]_schedVars => SchedInv'
  BY SchedStep, SchedStays
<1> QED BY <1>1, <1>2, PTL DEF SchedSpec

(* Every wait that is reported is one the thread really spent that way, for *)
(* every number of threads, processors and records: a reused thread id is   *)
(* never given another thread's wait.                                       *)
THEOREM WaitsReal == SchedSpec => []WaitsAreReal
<1>1. SchedInv => WaitsAreReal
  <2> SUFFICES ASSUME SchedInv, NEW t \in SchedThreads, NEW row, row = waits(0, tick)[t]
               PROVE  /\ row.ready > 0 => \E x \in stretches : /\ x.tid = t /\ x.is = "ready"
                                                     /\ x.from = row.ready_from /\ x.to = row.ready_to
                                                     /\ x.to - x.from = row.ready
                      /\ row.blocked > 0 => \E x \in stretches : /\ x.tid = t /\ x.is = "waiting"
                                                       /\ x.to - x.from = row.blocked /\ x.reason = row.reason
    BY DEF WaitsAreReal
  <2>1. tick \in Int /\ 0 \in Int
    BY DEF SchedInv, SchedTypes
  <2>2. Real(stretches, row, 0, tick, t)
    BY <2>1, WaitsTell
  <2> QED BY <2>2 DEF Real
<1> QED BY <1>1, SchedInvariant, PTL

-----------------------------------------------------------------------------
(* Why a measuring thread was late (classify_probe, held_by).  What the     *)
(* records say of each of its wake-ups, from the moment it asked for it;    *)
(* and which switches bound every stretch that a thread had a processor.    *)

(* A stream is in the order of time, up to now. *)
InTime(s, now) ==
  /\ \A i \in DOMAIN s : s[i].ts \in Nat /\ s[i].ts <= now
  /\ \A i, j \in DOMAIN s : i <= j => s[i].ts <= s[j].ts

(* s2 is s with records of this moment after it. *)
Continues(s, s2, now) ==
  /\ DOMAIN s \subseteq DOMAIN s2 /\ \A i \in DOMAIN s : s2[i] = s[i]
  /\ \A j \in DOMAIN s2 \ DOMAIN s : s2[j].ts = now /\ \A i \in DOMAIN s : i < j

(* The records of the probe: made ready, put on its processor, waiting. *)
ReadiedAt(r) == {i \in DOMAIN r : r[i].tid = Probe}
PutOnAt(q)   == {i \in DOMAIN q : q[i].new_tid = Probe}
WaitedAt(q)  == {i \in DOMAIN q : q[i].old_tid = Probe /\ q[i].old_state = "waiting"}

(* What the records say of the wake-up asked for now. *)
AwakeBy(q, r) ==
  /\ own.ready = NoTime => own = NewWakeUp /\ state[Probe].is = "waiting"
  /\ own.ready # NoTime => /\ wanted <= own.ready /\ own.ready <= state[Probe].since
                           /\ \E i \in ReadiedAt(r) : r[i].ts = own.ready
  /\ state[Probe].is = "running" => own.ran # NoTime
  /\ own.ran # NoTime => /\ own.ready <= own.ran /\ own.ran <= state[Probe].since
                         /\ \E i \in PutOnAt(q) : q[i].ts = own.ran
  /\ \A i \in ReadiedAt(r) : r[i].ts < wanted - Interval \/ (own.ready # NoTime /\ own.ready <= r[i].ts)
  /\ \A i \in WaitedAt(q) : q[i].ts <= wanted - Interval \/ (own.again /\ own.ready < q[i].ts)
  /\ own.again => \E i \in WaitedAt(q) : own.ready < q[i].ts

OwnInv ==
  /\ wanted \in Nat \cup {NoTime} /\ own \in [ready : Int, ran : Int, again : BOOLEAN]
  /\ wanted # NoTime => AwakeBy(sw, rd)

(* ...and of a late one, which is over. *)
LateBy(q, r, now, w) ==
  /\ w.start < w.end /\ w.end <= now
  /\ w.start <= w.own.ready /\ w.own.ready <= w.own.ran /\ w.own.ran < w.end
  /\ \E i \in ReadiedAt(r) : r[i].ts = w.own.ready
  /\ \E i \in PutOnAt(q) : q[i].ts = w.own.ran
  /\ \A i \in ReadiedAt(r) : r[i].ts < w.start - Interval \/ w.own.ready <= r[i].ts
  /\ w.own.again => \E i \in WaitedAt(q) : w.own.ready < q[i].ts /\ q[i].ts < w.end
  /\ ~w.own.again => \A i \in WaitedAt(q) : q[i].ts <= w.start - Interval \/ w.end <= q[i].ts

LateRec == [start : Nat, end : Nat, own : [ready : Nat, ran : Nat, again : BOOLEAN]]

StallsInv == stalls \subseteq LateRec /\ IsFiniteSet(stalls) /\ \A w \in stalls : LateBy(sw, rd, tick, w)

(* The newest switch of the processor c put t on it, at ts. *)
PutOn(q, c, t, ts) ==
  \E i \in DOMAIN q : /\ q[i].cpu = c /\ q[i].new_tid = t /\ q[i].ts = ts
                      /\ \A k \in DOMAIN q : q[k].cpu = c => k <= i

(* Two switches of c, with none between them, put t on it and took it off. *)
HadBetween(q, c, t, from, to) ==
  \E i, j \in DOMAIN q : /\ i < j /\ q[i].cpu = c /\ q[j].cpu = c
                         /\ q[i].new_tid = t /\ q[i].ts = from /\ q[j].ts = to
                         /\ \A k \in DOMAIN q : q[k].cpu = c => k <= i \/ j <= k

ProcsInv ==
  /\ \A c \in Procs : runs[c] \notin {IdleTid, Probe} => PutOn(sw, c, runs[c], state[runs[c]].since)
  /\ \A x \in stretches : x.is = "running" /\ x.tid # Probe =>
       \A c \in x.on : HadBetween(sw, c, x.tid, x.from, x.to)

(* The inductive invariant. *)
LateInv == SchedInv /\ InTime(sw, tick) /\ InTime(rd, tick) /\ OwnInv /\ StallsInv /\ ProcsInv

(* A stream that is left alone, or to which a record of this moment is added. *)
LEMMA SameContinues ==
  ASSUME NEW s, NEW now PROVE Continues(s, s, now)
BY DEF Continues

LEMMA AppendContinues ==
  ASSUME NEW S, NEW s \in Seq(S), NEW x \in S, NEW now, x.ts = now
  PROVE  /\ Continues(s, Append(s, x), now)
         /\ Len(s) + 1 \in DOMAIN Append(s, x) /\ Append(s, x)[Len(s) + 1] = x
         /\ DOMAIN Append(s, x) = DOMAIN s \cup {Len(s) + 1} /\ Len(s) + 1 \notin DOMAIN s
         /\ \A i \in DOMAIN s : i < Len(s) + 1 /\ i \in Nat
<1>1. PICK m \in Nat : m = Len(s)
  BY LenProperties
<1>2. /\ DOMAIN s = 1 .. m /\ DOMAIN Append(s, x) = 1 .. m + 1
      /\ Append(s, x)[m + 1] = x /\ \A i \in 1 .. m : Append(s, x)[i] = s[i]
  BY <1>1, LenProperties, AppendProperties
<1>3. 1 .. m + 1 = (1 .. m) \cup {m + 1} /\ m + 1 \notin 1 .. m /\ \A i \in 1 .. m : i < m + 1 /\ i \in Nat
  OBVIOUS
<1> QED BY <1>1, <1>2, <1>3 DEF Continues

LEMMA InTimeStays ==
  ASSUME NEW s, NEW s2, DOMAIN s2 \subseteq Nat, NEW now \in Nat, NEW now2 \in Nat, now <= now2,
         InTime(s, now), Continues(s, s2, now)
  PROVE  InTime(s2, now2)
<1>1. /\ \A i \in DOMAIN s : s2[i] = s[i] /\ s[i].ts \in Nat /\ s[i].ts <= now
      /\ \A i, j \in DOMAIN s : i <= j => s[i].ts <= s[j].ts
      /\ \A j \in DOMAIN s2 : j \in DOMAIN s \/ (s2[j].ts = now /\ \A i \in DOMAIN s : i < j)
  BY DEF InTime, Continues
<1>2. \A i \in DOMAIN s2 : s2[i].ts \in Nat /\ s2[i].ts <= now
  BY <1>1
<1>3. ASSUME NEW i \in DOMAIN s2, NEW j \in DOMAIN s2, i <= j PROVE s2[i].ts <= s2[j].ts
  <2>1. CASE j \notin DOMAIN s
    BY <1>1, <1>2, <2>1
  <2>2. CASE j \in DOMAIN s
    <3>1. i \in DOMAIN s
      <4>1. i \in Nat /\ j \in Nat
        OBVIOUS
      <4> QED BY <1>1, <1>3, <2>2, <4>1
    <3> QED BY <1>1, <1>3, <2>2, <3>1
  <2> QED BY <2>1, <2>2
<1> QED BY <1>2, <1>3 DEF InTime

LEMMA HadStays ==
  ASSUME NEW q, NEW q2, NEW now, Continues(q, q2, now), DOMAIN q2 \subseteq Nat,
         NEW c, NEW t, NEW from, NEW to, HadBetween(q, c, t, from, to)
  PROVE  HadBetween(q2, c, t, from, to)
<1>1. PICK i \in DOMAIN q, j \in DOMAIN q :
        /\ i < j /\ q[i].cpu = c /\ q[j].cpu = c /\ q[i].new_tid = t /\ q[i].ts = from /\ q[j].ts = to
        /\ \A k \in DOMAIN q : q[k].cpu = c => k <= i \/ j <= k
  BY DEF HadBetween
<1>2. \A k \in DOMAIN q2 : k \in DOMAIN q \/ j < k
  BY <1>1 DEF Continues
<1>3. \A k \in DOMAIN q2 : q2[k].cpu = c => k <= i \/ j <= k
  BY <1>1, <1>2 DEF Continues
<1> QED BY <1>1, <1>3 DEF HadBetween, Continues

LEMMA LateStays ==
  ASSUME NEW q, NEW q2, NEW r, NEW r2, NEW now \in Nat, NEW now2 \in Nat, now <= now2,
         Continues(q, q2, now), Continues(r, r2, now),
         NEW w \in LateRec, LateBy(q, r, now, w)
  PROVE  LateBy(q2, r2, now2, w)
<1>1. /\ w.start \in Nat /\ w.end \in Nat /\ w.own.ready \in Nat /\ w.own.ran \in Nat /\ w.end <= now
      /\ w.own.ready < w.end /\ w.own.ready <= now
  BY DEF LateRec, LateBy
<1>2. /\ \A i \in DOMAIN q : i \in DOMAIN q2 /\ q2[i] = q[i]
      /\ \A i \in DOMAIN r : i \in DOMAIN r2 /\ r2[i] = r[i]
      /\ \A i \in DOMAIN q2 : i \in DOMAIN q \/ q2[i].ts = now
      /\ \A i \in DOMAIN r2 : i \in DOMAIN r \/ r2[i].ts = now
  BY DEF Continues
<1>3. /\ \A i \in ReadiedAt(r) : i \in ReadiedAt(r2) /\ r2[i] = r[i]
      /\ \A i \in PutOnAt(q) : i \in PutOnAt(q2) /\ q2[i] = q[i]
      /\ \A i \in WaitedAt(q) : i \in WaitedAt(q2) /\ q2[i] = q[i]
      /\ \A i \in ReadiedAt(r2) : (i \in ReadiedAt(r) /\ r2[i] = r[i]) \/ r2[i].ts = now
      /\ \A i \in WaitedAt(q2) : (i \in WaitedAt(q) /\ q2[i] = q[i]) \/ q2[i].ts = now
  BY <1>2 DEF ReadiedAt, PutOnAt, WaitedAt
<1>4. w.end <= now2
  BY <1>1
<1>5. (\E i \in ReadiedAt(r2) : r2[i].ts = w.own.ready) /\ (\E i \in PutOnAt(q2) : q2[i].ts = w.own.ran)
  BY <1>3 DEF LateBy
<1>6. \A i \in ReadiedAt(r2) : r2[i].ts < w.start - Interval \/ w.own.ready <= r2[i].ts
  BY <1>1, <1>3 DEF LateBy
<1>7. w.own.again => \E i \in WaitedAt(q2) : w.own.ready < q2[i].ts /\ q2[i].ts < w.end
  BY <1>3 DEF LateBy
<1>8. ~w.own.again => \A i \in WaitedAt(q2) : q2[i].ts <= w.start - Interval \/ w.end <= q2[i].ts
  BY <1>1, <1>3 DEF LateBy
<1> QED BY <1>4, <1>5, <1>6, <1>7, <1>8 DEF LateBy

(* No record names the probe later than the last change of what it does. *)
LEMMA ProbeRecords ==
  ASSUME SchedInv
  PROVE  /\ \A i \in ReadiedAt(rd) : rd[i].ts <= state[Probe].since
         /\ \A i \in PutOnAt(sw) \cup WaitedAt(sw) : sw[i].ts <= state[Probe].since
<1>1. Probe \in SchedThreads
  BY SchedAssumption
<1>2. \A e \in EventsOf(sw, rd) : Probe \in WhoOf(sw, rd)[e] => e.ts <= state[Probe].since
  BY <1>1 DEF SchedInv, LinkedBy, Links
<1>3. ASSUME NEW i \in ReadiedAt(rd) PROVE rd[i].ts <= state[Probe].since
  <2>1. PICK e : e = [ts |-> rd[i].ts, rank |-> 0, i |-> i]
    OBVIOUS
  <2>2. e \in EventsOf(sw, rd) /\ Probe \in NamedBy(sw, rd, e)
    BY <2>1 DEF ReadiedAt, EventsOf, WakeEvents, NamedBy
  <2> QED BY <1>2, <2>1, <2>2 DEF WhoOf
<1>4. ASSUME NEW i \in PutOnAt(sw) \cup WaitedAt(sw) PROVE sw[i].ts <= state[Probe].since
  <2>1. PICK e : e = [ts |-> sw[i].ts, rank |-> 1, i |-> i]
    OBVIOUS
  <2>2. e \in EventsOf(sw, rd) /\ Probe \in NamedBy(sw, rd, e)
    BY <2>1 DEF PutOnAt, WaitedAt, EventsOf, SwitchEvents, NamedBy
  <2> QED BY <1>2, <2>1, <2>2 DEF WhoOf
<1> QED BY <1>3, <1>4

LateTypes ==
  /\ tick \in Nat /\ DOMAIN sw \subseteq Nat /\ DOMAIN rd \subseteq Nat /\ Probe \in SchedThreads /\ Probe # IdleTid
  /\ state \in [SchedThreads -> DoingRec] /\ \A t \in SchedThreads : state[t].since \in Int /\ state[t].since <= tick
  /\ sw \in Seq(SwitchRec) /\ rd \in Seq(ReadyRec)
  /\ runs \in [Procs -> SchedThreads \cup {IdleTid}]
  /\ \A c \in Procs : runs[c] # IdleTid => state[runs[c]].is = "running"
  /\ \A c, d \in Procs : runs[c] = runs[d] /\ runs[c] # IdleTid => c = d

LEMMA TypesLate == ASSUME SchedInv PROVE LateTypes
<1>1. SchedTypes /\ OnProcs
  BY DEF SchedInv
<1>2. DOMAIN sw \subseteq Nat /\ DOMAIN rd \subseteq Nat
  BY <1>1, LenProperties DEF SchedTypes
<1>3. Probe \in SchedThreads /\ Probe # IdleTid
  BY SchedAssumption
<1>4. \A t \in SchedThreads : state[t].since \in Int
  BY <1>1 DEF SchedTypes, DoingRec
<1> QED BY <1>1, <1>2, <1>3, <1>4 DEF LateTypes, SchedTypes, OnProcs

(* A step adds records of this moment, and time does not go back. *)
Moves == /\ Continues(sw, sw', tick) /\ Continues(rd, rd', tick) /\ tick' \in Nat /\ tick <= tick'
         /\ DOMAIN sw' \subseteq Nat /\ DOMAIN rd' \subseteq Nat

LEMMA StreamsStay ==
  ASSUME LateInv, Moves
  PROVE  /\ InTime(sw', tick') /\ InTime(rd', tick')
         /\ \A w \in stalls : LateBy(sw', rd', tick', w)
<1>1. tick \in Nat /\ tick' \in Nat /\ tick <= tick' /\ InTime(sw, tick) /\ InTime(rd, tick)
  BY TypesLate DEF LateInv, LateTypes, Moves
<1>2. InTime(sw', tick') /\ InTime(rd', tick')
  BY <1>1, InTimeStays DEF Moves
<1>3. ASSUME NEW w \in stalls PROVE LateBy(sw', rd', tick', w)
  <2>1. w \in LateRec /\ LateBy(sw, rd, tick, w)
    BY DEF LateInv, StallsInv
  <2> QED BY <1>1, <2>1, LateStays DEF Moves
<1> QED BY <1>2, <1>3

LEMMA LateStart ==
  ASSUME SchedInit
  PROVE  LateInv
<1>1. SchedInv
  BY SchedStart
<1>2. /\ sw = <<>> /\ rd = <<>> /\ tick = 0 /\ wanted = NoTime /\ own = NewWakeUp /\ stalls = {} /\ stretches = {}
      /\ runs = [c \in Procs |-> IF c = Pin THEN Probe ELSE IdleTid]
  BY DEF SchedInit
<1>3. DOMAIN sw = {} /\ DOMAIN rd = {}
  BY <1>2
<1>4. InTime(sw, tick) /\ InTime(rd, tick)
  BY <1>3 DEF InTime
<1>5. OwnInv
  BY <1>2 DEF OwnInv, NewWakeUp, NoTime
<1>6. StallsInv
  BY <1>2, FS_EmptySet DEF StallsInv
<1>7. ProcsInv
  BY <1>2 DEF ProcsInv
<1> QED BY <1>1, <1>4, <1>5, <1>6, <1>7 DEF LateInv

LEMMA LateWaits ==
  ASSUME LateInv, Later
  PROVE  LateInv'
<1>1. SchedInv'
  BY TimeGoesOn DEF LateInv
<1>2. UNCHANGED <<sw, rd, runs, state, wanted, own, stalls, stretches>> /\ tick' \in Nat /\ tick <= tick'
  BY SchedAssumption, TypesLate DEF Later, LateInv, LateTypes
<1>3. Moves
  BY <1>2, SameContinues, TypesLate DEF Moves, LateInv, LateTypes
<1>4. OwnInv'
  BY <1>2 DEF LateInv, OwnInv, AwakeBy
<1>5. StallsInv'
  BY <1>2, <1>3, StreamsStay DEF LateInv, StallsInv
<1>6. ProcsInv'
  BY <1>2 DEF LateInv, ProcsInv
<1> QED BY <1>1, <1>3, <1>4, <1>5, <1>6, StreamsStay DEF LateInv

LEMMA LateReady ==
  ASSUME LateInv, NEW u \in SchedThreads, Ready(u)
  PROVE  LateInv'
<1>1. SchedInv' /\ LateTypes
  BY MadeReady, TypesLate DEF LateInv
<1> DEFINE x == [ts |-> tick, tid |-> u]
           m == Len(rd) + 1
<1>2. /\ state[u].is \in {"waiting", "gone"} /\ tick > state[u].since
      /\ u = Probe /\ ~own.again => tick >= wanted
      /\ rd' = Append(rd, x)
      /\ state' = [state EXCEPT ![u] = Doing("ready", "none")]
      /\ stretches' = IF state[u].is = "waiting" THEN stretches \cup Over(u) ELSE stretches
      /\ own' = IF u = Probe /\ own.ready = NoTime THEN [own EXCEPT !.ready = tick] ELSE own
      /\ UNCHANGED <<tick, sw, runs, wanted, stalls>>
  BY DEF Ready
<1>3. x \in ReadyRec /\ x.ts = tick
  BY <1>1 DEF ReadyRec, LateTypes
<1>4. /\ Continues(rd, rd', tick) /\ m \in DOMAIN rd' /\ rd'[m] = x
      /\ DOMAIN rd' = DOMAIN rd \cup {m} /\ m \notin DOMAIN rd
      /\ \A i \in DOMAIN rd : i < m /\ i \in Nat
  BY <1>1, <1>2, <1>3, AppendContinues DEF LateTypes
<1>5. Moves
  <2>1. m \in Nat
    BY <1>1, LenProperties DEF LateTypes
  <2> QED BY <1>1, <1>2, <1>4, <2>1, SameContinues DEF Moves, LateTypes
<1>6. StallsInv'
  BY <1>2, <1>5, StreamsStay DEF LateInv, StallsInv
<1>7. state'[u] = Doing("ready", "none") /\ \A t \in SchedThreads \ {u} : state'[t] = state[t]
  BY <1>1, <1>2 DEF LateTypes
<1>8. ProcsInv'
  <2>1. \A c \in Procs : runs[c] \notin {IdleTid, Probe} => PutOn(sw', c, runs'[c], state'[runs'[c]].since)
    <3> SUFFICES ASSUME NEW c \in Procs, runs[c] \notin {IdleTid, Probe}
                 PROVE  PutOn(sw, c, runs[c], state'[runs[c]].since)
      BY <1>2
    <3>1. runs[c] # u /\ runs[c] \in SchedThreads
      BY <1>1, <1>2 DEF LateTypes
    <3> QED BY <1>7, <3>1 DEF LateInv, ProcsInv
  <2>2. \A y \in stretches' : y.is = "running" => y \in stretches
    BY <1>2 DEF Over
  <2> QED BY <1>2, <2>1, <2>2 DEF LateInv, ProcsInv
<1>9. OwnInv'
  <2>1. wanted' \in Nat \cup {NoTime} /\ own' \in [ready : Int, ran : Int, again : BOOLEAN]
    BY <1>1, <1>2 DEF LateInv, OwnInv, LateTypes
  <2>2. ASSUME wanted # NoTime, u # Probe PROVE AwakeBy(sw, rd)'
    <3>1. ReadiedAt(rd') = ReadiedAt(rd) /\ \A i \in ReadiedAt(rd) : rd'[i] = rd[i]
      BY <1>4, <2>2 DEF ReadiedAt, Continues
    <3>2. own' = own /\ state'[Probe] = state[Probe]
      BY <1>1, <1>2, <1>7, <2>2 DEF LateTypes
    <3> QED BY <1>2, <2>2, <3>1, <3>2 DEF LateInv, OwnInv, AwakeBy
  <2>3. ASSUME wanted # NoTime, u = Probe PROVE AwakeBy(sw, rd)'
    <3>1. /\ ReadiedAt(rd') = ReadiedAt(rd) \cup {m} /\ (\A i \in ReadiedAt(rd) : rd'[i] = rd[i])
          /\ rd'[m].ts = tick
      BY <1>4, <2>3 DEF ReadiedAt, Continues
    <3>2. state'[Probe].is = "ready" /\ state'[Probe].since = tick /\ state[Probe].since < tick
      BY <1>1, <1>2, <1>7, <2>3 DEF Doing, LateTypes
    <3>3. AwakeBy(sw, rd) /\ own \in [ready : Int, ran : Int, again : BOOLEAN] /\ wanted \in Nat
      BY <2>3 DEF LateInv, OwnInv
    <3>4. CASE own.ready = NoTime
      <4>1. own = NewWakeUp /\ tick >= wanted
        BY <1>2, <2>3, <3>3, <3>4 DEF AwakeBy, NewWakeUp
      <4>2. own'.ready = tick /\ own'.ran = NoTime /\ ~own'.again /\ tick # NoTime
        BY <1>1, <1>2, <2>3, <3>3, <3>4, <4>1 DEF NewWakeUp, LateTypes, NoTime
      <4>3. \A i \in ReadiedAt(rd) : rd[i].ts < wanted - Interval
        BY <3>3, <3>4 DEF AwakeBy
      <4>4. \A i \in WaitedAt(sw) : sw[i].ts <= wanted - Interval
        BY <3>3, <4>1 DEF AwakeBy, NewWakeUp
      <4>5. m \in ReadiedAt(rd') /\ rd'[m].ts = own'.ready
        BY <3>1, <4>2
      <4>6. \A i \in ReadiedAt(rd') : rd'[i].ts < wanted - Interval \/ own'.ready <= rd'[i].ts
        BY <1>1, <3>1, <4>2, <4>3 DEF LateTypes
      <4>7. \A i \in WaitedAt(sw') : sw'[i].ts <= wanted - Interval
        BY <1>2, <4>4
      <4>8. wanted' = wanted /\ wanted <= own'.ready /\ own'.ready <= state'[Probe].since
        BY <1>1, <1>2, <3>2, <4>1, <4>2 DEF LateTypes
      <4> QED BY <3>2, <4>2, <4>5, <4>6, <4>7, <4>8 DEF AwakeBy
    <3>5. CASE own.ready # NoTime
      <4>1. own' = own
        BY <1>2, <3>5
      <4>2. own.ready <= tick
        BY <1>1, <3>2, <3>3, <3>5 DEF AwakeBy, LateTypes
      <4>3. /\ wanted <= own.ready /\ \E i \in ReadiedAt(rd') : rd'[i].ts = own.ready
        BY <3>1, <3>3, <3>5 DEF AwakeBy
      <4>4. own.ran # NoTime =>
              /\ own.ready <= own.ran /\ own.ran <= tick /\ \E i \in PutOnAt(sw') : sw'[i].ts = own.ran
        BY <1>1, <1>2, <3>2, <3>3 DEF AwakeBy, LateTypes
      <4>5. \A i \in ReadiedAt(rd') : rd'[i].ts < wanted - Interval \/ own.ready <= rd'[i].ts
        BY <3>1, <3>3, <3>5, <4>2 DEF AwakeBy
      <4>6. /\ \A i \in WaitedAt(sw') : sw'[i].ts <= wanted - Interval \/ (own.again /\ own.ready < sw'[i].ts)
            /\ own.again => \E i \in WaitedAt(sw') : own.ready < sw'[i].ts
        BY <1>2, <3>3 DEF AwakeBy
      <4>7. wanted' = wanted
        BY <1>2
      <4> QED BY <3>2, <3>5, <4>1, <4>2, <4>3, <4>4, <4>5, <4>6, <4>7 DEF AwakeBy
    <3> QED BY <3>4, <3>5
  <2> QED BY <1>2, <2>1, <2>2, <2>3 DEF OwnInv
<1> QED BY <1>1, <1>5, <1>6, <1>8, <1>9, StreamsStay DEF LateInv

(* A processor that is handed over: its record, and the stretch it ends. *)
HandAdds(c, u, is, m) ==
  /\ m \in DOMAIN sw' /\ DOMAIN sw' = DOMAIN sw \cup {m} /\ m \notin DOMAIN sw
  /\ \A i \in DOMAIN sw : sw'[i] = sw[i] /\ i < m
  /\ sw'[m].ts = tick /\ sw'[m].cpu = c /\ sw'[m].new_tid = u /\ sw'[m].old_tid = runs[c] /\ sw'[m].old_state = is
  /\ UNCHANGED <<tick, rd>>

LEMMA LateHand ==
  ASSUME LateInv, NEW c \in Procs, NEW u \in SchedThreads \cup {IdleTid},
         NEW is \in {"waiting", "ready", "gone"}, NEW reason \in Why, Hand(c, u, is, reason)
  PROVE  /\ SchedInv' /\ Moves /\ ProcsInv' /\ HandAdds(c, u, is, Len(sw) + 1)
         /\ state' = [t \in SchedThreads |-> IF t = u THEN Doing("running", "none")
                                             ELSE IF t = runs[c] THEN Doing(is, reason) ELSE state[t]]
         /\ u # runs[c] /\ (u # IdleTid => state[u].is = "ready") /\ (runs[c] # IdleTid => tick > state[runs[c]].since)
<1>1. SchedInv' /\ LateTypes
  BY HandedOver, TypesLate DEF LateInv
<1>0. PICK old : old = runs[c]
  OBVIOUS
<1> DEFINE x == [ts |-> tick, cpu |-> c, new_tid |-> u, old_tid |-> old, old_state |-> is, reason |-> reason]
           m == Len(sw) + 1
<1>2. /\ u # old /\ (u # IdleTid => state[u].is = "ready")
      /\ (old # IdleTid => tick > state[old].since)
      /\ sw' = Append(sw, x) /\ runs' = [runs EXCEPT ![c] = u]
      /\ state' = [t \in SchedThreads |-> IF t = u THEN Doing("running", "none")
                                          ELSE IF t = old THEN Doing(is, reason) ELSE state[t]]
      /\ stretches' = stretches \cup Over(u) \cup Over(old)
      /\ UNCHANGED <<tick, rd>>
  BY <1>0 DEF Hand
<1>3. old \in SchedThreads \cup {IdleTid} /\ (old # IdleTid => state[old].is = "running")
  BY <1>0, <1>1 DEF LateTypes
<1>4. x \in SwitchRec /\ x.ts = tick
  BY <1>1, <1>3 DEF SwitchRec, LateTypes
<1>5. /\ Continues(sw, sw', tick) /\ m \in DOMAIN sw' /\ sw'[m] = x
      /\ DOMAIN sw' = DOMAIN sw \cup {m} /\ m \notin DOMAIN sw
      /\ \A i \in DOMAIN sw : i < m /\ i \in Nat
  BY <1>1, <1>2, <1>4, AppendContinues DEF LateTypes
<1>6. m \in Nat
  BY <1>1, LenProperties DEF LateTypes
<1>7. Moves
  BY <1>1, <1>2, <1>5, <1>6, SameContinues DEF Moves, LateTypes
<1>8. HandAdds(c, u, is, m)
  BY <1>0, <1>2, <1>5 DEF HandAdds, Continues
<1>9. \A d \in Procs : runs'[d] = IF d = c THEN u ELSE runs[d]
  BY <1>1, <1>2 DEF LateTypes
<1>10. ASSUME NEW d \in Procs, runs'[d] \notin {IdleTid, Probe}
       PROVE  PutOn(sw', d, runs'[d], state'[runs'[d]].since)
  <2>1. CASE d = c
    <3>1. runs'[d] = u /\ u \in SchedThreads /\ state'[u].since = tick
      BY <1>2, <1>9, <1>10, <2>1 DEF Doing
    <3>2. \A k \in DOMAIN sw' : k <= m
      BY <1>5, <1>6
    <3>3. sw'[m].cpu = d /\ sw'[m].new_tid = u /\ sw'[m].ts = tick
      BY <1>5, <2>1
    <3> HIDE DEF m, x
    <3> QED BY <1>5, <3>1, <3>2, <3>3 DEF PutOn
  <2>2. CASE d # c
    <3>1. runs'[d] = runs[d] /\ runs[d] \in SchedThreads /\ runs[d] # u /\ runs[d] # old
      BY <1>0, <1>1, <1>2, <1>9, <1>10, <2>2 DEF LateTypes
    <3>2. state'[runs[d]] = state[runs[d]]
      BY <1>2, <3>1
    <3>3. PutOn(sw, d, runs[d], state[runs[d]].since)
      BY <1>10, <3>1 DEF LateInv, ProcsInv
    <3>4. PICK i \in DOMAIN sw : /\ sw[i].cpu = d /\ sw[i].new_tid = runs[d] /\ sw[i].ts = state[runs[d]].since
                                 /\ \A k \in DOMAIN sw : sw[k].cpu = d => k <= i
      BY <3>3 DEF PutOn
    <3>5. sw'[m].cpu # d
      BY <1>5, <2>2
    <3>6. \A k \in DOMAIN sw' : sw'[k].cpu = d => k <= i
      BY <1>5, <3>4, <3>5 DEF Continues
    <3> HIDE DEF m, x
    <3> QED BY <1>5, <3>1, <3>2, <3>4, <3>6 DEF PutOn, Continues
  <2> QED BY <2>1, <2>2
<1>11. ASSUME NEW y \in stretches', y.is = "running", y.tid # Probe, NEW d \in y.on
       PROVE  HadBetween(sw', d, y.tid, y.from, y.to)
  <2>1. CASE y \in stretches
    <3>1. HadBetween(sw, d, y.tid, y.from, y.to)
      BY <1>11, <2>1 DEF LateInv, ProcsInv
    <3> QED BY <1>5, <1>7, <3>1, HadStays DEF Moves
  <2>2. CASE y \notin stretches
    <3>1. /\ y \in Over(old) /\ old # IdleTid /\ old \in SchedThreads
          /\ y.tid = old /\ y.from = state[old].since /\ y.to = tick /\ runs[d] = old /\ d \in Procs
      BY <1>2, <1>3, <1>11, <2>2 DEF Over
    <3>2. d = c
      BY <1>0, <1>1, <3>1 DEF LateTypes
    <3>3. PutOn(sw, c, old, state[old].since)
      BY <1>0, <1>11, <3>1 DEF LateInv, ProcsInv
    <3>4. PICK i \in DOMAIN sw : /\ sw[i].cpu = c /\ sw[i].new_tid = old /\ sw[i].ts = state[old].since
                                 /\ \A k \in DOMAIN sw : sw[k].cpu = c => k <= i
      BY <3>3 DEF PutOn
    <3>5. /\ i \in DOMAIN sw' /\ m \in DOMAIN sw' /\ i < m /\ sw'[i] = sw[i]
          /\ sw'[m].cpu = c /\ sw'[m].ts = tick
      BY <1>5 DEF Continues
    <3>6. \A k \in DOMAIN sw' : sw'[k].cpu = c => k <= i \/ m <= k
      <4> SUFFICES ASSUME NEW k \in DOMAIN sw', sw'[k].cpu = c PROVE k <= i \/ m <= k
        OBVIOUS
      <4>1. CASE k = m
        BY <1>6, <4>1
      <4>2. CASE k \in DOMAIN sw
        BY <3>4, <4>2, <1>5 DEF Continues
      <4> QED BY <1>5, <4>1, <4>2
    <3> HIDE DEF m, x
    <3> QED BY <3>1, <3>2, <3>4, <3>5, <3>6 DEF HadBetween
  <2> QED BY <2>1, <2>2
<1>12. ProcsInv'
  BY <1>10, <1>11 DEF ProcsInv
<1> HIDE DEF m, x
<1> QED BY <1>0, <1>1, <1>2, <1>7, <1>8, <1>12 DEF m

(* What a switch adds to the records of the probe. *)
LEMMA ProbeAdds ==
  ASSUME NEW c, NEW u, NEW is, NEW m, HandAdds(c, u, is, m)
  PROVE  /\ ReadiedAt(rd') = ReadiedAt(rd)
         /\ PutOnAt(sw') = PutOnAt(sw) \cup (IF u = Probe THEN {m} ELSE {})
         /\ WaitedAt(sw') = WaitedAt(sw) \cup (IF runs[c] = Probe /\ is = "waiting" THEN {m} ELSE {})
         /\ \A i \in PutOnAt(sw) \cup WaitedAt(sw) : sw'[i] = sw[i]
         /\ sw'[m].ts = tick
<1>1. /\ m \in DOMAIN sw' /\ DOMAIN sw' = DOMAIN sw \cup {m} /\ m \notin DOMAIN sw
      /\ \A i \in DOMAIN sw : sw'[i] = sw[i]
      /\ sw'[m].ts = tick /\ sw'[m].new_tid = u /\ sw'[m].old_tid = runs[c] /\ sw'[m].old_state = is /\ rd' = rd
  BY DEF HandAdds
<1>2. ReadiedAt(rd') = ReadiedAt(rd)
  BY <1>1 DEF ReadiedAt
<1>3. PutOnAt(sw') = PutOnAt(sw) \cup (IF u = Probe THEN {m} ELSE {})
  BY <1>1 DEF PutOnAt
<1>4. WaitedAt(sw') = WaitedAt(sw) \cup (IF runs[c] = Probe /\ is = "waiting" THEN {m} ELSE {})
  BY <1>1 DEF WaitedAt
<1> QED BY <1>1, <1>2, <1>3, <1>4 DEF PutOnAt, WaitedAt

LEMMA LateSwitch ==
  ASSUME LateInv, NEW c \in Procs, NEW u \in SchedThreads \cup {IdleTid},
         NEW is \in {"waiting", "ready", "gone"}, NEW reason \in Why, Switch(c, u, is, reason)
  PROVE  LateInv'
<1>1. PICK m : m = Len(sw) + 1
  OBVIOUS
<1>2. /\ SchedInv' /\ Moves /\ ProcsInv' /\ HandAdds(c, u, is, m) /\ LateTypes
      /\ state' = [t \in SchedThreads |-> IF t = u THEN Doing("running", "none")
                                          ELSE IF t = runs[c] THEN Doing(is, reason) ELSE state[t]]
      /\ u # runs[c] /\ (u # IdleTid => state[u].is = "ready") /\ (runs[c] # IdleTid => tick > state[runs[c]].since)
  BY <1>1, LateHand, TypesLate DEF Switch, LateInv
<1>3. /\ runs[c] = Probe => wanted # NoTime /\ is # "gone"
      /\ own' = [own EXCEPT !.ran   = IF u = Probe THEN tick ELSE @,
                            !.again = IF runs[c] = Probe /\ is = "waiting" THEN TRUE ELSE @]
      /\ UNCHANGED <<wanted, stalls>>
  BY DEF Switch
<1>4. StallsInv'
  BY <1>2, <1>3, StreamsStay DEF LateInv, StallsInv
<1>5. /\ ReadiedAt(rd') = ReadiedAt(rd)
      /\ PutOnAt(sw') = PutOnAt(sw) \cup (IF u = Probe THEN {m} ELSE {})
      /\ WaitedAt(sw') = WaitedAt(sw) \cup (IF runs[c] = Probe /\ is = "waiting" THEN {m} ELSE {})
      /\ \A i \in PutOnAt(sw) \cup WaitedAt(sw) : sw'[i] = sw[i]
      /\ sw'[m].ts = tick /\ rd' = rd /\ tick' = tick
  BY <1>2, ProbeAdds DEF HandAdds
<1>6. /\ own \in [ready : Int, ran : Int, again : BOOLEAN] /\ wanted \in Nat \cup {NoTime}
      /\ own'.ready = own.ready /\ own'.ran = (IF u = Probe THEN tick ELSE own.ran)
      /\ own'.again = (IF runs[c] = Probe /\ is = "waiting" THEN TRUE ELSE own.again)
      /\ own' \in [ready : Int, ran : Int, again : BOOLEAN]
  <2>1. own \in [ready : Int, ran : Int, again : BOOLEAN] /\ wanted \in Nat \cup {NoTime} /\ tick \in Int
    BY <1>2 DEF LateInv, OwnInv, LateTypes
  <2>2. PICK ran, again : /\ ran = (IF u = Probe THEN tick ELSE own.ran)
                          /\ again = (IF runs[c] = Probe /\ is = "waiting" THEN TRUE ELSE own.again)
    OBVIOUS
  <2>3. own' = [own EXCEPT !.ran = ran, !.again = again]
    BY <1>3, <2>2
  <2>4. ran \in Int /\ again \in BOOLEAN
    BY <2>1, <2>2
  <2> QED BY <2>1, <2>2, <2>3, <2>4
<1>7. tick \in Nat /\ tick # NoTime /\ Probe \in SchedThreads /\ Probe # IdleTid /\ state[Probe].since \in Int
  BY <1>2 DEF LateTypes, NoTime
<1>8. ASSUME wanted # NoTime PROVE AwakeBy(sw, rd)'
  <2>1. /\ own.ready = NoTime => own = NewWakeUp /\ state[Probe].is = "waiting"
        /\ own.ready # NoTime => /\ wanted <= own.ready /\ own.ready <= state[Probe].since
                                 /\ \E i \in ReadiedAt(rd) : rd[i].ts = own.ready
        /\ state[Probe].is = "running" => own.ran # NoTime
        /\ own.ran # NoTime => /\ own.ready <= own.ran /\ own.ran <= state[Probe].since
                               /\ \E i \in PutOnAt(sw) : sw[i].ts = own.ran
        /\ \A i \in ReadiedAt(rd) : rd[i].ts < wanted - Interval \/ (own.ready # NoTime /\ own.ready <= rd[i].ts)
        /\ \A i \in WaitedAt(sw) : sw[i].ts <= wanted - Interval \/ (own.again /\ own.ready < sw[i].ts)
        /\ own.again => \E i \in WaitedAt(sw) : own.ready < sw[i].ts
    BY <1>8 DEF LateInv, OwnInv, AwakeBy
  <2>2. \A i \in ReadiedAt(rd') : rd'[i].ts < wanted' - Interval \/ (own'.ready # NoTime /\ own'.ready <= rd'[i].ts)
    BY <1>3, <1>5, <1>6, <2>1
  <2>3. CASE u = Probe
    <3>1. state'[Probe].is = "running" /\ state'[Probe].since = tick /\ state[Probe].is = "ready" /\ runs[c] # Probe
      BY <1>2, <1>7, <2>3 DEF Doing
    <3>2. own.ready # NoTime /\ own.ready <= tick /\ own'.ran = tick /\ own'.again = own.again
      BY <1>2, <1>6, <1>7, <2>1, <2>3, <3>1 DEF LateTypes
    <3>3. m \in PutOnAt(sw') /\ sw'[m].ts = own'.ran
      BY <1>5, <2>3, <3>2
    <3>4. WaitedAt(sw') = WaitedAt(sw)
      BY <1>5, <3>1
    <3>5. wanted' <= own'.ready /\ own'.ready <= state'[Probe].since /\ own'.ready # NoTime
      BY <1>3, <1>6, <2>1, <3>1, <3>2
    <3>6. \E i \in ReadiedAt(rd') : rd'[i].ts = own'.ready
      BY <1>5, <1>6, <2>1, <3>2
    <3>7. own'.ran # NoTime /\ own'.ready <= own'.ran /\ own'.ran <= state'[Probe].since
      BY <1>6, <1>7, <3>1, <3>2
    <3>8. /\ \A i \in WaitedAt(sw') : sw'[i].ts <= wanted' - Interval \/ (own'.again /\ own'.ready < sw'[i].ts)
          /\ own'.again => \E i \in WaitedAt(sw') : own'.ready < sw'[i].ts
      BY <1>3, <1>5, <1>6, <2>1, <3>2, <3>4
    <3> QED BY <2>2, <3>3, <3>5, <3>6, <3>7, <3>8 DEF AwakeBy
  <2>4. CASE runs[c] = Probe
    <3>1. /\ u # Probe /\ state'[Probe].is = is /\ state'[Probe].since = tick /\ is \in {"waiting", "ready"}
          /\ state[Probe].is = "running" /\ state[Probe].since < tick
      BY <1>2, <1>3, <1>7, <2>4 DEF Doing, LateTypes
    <3>2. /\ own.ready # NoTime /\ own.ready <= state[Probe].since /\ own'.ran = own.ran
          /\ PutOnAt(sw') = PutOnAt(sw)
      BY <1>5, <1>6, <2>1, <3>1
    <3>3. own.ready < tick /\ (own.ran # NoTime => own.ran <= tick)
      BY <1>6, <1>7, <2>1, <3>1, <3>2
    <3>4. wanted' <= own'.ready /\ own'.ready <= state'[Probe].since /\ own'.ready # NoTime
      BY <1>3, <1>6, <1>7, <2>1, <3>1, <3>2, <3>3
    <3>5. \E i \in ReadiedAt(rd') : rd'[i].ts = own'.ready
      BY <1>5, <1>6, <2>1, <3>2
    <3>6. own'.ran # NoTime => /\ own'.ready <= own'.ran /\ own'.ran <= state'[Probe].since
                               /\ \E i \in PutOnAt(sw') : sw'[i].ts = own'.ran
      BY <1>5, <1>6, <2>1, <3>1, <3>2, <3>3
    <3>7. state'[Probe].is # "running"
      BY <3>1
    <3>8. CASE is = "waiting"
      <4>1. own'.again = TRUE /\ m \in WaitedAt(sw') /\ own'.ready < sw'[m].ts
        BY <1>5, <1>6, <2>4, <3>3, <3>8
      <4>2. \A i \in WaitedAt(sw') : sw'[i].ts <= wanted' - Interval \/ (own'.again /\ own'.ready < sw'[i].ts)
        BY <1>3, <1>5, <1>6, <2>1, <4>1
      <4> QED BY <2>2, <3>4, <3>5, <3>6, <3>7, <4>1, <4>2 DEF AwakeBy
    <3>9. CASE is # "waiting"
      <4>1. WaitedAt(sw') = WaitedAt(sw) /\ own'.again = own.again
        BY <1>5, <1>6, <3>9
      <4>2. /\ \A i \in WaitedAt(sw') : sw'[i].ts <= wanted' - Interval \/ (own'.again /\ own'.ready < sw'[i].ts)
            /\ own'.again => \E i \in WaitedAt(sw') : own'.ready < sw'[i].ts
        BY <1>3, <1>5, <1>6, <2>1, <4>1
      <4> QED BY <2>2, <3>4, <3>5, <3>6, <3>7, <4>2 DEF AwakeBy
    <3> QED BY <3>8, <3>9
  <2>5. CASE u # Probe /\ runs[c] # Probe
    <3>1. state'[Probe] = state[Probe]
      BY <1>2, <1>7, <2>5
    <3>2. own' = own
      BY <1>3, <1>6, <2>5
    <3>3. PutOnAt(sw') = PutOnAt(sw) /\ WaitedAt(sw') = WaitedAt(sw)
      BY <1>5, <2>5
    <3>4. /\ \A i \in WaitedAt(sw') : sw'[i].ts <= wanted' - Interval \/ (own'.again /\ own'.ready < sw'[i].ts)
          /\ own'.again => \E i \in WaitedAt(sw') : own'.ready < sw'[i].ts
      BY <1>3, <1>5, <2>1, <3>2, <3>3
    <3>5. own'.ran # NoTime => /\ own'.ready <= own'.ran /\ own'.ran <= state'[Probe].since
                               /\ \E i \in PutOnAt(sw') : sw'[i].ts = own'.ran
      BY <1>5, <2>1, <3>1, <3>2, <3>3
    <3>6. /\ own'.ready = NoTime => own' = NewWakeUp /\ state'[Probe].is = "waiting"
          /\ own'.ready # NoTime => /\ wanted' <= own'.ready /\ own'.ready <= state'[Probe].since
                                    /\ \E i \in ReadiedAt(rd') : rd'[i].ts = own'.ready
          /\ state'[Probe].is = "running" => own'.ran # NoTime
      BY <1>3, <1>5, <2>1, <3>1, <3>2
    <3> QED BY <2>2, <3>4, <3>5, <3>6 DEF AwakeBy
  <2> QED BY <1>2, <2>3, <2>4, <2>5
<1>9. OwnInv'
  BY <1>3, <1>6, <1>8 DEF OwnInv
<1> QED BY <1>2, <1>4, <1>9, StreamsStay DEF LateInv

LEMMA LateLoop ==
  ASSUME LateInv, NEW c \in Procs, NEW u \in SchedThreads \cup {IdleTid}, ProbeLoop(c, u)
  PROVE  LateInv'
<1>1. PICK m : m = Len(sw) + 1
  OBVIOUS
<1>2. "timer" \in Why /\ runs[c] = Probe /\ Hand(c, u, "waiting", "timer")
  BY DEF ProbeLoop, Why
<1>3. /\ SchedInv' /\ Moves /\ ProcsInv' /\ HandAdds(c, u, "waiting", m) /\ LateTypes
      /\ state' = [t \in SchedThreads |-> IF t = u THEN Doing("running", "none")
                                          ELSE IF t = runs[c] THEN Doing("waiting", "timer") ELSE state[t]]
      /\ u # runs[c] /\ (runs[c] # IdleTid => tick > state[runs[c]].since)
  BY <1>1, <1>2, LateHand, TypesLate DEF LateInv
<1> DEFINE v == [start |-> wanted, end |-> tick, own |-> own]
<1>4. /\ stalls' = IF wanted = NoTime \/ tick - wanted < MinStall THEN stalls ELSE stalls \cup {v}
      /\ wanted' = tick + Interval /\ own' = NewWakeUp
  BY DEF ProbeLoop
<1>5. /\ rd' = rd /\ tick' = tick /\ sw'[m].ts = tick
      /\ PutOnAt(sw) \subseteq PutOnAt(sw') /\ WaitedAt(sw') = WaitedAt(sw) \cup {m}
      /\ \A i \in PutOnAt(sw) \cup WaitedAt(sw) : sw'[i] = sw[i]
  BY <1>2, <1>3, ProbeAdds DEF HandAdds
<1>6. /\ tick \in Nat /\ Interval \in Nat /\ MinStall \in Nat \ {0} /\ NoTime \in Int
      /\ state[Probe].since \in Int /\ state[Probe].since < tick /\ state[Probe].is = "running"
      /\ state'[Probe].is = "waiting" /\ state'[Probe].since = tick
      /\ own \in [ready : Int, ran : Int, again : BOOLEAN] /\ wanted \in Nat \cup {NoTime}
  BY <1>2, <1>3, SchedAssumption DEF LateTypes, Doing, NoTime, LateInv, OwnInv
<1>7. /\ \A i \in ReadiedAt(rd) : rd[i].ts <= state[Probe].since /\ rd[i].ts \in Nat
      /\ \A i \in PutOnAt(sw) \cup WaitedAt(sw) : sw[i].ts <= state[Probe].since /\ sw[i].ts \in Nat
  BY ProbeRecords DEF LateInv, InTime, ReadiedAt, PutOnAt, WaitedAt
<1>8. OwnInv'
  <2>1. \A i \in ReadiedAt(rd') : rd'[i].ts < wanted' - Interval
    BY <1>4, <1>5, <1>6, <1>7
  <2>2. \A i \in WaitedAt(sw') : sw'[i].ts <= wanted' - Interval
    BY <1>4, <1>5, <1>6, <1>7
  <2>3. own'.ready = NoTime /\ own'.ran = NoTime /\ ~own'.again /\ own' \in [ready : Int, ran : Int, again : BOOLEAN]
    BY <1>4, <1>6 DEF NewWakeUp
  <2>4. wanted' \in Nat
    BY <1>4, <1>6
  <2> QED BY <1>4, <1>6, <2>1, <2>2, <2>3, <2>4 DEF OwnInv, AwakeBy
<1>9. ASSUME wanted # NoTime, tick - wanted >= MinStall
      PROVE  v \in LateRec /\ LateBy(sw', rd', tick', v)
  <2>1. AwakeBy(sw, rd) /\ wanted \in Nat
    BY <1>6, <1>9 DEF LateInv, OwnInv
  <2>2. /\ wanted <= own.ready /\ own.ready <= own.ran /\ own.ran <= state[Probe].since
        /\ \E i \in ReadiedAt(rd) : rd[i].ts = own.ready
        /\ \E i \in PutOnAt(sw) : sw[i].ts = own.ran
        /\ \A i \in ReadiedAt(rd) : rd[i].ts < wanted - Interval \/ own.ready <= rd[i].ts
        /\ \A i \in WaitedAt(sw) : sw[i].ts <= wanted - Interval \/ own.again
        /\ own.again => \E i \in WaitedAt(sw) : own.ready < sw[i].ts
    BY <1>6, <2>1 DEF AwakeBy
  <2>3. own.ready \in Nat /\ own.ran \in Nat /\ own.ran < tick /\ wanted < tick
    BY <1>6, <1>9, <2>1, <2>2
  <2>4. v \in LateRec
    BY <1>6, <2>1, <2>3 DEF LateRec
  <2>5. \E i \in PutOnAt(sw') : sw'[i].ts = own.ran
    BY <1>5, <2>2
  <2>6. own.again => \E i \in WaitedAt(sw') : own.ready < sw'[i].ts /\ sw'[i].ts < tick
    <3> SUFFICES ASSUME own.again PROVE \E i \in WaitedAt(sw') : own.ready < sw'[i].ts /\ sw'[i].ts < tick
      OBVIOUS
    <3>1. PICK i \in WaitedAt(sw) : own.ready < sw[i].ts
      BY <2>2
    <3>2. sw[i].ts < tick /\ i \in WaitedAt(sw') /\ sw'[i] = sw[i]
      BY <1>5, <1>6, <1>7, <3>1
    <3> QED BY <3>1, <3>2
  <2>7. ~own.again => \A i \in WaitedAt(sw') : sw'[i].ts <= wanted - Interval \/ tick <= sw'[i].ts
    BY <1>5, <1>6, <2>2
  <2>8. PICK w : w = v /\ w.start = wanted /\ w.end = tick /\ w.own = own
    <3>1. v.start = wanted /\ v.end = tick /\ v.own = own
      OBVIOUS
    <3> HIDE DEF v
    <3> QED BY <3>1
  <2>9. LateBy(sw', rd', tick', w)
    <3>1. w.start < w.end /\ w.end <= tick'
      BY <1>5, <1>6, <2>3, <2>8
    <3>2. \A i \in ReadiedAt(rd') : rd'[i].ts < w.start - Interval \/ w.own.ready <= rd'[i].ts
      BY <1>5, <2>2, <2>8
    <3>3. \E i \in ReadiedAt(rd') : rd'[i].ts = w.own.ready
      BY <1>5, <2>2, <2>8
    <3> HIDE DEF v
    <3> QED BY <2>2, <2>3, <2>5, <2>6, <2>7, <2>8, <3>1, <3>2, <3>3 DEF LateBy
  <2> QED BY <2>4, <2>8, <2>9
<1>10. StallsInv'
  <2>1. \A w \in stalls : w \in LateRec /\ LateBy(sw', rd', tick', w)
    BY <1>3, StreamsStay DEF LateInv, StallsInv
  <2>2. CASE wanted = NoTime \/ tick - wanted < MinStall
    BY <1>4, <2>1, <2>2 DEF LateInv, StallsInv
  <2>3. CASE ~(wanted = NoTime \/ tick - wanted < MinStall)
    <3>1. tick - wanted >= MinStall /\ stalls' = stalls \cup {v}
      BY <1>4, <1>6, <2>3
    <3>2. IsFiniteSet(stalls')
      BY <3>1, FS_AddElement DEF LateInv, StallsInv
    <3> HIDE DEF v
    <3> QED BY <1>9, <2>1, <2>3, <3>1, <3>2 DEF StallsInv
  <2> QED BY <2>2, <2>3
<1> QED BY <1>3, <1>8, <1>10, StreamsStay DEF LateInv

(* Every step of the scheduler, and of the probe, keeps it. *)
LEMMA LateStep ==
  ASSUME LateInv, SchedNext
  PROVE  LateInv'
<1>1. CASE Later
  BY <1>1, LateWaits
<1>2. ASSUME NEW t \in SchedThreads, Ready(t) PROVE LateInv'
  BY <1>2, LateReady
<1>3. ASSUME NEW c \in Procs, NEW u \in SchedThreads \cup {IdleTid},
             NEW is \in {"waiting", "ready", "gone"}, NEW reason \in Why, Switch(c, u, is, reason)
      PROVE  LateInv'
  BY <1>3, LateSwitch
<1>4. ASSUME NEW c \in Procs, NEW u \in SchedThreads \cup {IdleTid}, ProbeLoop(c, u)
      PROVE  LateInv'
  BY <1>4, LateLoop
<1>5. Reasons \subseteq Why /\ "none" \in Why
  BY DEF Why
<1> QED BY <1>1, <1>2, <1>3, <1>4, <1>5 DEF SchedNext

LEMMA LateUnchanged ==
  ASSUME LateInv, UNCHANGED schedVars
  PROVE  LateInv'
<1>1. SchedInv'
  BY SchedStays DEF LateInv
<1>2. UNCHANGED <<tick, sw, rd, runs, state, wanted, own, stalls, stretches>>
  BY DEF schedVars
<1>3. OwnInv' /\ StallsInv' /\ ProcsInv'
  BY <1>2 DEF LateInv, OwnInv, AwakeBy, StallsInv, ProcsInv
<1> QED BY <1>1, <1>2, <1>3 DEF LateInv

(* What the records say of every wake-up of the probe, and of every stretch *)
(* on a processor, is what happened, in every state.                        *)
THEOREM LateInvariant == SchedSpec => []LateInv
<1>1. SchedInit => LateInv
  BY LateStart
<1>2. LateInv /\ [SchedNext]_schedVars => LateInv'
  BY LateStep, LateUnchanged
<1> QED BY <1>1, <1>2, PTL DEF SchedSpec

(* The smaller and the greater of what two things are. *)
LEMMA GreaterOfTwo ==
  ASSUME NEW a \in Int, NEW b \in Int
  PROVE  Max({a, b}) \in {a, b} /\ a <= Max({a, b}) /\ b <= Max({a, b})
<1>1. PICK S : S = {a, b} /\ S \subseteq Int /\ S # {} /\ a \in S /\ b \in S
  OBVIOUS
<1>2. \E n \in Int : \A x \in S : x <= n
  <2>1. CASE a <= b
    BY <1>1, <2>1
  <2>2. CASE b <= a
    BY <1>1, <2>2
  <2> QED BY <2>1, <2>2
<1>3. PICK n \in Int : \A x \in S : x <= n
  BY <1>2
<1>4. Max(S) \in S /\ \A x \in S : x <= Max(S)
  BY <1>1, <1>3, MaxIs
<1> QED BY <1>1, <1>4

(* The slack of a window is a length of time. *)
LEMMA SlackIs ==
  ASSUME NEW len \in Nat
  PROVE  slack_of(len) \in Nat
<1>1. len \div SlackShare \in Nat
  BY SchedAssumption
<1> QED BY <1>1, SchedAssumption DEF slack_of

(* What is known of a late wake-up whose slack reaches back to no other. *)
LateFacts(w, slack) ==
  /\ slack = slack_of(w.end - w.start) /\ slack \in Nat
  /\ w.start \in Nat /\ w.end \in Nat /\ w.own.ready \in Nat /\ w.own.ran \in Nat
  /\ w.start < w.end /\ w.end <= tick
  /\ w.start <= w.own.ready /\ w.own.ready <= w.own.ran /\ w.own.ran < w.end

LEMMA LateIsKnown ==
  ASSUME LateInv, NEW w \in stalls
  PROVE  LateFacts(w, slack_of(w.end - w.start)) /\ w \in LateRec /\ LateBy(sw, rd, tick, w)
<1>1. w \in LateRec /\ LateBy(sw, rd, tick, w)
  BY DEF LateInv, StallsInv
<1>2. w.end - w.start \in Nat
  BY <1>1 DEF LateRec, LateBy
<1> QED BY <1>1, <1>2, SlackIs DEF LateFacts, LateRec, LateBy

(* Slack no longer than the sleep never reaches back. *)
LEMMA ShortSlack ==
  ASSUME LateInv, NEW w \in stalls, slack_of(w.end - w.start) <= Interval
  PROVE  Clear(w)
<1>1. /\ w.start \in Nat /\ w.start <= w.own.ready /\ slack_of(w.end - w.start) \in Nat /\ w.own.ready \in Nat
      /\ \A i \in ReadiedAt(rd) : rd[i].ts < w.start - Interval \/ w.own.ready <= rd[i].ts
  BY LateIsKnown DEF LateFacts, LateBy
<1>2. \A i \in ReadiedAt(rd) : rd[i].ts \in Nat
  BY DEF LateInv, InTime, ReadiedAt
<1>3. Interval \in Nat
  BY SchedAssumption
<1> QED BY <1>1, <1>2, <1>3 DEF Clear, ReadiedAt

(* The record that is taken for the wake-up is the wake-up. *)
LEMMA WakeUpFound ==
  ASSUME LateInv, NEW w \in stalls, Clear(w), NEW slack, slack = slack_of(w.end - w.start)
  PROVE  ReadyIn(w, slack) # {} /\ rd[Min(ReadyIn(w, slack))].ts = w.own.ready
<1> DEFINE R == ReadyIn(w, slack)
<1>1. LateFacts(w, slack) /\ LateBy(sw, rd, tick, w)
  BY LateIsKnown
<1>2. InTime(rd, tick) /\ DOMAIN rd \subseteq Nat
  BY TypesLate DEF LateInv, LateTypes
<1>3. PICK k \in ReadiedAt(rd) : rd[k].ts = w.own.ready
  BY <1>1 DEF LateBy
<1>4. k \in R
  BY <1>1, <1>3 DEF ReadyIn, ReadiedAt, LateFacts
<1>5. R \subseteq Nat /\ R # {}
  BY <1>2, <1>4 DEF ReadyIn
<1>6. PICK i : i = Min(R) /\ i \in R /\ i <= k
  <2> HIDE DEF R
  <2> QED BY <1>4, <1>5, FirstOf
<1>7. i \in ReadiedAt(rd) /\ k \in DOMAIN rd /\ rd[i].ts \in Nat /\ rd[i].ts >= w.start - slack
  BY <1>2, <1>3, <1>6 DEF ReadyIn, ReadiedAt, InTime
<1>8. rd[i].ts <= rd[k].ts
  BY <1>2, <1>6, <1>7 DEF InTime, ReadiedAt
<1>9. rd[i].ts >= w.start
  BY <1>1, <1>7 DEF Clear, ReadiedAt, LateFacts
<1>10. w.own.ready <= rd[i].ts
  <2>1. Interval \in Nat
    BY SchedAssumption
  <2> QED BY <1>1, <1>7, <1>9, <2>1 DEF LateBy, LateFacts
<1> QED BY <1>1, <1>3, <1>5, <1>6, <1>7, <1>8, <1>10 DEF LateFacts

(* When the wait of such a window is taken to have ended. *)
RanTo(w) ==
  LET slack == slack_of(w.end - w.start)
      ran   == {i \in DOMAIN sw : sw[i].new_tid = Probe /\ sw[i].ts > w.start - slack /\ sw[i].ts <= w.end + slack}
  IN IF ran = {} THEN w.end ELSE sw[Max(ran)].ts

LEMMA RanLater ==
  ASSUME LateInv, NEW w \in stalls
  PROVE  RanTo(w) \in Nat /\ w.own.ran <= RanTo(w) /\ RanTo(w) <= w.end + slack_of(w.end - w.start)
<1>1. PICK slack : slack = slack_of(w.end - w.start)
  OBVIOUS
<1>2. LateFacts(w, slack) /\ LateBy(sw, rd, tick, w)
  BY <1>1, LateIsKnown
<1>3. InTime(sw, tick) /\ sw \in Seq(SwitchRec)
  BY TypesLate DEF LateInv, LateTypes
<1> DEFINE ran == {i \in DOMAIN sw : sw[i].new_tid = Probe /\ sw[i].ts > w.start - slack /\ sw[i].ts <= w.end + slack}
<1>4. RanTo(w) = IF ran = {} THEN w.end ELSE sw[Max(ran)].ts
  BY <1>1 DEF RanTo
<1>5. CASE ran = {}
  BY <1>1, <1>2, <1>4, <1>5 DEF LateFacts
<1>6. CASE ran # {}
  <2>1. ran \subseteq 1 .. Len(sw) /\ Len(sw) \in Int
    BY <1>3, LenProperties
  <2>2. PICK i : i = Max(ran) /\ i \in ran /\ \A j \in ran : j <= i
    <3>1. ran \subseteq Int /\ \A j \in ran : j <= Len(sw)
      BY <2>1
    <3> HIDE DEF ran
    <3> QED BY <1>6, <2>1, <3>1, MaxIs
  <2>3. RanTo(w) = sw[i].ts
    BY <1>4, <1>6, <2>2
  <2>4. i \in DOMAIN sw /\ sw[i].ts \in Nat /\ sw[i].ts > w.start - slack /\ sw[i].ts <= w.end + slack
    BY <1>3, <2>2 DEF InTime
  <2>5. PICK k \in PutOnAt(sw) : sw[k].ts = w.own.ran
    BY <1>2 DEF LateBy
  <2>6. CASE w.own.ran > w.start - slack
    <3>1. k \in ran /\ k \in DOMAIN sw
      BY <1>2, <2>5, <2>6 DEF PutOnAt, LateFacts
    <3>2. k <= i
      BY <2>2, <3>1
    <3>3. sw[k].ts <= sw[i].ts
      BY <1>3, <2>4, <3>1, <3>2 DEF InTime
    <3> QED BY <1>1, <2>3, <2>4, <2>5, <3>3
  <2>7. CASE ~(w.own.ran > w.start - slack)
    BY <1>1, <1>2, <2>3, <2>4, <2>7 DEF LateFacts
  <2> QED BY <2>6, <2>7
<1> QED BY <1>5, <1>6

(* Why the probe was late is told as it happened. *)
LEMMA LateToldRight ==
  ASSUME LateInv, NEW w \in stalls, Clear(w)
  PROVE  /\ classify_probe(w).is = Happened(w) /\ Happened(w) \in {"late", "blocked", "queued"}
         /\ classify_probe(w).instead = "idle" => held_by(Pin, w.own.ready, RanTo(w), Probe) = "idle"
<1>1. PICK slack : slack = slack_of(w.end - w.start)
  OBVIOUS
<1>2. LateFacts(w, slack) /\ LateBy(sw, rd, tick, w)
  BY <1>1, LateIsKnown
<1>3. ReadyIn(w, slack) # {} /\ rd[Min(ReadyIn(w, slack))].ts = w.own.ready
  BY <1>1, WakeUpFound
<1> DEFINE off == {i \in DOMAIN sw : /\ sw[i].old_tid = Probe /\ sw[i].old_state = "waiting"
                                     /\ sw[i].ts > w.own.ready /\ sw[i].ts < w.end}
<1>4. off # {} <=> w.own.again
  <2>1. CASE w.own.again
    BY <1>2, <2>1 DEF LateBy, WaitedAt
  <2>2. CASE ~w.own.again
    <3> SUFFICES ASSUME NEW i \in off PROVE FALSE
      BY <2>2
    <3>1. i \in WaitedAt(sw) /\ sw[i].ts \in Nat
      BY DEF WaitedAt, LateInv, InTime
    <3>2. sw[i].ts <= w.start - Interval \/ w.end <= sw[i].ts
      BY <1>2, <2>2, <3>1 DEF LateBy
    <3>3. Interval \in Nat
      BY SchedAssumption
    <3> QED BY <1>2, <3>1, <3>2, <3>3 DEF LateFacts
  <2> QED BY <2>1, <2>2
<1>5. classify_probe(w) =
        IF w.own.ready > w.start + slack THEN [is |-> "late", instead |-> "unknown"]
        ELSE IF off # {} THEN [is |-> "blocked", instead |-> "unknown"]
        ELSE [is |-> "queued", instead |-> held_by(Pin, w.own.ready, RanTo(w), Probe)]
  <2>1. ~(w.end <= w.start)
    BY <1>2 DEF LateFacts
  <2> QED BY <1>1, <1>3, <2>1 DEF classify_probe, RanTo
<1>6. Happened(w) = IF w.own.ready > w.start + slack THEN "late" ELSE IF w.own.again THEN "blocked" ELSE "queued"
  BY <1>1 DEF Happened
<1> HIDE DEF off
<1> QED BY <1>4, <1>5, <1>6

(* One of the switches after which a thread had the processor c.            *)
LEMMA SpansAre ==
  ASSUME LateInv, NEW c, NEW from \in Nat, NEW to \in Nat, from <= to
  PROVE  /\ Spans(c, from, to) \subseteq DOMAIN sw /\ IsFiniteSet(Spans(c, from, to)) /\ DOMAIN sw \subseteq Nat
         /\ \A i \in Spans(c, from, to) : sw[i].cpu = c /\ sw[i].ts \in Nat /\ sw[i].ts <= to
         /\ \A i, j \in Spans(c, from, to) : i < j => from < sw[j].ts
         /\ \A i \in Spans(c, from, to), k \in DOMAIN sw :
              i < k /\ sw[k].cpu = c /\ sw[k].ts <= to => k \in Spans(c, from, to)
<1>1. InTime(sw, tick) /\ sw \in Seq(SwitchRec)
  BY TypesLate DEF LateInv, LateTypes
<1>2. DOMAIN sw = 1 .. Len(sw) /\ Len(sw) \in Nat
  BY <1>1, LenProperties
<1>3. PICK B : B = OnCpu(c, from) /\ B \subseteq DOMAIN sw
  BY DEF OnCpu
<1>4. PICK I : I = {i \in DOMAIN sw : sw[i].cpu = c /\ sw[i].ts > from /\ sw[i].ts <= to}
  OBVIOUS
<1>5. B # {} => Max(B) \in B /\ \A i \in B : i <= Max(B)
  <2>1. B \subseteq Int /\ Len(sw) \in Int /\ \A i \in B : i <= Len(sw)
    BY <1>2, <1>3
  <2> QED BY <2>1, MaxIs
<1>6. \A i \in Spans(c, from, to) : i \in I \/ (B # {} /\ i = Max(B))
  BY <1>3, <1>4 DEF Spans
<1>7. Spans(c, from, to) \subseteq DOMAIN sw
  BY <1>3, <1>4, <1>5, <1>6
<1>8. IsFiniteSet(Spans(c, from, to))
  <2>1. IsFiniteSet(1 .. Len(sw))
    BY <1>2, FS_Interval
  <2> QED BY <1>2, <1>7, <2>1, FS_Subset
<1>9. \A i \in B : sw[i].cpu = c /\ sw[i].ts \in Nat /\ sw[i].ts <= from
  BY <1>1, <1>3 DEF OnCpu, InTime
<1>10. \A i \in Spans(c, from, to) : sw[i].cpu = c /\ sw[i].ts \in Nat /\ sw[i].ts <= to
  <2> SUFFICES ASSUME NEW i \in Spans(c, from, to) PROVE sw[i].cpu = c /\ sw[i].ts \in Nat /\ sw[i].ts <= to
    OBVIOUS
  <2>1. CASE i \in I
    BY <1>1, <1>4, <2>1 DEF InTime
  <2>2. CASE i \in B
    BY <1>9, <2>2
  <2> QED BY <1>5, <1>6, <2>1, <2>2
<1>11. ASSUME NEW i \in Spans(c, from, to), NEW j \in Spans(c, from, to), i < j PROVE from < sw[j].ts
  <2> SUFFICES ASSUME j \notin I PROVE FALSE
    BY <1>4
  <2>1. B # {} /\ j = Max(B) /\ j \in B /\ \A k \in B : k <= j
    BY <1>5, <1>6
  <2>2. i \in I /\ i \in DOMAIN sw /\ j \in DOMAIN sw
    BY <1>2, <1>3, <1>6, <1>7, <1>11, <2>1
  <2>3. sw[i].ts <= sw[j].ts
    BY <1>1, <1>2, <1>11, <2>2 DEF InTime
  <2>4. sw[i].ts > from /\ sw[j].ts <= from /\ sw[i].ts \in Nat
    BY <1>1, <1>4, <1>9, <2>1, <2>2 DEF InTime
  <2> QED BY <1>9, <2>1, <2>3, <2>4
<1>12. ASSUME NEW i \in Spans(c, from, to), NEW k \in DOMAIN sw, i < k, sw[k].cpu = c, sw[k].ts <= to
       PROVE  k \in Spans(c, from, to)
  <2>1. CASE sw[k].ts > from
    BY <1>12, <2>1 DEF Spans
  <2>2. CASE ~(sw[k].ts > from)
    <3>1. sw[k].ts \in Nat /\ sw[i].ts \in Nat /\ i \in DOMAIN sw
      BY <1>1, <1>7 DEF InTime
    <3>2. sw[k].ts <= from
      BY <2>2, <3>1
    <3>3. k \in B
      BY <1>3, <1>12, <3>2 DEF OnCpu
    <3>4. sw[i].ts <= sw[k].ts
      BY <1>1, <1>2, <1>12, <3>1 DEF InTime
    <3>5. i \notin I
      BY <1>4, <3>1, <3>2, <3>4
    <3>6. i = Max(B) /\ k <= i
      BY <1>5, <1>6, <3>3, <3>5
    <3> QED BY <1>2, <1>12, <3>1, <3>6
  <2> QED BY <2>1, <2>2
<1> QED BY <1>2, <1>7, <1>8, <1>10, <1>11, <1>12

(* From when, and until when, a thread had c after the switch i. *)
BeganAt(from, i) == Max({from, sw[i].ts})
UntilAt(c, from, to, i) == Min({to} \cup {sw[j].ts : j \in {k \in Spans(c, from, to) : k > i}})

LEMMA SpanIs ==
  ASSUME LateInv, NEW c, NEW from \in Nat, NEW to \in Nat, from <= to, NEW i \in Spans(c, from, to)
  PROVE  /\ BeganAt(from, i) \in Nat /\ UntilAt(c, from, to, i) \in Nat
         /\ from <= BeganAt(from, i) /\ sw[i].ts <= BeganAt(from, i) /\ BeganAt(from, i) \in {from, sw[i].ts}
         /\ BeganAt(from, i) <= UntilAt(c, from, to, i) /\ UntilAt(c, from, to, i) <= to
         /\ \A j \in Spans(c, from, to) : i < j => UntilAt(c, from, to, i) <= sw[j].ts
<1>1. PICK S : S = Spans(c, from, to)
  OBVIOUS
<1>2. /\ S \subseteq DOMAIN sw /\ DOMAIN sw \subseteq Nat
      /\ \A j \in S : sw[j].cpu = c /\ sw[j].ts \in Nat /\ sw[j].ts <= to
      /\ \A j \in S : i < j => from < sw[j].ts
      /\ i \in S
  BY <1>1, SpansAre
<1>3. /\ BeganAt(from, i) \in {from, sw[i].ts} /\ from <= BeganAt(from, i) /\ sw[i].ts <= BeganAt(from, i)
  BY <1>2, GreaterOfTwo DEF BeganAt
<1>4. PICK T : T = {to} \cup {sw[j].ts : j \in {k \in S : k > i}}
  OBVIOUS
<1>5. T \subseteq Nat /\ T # {} /\ to \in T /\ \A j \in S : i < j => sw[j].ts \in T
  BY <1>2, <1>4
<1>6. PICK n : n = UntilAt(c, from, to, i) /\ n \in T /\ \A m \in T : n <= m
  BY <1>1, <1>4, <1>5, FirstOf DEF UntilAt
<1>7. \A j \in S : i < j => sw[i].ts <= sw[j].ts
  BY <1>2 DEF LateInv, InTime
<1>8. BeganAt(from, i) <= n
  <2>1. CASE n = to
    BY <1>2, <1>3, <2>1
  <2>2. ASSUME NEW j \in S, i < j, n = sw[j].ts PROVE BeganAt(from, i) <= n
    BY <1>2, <1>3, <1>7, <2>2
  <2> QED BY <1>2, <1>4, <1>6, <2>1, <2>2
<1> QED BY <1>1, <1>2, <1>3, <1>5, <1>6, <1>8

(* The time a thread had a processor, as the moments at which it had it.    *)
LEMMA HeldMoments ==
  ASSUME LateInv, NEW c, NEW from \in Nat, NEW to \in Nat, from <= to, NEW t
  PROVE  \E M \in SUBSET (from .. to - 1) :
           /\ held(c, from, to, t) = Cardinality(M)
           /\ \A n \in M : \E i \in Spans(c, from, to) :
                /\ sw[i].new_tid = t /\ BeganAt(from, i) <= n /\ n < UntilAt(c, from, to, i)
<1>1. PICK spans : spans = Spans(c, from, to)
  OBVIOUS
<1>2. PICK S : S = {i \in spans : sw[i].new_tid = t}
  OBVIOUS
<1>3. PICK took : took = [i \in spans |-> UntilAt(c, from, to, i) - BeganAt(from, i)]
  OBVIOUS
<1>4. PICK part : part = [i \in S |-> BeganAt(from, i) .. UntilAt(c, from, to, i) - 1]
  OBVIOUS
<1>5. PICK U : U = from .. to - 1
  OBVIOUS
<1>6. held(c, from, to, t) = SumOver(S, took)
  BY <1>1, <1>2, <1>3 DEF held, BeganAt, UntilAt
<1>7. IsFiniteSet(U) /\ IsFiniteSet(S) /\ S \subseteq spans
  <2>1. to - 1 \in Int /\ from \in Int
    OBVIOUS
  <2>2. IsFiniteSet(U)
    BY <1>5, <2>1, FS_Interval
  <2>3. S \in SUBSET spans
    BY <1>2
  <2>4. IsFiniteSet(spans)
    BY <1>1, SpansAre
  <2> QED BY <2>2, <2>3, <2>4, FS_Subset
<1>8. \A i \in S : /\ BeganAt(from, i) \in Nat /\ UntilAt(c, from, to, i) \in Nat
                   /\ from <= BeganAt(from, i) /\ BeganAt(from, i) <= UntilAt(c, from, to, i)
                   /\ UntilAt(c, from, to, i) <= to
                   /\ \A j \in S : i < j => UntilAt(c, from, to, i) <= BeganAt(from, j)
  <2> SUFFICES ASSUME NEW i \in S
               PROVE  /\ BeganAt(from, i) \in Nat /\ UntilAt(c, from, to, i) \in Nat
                      /\ from <= BeganAt(from, i) /\ BeganAt(from, i) <= UntilAt(c, from, to, i)
                      /\ UntilAt(c, from, to, i) <= to
                      /\ \A j \in S : i < j => UntilAt(c, from, to, i) <= BeganAt(from, j)
    OBVIOUS
  <2>1. i \in Spans(c, from, to)
    BY <1>1, <1>7
  <2>2. /\ BeganAt(from, i) \in Nat /\ UntilAt(c, from, to, i) \in Nat
        /\ from <= BeganAt(from, i) /\ BeganAt(from, i) <= UntilAt(c, from, to, i)
        /\ UntilAt(c, from, to, i) <= to
        /\ \A j \in Spans(c, from, to) : i < j => UntilAt(c, from, to, i) <= sw[j].ts
    BY <2>1, SpanIs
  <2>3. ASSUME NEW j \in S, i < j PROVE UntilAt(c, from, to, i) <= BeganAt(from, j)
    <3>1. j \in Spans(c, from, to) /\ sw[j].ts \in Nat
      BY <1>1, <1>7, SpansAre
    <3>2. sw[j].ts <= BeganAt(from, j) /\ BeganAt(from, j) \in Nat
      BY <3>1, SpanIs
    <3> QED BY <2>2, <2>3, <3>1, <3>2
  <2> QED BY <2>2, <2>3
<1>9. part \in [S -> SUBSET U]
  <2>1. \A i \in S : BeganAt(from, i) .. UntilAt(c, from, to, i) - 1 \subseteq U
    BY <1>5, <1>8
  <2> QED BY <1>4, <2>1
<1>10. \A i, j \in S : i # j => part[i] \cap part[j] = {}
  <2> SUFFICES ASSUME NEW i \in S, NEW j \in S, i # j, NEW n \in part[i], n \in part[j] PROVE FALSE
    OBVIOUS
  <2>1. i \in Nat /\ j \in Nat
    BY <1>1, <1>7, SpansAre
  <2>2. /\ n \in Int /\ BeganAt(from, i) <= n /\ n < UntilAt(c, from, to, i)
        /\ BeganAt(from, j) <= n /\ n < UntilAt(c, from, to, j)
    BY <1>4, <1>8
  <2>3. i < j \/ j < i
    BY <2>1
  <2> QED BY <1>8, <2>2, <2>3
<1>11. \A i \in S : took[i] = Cardinality(part[i])
  <2> SUFFICES ASSUME NEW i \in S PROVE took[i] = Cardinality(part[i])
    OBVIOUS
  <2>1. PICK a \in Nat, b \in Nat : a = BeganAt(from, i) /\ b = UntilAt(c, from, to, i) /\ a <= b
    BY <1>8
  <2>2. Cardinality(a .. b - 1) = b - a
    <3>1. b - 1 \in Int /\ a \in Int
      OBVIOUS
    <3>2. Cardinality(a .. b - 1) = IF a > b - 1 THEN 0 ELSE (b - 1) - a + 1
      BY <3>1, FS_Interval
    <3> QED BY <2>1, <3>2
  <2> QED BY <1>3, <1>4, <1>7, <2>1, <2>2
<1>12. PICK M : M = UNION {part[i] : i \in S}
  OBVIOUS
<1>13. SumOver(S, took) = Cardinality(M) /\ M \subseteq U
  BY <1>7, <1>9, <1>10, <1>11, <1>12, SumOfParts
<1>14. ASSUME NEW n \in M
       PROVE  \E i \in Spans(c, from, to) :
                sw[i].new_tid = t /\ BeganAt(from, i) <= n /\ n < UntilAt(c, from, to, i)
  <2>1. PICK i \in S : n \in part[i]
    BY <1>12
  <2>2. n \in Int /\ BeganAt(from, i) <= n /\ n < UntilAt(c, from, to, i)
    BY <1>4, <1>8, <2>1
  <2> QED BY <1>1, <1>2, <2>1, <2>2
<1> QED BY <1>5, <1>6, <1>13, <1>14

(* No other thread has the processor while the idle thread has it. *)
LEMMA IdleIsNotBusy ==
  ASSUME LateInv, NEW from \in Nat, NEW to \in Nat, from <= to, NEW ran \in Nat, ran <= to,
         NEW i \in Spans(Pin, from, to), sw[i].new_tid = IdleTid,
         NEW n \in Busy(from, ran), BeganAt(from, i) <= n
  PROVE  UntilAt(Pin, from, to, i) <= n
<1>1. PICK x \in stretches : /\ x.is = "running" /\ x.tid # Probe /\ Pin \in x.on /\ x.from <= n /\ n < x.to
                             /\ n \in from .. ran - 1
  BY DEF Busy
<1>2. x.from \in Int /\ x.to \in Int /\ x.tid # IdleTid
  BY SchedAssumption DEF LateInv, SchedInv, SchedTypes, Stretch
<1>3. PICK d \in DOMAIN sw, e \in DOMAIN sw :
        /\ d < e /\ sw[d].cpu = Pin /\ sw[e].cpu = Pin
        /\ sw[d].new_tid = x.tid /\ sw[d].ts = x.from /\ sw[e].ts = x.to
        /\ \A k \in DOMAIN sw : sw[k].cpu = Pin => k <= d \/ e <= k
  BY <1>1 DEF LateInv, ProcsInv, HadBetween
<1>4. /\ i \in DOMAIN sw /\ DOMAIN sw \subseteq Nat /\ sw[i].cpu = Pin /\ sw[i].ts \in Nat
      /\ i < d /\ sw[d].ts <= to => d \in Spans(Pin, from, to)
  BY <1>3, SpansAre
<1>5. /\ BeganAt(from, i) \in Nat /\ sw[i].ts <= BeganAt(from, i) /\ UntilAt(Pin, from, to, i) \in Nat
      /\ \A j \in Spans(Pin, from, to) : i < j => UntilAt(Pin, from, to, i) <= sw[j].ts
  BY SpanIs
<1>6. i < e
  <2> SUFFICES ASSUME e <= i PROVE FALSE
    BY <1>3, <1>4
  <2>1. sw[e].ts <= sw[i].ts
    BY <1>3, <1>4 DEF LateInv, InTime
  <2> QED BY <1>1, <1>2, <1>3, <1>4, <1>5, <2>1
<1>7. i # d
  BY <1>2, <1>3
<1>8. i < d
  BY <1>3, <1>4, <1>6, <1>7
<1>9. d \in Spans(Pin, from, to)
  BY <1>1, <1>2, <1>3, <1>4, <1>8
<1> QED BY <1>1, <1>2, <1>3, <1>5, <1>8, <1>9

(* A processor called idle was had by others for a tenth of the time at most. *)
LEMMA IdleWasIdle ==
  ASSUME LateInv, NEW from \in Nat, NEW to \in Nat, NEW ran \in Nat, ran <= to,
         held_by(Pin, from, to, Probe) = "idle"
  PROVE  10 * Cardinality(Busy(from, ran)) <= to - from
<1>1. from < to /\ 10 * held(Pin, from, to, IdleTid) >= 9 * (to - from)
  BY DEF held_by
<1>2. PICK M \in SUBSET (from .. to - 1) :
        /\ held(Pin, from, to, IdleTid) = Cardinality(M)
        /\ \A n \in M : \E i \in Spans(Pin, from, to) :
             /\ sw[i].new_tid = IdleTid /\ BeganAt(from, i) <= n /\ n < UntilAt(Pin, from, to, i)
  BY <1>1, HeldMoments
<1>3. PICK B : B = Busy(from, ran) /\ B \subseteq from .. to - 1
  <2>1. Busy(from, ran) \subseteq from .. ran - 1
    BY DEF Busy
  <2>2. from .. ran - 1 \subseteq from .. to - 1
    OBVIOUS
  <2> QED BY <2>1, <2>2
<1>4. M \cap B = {}
  <2> SUFFICES ASSUME NEW n \in M, n \in B PROVE FALSE
    OBVIOUS
  <2>1. PICK i \in Spans(Pin, from, to) :
          /\ sw[i].new_tid = IdleTid /\ BeganAt(from, i) <= n /\ n < UntilAt(Pin, from, to, i)
    BY <1>2
  <2>2. UntilAt(Pin, from, to, i) <= n
    BY <1>1, <1>3, <2>1, IdleIsNotBusy
  <2>3. n \in Int /\ UntilAt(Pin, from, to, i) \in Int
    BY <1>1, <1>2, SpanIs
  <2> QED BY <2>1, <2>2, <2>3
<1>5. IsFiniteSet(from .. to - 1) /\ Cardinality(from .. to - 1) = to - from
  <2>1. to - 1 \in Int /\ from \in Int
    OBVIOUS
  <2>2. /\ IsFiniteSet(from .. to - 1)
        /\ Cardinality(from .. to - 1) = IF from > to - 1 THEN 0 ELSE (to - 1) - from + 1
    BY <2>1, FS_Interval
  <2> QED BY <1>1, <2>2
<1>6. IsFiniteSet(M) /\ IsFiniteSet(B) /\ Cardinality(M) \in Nat /\ Cardinality(B) \in Nat
  BY <1>2, <1>3, <1>5, FS_Subset, FS_CardinalityType
<1>7. Cardinality(M \cup B) = Cardinality(M) + Cardinality(B)
  <2>1. Cardinality(M \cup B) = Cardinality(M) + Cardinality(B) - Cardinality(M \cap B)
    BY <1>6, FS_Union
  <2>2. Cardinality(M \cap B) = 0
    BY <1>4, FS_EmptySet
  <2> QED BY <1>6, <2>1, <2>2
<1>8. Cardinality(M \cup B) <= to - from
  <2>1. M \cup B \in SUBSET (from .. to - 1)
    BY <1>2, <1>3
  <2> QED BY <1>5, <2>1, FS_Subset
<1>9. PICK h \in Nat, b \in Nat : h = Cardinality(M) /\ b = Cardinality(B)
  BY <1>6
<1>10. 10 * h >= 9 * (to - from) /\ h + b <= to - from
  BY <1>1, <1>2, <1>7, <1>8, <1>9
<1> QED BY <1>3, <1>9, <1>10

(* Of records that are sorted three ways, as many in one as in all are in it. *)
LEMMA AllOfOne ==
  ASSUME NEW ws, IsFiniteSet(ws), NEW f, \A w \in ws : f[w] \in {"late", "blocked", "queued"},
         NEW k \in {"late", "blocked", "queued"},
         Cardinality({w \in ws : f[w] = k})
           = Cardinality({w \in ws : f[w] = "late"}) + Cardinality({w \in ws : f[w] = "queued"})
               + Cardinality({w \in ws : f[w] = "blocked"})
  PROVE  \A w \in ws : f[w] = k
<1>1. PICK L, Q, B : /\ L = {w \in ws : f[w] = "late"} /\ Q = {w \in ws : f[w] = "queued"}
                     /\ B = {w \in ws : f[w] = "blocked"}
  OBVIOUS
<1>2. /\ IsFiniteSet(L) /\ IsFiniteSet(Q) /\ IsFiniteSet(B)
      /\ Cardinality(L) \in Nat /\ Cardinality(Q) \in Nat /\ Cardinality(B) \in Nat
  <2>1. L \in SUBSET ws /\ Q \in SUBSET ws /\ B \in SUBSET ws
    BY <1>1
  <2> QED BY <2>1, FS_Subset, FS_CardinalityType
<1>3. /\ Cardinality(L) = 0 => L = {}
      /\ Cardinality(Q) = 0 => Q = {}
      /\ Cardinality(B) = 0 => B = {}
  BY <1>2, FS_EmptySet
<1>4. CASE k = "late"
  <2>1. Cardinality(Q) = 0 /\ Cardinality(B) = 0
    BY <1>1, <1>2, <1>4
  <2> QED BY <1>1, <1>3, <1>4, <2>1
<1>5. CASE k = "queued"
  <2>1. Cardinality(L) = 0 /\ Cardinality(B) = 0
    BY <1>1, <1>2, <1>5
  <2> QED BY <1>1, <1>3, <1>5, <2>1
<1>6. CASE k = "blocked"
  <2>1. Cardinality(L) = 0 /\ Cardinality(Q) = 0
    BY <1>1, <1>2, <1>6
  <2> QED BY <1>1, <1>3, <1>6, <2>1
<1> QED BY <1>4, <1>5, <1>6

(* Whichever late wake-ups are judged together, and for every number of     *)
(* threads, processors and records: the word for all of them is what        *)
(* happened to each, and the processor is called idle only when it was.     *)
THEOREM LatenessTold == SchedSpec => []LatenessIsTold
<1>1. LateInv => LatenessIsTold
  <2> SUFFICES ASSUME LateInv, NEW ws \in SUBSET {w \in stalls : Clear(w)}, NEW v, v = judge_probes(ws, TRUE)
               PROVE  /\ overall(v) \in {"late", "queued", "blocked"} => \A w \in ws : Happened(w) = overall(v)
                      /\ "nobody was woken" \in print_probes(v, "freeze") => \A w \in ws : Happened(w) = "late"
                      /\ v.on_idle_cpu <= Cardinality({w \in ws :
                           10 * Cardinality(Busy(w.own.ready, w.own.ran))
                             <= w.end + slack_of(w.end - w.start) - w.own.ready})
    BY DEF LatenessIsTold
  <2>1. PICK f : f = [w \in ws |-> classify_probe(w).is]
    OBVIOUS
  <2>2. \A w \in ws : /\ w \in stalls /\ f[w] = Happened(w) /\ f[w] \in {"late", "blocked", "queued"}
                      /\ classify_probe(w).is = f[w]
    BY <2>1, LateToldRight
  <2>3. IsFiniteSet(ws)
    BY FS_Subset DEF LateInv, StallsInv
  <2>4. /\ v.late = Cardinality({w \in ws : f[w] = "late"})
        /\ v.queued = Cardinality({w \in ws : f[w] = "queued"})
        /\ v.blocked = Cardinality({w \in ws : f[w] = "blocked"})
        /\ v.on_idle_cpu = Cardinality({w \in ws : f[w] = "queued" /\ classify_probe(w).instead = "idle"})
    <3>1. /\ {w \in ws : classify_probe(w).is = "late"} = {w \in ws : f[w] = "late"}
          /\ {w \in ws : classify_probe(w).is = "queued"} = {w \in ws : f[w] = "queued"}
          /\ {w \in ws : classify_probe(w).is = "blocked"} = {w \in ws : f[w] = "blocked"}
          /\ {w \in ws : classify_probe(w).is = "queued" /\ classify_probe(w).instead = "idle"}
               = {w \in ws : f[w] = "queued" /\ classify_probe(w).instead = "idle"}
      BY <2>2
    <3> QED BY <3>1 DEF judge_probes, count_outcomes
  <2>5. judged(v) = v.late + v.queued + v.blocked
    BY DEF judged
  <2>6. ASSUME NEW k \in {"late", "blocked", "queued"}, Cardinality({w \in ws : f[w] = k}) = judged(v)
        PROVE  \A w \in ws : Happened(w) = k
    <3>1. Cardinality({w \in ws : f[w] = k})
            = Cardinality({w \in ws : f[w] = "late"}) + Cardinality({w \in ws : f[w] = "queued"})
                + Cardinality({w \in ws : f[w] = "blocked"})
      BY <2>4, <2>5, <2>6
    <3>2. \A w \in ws : f[w] \in {"late", "blocked", "queued"}
      BY <2>2
    <3>3. \A w \in ws : f[w] = k
      BY <2>3, <3>1, <3>2, AllOfOne
    <3> QED BY <2>2, <3>3
  <2>7. overall(v) \in {"late", "queued", "blocked"} => \A w \in ws : Happened(w) = overall(v)
    BY <2>4, <2>6 DEF overall
  <2>8. "nobody was woken" \in print_probes(v, "freeze") => \A w \in ws : Happened(w) = "late"
    <3>1. "nobody was woken" \in print_probes(v, "freeze") => v.late = judged(v)
      BY DEF print_probes
    <3> QED BY <2>4, <2>6, <3>1
  <2>9. PICK I, J : /\ I = {w \in ws : f[w] = "queued" /\ classify_probe(w).instead = "idle"}
                    /\ J = {w \in ws : 10 * Cardinality(Busy(w.own.ready, w.own.ran))
                                         <= w.end + slack_of(w.end - w.start) - w.own.ready}
    OBVIOUS
  <2>10. I \subseteq J
    <3> SUFFICES ASSUME NEW w \in ws, classify_probe(w).instead = "idle"
                 PROVE  10 * Cardinality(Busy(w.own.ready, w.own.ran))
                          <= w.end + slack_of(w.end - w.start) - w.own.ready
      BY <2>9
    <3>1. held_by(Pin, w.own.ready, RanTo(w), Probe) = "idle" /\ w \in stalls
      BY LateToldRight
    <3>2. PICK slack : slack = slack_of(w.end - w.start) /\ LateFacts(w, slack)
      BY <3>1, LateIsKnown
    <3>3. PICK from \in Nat, to \in Nat, ran \in Nat :
            /\ from = w.own.ready /\ to = RanTo(w) /\ ran = w.own.ran /\ ran <= to /\ to <= w.end + slack
      BY <3>1, <3>2, RanLater DEF LateFacts
    <3>4. 10 * Cardinality(Busy(from, ran)) <= to - from
      BY <3>1, <3>3, IdleWasIdle
    <3>5. PICK n : n = 10 * Cardinality(Busy(from, ran)) /\ n \in Int
      <4>1. IsFiniteSet(Busy(from, ran))
        <5>1. Busy(from, ran) \in SUBSET (from .. ran - 1)
          BY DEF Busy
        <5>2. IsFiniteSet(from .. ran - 1)
          BY FS_Interval
        <5> QED BY <5>1, <5>2, FS_Subset
      <4> QED BY <4>1, FS_CardinalityType
    <3> QED BY <3>2, <3>3, <3>4, <3>5 DEF LateFacts
  <2>11. Cardinality(I) <= Cardinality(J)
    BY <2>3, <2>9, <2>10, FS_Subset
  <2> QED BY <2>4, <2>7, <2>8, <2>9, <2>11
<1> QED BY <1>1, LateInvariant, PTL

(* A late wake-up is judged rightly whenever the slack before it is no      *)
(* longer than the probe sleeps.                                            *)
THEOREM ShortIsClear == SchedSpec => [](\A w \in stalls : slack_of(w.end - w.start) <= Interval => Clear(w))
<1>1. LateInv => \A w \in stalls : slack_of(w.end - w.start) <= Interval => Clear(w)
  BY ShortSlack
<1> QED BY <1>1, LateInvariant, PTL

-----------------------------------------------------------------------------
(* What a program is said to have waited (collect_waits, wait_lines).       *)

(* x is the greatest of the numbers F, or 0 when there are none. *)
Most(x, F) == F \subseteq Int /\ x \in F \cup {0} /\ \A y \in F \cup {0} : y <= x

(* The greatest, as the community modules' Max. *)
LEMMA MostIsMax ==
  ASSUME NEW F, NEW x, Most(x, F)
  PROVE  x = Max(F \cup {0})
<1>1. PICK G : G = F \cup {0}
  OBVIOUS
<1>2. G \subseteq Int /\ x \in G /\ \A y \in G : y <= x
  BY <1>1 DEF Most
<1>3. Max(G) \in G /\ \A y \in G : Max(G) >= y
  BY <1>2 DEF Max
<1>4. Max(G) \in Int /\ x \in Int /\ Max(G) <= x /\ x <= Max(G)
  BY <1>2, <1>3
<1> QED BY <1>1, <1>4

(* The greatest of two sets is the greater of the two. *)
LEMMA MostOfBoth ==
  ASSUME NEW F, NEW x, Most(x, F), NEW G, NEW y, Most(y, G)
  PROVE  Most(IF y > x THEN y ELSE x, F \cup G)
<1>1. PICK z : z = IF y > x THEN y ELSE x
  OBVIOUS
<1>2. F \subseteq Int /\ G \subseteq Int /\ x \in F \cup {0} /\ y \in G \cup {0} /\ x \in Int /\ y \in Int
      /\ (\A n \in F \cup {0} : n <= x) /\ \A n \in G \cup {0} : n <= y
  BY DEF Most
<1>3. z \in (F \cup G) \cup {0} /\ x <= z /\ y <= z /\ z \in Int
  BY <1>1, <1>2
<1>4. \A n \in (F \cup G) \cup {0} : n <= z
  <2>1. TAKE n \in (F \cup G) \cup {0}
  <2>2. n \in Int /\ (n <= x \/ n <= y)
    BY <1>2, <2>1
  <2> QED BY <1>2, <1>3, <2>2
<1> QED BY <1>1, <1>2, <1>3, <1>4 DEF Most

-----------------------------------------------------------------------------
(* What is felt of a thread's waits it really spent. *)

LEMMA FeltIs ==
  ASSUME NEW w \in Wait
  PROVE  /\ felt(w).ready \in Int /\ felt(w).blocked \in Int
         /\ felt(w).ready > 0 => felt(w).ready = w.ready
         /\ felt(w).ready > 0 => w.ready >= FeltReady
         /\ w.ready >= FeltReady => felt(w).ready = w.ready
         /\ felt(w).blocked > 0 => w.blocked >= FeltBlocked /\ w.reason \in HeldUp
         /\ 0 <= felt(w).ready
<1>1. w.ready \in Int /\ w.blocked \in Int /\ FeltReady \in Nat \ {0} /\ FeltBlocked \in Nat \ {0}
  BY WaitsAssumption DEF Wait
<1> QED BY <1>1 DEF felt

(* What is felt of the waits of a thread of p, p really spent. *)
LEMMA ReadyIsSpent ==
  ASSUME SchedInv, NEW from \in Int, NEW to \in Int, NEW t \in SchedThreads,
         NEW w, w = waits(from, to)[t], NEW p, p = Owners[t]
  PROVE  /\ w \in Wait
         /\ felt(w).ready > 0 => felt(w).ready \in Felts(SpentReady(p, from, to), FeltReady)
         /\ felt(w).blocked > 0 => Felts(SpentHeldUp(p, from, to), FeltBlocked) # {}
<1>1. w \in Wait /\ Real(stretches, w, from, to, t)
  BY WaitsTell
<1>2. w.ready \in Int /\ w.blocked \in Int /\ FeltReady \in Nat \ {0} /\ FeltBlocked \in Nat \ {0}
  BY <1>1, WaitsAssumption DEF Wait
<1>3. \A x \in stretches : x.from \in Int /\ x.to \in Int
  BY DEF SchedInv, SchedTypes, Stretch
<1>4. ASSUME felt(w).ready > 0
      PROVE  felt(w).ready \in Felts(SpentReady(p, from, to), FeltReady)
  <2>1. felt(w).ready = w.ready /\ w.ready >= FeltReady
    BY <1>1, <1>4, FeltIs
  <2>2. PICK x \in stretches : /\ x.tid = t /\ x.is = "ready" /\ from <= x.from /\ x.to <= to
                               /\ x.to - x.from = w.ready
    BY <1>1, <1>2, <2>1 DEF Real
  <2>3. x.to - x.from \in SpentReady(p, from, to)
    BY <1>3, <2>2 DEF SpentReady
  <2> QED BY <2>1, <2>2, <2>3 DEF Felts
<1>5. ASSUME felt(w).blocked > 0
      PROVE  Felts(SpentHeldUp(p, from, to), FeltBlocked) # {}
  <2>1. w.blocked >= FeltBlocked /\ w.reason \in HeldUp
    BY <1>1, <1>5, FeltIs
  <2>2. PICK x \in stretches : /\ x.tid = t /\ x.is = "waiting" /\ from <= x.from /\ x.to <= to
                               /\ x.to - x.from = w.blocked /\ x.reason = w.reason
    BY <1>1, <1>2, <2>1 DEF Real
  <2>3. x.to - x.from \in SpentHeldUp(p, from, to)
    BY <1>3, <2>1, <2>2 DEF SpentHeldUp
  <2> QED BY <2>1, <2>2, <2>3 DEF Felts
<1> QED BY <1>1, <1>4, <1>5

(* What p spent runnable is felt of one of its threads. *)
LEMMA SpentIsFelt ==
  ASSUME SchedInv, NEW from \in Nat, NEW to \in Int, NEW p,
         NEW n \in Felts(SpentReady(p, from, to), FeltReady)
  PROVE  \E t \in SchedThreads : Owners[t] = p /\ felt(waits(from, to)[t]).ready >= n
<1>1. PICK x \in stretches : /\ x.is = "ready" /\ Owners[x.tid] = p /\ x.from >= from /\ x.to <= to
                             /\ n = x.to - x.from /\ n >= FeltReady
  BY DEF Felts, SpentReady
<1>2. PICK t \in SchedThreads : t = x.tid /\ x.from \in Int /\ x.to \in Int
  BY DEF SchedInv, SchedTypes, Stretch
<1>3. PICK E, who, became : E = EventsOf(sw, rd) /\ who = WhoOf(sw, rd) /\ became = BecomeOf(sw, rd)
  OBVIOUS
<1>4. x.from # NoTime
  BY <1>1, <1>2 DEF NoTime
<1>5. Links(E, who, became, EndingOf(sw, rd), state, stretches, t)
  BY <1>3 DEF SchedInv, LinkedBy
<1>6. PICK d \in E, e \in E : Following(E, who, d, e, t) /\ SpentIn(became[d][t], e, t) = x
  BY <1>1, <1>2, <1>4, <1>5 DEF Links
<1>7. t \in who[d] /\ Sooner(d, e) /\ became[d][t].since = d.ts
  BY <1>5, <1>6 DEF Following, Links
<1>8. x.from = d.ts /\ x.to = e.ts /\ became[d][t].is = "ready"
  BY <1>1, <1>6, <1>7 DEF SpentIn
<1>9. d.ts <= e.ts
  BY <1>2, <1>7, <1>8 DEF Sooner
<1>10. Window(merged(from, to), from, to)
  BY WindowIs
<1>11. d \in merged(from, to) /\ e \in merged(from, to)
  <2>1. d.ts >= from /\ d.ts <= to /\ e.ts >= from /\ e.ts <= to
    BY <1>1, <1>2, <1>8, <1>9
  <2> QED BY <1>3, <1>10, <2>1 DEF Window
<1>12. PICK w : w = waits(from, to)[t]
  OBVIOUS
<1>13. w \in Wait /\ Longer(E, merged(from, to), who, became, w, t)
  BY <1>3, <1>12, WaitsTell
<1>14. w.ready >= n
  BY <1>1, <1>6, <1>8, <1>11, <1>13 DEF Longer
<1>15. w.ready \in Int /\ n \in Int /\ FeltReady \in Int
  BY <1>1, <1>2, <1>13, WaitsAssumption DEF Wait
<1>16. w.ready >= FeltReady
  BY <1>1, <1>14, <1>15
<1>17. felt(w).ready = w.ready
  BY <1>13, <1>16, FeltIs
<1> QED BY <1>1, <1>2, <1>12, <1>14, <1>17

-----------------------------------------------------------------------------
(* What collect_waits makes of a program whose thread ids never changed hands. *)
Counted(here, p, from, to) ==
  /\ p \in DOMAIN here => Felts(SpentReady(p, from, to), FeltReady) \cup Felts(SpentHeldUp(p, from, to), FeltBlocked) # {}
  /\ Felts(SpentReady(p, from, to), FeltReady) # {} => p \in DOMAIN here
  /\ p \in DOMAIN here => Most(here[p].ready, Felts(SpentReady(p, from, to), FeltReady))

(* merge_waits keeps the longest of the threads. *)
LEMMA MergedIs ==
  ASSUME SchedInv, NEW from \in Int, NEW to \in Int, NEW ts \in SUBSET SchedThreads, ts # {},
         NEW v, v = merge_waits(waits(from, to), ts)
  PROVE  /\ v.ready \in Int
         /\ \E t \in ts : v.ready = felt(waits(from, to)[t]).ready
         /\ \A t \in ts : felt(waits(from, to)[t]).ready <= v.ready
<1>1. PICK f : f = [t \in ts |-> felt(waits(from, to)[t]).ready]
  OBVIOUS
<1>2. f \in [ts -> Int]
  <2>1. ASSUME NEW t \in ts PROVE felt(waits(from, to)[t]).ready \in Int
    BY WaitsTell, FeltIs
  <2> QED BY <1>1, <2>1
<1>3. PICK F : F = {f[t] : t \in ts}
  OBVIOUS
<1>4. F \subseteq Int /\ IsFiniteSet(F) /\ F # {}
  <2>1. IsFiniteSet(ts)
    BY WaitsAssumption, FS_Subset
  <2>2. F \subseteq Int /\ IsFiniteSet(F)
    BY <1>2, <1>3, <2>1, ImageFinite
  <2> QED BY <1>3, <2>2
<1>5. Max(F) \in F /\ \A y \in F : y <= Max(F)
  BY <1>4, MaxIsGreatest
<1>6. F = {felt(waits(from, to)[t]).ready : t \in ts}
  BY <1>1, <1>3
<1>7. v.ready = Max(F)
  BY <1>6 DEF merge_waits
<1> QED BY <1>4, <1>5, <1>6, <1>7

(* What is collected of a program that is certain is what it spent. *)
LEMMA CollectedIs ==
  ASSUME SchedInv, NEW from \in Nat, NEW to \in Int, NEW here, here = collect_waits(from, to)
  PROVE  /\ IsFiniteSet(DOMAIN here)
         /\ \A p \in DOMAIN here : here[p].ready \in Int
         /\ \A p \in Programs \ (Doubtful \cup {OwnTool}) : Counted(here, p, from, to)
<1>1. PICK rows : rows = waits(from, to)
  OBVIOUS
<1>2. PICK those : those = {t \in SchedThreads : pids[t] # OwnTool /\ (felt(rows[t]).ready > 0 \/ felt(rows[t]).blocked > 0)}
  OBVIOUS
<1>3. here = [p \in {pids[t] : t \in those} |-> merge_waits(rows, {t \in those : pids[t] = p})]
  BY <1>1, <1>2 DEF collect_waits
<1>4. those \subseteq SchedThreads /\ those \in SUBSET SchedThreads
  BY <1>2
<1>5. DOMAIN here = {pids[t] : t \in those}
  BY <1>3
<1>6. IsFiniteSet(DOMAIN here)
  <2>1. IsFiniteSet(those)
    BY <1>4, WaitsAssumption, FS_Subset
  <2>2. [t \in those |-> pids[t]] \in Surjection(those, DOMAIN here)
    BY <1>5 DEF Surjection
  <2> QED BY <2>1, <2>2, FS_Surjection
<1>7. ASSUME NEW p \in DOMAIN here
      PROVE  /\ here[p].ready \in Int
             /\ \E t \in those : pids[t] = p /\ here[p].ready = felt(rows[t]).ready
             /\ \A t \in those : pids[t] = p => felt(rows[t]).ready <= here[p].ready
  <2>1. PICK ts : ts = {t \in those : pids[t] = p}
    OBVIOUS
  <2>2. ts \in SUBSET SchedThreads /\ ts # {} /\ here[p] = merge_waits(rows, ts)
    BY <1>3, <1>4, <1>5, <2>1
  <2>3. PICK v : v = merge_waits(rows, ts)
    OBVIOUS
  <2>4. /\ v.ready \in Int
        /\ \E t \in ts : v.ready = felt(rows[t]).ready
        /\ \A t \in ts : felt(rows[t]).ready <= v.ready
    BY <1>1, <2>2, <2>3, MergedIs
  <2> QED BY <2>1, <2>2, <2>3, <2>4
<1>8. ASSUME NEW p \in Programs \ (Doubtful \cup {OwnTool}) PROVE Counted(here, p, from, to)
  <2>1. \A t \in SchedThreads : pids[t] = p <=> Owners[t] = p
    <3> SUFFICES ASSUME NEW t \in SchedThreads, pids[t] # Owners[t] PROVE pids[t] # p /\ Owners[t] # p
      OBVIOUS
    <3>1. pids[t] \in Doubtful /\ Owners[t] \in Doubtful
      BY DEF Doubtful, Reused
    <3> QED BY <1>8, <3>1
  <2>2. PICK R, H : R = Felts(SpentReady(p, from, to), FeltReady) /\ H = Felts(SpentHeldUp(p, from, to), FeltBlocked)
    OBVIOUS
  <2>3. \A t \in SchedThreads : pids[t] = p =>
          /\ felt(rows[t]).ready > 0 => felt(rows[t]).ready \in R
          /\ felt(rows[t]).blocked > 0 => H # {}
          /\ rows[t] \in Wait
    <3> SUFFICES ASSUME NEW t \in SchedThreads, pids[t] = p
                 PROVE  /\ felt(rows[t]).ready > 0 => felt(rows[t]).ready \in R
                        /\ felt(rows[t]).blocked > 0 => H # {}
                        /\ rows[t] \in Wait
      OBVIOUS
    <3>1. p = Owners[t] /\ from \in Int
      BY <2>1
    <3> QED BY <1>1, <2>2, <3>1, ReadyIsSpent
  <2>4. \A n \in R : \E t \in SchedThreads : pids[t] = p /\ felt(rows[t]).ready >= n
    <3> SUFFICES ASSUME NEW n \in R PROVE \E t \in SchedThreads : pids[t] = p /\ felt(rows[t]).ready >= n
      OBVIOUS
    <3>1. \E t \in SchedThreads : Owners[t] = p /\ felt(waits(from, to)[t]).ready >= n
      BY <2>2, SpentIsFelt
    <3> QED BY <1>1, <2>1, <3>1
  <2>5. \A n \in R : n \in Int /\ n > 0
    <3>1. \A x \in stretches : x.from \in Int /\ x.to \in Int
      BY DEF SchedInv, SchedTypes, Stretch
    <3>2. \A n \in SpentReady(p, from, to) : n \in Int
      BY <3>1 DEF SpentReady
    <3>3. FeltReady \in Nat \ {0}
      BY WaitsAssumption
    <3> QED BY <2>2, <3>2, <3>3 DEF Felts
  <2>6. p # OwnTool
    BY <1>8
  <2>7. \A n \in R : \E t \in those : pids[t] = p /\ felt(rows[t]).ready >= n
    <3> SUFFICES ASSUME NEW n \in R PROVE \E t \in those : pids[t] = p /\ felt(rows[t]).ready >= n
      OBVIOUS
    <3>1. PICK t \in SchedThreads : pids[t] = p /\ felt(rows[t]).ready >= n
      BY <2>4
    <3>2. felt(rows[t]).ready \in Int
      BY <2>3, <3>1, FeltIs
    <3>3. felt(rows[t]).ready > 0
      BY <2>5, <3>1, <3>2
    <3> QED BY <1>2, <2>6, <3>1, <3>3
  <2>8. p \in DOMAIN here => R \cup H # {}
    BY <1>2, <1>4, <1>5, <2>3
  <2>9. R # {} => p \in DOMAIN here
    BY <1>5, <2>7
  <2>10. ASSUME p \in DOMAIN here PROVE Most(here[p].ready, R)
    <3>1. PICK h \in Int : h = here[p].ready
      BY <1>7, <2>10
    <3>2. PICK t \in those : pids[t] = p /\ h = felt(rows[t]).ready
      BY <1>7, <2>10, <3>1
    <3>3. \A u \in those : pids[u] = p => felt(rows[u]).ready <= h
      BY <1>7, <2>10, <3>1
    <3>4. h >= 0
      BY <1>4, <2>3, <3>2, FeltIs
    <3>5. h \in R \cup {0}
      BY <1>4, <2>3, <3>1, <3>2, <3>4
    <3>6. ASSUME NEW n \in R PROVE n <= h
      <4>1. PICK u \in those : pids[u] = p /\ felt(rows[u]).ready >= n
        BY <2>7
      <4>2. felt(rows[u]).ready \in Int /\ n \in Int /\ felt(rows[u]).ready <= h
        BY <1>4, <2>3, <2>5, <3>3, <4>1, FeltIs
      <4> QED BY <3>1, <4>1, <4>2
    <3> QED BY <2>5, <3>1, <3>4, <3>5, <3>6 DEF Most
  <2> QED BY <2>2, <2>8, <2>9, <2>10 DEF Counted
<1> QED BY <1>6, <1>7, <1>8

(* The program in front comes first. *)
LEMMA FrontFirst ==
  ASSUME NEW here, IsFiniteSet(DOMAIN here), NEW front \in DOMAIN here
  PROVE  Head(wait_lines(here, front).told) = front
<1> DEFINE long(p)     == Max({here[p].ready, here[p].blocked})
           Ahead(p, q) == q # front /\ (p = front \/ long(p) > long(q) \/ (long(p) = long(q) /\ p < q))
           place(p)    == Cardinality({q \in DOMAIN here : Ahead(q, p)}) + 1
           lines       == Min({MaxLines, Cardinality(DOMAIN here)})
           told        == [i \in 1 .. lines |-> CHOOSE p \in DOMAIN here : place(p) = i]
<1>1. wait_lines(here, front).told = told
  BY DEF wait_lines
<1>2. lines \in Nat /\ 1 <= lines
  <2>1. PICK n \in Nat : n = Cardinality(DOMAIN here) /\ n # 0
    BY FS_CardinalityType, FS_EmptySet
  <2>2. PICK m \in Nat : m = MaxLines /\ m # 0
    BY WaitsAssumption
  <2>3. PICK x : x = IF m <= n THEN m ELSE n
    OBVIOUS
  <2>4. x \in {m, n} /\ (\A y \in {m, n} : x <= y) /\ {m, n} \subseteq Int
    BY <2>3
  <2>5. Min({m, n}) = x
    BY <2>4, MinIs
  <2> QED BY <2>1, <2>2, <2>3, <2>5
<1>3. place(front) = 1
  <2>1. {q \in DOMAIN here : Ahead(q, front)} = {}
    OBVIOUS
  <2>2. Cardinality({}) = 0
    BY FS_EmptySet
  <2> QED BY <2>1, <2>2
<1>4. ASSUME NEW p \in DOMAIN here, place(p) = 1 PROVE p = front
  <2>1. SUFFICES ASSUME p # front PROVE FALSE
    OBVIOUS
  <2>2. PICK A : A = {q \in DOMAIN here : Ahead(q, p)}
    OBVIOUS
  <2>3. front \in A /\ A \in SUBSET (DOMAIN here)
    BY <2>1, <2>2
  <2>4. IsFiniteSet(A)
    BY <2>3, FS_Subset
  <2>5. PICK c \in Nat : c = Cardinality(A) /\ c # 0
    BY <2>3, <2>4, FS_CardinalityType, FS_EmptySet
  <2>6. c + 1 = 1
    BY <1>4, <2>2, <2>5
  <2> QED BY <2>5, <2>6
<1>5. told[1] = front
  <2> HIDE DEF place
  <2>1. (CHOOSE p \in DOMAIN here : place(p) = 1) = front
    BY <1>3, <1>4
  <2>2. 1 \in 1 .. lines
    BY <1>2
  <2> HIDE DEF lines
  <2> QED BY <2>1, <2>2
<1>6. Head(told) = told[1]
  <2>1. PICK n \in Nat : n = lines /\ 1 <= n
    BY <1>2
  <2>2. PICK s : s = told
    OBVIOUS
  <2>3. s \in [1 .. n -> {s[i] : i \in 1 .. n}]
    <3>1. DOMAIN s = 1 .. n /\ s = [i \in 1 .. n |-> s[i]]
      <4> HIDE DEF place, lines
      <4> QED BY <2>1, <2>2
    <3> QED BY <3>1
  <2>4. s \in Seq({s[i] : i \in 1 .. n})
    <3>1. PICK X : X = {s[i] : i \in 1 .. n}
      OBVIOUS
    <3>2. s \in [1 .. n -> X]
      BY <2>3, <3>1
    <3> QED BY <3>1, <3>2
  <2>5. Head(s) = s[1]
    BY <2>4
  <2> QED BY <2>2, <2>5
<1> QED BY <1>1, <1>5, <1>6

-----------------------------------------------------------------------------
(* The moments and the totals of the run.                                   *)

(* What p was made to feel in the moments ms, where it is named, and that  *)
(* nothing was doubtful about it.                                          *)
FeltsOf(ms, p) == UNION {Felts(ms[i].ready[p], FeltReady) : i \in DOMAIN ms}
NamedIn(ms, p) == {i \in DOMAIN ms : p \in ms[i].named}
AlwaysCertain(ms, p) == p # OwnTool /\ \A i \in DOMAIN ms : p \in Certain(ms[i])

(* What one moment says is what happened. *)
MomentTold(m) ==
  /\ \A p \in Certain(m) :
       /\ p \in m.named => Felts(m.ready[p], FeltReady) \cup Felts(m.held_up[p], FeltBlocked) # {}
       /\ Felts(m.ready[p], FeltReady) # {} => p \in m.named /\ ~(m.front = p /\ m.lines.denied)
  /\ m.front \in m.named => Head(m.lines.told) = m.front

(* The totals of the program p are those of the moments. *)
Totalled(w, ms, p) ==
  /\ w.ready \in Int /\ w.moments \in Nat /\ w.in_front \in Nat /\ w.in_front <= w.moments
  /\ w.moments = Cardinality(NamedIn(ms, p))
  /\ AlwaysCertain(ms, p) => Most(w.ready, FeltsOf(ms, p))

(* One moment more, for a program. *)
OneMoreMoment(w, w2, m, p) ==
  /\ p \notin m.named => w2 = w /\ (p \in Certain(m) => Felts(m.ready[p], FeltReady) = {})
  /\ p \in m.named =>
       /\ w2.moments = w.moments + 1 /\ w2.in_front \in {w.in_front, w.in_front + 1}
       /\ \E h \in Int : /\ w2.ready = IF h > w.ready THEN h ELSE w.ready
                         /\ p \in Certain(m) => Most(h, Felts(m.ready[p], FeltReady))

(* The totals with one moment more. *)
LEMMA TotalledMore ==
  ASSUME NEW S, NEW ms \in Seq(S), NEW m, NEW p, NEW w, Totalled(w, ms, p),
         NEW w2, OneMoreMoment(w, w2, m, p), NEW ms2, ms2 = Append(ms, m)
  PROVE  Totalled(w2, ms2, p)
<1>1. PICK n \in Nat : n = Len(ms)
  BY LenProperties
<1>2. DOMAIN ms = 1 .. n /\ DOMAIN ms2 = 1 .. n + 1 /\ ms2[n + 1] = m /\ \A i \in 1 .. n : ms2[i] = ms[i]
  <2>1. PICK T : T = S \cup {m}
    OBVIOUS
  <2>2. ms \in Seq(T) /\ m \in T
    BY <2>1, SeqMonotonic
  <2>3. ms2 \in Seq(T) /\ Len(ms2) = n + 1 /\ (\A i \in 1 .. n : ms2[i] = ms[i]) /\ ms2[n + 1] = m
    BY <1>1, <2>2, AppendProperties
  <2>4. DOMAIN ms2 = 1 .. n + 1 /\ DOMAIN ms = 1 .. n
    BY <1>1, <2>2, <2>3, LenProperties
  <2> QED BY <2>3, <2>4
<1>3. 1 .. n + 1 = (1 .. n) \cup {n + 1} /\ n + 1 \notin 1 .. n
  BY <1>1
<1>4. NamedIn(ms2, p) = IF p \in m.named THEN NamedIn(ms, p) \cup {n + 1} ELSE NamedIn(ms, p)
  BY <1>2, <1>3 DEF NamedIn
<1>5. FeltsOf(ms2, p) = FeltsOf(ms, p) \cup Felts(m.ready[p], FeltReady)
  <2>1. ASSUME NEW x \in FeltsOf(ms2, p) PROVE x \in FeltsOf(ms, p) \cup Felts(m.ready[p], FeltReady)
    <3>1. PICK i \in 1 .. n + 1 : x \in Felts(ms2[i].ready[p], FeltReady)
      BY <1>2, <2>1 DEF FeltsOf
    <3>2. i \in 1 .. n \/ i = n + 1
      BY <1>3, <3>1
    <3> QED BY <1>2, <3>1, <3>2 DEF FeltsOf
  <2>2. ASSUME NEW x \in FeltsOf(ms, p) PROVE x \in FeltsOf(ms2, p)
    <3>1. PICK i \in 1 .. n : x \in Felts(ms[i].ready[p], FeltReady)
      BY <1>2, <2>2 DEF FeltsOf
    <3>2. i \in 1 .. n + 1 /\ ms2[i] = ms[i]
      BY <1>2, <1>3
    <3> QED BY <1>2, <3>1, <3>2 DEF FeltsOf
  <2>3. Felts(m.ready[p], FeltReady) \subseteq FeltsOf(ms2, p)
    BY <1>2, <1>3 DEF FeltsOf
  <2> QED BY <2>1, <2>2, <2>3
<1>6. AlwaysCertain(ms2, p) => AlwaysCertain(ms, p) /\ p \in Certain(m)
  BY <1>2, <1>3 DEF AlwaysCertain
<1>7. /\ w.ready \in Int /\ w.moments \in Nat /\ w.in_front \in Nat /\ w.in_front <= w.moments
      /\ w.moments = Cardinality(NamedIn(ms, p))
      /\ AlwaysCertain(ms, p) => Most(w.ready, FeltsOf(ms, p))
  BY DEF Totalled
<1>8. CASE p \notin m.named
  <2>1. w2 = w /\ (p \in Certain(m) => Felts(m.ready[p], FeltReady) = {})
    BY <1>8 DEF OneMoreMoment
  <2>2. NamedIn(ms2, p) = NamedIn(ms, p)
    BY <1>4, <1>8
  <2>3. AlwaysCertain(ms2, p) => Most(w2.ready, FeltsOf(ms2, p))
    BY <1>5, <1>6, <1>7, <2>1
  <2> QED BY <1>7, <2>1, <2>2, <2>3 DEF Totalled
<1>9. CASE p \in m.named
  <2>1. /\ w2.moments = w.moments + 1 /\ w2.in_front \in {w.in_front, w.in_front + 1}
        /\ \E h \in Int : /\ w2.ready = IF h > w.ready THEN h ELSE w.ready
                          /\ p \in Certain(m) => Most(h, Felts(m.ready[p], FeltReady))
    BY <1>9 DEF OneMoreMoment
  <2>2. PICK h \in Int : /\ w2.ready = IF h > w.ready THEN h ELSE w.ready
                         /\ p \in Certain(m) => Most(h, Felts(m.ready[p], FeltReady))
    BY <2>1
  <2>3. Cardinality(NamedIn(ms2, p)) = w.moments + 1
    <3>1. NamedIn(ms, p) \in SUBSET (1 .. n) /\ n + 1 \notin NamedIn(ms, p)
      BY <1>2, <1>3 DEF NamedIn
    <3>2. IsFiniteSet(NamedIn(ms, p))
      <4>1. IsFiniteSet(1 .. n)
        BY <1>1, FS_Interval
      <4> QED BY <3>1, <4>1, FS_Subset
    <3>3. NamedIn(ms2, p) = NamedIn(ms, p) \cup {n + 1}
      BY <1>4, <1>9
    <3>4. Cardinality(NamedIn(ms, p) \cup {n + 1}) = Cardinality(NamedIn(ms, p)) + 1
      BY <3>1, <3>2, FS_AddElement
    <3> QED BY <1>7, <3>3, <3>4
  <2>4. AlwaysCertain(ms2, p) => Most(w2.ready, FeltsOf(ms2, p))
    <3> SUFFICES ASSUME AlwaysCertain(ms2, p) PROVE Most(w2.ready, FeltsOf(ms2, p))
      OBVIOUS
    <3>1. Most(w.ready, FeltsOf(ms, p)) /\ Most(h, Felts(m.ready[p], FeltReady))
      BY <1>6, <1>7, <2>2
    <3>2. PICK F, G, x : /\ F = FeltsOf(ms, p) /\ G = Felts(m.ready[p], FeltReady)
                         /\ x = (IF h > w.ready THEN h ELSE w.ready)
      OBVIOUS
    <3>3. Most(x, F \cup G)
      BY <3>1, <3>2, MostOfBoth
    <3>4. w2.ready = x /\ FeltsOf(ms2, p) = F \cup G
      BY <1>5, <2>2, <3>2
    <3>5. PICK U, y : U = FeltsOf(ms2, p) /\ y = w2.ready
      OBVIOUS
    <3>6. Most(y, U)
      BY <3>3, <3>4, <3>5
    <3> QED BY <3>5, <3>6
  <2>5. w2.ready \in Int /\ w2.moments \in Nat /\ w2.in_front \in Nat /\ w2.in_front <= w2.moments
    BY <1>7, <2>1, <2>2
  <2> QED BY <2>1, <2>3, <2>4, <2>5 DEF Totalled
<1> QED BY <1>8, <1>9

(* The moments and the totals are those of what happened. *)
WaitsInv ==
  /\ SchedInv
  /\ \A t \in SchedThreads : pids[t] \in Programs
  /\ \E S : moments \in Seq(S)
  /\ \A i \in DOMAIN moments : MomentTold(moments[i])
  /\ DOMAIN program_waits = Programs
  /\ \A p \in Programs : Totalled(program_waits[p], moments, p)

(* At the start there are no moments and no totals. *)
LEMMA WaitsStart ==
  ASSUME WaitsInit
  PROVE  WaitsInv
<1>1. SchedInv
  BY SchedStart DEF WaitsInit
<1>2. pids = Owners /\ program_waits = [p \in Programs |-> Never] /\ moments = <<>>
  BY DEF WaitsInit
<1>3. \A t \in SchedThreads : pids[t] \in Programs
  BY <1>2 DEF Programs
<1>4. moments \in Seq({}) /\ DOMAIN moments = {}
  BY <1>2
<1>5. ASSUME NEW p \in Programs PROVE Totalled(Never, moments, p)
  <2>1. NamedIn(moments, p) = {} /\ FeltsOf(moments, p) = {}
    BY <1>4 DEF NamedIn, FeltsOf
  <2>2. Most(0, {})
    BY DEF Most
  <2> QED BY <2>1, <2>2, FS_EmptySet DEF Totalled, Never
<1> QED BY <1>1, <1>2, <1>3, <1>4, <1>5 DEF WaitsInv

(* The scheduler changes nothing that was said. *)
LEMMA KernelSteps ==
  ASSUME WaitsInv, Kernel
  PROVE  WaitsInv'
<1>1. SchedInv'
  BY SchedStep DEF WaitsInv, Kernel
<1>2. \A t \in SchedThreads : pids'[t] \in Programs
  <2>1. PICK p \in Newcomers :
          pids' = [t \in SchedThreads |-> IF state[t].is = "gone" /\ state'[t].is = "ready" THEN p ELSE pids[t]]
    BY DEF Kernel
  <2>2. p \in Programs /\ \A t \in SchedThreads : pids[t] \in Programs
    BY DEF Programs, WaitsInv
  <2> QED BY <2>1, <2>2
<1>3. program_waits' = program_waits /\ moments' = moments
  BY DEF Kernel
<1> QED BY <1>1, <1>2, <1>3 DEF WaitsInv

(* A moment that is looked at. *)
LEMMA FeltSteps ==
  ASSUME WaitsInv, NEW from \in Nat, NEW front, Felt(from, front)
  PROVE  WaitsInv'
<1>1. UNCHANGED schedVars /\ pids' = pids
  BY DEF Felt
<1>2. SchedInv'
  BY <1>1, SchedStays DEF WaitsInv
<1>3. tick \in Int /\ SchedInv
  BY DEF WaitsInv, SchedInv, SchedTypes
<1>4. PICK here : here = collect_waits(from, tick)
  OBVIOUS
<1>5. PICK m : m = [front |-> front, lines |-> wait_lines(here, front), named |-> DOMAIN here, doubt |-> Doubtful,
                    ready |-> [p \in Programs |-> SpentReady(p, from, tick)],
                    held_up |-> [p \in Programs |-> SpentHeldUp(p, from, tick)]]
  OBVIOUS
<1>6. program_waits' = add_waits(here, front) /\ moments' = Append(moments, m)
  BY <1>4, <1>5 DEF Felt
<1>7. /\ IsFiniteSet(DOMAIN here)
      /\ \A p \in DOMAIN here : here[p].ready \in Int
      /\ \A p \in Programs \ (Doubtful \cup {OwnTool}) : Counted(here, p, from, tick)
  BY <1>3, <1>4, CollectedIs
<1>8. Certain(m) = Programs \ (Doubtful \cup {OwnTool}) /\ m.named = DOMAIN here /\ m.front = front
      /\ m.lines = wait_lines(here, front)
      /\ \A p \in Programs : m.ready[p] = SpentReady(p, from, tick) /\ m.held_up[p] = SpentHeldUp(p, from, tick)
  BY <1>5 DEF Certain
<1>9. MomentTold(m)
  <2>1. m.lines.denied = (front # NoProgram /\ front \notin DOMAIN here)
    <3>1. wait_lines(here, front).denied = (front # NoProgram /\ front \notin DOMAIN here)
      BY Zenon DEF wait_lines
    <3> QED BY <1>8, <3>1
  <2>2. ASSUME NEW p \in Certain(m)
        PROVE  /\ p \in m.named => Felts(m.ready[p], FeltReady) \cup Felts(m.held_up[p], FeltBlocked) # {}
               /\ Felts(m.ready[p], FeltReady) # {} => p \in m.named /\ ~(m.front = p /\ m.lines.denied)
    <3>1. Counted(here, p, from, tick) /\ p \in Programs
      BY <1>7, <1>8
    <3> QED BY <1>8, <2>1, <3>1 DEF Counted
  <2>3. m.front \in m.named => Head(m.lines.told) = m.front
    BY <1>7, <1>8, FrontFirst
  <2> QED BY <2>2, <2>3 DEF MomentTold
<1>10. PICK S : moments \in Seq(S)
  BY DEF WaitsInv
<1>11. \E T : moments' \in Seq(T)
  <2>1. PICK T : T = S \cup {m}
    OBVIOUS
  <2>2. moments \in Seq(T) /\ m \in T
    BY <1>10, <2>1, SeqMonotonic
  <2>3. moments' \in Seq(T)
    BY <1>6, <2>2, AppendProperties
  <2> QED BY <2>3
<1>12. \A i \in DOMAIN moments' : MomentTold(moments'[i])
  <2>1. PICK T : T = S \cup {m}
    OBVIOUS
  <2>2. moments \in Seq(T) /\ m \in T
    BY <1>10, <2>1, SeqMonotonic
  <2>3. PICK n \in Nat : n = Len(moments)
    BY <1>10, LenProperties
  <2>4. Len(moments') = n + 1 /\ (\A i \in 1 .. n : moments'[i] = moments[i]) /\ moments'[n + 1] = m
    BY <1>6, <2>2, <2>3, AppendProperties
  <2>5. DOMAIN moments' = 1 .. n + 1 /\ DOMAIN moments = 1 .. n
    <3>1. moments' \in Seq(T)
      BY <1>6, <2>2, AppendProperties
    <3> QED BY <2>2, <2>3, <2>4, <3>1, LenProperties
  <2>6. \A i \in 1 .. n + 1 : i \in 1 .. n \/ i = n + 1
    BY <2>3
  <2>7. \A i \in 1 .. n : MomentTold(moments[i])
    BY <2>5 DEF WaitsInv
  <2> QED BY <1>9, <2>4, <2>5, <2>6, <2>7
<1>13. ASSUME NEW p \in Programs PROVE Totalled(program_waits'[p], moments', p)
  <2>1. PICK w, w2 : w = program_waits[p] /\ w2 = program_waits'[p]
    OBVIOUS
  <2>2. Totalled(w, moments, p)
    BY <2>1 DEF WaitsInv
  <2>3. CASE p \notin DOMAIN here
    <3>1. w2 = w
      BY <1>6, <2>1, <2>3 DEF add_waits
    <3>2. p \in Certain(m) => Felts(m.ready[p], FeltReady) = {}
      BY <1>7, <1>8, <2>3 DEF Counted
    <3>3. OneMoreMoment(w, w2, m, p)
      BY <1>8, <2>3, <3>1, <3>2 DEF OneMoreMoment
    <3> QED BY <1>6, <1>10, <2>1, <2>2, <3>3, TotalledMore
  <2>4. CASE p \in DOMAIN here
    <3>1. PICK h \in Int : h = here[p].ready
      BY <1>7, <2>4
    <3>2. w2 = [ready    |-> IF here[p].ready > w.ready THEN here[p].ready ELSE w.ready,
                instead  |-> IF here[p].ready > w.ready THEN here[p].instead ELSE w.instead,
                idle     |-> IF here[p].ready > w.ready THEN here[p].idle ELSE w.idle,
                blocked  |-> IF here[p].blocked > w.blocked THEN here[p].blocked ELSE w.blocked,
                moments  |-> w.moments + 1,
                in_front |-> IF p = front THEN w.in_front + 1 ELSE w.in_front]
      BY <1>6, <2>1, <2>4 DEF add_waits
    <3>3. /\ w2.ready = IF h > w.ready THEN h ELSE w.ready
          /\ w2.moments = w.moments + 1 /\ w2.in_front \in {w.in_front, w.in_front + 1}
      BY <3>1, <3>2
    <3>4. p \in Certain(m) => Most(h, Felts(m.ready[p], FeltReady))
      BY <1>7, <1>8, <2>4, <3>1 DEF Counted
    <3>5. OneMoreMoment(w, w2, m, p)
      BY <1>8, <2>4, <3>3, <3>4 DEF OneMoreMoment
    <3> QED BY <1>6, <1>10, <2>1, <2>2, <3>5, TotalledMore
  <2> QED BY <2>3, <2>4
<1>14. DOMAIN program_waits' = Programs
  BY <1>6 DEF add_waits
<1>15. \A t \in SchedThreads : pids'[t] \in Programs
  BY <1>1 DEF WaitsInv
<1> QED BY <1>2, <1>11, <1>12, <1>13, <1>14, <1>15 DEF WaitsInv

(* What is said of every moment, and the totals, are so in every state.     *)
THEOREM WaitsInvariant == WaitsSpec => []WaitsInv
<1>1. WaitsInit => WaitsInv
  BY WaitsStart
<1>2. WaitsInv /\ [WaitsNext]_waitsVars => WaitsInv'
  <2> SUFFICES ASSUME WaitsInv, [WaitsNext]_waitsVars PROVE WaitsInv'
    OBVIOUS
  <2>1. CASE Kernel
    BY <2>1, KernelSteps
  <2>2. ASSUME NEW reach \in Reaches, NEW front \in Fronts, Felt(Max({0, tick - reach}), front) PROVE WaitsInv'
    <3>1. PICK k \in Int : k = tick - reach
      <4>1. tick \in Nat /\ reach \in Nat
        BY WaitsAssumption DEF WaitsInv, SchedInv, SchedTypes
      <4> QED BY <4>1
    <3>2. Max({0, k}) \in {0, k} /\ \A y \in {0, k} : y <= Max({0, k})
      <4>1. {0, k} \subseteq Int /\ {0, k} # {} /\ IsFiniteSet({0, k})
        <5>1. IsFiniteSet({0}) /\ {0, k} = {0} \cup {k}
          BY FS_Singleton
        <5> QED BY <5>1, FS_AddElement
      <4> QED BY <4>1, MaxIsGreatest
    <3>3. PICK from \in Nat : from = Max({0, tick - reach})
      BY <3>1, <3>2
    <3> QED BY <2>2, <3>3, FeltSteps
  <2>3. CASE UNCHANGED waitsVars
    <3>1. UNCHANGED schedVars /\ pids' = pids /\ moments' = moments /\ program_waits' = program_waits
      BY <2>3 DEF waitsVars
    <3>2. SchedInv'
      BY <3>1, SchedStays DEF WaitsInv
    <3> QED BY <3>1, <3>2 DEF WaitsInv
  <2> QED BY <2>1, <2>2, <2>3 DEF WaitsNext
<1> QED BY <1>1, <1>2, PTL DEF WaitsSpec

(* What is said of the programs kept waiting is what happened, for every    *)
(* number of threads, programs and moments.                                 *)
THEOREM WaitsTold == WaitsSpec => []KeptWaitingIsTold
<1>1. WaitsInv => KeptWaitingIsTold
  <2> SUFFICES ASSUME WaitsInv PROVE KeptWaitingIsTold
    OBVIOUS
  <2>1. \A i \in DOMAIN moments : MomentTold(moments[i])
    BY DEF WaitsInv
  <2>2. ASSUME NEW p \in Programs \ {OwnTool}, \A i \in DOMAIN moments : p \in Certain(moments[i])
        PROVE  /\ program_waits[p].ready = Max(FeltsOf(moments, p) \cup {0})
               /\ program_waits[p].moments = Cardinality(NamedIn(moments, p))
               /\ program_waits[p].in_front <= program_waits[p].moments
    <3>1. Totalled(program_waits[p], moments, p) /\ AlwaysCertain(moments, p)
      BY <2>2 DEF WaitsInv, AlwaysCertain
    <3>2. Most(program_waits[p].ready, FeltsOf(moments, p))
      BY <3>1 DEF Totalled
    <3>3. program_waits[p].ready = Max(FeltsOf(moments, p) \cup {0})
      BY <3>2, MostIsMax
    <3> QED BY <3>1, <3>3 DEF Totalled
  <2> QED BY <2>1, <2>2 DEF KeptWaitingIsTold, MomentTold, FeltsOf, NamedIn
<1> QED BY <1>1, WaitsInvariant, PTL

=============================================================================
