---------------------------- MODULE ProgressProofs ----------------------------
(***************************************************************************)
(* Proofs about what every write and every request goes through: the mutex *)
(* (AsyncMutex) and the buckets of the rate limit (RateLimit).             *)
(***************************************************************************)
EXTENDS AsyncMutex, RateLimit, SequenceTheorems, TLAPS

-------------------------------------------------------------------------------
(* The mutex.                                                              *)
(* For any set of callers: mutual exclusion, the agreement of the flag, the*)
(* queue and the callers, and that the mutex implements the fair lock of   *)
(* FifoLock.                                                               *)
(*                                                                         *)
(* MutualExclusion and LockedIffHeld are not inductive one without the     *)
(* other (a free mutex with a holder would be taken twice), and handing    *)
(* over needs WaitersParked: the head of the queue must be a caller that   *)
(* waits, not one that already holds.  Their conjunction is inductive.     *)

MutexInv == /\ TypeOK
            /\ MutualExclusion
            /\ LockedIffHeld
            /\ WaitersParked

LEMMA MutexInitial == Init => MutexInv
<1> SUFFICES ASSUME Init PROVE MutexInv OBVIOUS
<1>1. \A c \in Caller : pc[c] = "idle" BY DEF Init
<1>2. TypeOK BY EmptySeq DEF Init, TypeOK, PC
<1>3. MutualExclusion BY <1>1 DEF MutualExclusion, Holds
<1>4. LockedIffHeld
  <2>1. ~locked /\ queue = <<>> BY DEF Init
  <2>2. ~ \E c \in Caller : Holds(c) BY <1>1 DEF Holds
  <2>3. QED BY <2>1, <2>2, Zenon DEF LockedIffHeld
<1>5. WaitersParked BY <1>1 DEF Init, WaitersParked
<1>6. QED BY <1>2, <1>3, <1>4, <1>5 DEF MutexInv

LEMMA AcquireKeeps == ASSUME MutexInv, NEW c \in Caller, Acquire(c) PROVE MutexInv'
<1> USE DEF MutexInv, TypeOK, PC
<1>1. CASE AcquireFree(c)
  BY <1>1 DEF AcquireFree, MutualExclusion, LockedIffHeld, WaitersParked, Holds
<1>2. CASE AcquireBusy(c)
  <2>1. /\ TypeOK'
        /\ Len(queue') = Len(queue) + 1
        /\ \A i \in DOMAIN queue : queue'[i] = queue[i] /\ i \in DOMAIN queue'
        /\ queue'[Len(queue) + 1] = c /\ Len(queue) + 1 \in DOMAIN queue'
        /\ DOMAIN queue' = DOMAIN queue \cup {Len(queue) + 1}
    BY <1>2 DEF AcquireBusy
  <2>2. MutualExclusion' /\ LockedIffHeld'
    BY <1>2, <2>1 DEF AcquireBusy, MutualExclusion, LockedIffHeld, Holds
  <2>3. WaitersParked'
    <3>1. \A i \in DOMAIN queue : queue[i] # c
      BY <1>2 DEF AcquireBusy, WaitersParked
    <3>2. QED
      BY <1>2, <2>1, <3>1 DEF AcquireBusy, WaitersParked
  <2>4. QED BY <2>1, <2>2, <2>3
<1>3. QED BY <1>1, <1>2 DEF Acquire

LEMMA EnterKeeps == ASSUME MutexInv, NEW c \in Caller, Enter(c) PROVE MutexInv'
  BY DEF MutexInv, TypeOK, PC, Enter, MutualExclusion, LockedIffHeld, WaitersParked, Holds

LEMMA HandOverKeeps ==
  ASSUME MutexInv, NEW c \in Caller, pc[c] = "running", HandOver(c) PROVE MutexInv'
<1> USE DEF MutexInv, TypeOK, PC
<1> DEFINE h == Head(queue)
<1>1. /\ h \in Caller /\ 1 \in DOMAIN queue /\ queue[1] = h
      /\ Tail(queue) \in Seq(Caller)
      /\ Len(Tail(queue)) = Len(queue) - 1
      /\ \A i \in DOMAIN Tail(queue) : Tail(queue)[i] = queue[i + 1] /\ i + 1 \in DOMAIN queue
      /\ \A i \in DOMAIN queue : i # 1 => i - 1 \in DOMAIN Tail(queue)
    BY DEF HandOver
<1>2. pc[h] = "waiting" /\ h # c
    BY <1>1 DEF WaitersParked
<1>3. TypeOK'
    BY <1>1 DEF HandOver
<1>4. MutualExclusion' /\ LockedIffHeld'
    BY <1>1, <1>2 DEF HandOver, MutualExclusion, LockedIffHeld, Holds
<1>5. WaitersParked'
  <2>1. \A i \in DOMAIN Tail(queue) : Tail(queue)[i] # h
    BY <1>1 DEF WaitersParked
  <2>2. \A i, j \in DOMAIN Tail(queue) : Tail(queue)[i] = Tail(queue)[j] => i = j
    BY <1>1 DEF WaitersParked
  <2>3. ASSUME NEW d \in Caller, d # h
        PROVE  (\E i \in DOMAIN queue : queue[i] = d) <=> (\E i \in DOMAIN Tail(queue) : Tail(queue)[i] = d)
    <3>1. ASSUME NEW i \in DOMAIN queue, queue[i] = d
          PROVE  \E k \in DOMAIN Tail(queue) : Tail(queue)[k] = d
      <4>1. i # 1 BY <1>1, <2>3, <3>1
      <4>2. i - 1 \in DOMAIN Tail(queue) BY <4>1, <1>1
      <4>3. Tail(queue)[i - 1] = d BY <4>2, <1>1, <3>1
      <4>4. QED BY <4>2, <4>3
    <3>2. QED BY <3>1, <1>1
  <2>4. \A d \in Caller : pc'[d] = "waiting" <=> (pc[d] = "waiting" /\ d # h)
    BY <1>1, <1>2 DEF HandOver
  <2>5. QED
    BY <2>1, <2>2, <2>3, <2>4, <1>1 DEF HandOver, WaitersParked
<1>6. QED BY <1>3, <1>4, <1>5

LEMMA ReleaseKeeps == ASSUME MutexInv, NEW c \in Caller, Release(c) PROVE MutexInv'
<1>1. CASE HandOver(c)
  BY <1>1, HandOverKeeps DEF Release
<1>2. CASE Unlock(c)
  <2>1. /\ queue = <<>> /\ queue' = <<>>
        /\ \A d \in Caller : Holds(d) => d = c
        /\ \A d \in Caller : pc'[d] = IF d = c THEN "idle" ELSE pc[d]
    BY <1>2 DEF Release, Unlock, MutexInv, TypeOK, MutualExclusion, Holds
  <2>2. \A d \in Caller : pc'[d] \notin {"granted", "running"}
    BY <2>1 DEF Holds
  <2>3. TypeOK' BY <1>2 DEF Unlock, MutexInv, TypeOK, PC
  <2>4. MutualExclusion' BY <2>2 DEF MutualExclusion, Holds
  <2>5. LockedIffHeld'
    <3>1. ~locked' BY <1>2 DEF Unlock
    <3>2. ~ \E d \in Caller : Holds(d)' BY <2>2 DEF Holds
    <3>3. QED BY <2>1, <3>1, <3>2, Zenon DEF LockedIffHeld
  <2>6. WaitersParked' BY <1>2, <2>1 DEF Unlock, MutexInv, TypeOK, WaitersParked
  <2>7. QED BY <2>3, <2>4, <2>5, <2>6 DEF MutexInv
<1>3. QED BY <1>1, <1>2 DEF Release

LEMMA MutexStep == MutexInv /\ [Next]_mutexVars => MutexInv'
<1>1. ASSUME MutexInv, UNCHANGED mutexVars PROVE MutexInv'
  BY <1>1 DEF mutexVars, MutexInv, TypeOK, MutualExclusion, LockedIffHeld, WaitersParked, Holds
<1>2. QED
  BY <1>1, AcquireKeeps, EnterKeeps, ReleaseKeeps DEF Next

\* The inductive invariant holds in every state: the basis of the theorems on
\* lib/mutex.js below.
THEOREM MutexInvHolds == Spec => []MutexInv
  BY MutexInitial, MutexStep, PTL DEF Spec

\* The writes of lib/sites.js and lib/events.js that run under one mutex never
\* overlap, whatever the number of calls.
THEOREM MutexExcludes == Spec => []MutualExclusion
<1>1. MutexInv => MutualExclusion BY DEF MutexInv
<1>2. QED BY <1>1, MutexInvHolds, PTL

\* The mutex never reads as free while a call holds it or waits for it, so no
\* waiter is stranded by release().
THEOREM MutexFlagTruthful == Spec => []LockedIffHeld
<1>1. MutexInv => LockedIffHeld BY DEF MutexInv
<1>2. QED BY <1>1, MutexInvHolds, PTL

\* A waiting call is parked exactly once, and only waiting calls are.
THEOREM MutexParksWaiters == Spec => []WaitersParked
<1>1. MutexInv => WaitersParked BY DEF MutexInv
<1>2. QED BY <1>1, MutexInvHolds, PTL

\* The three of them, as the runs check them: calls of run() never overlap, the
\* flag tells the truth, and no call that waits is lost or parked twice.
THEOREM MutexSafe == Spec => []LockSafety
<1>1. MutexInv => LockSafety BY DEF MutexInv, LockSafety
<1>2. QED BY <1>1, MutexInvHolds, PTL
-------------------------------------------------------------------------------
(* The refinement.  Line as a function of a state's queue and program counters, *)
(* so that one lemma serves the state before a step and the state after it.     *)

Busy(p) == {c \in Caller : p[c] \in {"granted", "running"}}
LineOf(p, q) == IF Busy(p) = {} THEN q
                ELSE <<CHOOSE c \in Caller : p[c] \in {"granted", "running"}>> \o q

LEMMA LineIsLineOf == /\ Line = LineOf(pc, queue)
                      /\ Line' = LineOf(pc', queue')
  BY DEF Line, LineOf, Holder, Busy, Holds

LEMMA HeldLine ==
  ASSUME NEW p, NEW q, NEW h \in Caller, Busy(p) = {h}
  PROVE  LineOf(p, q) = <<h>> \o q
<1>1. h \in Caller /\ p[h] \in {"granted", "running"} BY DEF Busy
<1>2. \A c \in Caller : p[c] \in {"granted", "running"} => c = h BY DEF Busy
<1>3. (CHOOSE c \in Caller : p[c] \in {"granted", "running"}) = h BY <1>1, <1>2
<1>4. QED BY <1>3 DEF LineOf

LEMMA FreeLine ==
  ASSUME NEW p, NEW q, Busy(p) = {}
  PROVE  LineOf(p, q) = q
  BY DEF LineOf

LEMMA AcquireRefines ==
  ASSUME MutexInv, NEW c \in Caller, Acquire(c) PROVE Abstract!Join(c)
<1> USE DEF MutexInv, TypeOK, PC
<1>1. {d \in Caller : pc'[d] = "running"} = {d \in Caller : pc[d] = "running"}
  BY DEF Acquire, AcquireFree, AcquireBusy
<1>2. CASE AcquireFree(c)
  <2>1. queue = <<>> /\ Busy(pc) = {} BY <1>2 DEF AcquireFree, LockedIffHeld, Busy, Holds
  <2>2. Line = <<>> BY <2>1, FreeLine, LineIsLineOf
  <2>3. Busy(pc') = {c} /\ queue' = <<>> BY <1>2, <2>1 DEF AcquireFree, Busy
  <2>4. Line' = <<c>> \o <<>> BY <2>3, HeldLine, LineIsLineOf
  <2>5. Line' = Append(Line, c) BY <2>2, <2>4
  <2>6. QED BY <1>1, <2>2, <2>5 DEF Abstract!Join
<1>3. CASE AcquireBusy(c)
  <2>1. PICK h \in Caller : Holds(h) BY <1>3 DEF AcquireBusy, LockedIffHeld
  <2>2. Busy(pc) = {h} BY <2>1 DEF Busy, Holds, MutualExclusion
  <2>3. Busy(pc') = {h} BY <1>3, <2>1, <2>2 DEF AcquireBusy, Busy, Holds
  <2>4. Line = <<h>> \o queue /\ Line' = <<h>> \o Append(queue, c)
    BY <1>3, <2>2, <2>3, HeldLine, LineIsLineOf DEF AcquireBusy
  <2>5. Line' = Append(Line, c) BY <2>4
  <2>6. ASSUME NEW i \in DOMAIN Line, Line[i] = c PROVE FALSE
    <3>1. h # c BY <1>3, <2>1 DEF AcquireBusy, Holds
    <3>2. i # 1 BY <2>4, <2>6, <3>1
    <3>3. i - 1 \in DOMAIN queue /\ queue[i - 1] = c BY <2>4, <2>6, <3>2
    <3>4. QED BY <1>3, <3>3 DEF AcquireBusy, WaitersParked
  <2>7. QED BY <1>1, <2>5, <2>6 DEF Abstract!Join
<1>4. QED BY <1>2, <1>3 DEF Acquire

LEMMA EnterRefines ==
  ASSUME MutexInv, NEW c \in Caller, Enter(c) PROVE Abstract!Start(c)
<1> USE DEF MutexInv, TypeOK, PC
<1>1. Busy(pc) = {c} /\ Busy(pc') = {c} BY DEF Enter, Busy, Holds, MutualExclusion
<1>2. Line = <<c>> \o queue /\ Line' = Line
  BY <1>1, HeldLine, LineIsLineOf DEF Enter
<1>3. Line # <<>> /\ Head(Line) = c BY <1>2
<1>4. /\ {d \in Caller : pc[d] = "running"} = {}
      /\ {d \in Caller : pc'[d] = "running"} = {c}
  BY <1>1 DEF Enter, Busy
<1>5. QED BY <1>2, <1>3, <1>4 DEF Abstract!Start

LEMMA ReleaseRefines ==
  ASSUME MutexInv, NEW c \in Caller, Release(c) PROVE Abstract!Leave(c)
<1> USE DEF MutexInv, TypeOK, PC
<1>1. pc[c] = "running" BY DEF Release
<1>2. Busy(pc) = {c} BY <1>1 DEF Busy, Holds, MutualExclusion
<1>3. Line = <<c>> \o queue BY <1>2, HeldLine, LineIsLineOf
<1>4. Line # <<>> /\ Head(Line) = c /\ Tail(Line) = queue BY <1>3
<1>5. {d \in Caller : pc[d] = "running"} = {c} BY <1>1, <1>2 DEF Busy
<1>6. CASE HandOver(c)
  <2> DEFINE h == Head(queue)
  <2>1. h \in Caller /\ 1 \in DOMAIN queue /\ queue[1] = h /\ <<h>> \o Tail(queue) = queue
    BY <1>6 DEF HandOver
  <2>2. h # c BY <1>1, <2>1 DEF WaitersParked
  <2>3. Busy(pc') = {h} BY <1>2, <1>6, <2>1, <2>2 DEF HandOver, Busy
  <2>4. Line' = queue BY <1>6, <2>1, <2>3, HeldLine, LineIsLineOf DEF HandOver
  <2>5. {d \in Caller : pc'[d] = "running"} = {} BY <1>5, <1>6, <2>1, <2>2 DEF HandOver
  <2>6. QED BY <1>4, <1>5, <2>4, <2>5 DEF Abstract!Leave
<1>7. CASE Unlock(c)
  <2>1. Busy(pc') = {} /\ queue' = queue BY <1>2, <1>7 DEF Unlock, Busy
  <2>2. Line' = queue BY <2>1, FreeLine, LineIsLineOf
  <2>3. {d \in Caller : pc'[d] = "running"} = {} BY <2>1 DEF Busy
  <2>4. QED BY <1>4, <1>5, <2>2, <2>3 DEF Abstract!Leave
<1>8. QED BY <1>6, <1>7 DEF Release

\* lib/mutex.js implements the fair lock: calls of run() execute one at a time, in
\* the order in which they were made.
THEOREM MutexImplementsFifoLock == Spec => ImplementsFifoLock
<1>1. Init => Abstract!Init
  <2> SUFFICES ASSUME Init PROVE Abstract!Init OBVIOUS
  <2>1. Busy(pc) = {} /\ queue = <<>> BY DEF Init, Busy
  <2>2. Line = <<>> BY <2>1, FreeLine, LineIsLineOf
  <2>3. {d \in Caller : pc[d] = "running"} = {} BY DEF Init
  <2>4. QED BY <2>2, <2>3 DEF Abstract!Init
<1>2. MutexInv /\ [Next]_mutexVars => [Abstract!Next]_(Abstract!lockVars)
  <2>1. ASSUME UNCHANGED mutexVars PROVE UNCHANGED Abstract!lockVars
    BY <2>1 DEF mutexVars, Abstract!lockVars, Line, Holder, Holds
  <2>2. QED
    BY <2>1, AcquireRefines, EnterRefines, ReleaseRefines DEF Next, Abstract!Next
<1>3. QED BY <1>1, <1>2, MutexInvHolds, PTL DEF Spec, ImplementsFifoLock, Abstract!Spec

-------------------------------------------------------------------------------
(* The rate limit, for any keys, limit and window.                         *)

(* What passed, of one key: each request fell into its window, the windows *)
(* do not overlap, and none let more than the limit through.               *)
Windows(p, t) ==
  /\ \A i \in DOMAIN p :
       /\ p[i].from \in Nat /\ p[i].at \in Nat
       /\ p[i].from <= p[i].at /\ p[i].at < p[i].from + Duration /\ p[i].at <= t
  /\ \A i, j \in DOMAIN p : i < j =>
       p[i].from = p[j].from \/ p[i].from + Duration <= p[j].from
  /\ \A i, j \in DOMAIN p : i + Limit <= j => p[i].from # p[j].from

Counting(b) == IF b.count < Limit THEN b.count ELSE Limit

(* A bucket counts the last requests that passed, and no others; without   *)
(* one every window is over.                                               *)
Covers(p, b, t) ==
  IF b = None THEN \A i \in DOMAIN p : p[i].from + Duration <= t
  ELSE /\ b.resetAtMs - Duration \in 0..t
       /\ Counting(b) <= Len(p)
       /\ \A i \in DOMAIN p : IF i > Len(p) - Counting(b)
                              THEN p[i].from = b.resetAtMs - Duration
                              ELSE p[i].from + Duration <= b.resetAtMs - Duration

Coherent(p, b, t) == Windows(p, t) /\ Covers(p, b, t)

IInv == LimitTypeOK /\ \A k \in Keys : Coherent(passed[k], bucket[k], now)

Request == [at : Nat, from : Int]

(* Time alone changes nothing.                                             *)
LEMMA CoherentLater ==
  ASSUME NEW p \in Seq(Request), NEW b \in Bucket \cup {None},
         NEW t \in Nat, NEW u \in Nat, t <= u, Coherent(p, b, t)
  PROVE  Coherent(p, b, u)
<1> USE LimitAssumption DEF Bucket, Request
<1>1. Windows(p, u) BY DEF Coherent, Windows
<1>2. Covers(p, b, u) BY SMTT(30) DEF Coherent, Covers, Windows
<1>3. QED BY <1>1, <1>2 DEF Coherent

(* A bucket that is over may be forgotten.                                 *)
LEMMA CoherentForgotten ==
  ASSUME NEW p \in Seq(Request), NEW b \in Bucket, NEW t \in Nat,
         t >= b.resetAtMs, Coherent(p, b, t)
  PROVE  Coherent(p, None, t)
<1> USE LimitAssumption DEF Bucket, Request
<1>1. \A i \in DOMAIN p : p[i].from + Duration <= t
  <2> SUFFICES ASSUME NEW i \in DOMAIN p PROVE p[i].from + Duration <= t OBVIOUS
  <2>1. p[i].from \in Nat BY DEF Coherent, Windows
  <2>2. p[i].from = b.resetAtMs - Duration \/ p[i].from + Duration <= b.resetAtMs - Duration
    BY DEF Coherent, Covers
  <2>3. QED BY <2>1, <2>2
<1>2. QED BY <1>1 DEF Coherent, Covers

(* One more request in a window that is not over.                          *)
LEMMA CoherentCounted ==
  ASSUME NEW p \in Seq(Request), NEW b \in Bucket, NEW t \in Nat,
         t < b.resetAtMs, Coherent(p, b, t), NEW c \in Bucket,
         c.count = b.count + 1, c.resetAtMs = b.resetAtMs
  PROVE  IF c.count <= Limit
         THEN Coherent(Append(p, [at |-> t, from |-> c.resetAtMs - Duration]), c, t)
         ELSE Coherent(p, c, t)
<1> USE LimitAssumption DEF Bucket
<1> DEFINE w == b.resetAtMs - Duration
           e == [at |-> t, from |-> w]
           q == Append(p, e)
<1>1. w \in Nat /\ w <= t /\ t < w + Duration BY DEF Coherent, Covers
<1>2. CASE c.count <= Limit
  <2>1. Counting(b) = b.count /\ Counting(c) = b.count + 1 BY <1>2 DEF Counting
  <2>2. /\ Len(q) = Len(p) + 1 /\ q[Len(q)] = e
        /\ \A i \in DOMAIN p : q[i] = p[i]
        /\ DOMAIN q = DOMAIN p \cup {Len(q)} /\ DOMAIN p = 1..Len(p)
        /\ Len(p) \in Nat
    <3>1. e \in Request BY <1>1 DEF Request
    <3> HIDE DEF e
    <3>2. QED BY <3>1
  <2>3. \A i \in DOMAIN p : IF i > Len(p) - b.count THEN p[i].from = w
                                                    ELSE p[i].from + Duration <= w
    BY <2>1 DEF Coherent, Covers
  <2>4. Covers(q, c, t)
    <3>1. Counting(c) <= Len(q) BY <2>1, <2>2 DEF Coherent, Covers
    <3>2. \A i \in DOMAIN q : IF i > Len(q) - Counting(c) THEN q[i].from = w
                                                          ELSE q[i].from + Duration <= w
      BY <2>1, <2>2, <2>3
    <3>3. QED BY <1>1, <3>1, <3>2 DEF Covers
  <2>5. Windows(q, t)
    <3>1. \A i \in DOMAIN p : p[i].from \in Nat BY DEF Coherent, Windows
    <3>2. \A i \in DOMAIN q : /\ q[i].from \in Nat /\ q[i].at \in Nat
                              /\ q[i].from <= q[i].at
                              /\ q[i].at < q[i].from + Duration /\ q[i].at <= t
      BY <1>1, <2>2 DEF Coherent, Windows
    <3>3. \A i, j \in DOMAIN q : i < j =>
            q[i].from = q[j].from \/ q[i].from + Duration <= q[j].from
      <4> SUFFICES ASSUME NEW i \in DOMAIN q, NEW j \in DOMAIN q, i < j
                   PROVE  q[i].from = q[j].from \/ q[i].from + Duration <= q[j].from
        OBVIOUS
      <4>1. i \in DOMAIN p BY <2>2
      <4>2. CASE j \in DOMAIN p BY <2>2, <4>1, <4>2 DEF Coherent, Windows
      <4>3. CASE j = Len(q) BY <2>2, <2>3, <4>1, <4>3
      <4>4. QED BY <2>2, <4>2, <4>3
    <3>4. \A i, j \in DOMAIN q : i + Limit <= j => q[i].from # q[j].from
      <4> SUFFICES ASSUME NEW i \in DOMAIN q, NEW j \in DOMAIN q, i + Limit <= j
                   PROVE  q[i].from # q[j].from
        OBVIOUS
      <4>1. i \in DOMAIN p BY <2>2
      <4>2. CASE j \in DOMAIN p BY <2>2, <4>1, <4>2 DEF Coherent, Windows
      <4>3. CASE j = Len(q)
        <5>1. b.count + 1 <= Limit /\ i \in Nat /\ b.count \in Nat
          BY <1>2, <2>2, <4>1
        <5>2. ~(i > Len(p) - b.count) BY <2>2, <4>3, <5>1
        <5>3. p[i].from + Duration <= w BY <2>3, <4>1, <5>2
        <5>4. q[i].from = p[i].from /\ q[j].from = w BY <2>2, <4>1, <4>3
        <5>5. QED BY <1>1, <3>1, <4>1, <5>3, <5>4, SMTT(30)
      <4>4. QED BY <2>2, <4>2, <4>3
    <3>5. QED BY <3>2, <3>3, <3>4 DEF Windows
  <2>6. QED BY <1>2, <2>4, <2>5 DEF Coherent
<1>3. CASE c.count > Limit
  <2>1. Counting(c) = Counting(b) BY <1>3 DEF Counting
  <2>2. QED BY <1>3, <2>1 DEF Coherent, Covers
<1>4. QED BY <1>2, <1>3

(* The first request of a window, when the one before is over.             *)
LEMMA CoherentStarted ==
  ASSUME NEW p \in Seq(Request), NEW t \in Nat, Coherent(p, None, t)
  PROVE  Coherent(Append(p, [at |-> t, from |-> (t + Duration) - Duration]),
                  [count |-> 1, resetAtMs |-> t + Duration], t)
<1> USE LimitAssumption DEF Bucket
<1> DEFINE e == [at |-> t, from |-> (t + Duration) - Duration]
           q == Append(p, e)
           c == [count |-> 1, resetAtMs |-> t + Duration]
<1>1. /\ Len(q) = Len(p) + 1 /\ q[Len(q)] = e
      /\ \A i \in DOMAIN p : q[i] = p[i]
      /\ DOMAIN q = DOMAIN p \cup {Len(q)} /\ DOMAIN p = 1..Len(p)
      /\ Len(p) \in Nat
  <2>1. e \in Request BY DEF Request
  <2> HIDE DEF e
  <2>2. QED BY <2>1, AppendProperties
<1>2. e.from = t /\ e.at = t /\ c \in Bucket /\ Counting(c) = 1
      /\ c.resetAtMs - Duration = t
  BY DEF Counting
<1>3. \A i \in DOMAIN p : p[i].from \in Nat /\ p[i].from + Duration <= t
  BY DEF Coherent, Covers, Windows
<1>4. Windows(q, t)
  <2>1. \A i \in DOMAIN q : /\ q[i].from \in Nat /\ q[i].at \in Nat
                            /\ q[i].from <= q[i].at
                            /\ q[i].at < q[i].from + Duration /\ q[i].at <= t
    BY <1>1, <1>2 DEF Coherent, Windows
  <2>2. \A i, j \in DOMAIN q : i < j =>
          q[i].from = q[j].from \/ q[i].from + Duration <= q[j].from
    BY <1>1, <1>2, <1>3, SMTT(30) DEF Coherent, Windows
  <2>3. \A i, j \in DOMAIN q : i + Limit <= j => q[i].from # q[j].from
    <3> SUFFICES ASSUME NEW i \in DOMAIN q, NEW j \in DOMAIN q, i + Limit <= j
                 PROVE  q[i].from # q[j].from
      OBVIOUS
    <3>1. i \in DOMAIN p BY <1>1
    <3>2. CASE j \in DOMAIN p BY <1>1, <3>1, <3>2 DEF Coherent, Windows
    <3>3. CASE j = Len(q) BY <1>1, <1>2, <1>3, <3>1, <3>3
    <3>4. QED BY <1>1, <3>2, <3>3
  <2>4. QED BY <2>1, <2>2, <2>3 DEF Windows
<1>5. Covers(q, c, t)
  <2>1. c # None BY <1>2
  <2>2. \A i \in DOMAIN q : IF i > Len(q) - 1 THEN q[i].from = t
                                              ELSE q[i].from + Duration <= t
    BY <1>1, <1>2, <1>3
  <2>3. QED BY <1>1, <1>2, <2>1, <2>2 DEF Covers
<1>6. QED BY <1>4, <1>5 DEF Coherent

LEMMA InitInv == LimitInit => IInv
<1> SUFFICES ASSUME LimitInit PROVE IInv OBVIOUS
<1>1. LimitTypeOK BY DEF LimitInit, LimitTypeOK
<1>2. \A k \in Keys : passed[k] = <<>> /\ bucket[k] = None /\ now = 0 BY DEF LimitInit
<1>3. Coherent(<<>>, None, 0) BY DEF Coherent, Windows, Covers
<1>4. QED BY <1>1, <1>2, <1>3 DEF IInv

LEMMA ConsumeInv == ASSUME IInv, NEW k \in Keys, Consume(k) PROVE IInv'
<1> USE LimitAssumption
<1> DEFINE b == Counted(k)
           e == [at |-> now, from |-> b.resetAtMs - Duration]
<1>1. /\ bucket' = [bucket EXCEPT ![k] = b] /\ now' = now
      /\ passed' = IF Allowed(b) THEN [passed EXCEPT ![k] = Append(@, e)] ELSE passed
  BY DEF Consume
<1>2. /\ now \in Nat /\ bucket \in [Keys -> Bucket \cup {None}]
      /\ passed \in [Keys -> Seq(Request)] /\ Coherent(passed[k], bucket[k], now)
  BY DEF IInv, LimitTypeOK, Request
<1>3. b \in Bucket /\ Coherent(passed'[k], b, now)
  <2>1. CASE Live(k)
    <3>1. bucket[k] \in Bucket /\ now < bucket[k].resetAtMs
      BY <1>2, <2>1 DEF Live, Expired, Bucket
    <3>2. /\ b = [bucket[k] EXCEPT !.count = @ + 1]
          /\ b \in Bucket /\ b.count = bucket[k].count + 1
          /\ b.resetAtMs = bucket[k].resetAtMs
      BY <2>1, <3>1 DEF Counted, Bucket
    <3>3. IF b.count <= Limit THEN Coherent(Append(passed[k], e), b, now)
                              ELSE Coherent(passed[k], b, now)
      BY <1>2, <3>1, <3>2, CoherentCounted
    <3>4. QED BY <1>1, <1>2, <3>2, <3>3 DEF Allowed
  <2>2. CASE ~Live(k)
    <3>1. b = [count |-> 1, resetAtMs |-> now + Duration] BY <2>2 DEF Counted
    <3>2. b \in Bucket /\ b.count = 1 /\ b.resetAtMs = now + Duration /\ Allowed(b)
      BY <1>2, <3>1 DEF Bucket, Allowed
    <3>3. Coherent(passed[k], None, now)
      <4>1. CASE bucket[k] = None BY <1>2, <4>1
      <4>2. CASE bucket[k] # None
        BY <1>2, <2>2, <4>2, CoherentForgotten DEF Live, Expired
      <4>3. QED BY <4>1, <4>2
    <3>4. Coherent(Append(passed[k], e), b, now)
      BY <1>2, <3>1, <3>2, <3>3, CoherentStarted
    <3>5. QED BY <1>1, <1>2, <3>2, <3>4
  <2>3. QED BY <2>1, <2>2
<1>4. e \in Request BY <1>2, <1>3 DEF Bucket, Request
<1>5. LimitTypeOK'
  <2>1. bucket' \in [Keys -> Bucket \cup {None}] BY <1>1, <1>2, <1>3
  <2>2. passed' \in [Keys -> Seq(Request)] BY <1>1, <1>2, <1>4
  <2>3. QED BY <1>1, <1>2, <2>1, <2>2 DEF LimitTypeOK, Request
<1>6. \A l \in Keys : Coherent(passed'[l], bucket'[l], now')
  <2> SUFFICES ASSUME NEW l \in Keys PROVE Coherent(passed'[l], bucket'[l], now')
    OBVIOUS
  <2>1. CASE l = k BY <1>1, <1>2, <1>3, <2>1
  <2>2. CASE l # k
    <3>1. passed'[l] = passed[l] /\ bucket'[l] = bucket[l] BY <1>1, <1>2, <2>2
    <3>2. QED BY <1>1, <3>1 DEF IInv
  <2>3. QED BY <2>1, <2>2
<1>7. QED BY <1>5, <1>6 DEF IInv

LEMMA NextInv == IInv /\ [LimitNext]_limitVars => IInv'
<1> SUFFICES ASSUME IInv, [LimitNext]_limitVars PROVE IInv' OBVIOUS
<1>1. /\ now \in Nat /\ bucket \in [Keys -> Bucket \cup {None}]
      /\ passed \in [Keys -> Seq(Request)]
      /\ \A k \in Keys : Coherent(passed[k], bucket[k], now)
  BY DEF IInv, LimitTypeOK, Request
<1>2. ASSUME NEW k \in Keys, Consume(k) PROVE IInv' BY <1>2, ConsumeInv
<1>3. CASE Prune
  <2>1. /\ now' = now /\ passed' = passed
        /\ bucket' = [k \in Keys |-> IF Stale(bucket[k]) THEN None ELSE bucket[k]]
    BY <1>3 DEF Prune
  <2>2. LimitTypeOK' BY <1>1, <2>1 DEF LimitTypeOK, Request
  <2>3. ASSUME NEW k \in Keys PROVE Coherent(passed'[k], bucket'[k], now')
    <3>1. CASE Stale(bucket[k])
      BY <1>1, <2>1, <3>1, CoherentForgotten DEF Stale, Expired
    <3>2. CASE ~Stale(bucket[k]) BY <1>1, <2>1, <3>2
    <3>3. QED BY <3>1, <3>2
  <2>4. QED BY <2>2, <2>3 DEF IInv
<1>4. CASE Clear
  <2>1. LimitTypeOK' BY <1>1, <1>4 DEF Clear, LimitTypeOK
  <2>2. Coherent(<<>>, None, now) BY DEF Coherent, Windows, Covers
  <2>3. QED BY <1>4, <2>1, <2>2 DEF IInv, Clear
<1>5. CASE Tick
  <2>1. now' = now + 1 /\ bucket' = bucket /\ passed' = passed BY <1>5 DEF Tick
  <2>2. LimitTypeOK' BY <1>1, <2>1 DEF LimitTypeOK, Request
  <2>3. \A k \in Keys : Coherent(passed'[k], bucket'[k], now')
    BY <1>1, <2>1, CoherentLater
  <2>4. QED BY <2>2, <2>3 DEF IInv
<1>6. CASE UNCHANGED limitVars BY <1>6 DEF limitVars, IInv, LimitTypeOK
<1>7. QED BY <1>2, <1>3, <1>4, <1>5, <1>6 DEF LimitNext

LEMMA InvIsSafe == IInv => LimitSafety
<1> SUFFICES ASSUME IInv PROVE LimitSafety OBVIOUS
<1> USE LimitAssumption
<1>1. /\ now \in Nat /\ bucket \in [Keys -> Bucket \cup {None}]
      /\ passed \in [Keys -> Seq(Request)]
      /\ \A k \in Keys : Coherent(passed[k], bucket[k], now)
  BY DEF IInv, LimitTypeOK, Request
<1>2. TwiceTheLimit
  <2> SUFFICES ASSUME NEW k \in Keys, NEW i \in DOMAIN passed[k],
                      i + 2 * Limit <= Len(passed[k])
               PROVE  passed[k][i + 2 * Limit].at - passed[k][i].at > Duration
    BY DEF TwiceTheLimit
  <2> DEFINE p == passed[k]  m == i + Limit  n == i + 2 * Limit
  <2>1. p \in Seq(Request) /\ Windows(p, now) BY <1>1 DEF Coherent
  <2>2. /\ i \in DOMAIN p /\ m \in DOMAIN p /\ n \in DOMAIN p
        /\ i < m /\ m < n /\ i + Limit <= m /\ m + Limit <= n
    BY <2>1
  <2>3. p[i].from + Duration <= p[m].from BY <2>1, <2>2 DEF Windows
  <2>4. p[m].from + Duration <= p[n].from BY <2>1, <2>2 DEF Windows
  <2>5. /\ p[i].at < p[i].from + Duration /\ p[n].from <= p[n].at
        /\ p[i].from \in Nat /\ p[i].at \in Nat /\ p[m].from \in Nat
        /\ p[n].from \in Nat /\ p[n].at \in Nat
    BY <2>1, <2>2 DEF Windows
  <2>6. \A a, f, g, h, z \in Nat : f + Duration <= g /\ g + Duration <= h
          /\ a < f + Duration /\ h <= z => z - a > Duration
    OBVIOUS
  <2> HIDE DEF p, m, n
  <2>7. p[n].at - p[i].at > Duration BY <2>3, <2>4, <2>5, <2>6
  <2>8. QED BY <2>7 DEF p, n
<1>3. RefusedAfterLimit
  <2> SUFFICES ASSUME NEW k \in Keys, Live(k), bucket[k].count >= Limit
               PROVE  /\ Len(passed[k]) >= Limit
                      /\ now - passed[k][Len(passed[k]) - Limit + 1].at < Duration
    BY DEF RefusedAfterLimit
  <2> DEFINE p == passed[k]  b == bucket[k]  i == Len(p) - Limit + 1
  <2>1. /\ b \in Bucket /\ b # None /\ now < b.resetAtMs /\ b.resetAtMs \in Nat
        /\ b.count \in Nat
    BY <1>1 DEF Live, Expired, Bucket
  <2>2. Counting(b) = Limit BY <2>1 DEF Counting
  <2>3. p \in Seq(Request) /\ Len(p) \in Nat /\ Windows(p, now) /\ Covers(p, b, now)
    BY <1>1 DEF Coherent
  <2>4. Len(p) >= Limit BY <2>1, <2>2, <2>3 DEF Covers
  <2>5. i \in DOMAIN p /\ i > Len(p) - Limit BY <2>3, <2>4
  <2>6. p[i].from = b.resetAtMs - Duration BY <2>1, <2>2, <2>3, <2>5 DEF Covers
  <2>7. p[i].from <= p[i].at /\ p[i].from \in Nat /\ p[i].at \in Nat
    BY <2>3, <2>5 DEF Windows
  <2>8. QED BY <1>1, <2>1, <2>4, <2>6, <2>7
<1>4. QED BY <1>2, <1>3 DEF LimitSafety, IInv

LEMMA InvHolds == LimitSpec => []IInv
  BY InitInv, NextInv, PTL DEF LimitSpec

(* For every limit and window: no period as long as the window lets more   *)
(* than twice the limit through, and who is refused used the limit up.     *)
THEOREM LimitKept == LimitSpec => []LimitSafety
<1>1. QED BY InvHolds, InvIsSafe, PTL

(* The end of a window that a refusal names is not moved by any request.   *)
THEOREM EndKept == LimitSpec => EndStays
<1> DEFINE Stays(k) == Live(k) /\ bucket'[k] # None
                         => bucket'[k].resetAtMs = bucket[k].resetAtMs
<1>1. IInv /\ [LimitNext]_limitVars => [\A k \in Keys : Stays(k)]_limitVars
  <2> SUFFICES ASSUME IInv, LimitNext, NEW k \in Keys, Live(k), bucket'[k] # None
               PROVE  bucket'[k].resetAtMs = bucket[k].resetAtMs
    OBVIOUS
  <2>1. bucket \in [Keys -> Bucket \cup {None}] /\ bucket[k] \in Bucket
    BY DEF IInv, LimitTypeOK, Live
  <2>2. ASSUME NEW l \in Keys, Consume(l)
        PROVE  bucket'[k].resetAtMs = bucket[k].resetAtMs
    BY <2>1, <2>2 DEF Consume, Counted, Bucket
  <2>3. CASE Prune BY <2>1, <2>3 DEF Prune
  <2>4. CASE Clear BY <2>4 DEF Clear
  <2>5. CASE Tick BY <2>5 DEF Tick
  <2>6. QED BY <2>2, <2>3, <2>4, <2>5 DEF LimitNext
<1>2. QED BY <1>1, InvHolds, PTL DEF LimitSpec, EndStays
===============================================================================
