------------------------------ MODULE AsyncMutex ------------------------------
(***************************************************************************)
(* lib/mutex.js: the mutex that serialises every write of the tracked      *)
(* documents.  A caller is one call of run(fn).                            *)
(*                                                                         *)
(* run() awaits acquire(), so between the moment the lock is given to a    *)
(* caller and the moment its function starts there is a microtask: the     *)
(* caller is "granted" in between.  Everything else runs to completion.    *)
(***************************************************************************)
EXTENDS Naturals, Sequences

CONSTANT Caller

VARIABLES
  locked,   \* this._locked
  queue,    \* this._queue: the callers whose resolve function is parked there
  pc        \* where each call of run() is

mutexVars == <<locked, queue, pc>>

PC == {"idle", "waiting", "granted", "running"}

-------------------------------------------------------------------------------
(* Faulty variants.  Each is a change somebody could make to lib/mutex.js; the *)
(* checks replace the definition it varies by it and expect a property below   *)
(* to fail.                                                                    *)

\* acquire() without its test of _locked.
AcquireUnchecked(c) ==
  /\ pc[c] = "idle"
  /\ locked' = TRUE
  /\ pc' = [pc EXCEPT ![c] = "granted"]
  /\ UNCHANGED queue

\* acquire() parking the promise instead of its resolve function.
AcquireParksPromise(c) ==
  /\ pc[c] = "idle"
  /\ locked
  /\ queue' = Append(queue, <<c>>)
  /\ pc' = [pc EXCEPT ![c] = "waiting"]
  /\ UNCHANGED locked

\* release() unlocking before it wakes the next caller.
HandOverUnlocked(c) ==
  /\ queue # <<>>
  /\ queue' = Tail(queue)
  /\ pc' = [pc EXCEPT ![c] = "idle", ![Head(queue)] = "granted"]
  /\ locked' = FALSE

\* release() reading the head of the queue without shifting it.
HandOverKeepsHead(c) ==
  /\ queue # <<>>
  /\ pc' = [pc EXCEPT ![c] = "idle", ![Head(queue)] = "granted"]
  /\ UNCHANGED <<locked, queue>>

\* release() with pop() in the place of shift().
HandOverNewest(c) ==
  /\ queue # <<>>
  /\ queue' = SubSeq(queue, 1, Len(queue) - 1)
  /\ pc' = [pc EXCEPT ![c] = "idle", ![queue[Len(queue)]] = "granted"]
  /\ UNCHANGED locked

-------------------------------------------------------------------------------
Init == /\ locked = FALSE
        /\ queue = <<>>
        /\ pc = [c \in Caller |-> "idle"]

\* acquire() when the mutex is free: taken at once.
AcquireFree(c) ==
  /\ pc[c] = "idle"
  /\ ~locked
  /\ locked' = TRUE
  /\ pc' = [pc EXCEPT ![c] = "granted"]
  /\ UNCHANGED queue

\* acquire() when it is taken: the resolve function is parked at the tail.
AcquireBusy(c) ==
  /\ pc[c] = "idle"
  /\ locked
  /\ queue' = Append(queue, c)
  /\ pc' = [pc EXCEPT ![c] = "waiting"]
  /\ UNCHANGED locked

Acquire(c) == AcquireFree(c) \/ AcquireBusy(c)

\* `await this.acquire()` returns in run(): fn() starts.
Enter(c) ==
  /\ pc[c] = "granted"
  /\ pc' = [pc EXCEPT ![c] = "running"]
  /\ UNCHANGED <<locked, queue>>

\* release() with callers waiting: the lock stays taken and goes to the head.
HandOver(c) ==
  /\ queue # <<>>
  /\ queue' = Tail(queue)
  /\ pc' = [pc EXCEPT ![c] = "idle", ![Head(queue)] = "granted"]
  /\ UNCHANGED locked

\* release() with nobody waiting.
Unlock(c) ==
  /\ queue = <<>>
  /\ locked' = FALSE
  /\ pc' = [pc EXCEPT ![c] = "idle"]
  /\ UNCHANGED queue

\* fn() returned or threw: the finally of run() releases in both cases.
Release(c) ==
  /\ pc[c] = "running"
  /\ HandOver(c) \/ Unlock(c)

Next == \E c \in Caller : Acquire(c) \/ Enter(c) \/ Release(c)

\* A microtask that is queued runs, and the writes the functions await end
\* (lib/constants.js gives every query a timeout); nobody has to call run().
Fairness == \A c \in Caller : WF_mutexVars(Enter(c)) /\ WF_mutexVars(Release(c))

Spec == Init /\ [][Next]_mutexVars
FairSpec == Spec /\ Fairness

-------------------------------------------------------------------------------
TypeOK == /\ locked \in BOOLEAN
          /\ queue \in Seq(Caller)
          /\ pc \in [Caller -> PC]

Holds(c) == pc[c] \in {"granted", "running"}

\* Two calls never hold the mutex together: the two writes of one document that
\* lib/sites.js and lib/events.js start can never overlap (lib/mutex.js:29).
MutualExclusion == \A c, d \in Caller : Holds(c) /\ Holds(d) => c = d

\* The flag tells the truth, and a parked caller is one that waits: the mutex is
\* locked exactly while somebody holds it, and it is never free with callers
\* parked, which would strand them (lib/mutex.js:20, release()).
LockedIffHeld == /\ locked <=> \E c \in Caller : Holds(c)
                 /\ queue # <<>> => locked

\* Each waiting call is parked exactly once and nobody else is parked: no wake-up
\* is lost and none is given twice.
WaitersParked ==
  /\ \A c \in Caller : pc[c] = "waiting" <=> \E i \in DOMAIN queue : queue[i] = c
  /\ \A i, j \in DOMAIN queue : queue[i] = queue[j] => i = j

\* The three together: no overlap of two writes, no stranded caller and no lost
\* wake-up, in one invariant (lib/mutex.js).
LockSafety == MutualExclusion /\ LockedIffHeld /\ WaitersParked

\* A call that waits gets its turn, whatever the others do: no starvation.
WaiterServed == \A c \in Caller : pc[c] = "waiting" ~> pc[c] = "running"

-------------------------------------------------------------------------------
\* The line of callers as the abstract lock sees it: the holder, then the queue.
Holder == {c \in Caller : Holds(c)}
Line == IF Holder = {} THEN queue ELSE <<CHOOSE c \in Caller : Holds(c)>> \o queue

Abstract == INSTANCE FifoLock WITH
              line <- Line, inside <- {c \in Caller : pc[c] = "running"}

\* The mutex implements the fair lock: calls run one at a time and in the order
\* in which run() was called, none overtaking another.
ImplementsFifoLock == Abstract!Spec
===============================================================================
