---------------------------- MODULE StatePersistence ----------------------------
(***************************************************************************)
(* How the documents the server keeps in memory reach Postgres:            *)
(* flushDirtyState and markSiteDirty (lib/sites.js), persistSites,         *)
(* persistEvents and persistApiTokenSettings, the three intervals of       *)
(* persistLoop and the shutdown handler (server.js), and the routes that   *)
(* change a document, write it and clear its flag themselves.              *)
(*                                                                         *)
(* The contents of a document are abstracted to the number of changes made *)
(* to it.  "sites" and "events" are each written under a mutex of their    *)
(* own, "tokens" under none.  The mutexes are the fair locks that          *)
(* AsyncMutex shows lib/mutex.js to be: a line of jobs whose head holds    *)
(* the lock.                                                               *)
(*                                                                         *)
(* Everything between two awaits is one action.                            *)
(***************************************************************************)
EXTENDS Naturals, Sequences, SequenceTheorems, TLAPS

CONSTANTS
  Job,          \* the pieces of asynchronous work, see JobAssumption
  MaxVersion    \* bound on the changes made to each document

Doc == {"sites", "events", "tokens"}
Locked == {"sites", "events"}

(* The kinds of work.  loop: a firing of an interval of persistLoop; patch:    *)
(* PATCH of a monitor; stop: the shutdown handler: these call flushDirtyState. *)
(* create: POST of a site; remove: DELETE of a site; replace: backup import    *)
(* and DELETE of a location section, which put a new array in the place of     *)
(* state.sites; mint: POST and DELETE of an API token: these write one         *)
(* document and clear its flag.  retain: enforceStorageRetention, and purge:   *)
(* purgeStorageLogs, which put a new array in the place of state.events and    *)
(* write it without raising the flag.                                          *)
Kinds(d) == CASE d = "sites" -> {"loop", "patch", "create", "remove", "replace", "stop"}
              [] d = "events" -> {"loop", "retain", "purge"}
              [] d = "tokens" -> {"loop", "mint"}

Flushes == {"loop", "patch", "stop"}
Trails == {"remove", "replace"}
Quiet == {"retain", "purge"}

\* A job is a record with a number that tells jobs of a kind apart.  The shutdown
\* runs once: shuttingDown.
ASSUME JobAssumption ==
  /\ \A j \in Job : j.doc \in Doc /\ j.kind \in Kinds(j.doc)
  /\ \A i, j \in Job : i.kind = "stop" /\ j.kind = "stop" => i = j
  /\ MaxVersion \in [Doc -> Nat]

VARIABLES
  mem,      \* state.sites, state.events, state.apiTokens: changes so far
  dirty,    \* state.dirtySites, state.dirtyEvents, state.apiTokensDirty
  disk,     \* the version of each document in cajal_store
  phase,    \* where each job is
  doc,      \* the document each job is writing
  snap,     \* the version of the array it was given, then of the text it writes
  line,     \* _persistMutex of lib/sites.js and of lib/events.js
  outer,    \* persistMutex of server.js
  server,   \* "up", "closing" (the pool is ending) or "exited"
  goal,     \* history: the versions in memory when the signal came
  lost,     \* history: the shutdown's write of a document failed
  raced     \* history: changed behind the back of the flag, and not stored since

jobVars == <<phase, doc, snap, line, outer>>
perVars == <<mem, dirty, disk, jobVars, server, goal, lost, raced>>

Phase == {"idle", "outer", "queued", "writing", "trailing"}

\* The documents a flush comes to after d, in the order of flushDirtyState.
Later(d) == CASE d = "sites" -> {"events", "tokens"}
              [] d = "events" -> {"tokens"}
              [] d = "tokens" -> {}

FirstOf(D) == CHOOSE d \in D : D \subseteq Later(d) \cup {d}

\* Faulty variant of Forced: a shutdown that trusts the flags.
ForcedByFlag(j) == IF j.kind = "stop" THEN {} ELSE {j.doc}

\* The documents a flush writes whatever their flags say.
Forced(j) == IF j.kind = "stop" THEN Doc ELSE {j.doc}

-------------------------------------------------------------------------------
Init == /\ mem = [d \in Doc |-> 0]
        /\ dirty = [d \in Doc |-> FALSE]
        /\ disk = mem
        /\ phase = [j \in Job |-> "idle"]
        /\ doc = [j \in Job |-> j.doc]
        /\ snap = [j \in Job |-> 0]
        /\ line = [d \in Locked |-> <<>>]
        /\ outer = <<>>
        /\ server = "up"
        /\ goal = mem
        /\ lost = {}
        /\ raced = [d \in Doc |-> FALSE]

(* The parts of a job's step. *)

Modified(d) == mem[d] < MaxVersion[d] /\ mem' = [mem EXCEPT ![d] = @ + 1]

\* The versions held by the jobs after a change in place: a job that waits for the
\* mutex with the array that changes will write the change.  A purge has an array of
\* its own, and so has a job whose array was replaced while it waited.
Seen(d) == [j \in Job |-> IF /\ phase[j] = "queued" /\ doc[j] = d
                             /\ snap[j] = mem[d] /\ j.kind # "purge"
                          THEN mem'[d] ELSE snap[j]]

\* A job will clear the flag of d without having stored the change being made.
Races(d) == \E j \in Job : /\ doc[j] = d /\ phase[j] \in {"queued", "writing", "trailing"}
                           /\ j.kind \notin Quiet
                           /\ snap'[j] # mem'[d]

\* Job j calls the persist function of d with the document in memory; L are the
\* lines then and S the versions held.
Persist(j, d, L, S) ==
  /\ doc' = [doc EXCEPT ![j] = d]
  /\ snap' = [S EXCEPT ![j] = mem'[d]]
  /\ IF d \in Locked
     THEN /\ phase' = [phase EXCEPT ![j] = "queued"]
          /\ line' = [L EXCEPT ![d] = Append(@, j)]
     ELSE /\ phase' = [phase EXCEPT ![j] = "writing"]
          /\ line' = L

\* Faulty variant of Ends: a job that is over is filed under its kind.
EndsUnderKind(j, L) ==
  /\ phase' = [phase EXCEPT ![j] = "idle"]
  /\ line' = L
  /\ outer' = IF j.kind = "loop" THEN Tail(outer) ELSE outer
  /\ server' = IF j.kind = "stop" THEN "closing" ELSE server
  /\ doc' = [doc EXCEPT ![j] = j.kind]
  /\ snap' = [snap EXCEPT ![j] = 0]

\* Faulty variant of Ends: persistMutex without its finally.
EndsHoldingOuter(j, L) ==
  /\ phase' = [phase EXCEPT ![j] = "idle"]
  /\ line' = L
  /\ outer' = outer
  /\ server' = IF j.kind = "stop" THEN "closing" ELSE server
  /\ doc' = [doc EXCEPT ![j] = j.doc]
  /\ snap' = [snap EXCEPT ![j] = 0]

\* Job j is over: a loop leaves persistMutex, the shutdown ends the pool.
Ends(j, L) ==
  /\ phase' = [phase EXCEPT ![j] = "idle"]
  /\ line' = L
  /\ outer' = IF j.kind = "loop" THEN Tail(outer) ELSE outer
  /\ server' = IF j.kind = "stop" THEN "closing" ELSE server
  /\ doc' = [doc EXCEPT ![j] = j.doc]
  /\ snap' = [snap EXCEPT ![j] = 0]

\* A flush goes on with the documents D: to the first that is forced or dirty.
\* Once the pool is ending the next query is refused and the flush is over.
Proceed(j, D, L) ==
  LET Needed == {d \in D : d \in Forced(j) \/ dirty'[d]}
  IN IF Needed = {} \/ server # "up"
     THEN Ends(j, L)
     ELSE Persist(j, FirstOf(Needed), L, snap) /\ UNCHANGED <<outer, server>>

\* The lines once job j has left the mutex of the document it wrote.
Left(j) == IF doc[j] \in Locked THEN [line EXCEPT ![doc[j]] = Tail(@)] ELSE line

-------------------------------------------------------------------------------
\* A poller, a collector or a request changes a document in place, marks it and
\* leaves it to the loop.
Change(d) ==
  /\ server # "exited"
  /\ Modified(d)
  /\ dirty' = [dirty EXCEPT ![d] = TRUE]
  /\ snap' = Seen(d)
  /\ raced' = [raced EXCEPT ![d] = @ \/ Races(d)]
  /\ UNCHANGED <<disk, phase, doc, line, outer, server, goal, lost>>

\* An interval of persistLoop fires and finds its flag set.
LoopTick(j) ==
  /\ j.kind = "loop" /\ phase[j] = "idle" /\ server = "up"
  /\ dirty[j.doc]
  /\ phase' = [phase EXCEPT ![j] = "outer"]
  /\ outer' = Append(outer, j)
  /\ UNCHANGED <<mem, dirty, disk, doc, snap, line, server, goal, lost, raced>>

\* Its turn at persistMutex: flushDirtyState starts.
LoopFlush(j) ==
  /\ phase[j] = "outer" /\ Head(outer) = j /\ server # "exited"
  /\ UNCHANGED <<mem, dirty, disk, goal, lost, raced>>
  /\ Proceed(j, Doc, line)

\* PATCH of a monitor: flushDirtyState outside persistMutex.
PatchFlush(j) ==
  /\ j.kind = "patch" /\ phase[j] = "idle" /\ server = "up"
  /\ UNCHANGED <<mem, dirty, disk, goal, lost, raced>>
  /\ Proceed(j, Doc, line)

\* A route changes its document, marks it and calls its persist function.
RouteWrites(j) ==
  /\ j.kind \notin Flushes \cup Quiet /\ phase[j] = "idle" /\ server = "up"
  /\ Modified(j.doc)
  /\ dirty' = [dirty EXCEPT ![j.doc] = TRUE]
  /\ Persist(j, j.doc, line, IF j.kind = "replace" THEN snap ELSE Seen(j.doc))
  /\ raced' = [raced EXCEPT ![j.doc] = @ \/ Races(j.doc)]
  /\ UNCHANGED <<disk, outer, server, goal, lost>>

\* Retention and purge put a new array in the place of the events and write it.
\* Retention leaves the flag alone, a purge clears it beforehand.
QuietWrites(j) ==
  /\ j.kind \in Quiet /\ phase[j] = "idle" /\ server = "up"
  /\ Modified(j.doc)
  /\ dirty' = [dirty EXCEPT ![j.doc] = @ /\ j.kind # "purge"]
  /\ Persist(j, j.doc, line, snap)
  /\ raced' = [raced EXCEPT ![j.doc] = TRUE]
  /\ UNCHANGED <<disk, outer, server, goal, lost>>

\* SIGTERM or SIGINT: the same flush, everything forced, outside persistMutex.
Signal(j) ==
  /\ j.kind = "stop" /\ phase[j] = "idle" /\ server = "up"
  /\ goal' = mem
  /\ lost' = {}
  /\ UNCHANGED <<mem, dirty, disk, raced>>
  /\ Proceed(j, Doc, line)

\* Faulty variant of StartWrite: the mutex lets anyone in.
StartWriteOutOfTurn(j) ==
  /\ phase[j] = "queued" /\ server = "up"
  /\ phase' = [phase EXCEPT ![j] = "writing"]
  /\ UNCHANGED <<mem, dirty, disk, doc, snap, line, outer, server, goal, lost, raced>>

\* The mutex is granted: the persist function serialises the array it was given.
StartWrite(j) ==
  /\ phase[j] = "queued" /\ Head(line[doc[j]]) = j
  /\ server = "up"
  /\ phase' = [phase EXCEPT ![j] = "writing"]
  /\ UNCHANGED <<mem, dirty, disk, doc, snap, line, outer, server, goal, lost, raced>>

\* The row is written: what was serialised is the stored document.
Stored(j) ==
  /\ phase[j] = "writing"
  /\ disk' = [disk EXCEPT ![doc[j]] = snap[j]]
  /\ raced' = [raced EXCEPT ![doc[j]] = @ /\ snap[j] # mem[doc[j]]]
  /\ UNCHANGED <<mem, goal, lost>>

\* A flush clears the flag of the document it wrote and goes on.
FlushWritten(j) ==
  /\ j.kind \in Flushes /\ Stored(j)
  /\ dirty' = [dirty EXCEPT ![doc[j]] = FALSE]
  /\ Proceed(j, Later(doc[j]), Left(j))

\* A route clears the flag too, retention and purge do not; they are over.
WriteEnds(j) ==
  /\ j.kind \notin Flushes \cup Trails /\ Stored(j)
  /\ dirty' = IF j.kind \in Quiet THEN dirty ELSE [dirty EXCEPT ![doc[j]] = FALSE]
  /\ Ends(j, Left(j))

\* The routes that delete a site or a section and the backup import write other
\* documents before they clear the flag.
RouteTrails(j) ==
  /\ j.kind \in Trails /\ Stored(j)
  /\ phase' = [phase EXCEPT ![j] = "trailing"]
  /\ line' = Left(j)
  /\ UNCHANGED <<dirty, doc, snap, outer, server>>

RouteClears(j) ==
  /\ phase[j] = "trailing" /\ server # "exited"
  /\ dirty' = [dirty EXCEPT ![doc[j]] = FALSE]
  /\ Ends(j, line)
  /\ UNCHANGED <<mem, disk, goal, lost, raced>>

RouteTrailFails(j) ==
  /\ phase[j] = "trailing" /\ server # "exited"
  /\ Ends(j, line)
  /\ UNCHANGED <<mem, dirty, disk, goal, lost, raced>>

\* Faulty variant of WriteFails: the flag cleared in a finally.
WriteFailsClears(j) ==
  /\ phase[j] = "writing"
  /\ \E v \in {disk[doc[j]], snap[j]} : disk' = [disk EXCEPT ![doc[j]] = v]
  /\ lost' = IF j.kind = "stop" THEN lost \cup {doc[j]} ELSE lost
  /\ dirty' = [dirty EXCEPT ![doc[j]] = FALSE]
  /\ Ends(j, Left(j))
  /\ UNCHANGED <<mem, goal, raced>>

\* The query fails, or its answer is lost after it took effect: the persist
\* function throws, the mutex is released and the job is over.
WriteFails(j) ==
  /\ phase[j] = "writing"
  /\ \E v \in {disk[doc[j]], snap[j]} : disk' = [disk EXCEPT ![doc[j]] = v]
  /\ lost' = IF j.kind = "stop" THEN lost \cup {doc[j]} ELSE lost
  /\ Ends(j, Left(j))
  /\ UNCHANGED <<mem, dirty, goal, raced>>

\* pool.end() has waited for the queries that were running: process.exit.
Exit ==
  /\ server = "closing"
  /\ \A j \in Job : phase[j] # "writing"
  /\ server' = "exited"
  /\ UNCHANGED <<mem, dirty, disk, jobVars, goal, lost, raced>>

\* What the process may leave stored of a document when it dies now.
Outcomes(d) == {disk[d]} \cup {snap[j] : j \in {i \in Job : phase[i] = "writing" /\ doc[i] = d}}

\* The process dies, each running write having taken effect or not, and starts
\* again: loadState reads what is stored.  (Metadata it completes and cannot store
\* at once is a Change of the sites.)
Crash ==
  /\ \E D \in [Doc -> UNION {Outcomes(d) : d \in Doc}] :
       /\ \A d \in Doc : D[d] \in Outcomes(d)
       /\ disk' = D
       /\ mem' = D
  /\ goal' = [d \in Doc |-> 0]
  /\ dirty' = [d \in Doc |-> FALSE]
  /\ raced' = [d \in Doc |-> FALSE]
  /\ phase' = [j \in Job |-> "idle"]
  /\ doc' = [j \in Job |-> j.doc]
  /\ snap' = [j \in Job |-> 0]
  /\ line' = [d \in Locked |-> <<>>]
  /\ outer' = <<>>
  /\ server' = "up"
  /\ lost' = {}

Next == \/ \E d \in Doc : Change(d)
        \/ \E j \in Job : \/ LoopTick(j) \/ PatchFlush(j) \/ RouteWrites(j) \/ QuietWrites(j) \/ Signal(j)
                          \/ LoopFlush(j) \/ StartWrite(j) \/ FlushWritten(j) \/ WriteEnds(j)
                          \/ RouteTrails(j) \/ RouteClears(j) \/ RouteTrailFails(j)
                          \/ WriteFails(j)
        \/ Exit \/ Crash

Spec == Init /\ [][Next]_perVars

\* A write ends one way or the other: every query has a timeout (lib/storage.js:328).
WriteReturns(j) == FlushWritten(j) \/ WriteEnds(j) \/ RouteTrails(j) \/ WriteFails(j)

\* Promises and intervals run, queries return, and Postgres does not refuse for ever
\* the document an interval is there for.
Fairness ==
  /\ \A j \in Job : /\ WF_perVars(StartWrite(j)) /\ WF_perVars(WriteReturns(j))
                    /\ WF_perVars(RouteClears(j) \/ RouteTrailFails(j))
  /\ \A j \in {i \in Job : i.kind = "loop"} :
       /\ WF_perVars(LoopTick(j)) /\ WF_perVars(LoopFlush(j))
       /\ SF_perVars(doc[j] = j.doc /\ FlushWritten(j))
  /\ WF_perVars(Exit)

FairSpec == Spec /\ Fairness

-------------------------------------------------------------------------------
TypeOK == /\ mem \in [Doc -> Nat]
          /\ dirty \in [Doc -> BOOLEAN]
          /\ disk \in [Doc -> Nat]
          /\ phase \in [Job -> Phase]
          /\ doc \in [Job -> Doc]
          /\ snap \in [Job -> Nat]
          /\ line \in [Locked -> Seq(Job)]
          /\ outer \in Seq(Job)
          /\ server \in {"up", "closing", "exited"}
          /\ goal \in [Doc -> Nat]
          /\ lost \in SUBSET Doc
          /\ raced \in [Doc -> BOOLEAN]

\* A stored document never goes back: of two jobs that write the sites, or the
\* events, the later one always has the later contents, whoever started them and
\* whatever fails or crashes (lib/sites.js:334, lib/events.js:47).
LockedDocsAdvance == [][\A d \in Locked : disk'[d] >= disk[d]]_perVars

\* A clean flag means that the document is stored, but for two gaps: it changed
\* behind the back of a job that then cleared the flag, or retention or a purge cut
\* it, which raises no flag.  No failed write and no skipped stage leaves a change
\* behind otherwise (lib/sites.js:552, lib/health.js:357).
CleanUnlessRaced == \A d \in Locked : ~dirty[d] /\ disk[d] # mem[d] => raced[d]

\* A shutdown whose writes succeed stores every change made to the sites and the
\* events before the signal, whatever other writes were under way (server.js:865).
ExitStores == server = "exited" /\ lost = {} => \A d \in Locked : disk[d] >= goal[d]

\* Neither a clean flag nor an orderly exit hides a change that is not stored
\* (lib/sites.js:552, server.js:865).
StateSafety == CleanUnlessRaced /\ ExitStores

\* A dirty document does not stay dirty while the server runs: a flush gets through
\* both levels of mutexes, and no failed job keeps one (server.js:839).
DirtyIsFlushed == \A d \in Doc : dirty[d] ~> ~dirty[d] \/ server # "up"

\* "Write serialization via `AsyncMutex` on persist loop prevents concurrent state
\* corruption" (README.md:86), said of every document the loop writes.
AllDocsAdvance == [][\A d \in Doc : disk'[d] >= disk[d]]_perVars

-------------------------------------------------------------------------------
(* Proofs: what is stored of the sites and of the events never goes back,  *)
(* and a clean flag means that the document is stored but for the two gaps *)
(* that `raced` records.                                                   *)

\* L is the line of a mutex, A the jobs that hold it or wait for it, W those that
\* write, S the versions held, lo what is stored and hi what is in memory.  The
\* versions grow along the line, between what is stored and what is in memory, and
\* a purge, which will not see later changes, holds more than all before it.
LineOK(L, A, W, S, lo, hi) ==
  /\ L \in Seq(Job) /\ S \in [Job -> Nat] /\ lo \in Nat /\ hi \in Nat
  /\ A = {L[i] : i \in DOMAIN L}
  /\ \A i, k \in DOMAIN L : L[i] = L[k] => i = k
  /\ \A j \in W : L # <<>> /\ L[1] = j
  /\ lo <= hi
  /\ \A i \in DOMAIN L : lo <= S[L[i]] /\ S[L[i]] <= hi
  /\ \A i, k \in DOMAIN L : i < k => /\ S[L[i]] <= S[L[k]]
                                     /\ L[k].kind = "purge" => S[L[i]] < S[L[k]]

In(d) == {j \in Job : doc[j] = d /\ phase[j] \in {"queued", "writing"}}
Writing(d) == {j \in Job : doc[j] = d /\ phase[j] = "writing"}

DocTypes == /\ mem \in [Doc -> Nat]
            /\ dirty \in [Doc -> BOOLEAN]
            /\ disk \in [Doc -> Nat]
            /\ goal \in [Doc -> Nat]
            /\ lost \in SUBSET Doc
            /\ raced \in [Doc -> BOOLEAN]

JobTypes == /\ phase \in [Job -> Phase]
            /\ \A j \in Job : /\ phase[j] = "outer" => j.kind = "loop"
                              /\ phase[j] = "trailing" => j.kind \in Trails
            /\ doc \in [Job -> Doc]
            /\ snap \in [Job -> Nat]
            /\ line \in [Locked -> Seq(Job)]
            /\ server \in {"up", "closing", "exited"}

Types == DocTypes /\ JobTypes

Lines == \A d \in Locked : LineOK(line[d], In(d), Writing(d), snap, disk[d], mem[d])

\* Who clears a flag has stored what it held, and what changed since is on record.
Pending == \A j \in Job :
             doc[j] \in Locked /\ j.kind \notin Quiet =>
               /\ phase[j] = "trailing" => snap[j] <= disk[doc[j]]
               /\ phase[j] \in {"queued", "writing", "trailing"} /\ snap[j] # mem[doc[j]]
                    => raced[doc[j]] \/ disk[doc[j]] = mem[doc[j]]

Clearing == CleanUnlessRaced /\ Pending

\* What the shutdown has stored when it comes to a document, and when it is over.
Stopping ==
  /\ \A d \in Doc : goal[d] <= mem[d]
  /\ \A j \in Job : j.kind = "stop" /\ phase[j] # "idle" =>
       /\ server = "up" /\ lost = {} /\ phase[j] \in {"queued", "writing"}
       /\ goal[doc[j]] <= snap[j]
       /\ \A d \in Locked : doc[j] \in Later(d) => goal[d] <= disk[d]
  /\ server # "up" /\ lost = {} => \A d \in Locked : goal[d] <= disk[d]

\* persistMutex: each interval that is under way stands once in its line, and one that
\* is past waiting stands first.
Loops == /\ outer \in Seq(Job)
         /\ \A i, k \in DOMAIN outer : outer[i] = outer[k] => i = k
         /\ {outer[i] : i \in DOMAIN outer} = {j \in Job : j.kind = "loop" /\ phase[j] # "idle"}
         /\ \A j \in Job : j.kind = "loop" /\ phase[j] \notin {"idle", "outer"}
              => outer # <<>> /\ outer[1] = j

IInv == Types /\ Lines /\ Loops /\ Clearing /\ Stopping

-------------------------------------------------------------------------------
\* A version in memory may grow, jobs may stop writing, and what others hold is free.
LEMMA LineFrame ==
  ASSUME NEW L, NEW A, NEW W, NEW S, NEW lo, NEW hi, LineOK(L, A, W, S, lo, hi),
         NEW V \in SUBSET W, NEW T \in [Job -> Nat], \A j \in A : T[j] = S[j],
         NEW h \in Nat, hi <= h
  PROVE  LineOK(L, A, V, T, lo, h)
<1>1. /\ L \in Seq(Job) /\ lo \in Nat /\ hi \in Nat /\ lo <= hi
      /\ \A i \in DOMAIN L : L[i] \in A /\ T[L[i]] = S[L[i]]
  BY DEF LineOK
<1>2. \A i \in DOMAIN L : T[L[i]] \in Nat /\ lo <= T[L[i]] /\ T[L[i]] <= h
  BY <1>1 DEF LineOK
<1> QED BY <1>1, <1>2 DEF LineOK

\* The head of the line may start to write.
LEMMA LineStart ==
  ASSUME NEW L, NEW A, NEW W, NEW S, NEW lo, NEW hi, LineOK(L, A, W, S, lo, hi),
         L # <<>>
  PROVE  LineOK(L, A, W \cup {L[1]}, S, lo, hi)
BY DEF LineOK

\* A job joins at the end with the latest contents.
LEMMA LineJoin ==
  ASSUME NEW L, NEW A, NEW W, NEW S, NEW lo, NEW hi, LineOK(L, A, W, S, lo, hi),
         NEW j \in Job, j \notin A, NEW h \in Nat, hi <= h, j.kind = "purge" => hi < h,
         NEW B, B = A \cup {j}
  PROVE  LineOK(Append(L, j), B, W, [S EXCEPT ![j] = h], lo, h)
<1> DEFINE M == Append(L, j)
           T == [S EXCEPT ![j] = h]
<1>1. /\ L \in Seq(Job) /\ S \in [Job -> Nat] /\ lo \in Nat /\ hi \in Nat /\ lo <= hi
      /\ A = {L[i] : i \in DOMAIN L}
  BY DEF LineOK
<1>2. /\ M \in Seq(Job) /\ Len(M) = Len(L) + 1 /\ DOMAIN M = 1..(Len(L) + 1)
      /\ DOMAIN L = 1..Len(L) /\ Len(L) \in Nat
      /\ \A i \in DOMAIN L : i \in DOMAIN M /\ M[i] = L[i]
      /\ M[Len(L) + 1] = j
  BY <1>1
<1>3. T \in [Job -> Nat] /\ T[j] = h /\ \A i \in DOMAIN L : T[L[i]] = S[L[i]] /\ S[L[i]] \in Nat
  <2>1. \A i \in DOMAIN L : L[i] \in Job /\ L[i] # j
    BY <1>1, <1>2
  <2> QED BY <1>1, <2>1
<1>4. \A i \in DOMAIN M : i \in DOMAIN L \/ i = Len(L) + 1
  BY <1>2
<1>5. B = {M[i] : i \in DOMAIN M}
  BY <1>1, <1>2, <1>4
<1>6. \A i, k \in DOMAIN M : M[i] = M[k] => i = k
  <2>1. \A i \in DOMAIN L : M[i] # j
    BY <1>1, <1>2
  <2>2. \A i, k \in DOMAIN L : M[i] = M[k] => i = k
    BY <1>2 DEF LineOK
  <2> QED BY <1>2, <1>4, <2>1, <2>2
<1>7. \A w \in W : M # <<>> /\ M[1] = w
  <2> SUFFICES ASSUME NEW w \in W PROVE M # <<>> /\ M[1] = w
    OBVIOUS
  <2>1. L # <<>> /\ L[1] = w
    BY DEF LineOK
  <2>2. 1 \in DOMAIN L
    BY <1>1, <1>2, <2>1
  <2> QED BY <1>2, <2>1, <2>2
<1>8. \A i \in DOMAIN M : lo <= T[M[i]] /\ T[M[i]] <= h
  <2>1. \A i \in DOMAIN L : lo <= S[L[i]] /\ S[L[i]] <= hi
    BY DEF LineOK
  <2> QED BY <1>1, <1>2, <1>3, <1>4, <2>1
<1>9. ASSUME NEW i \in DOMAIN M, NEW k \in DOMAIN M, i < k
      PROVE  T[M[i]] <= T[M[k]] /\ (M[k].kind = "purge" => T[M[i]] < T[M[k]])
  <2>1. i \in DOMAIN L
    BY <1>2, <1>9
  <2>2. CASE k \in DOMAIN L
    <3>1. S[L[i]] <= S[L[k]] /\ (L[k].kind = "purge" => S[L[i]] < S[L[k]])
      BY <1>9, <2>1, <2>2 DEF LineOK
    <3> QED BY <1>2, <1>3, <2>1, <2>2, <3>1
  <2>3. CASE k = Len(L) + 1
    <3>1. S[L[i]] <= hi
      BY <2>1 DEF LineOK
    <3> QED BY <1>1, <1>2, <1>3, <2>1, <2>3, <3>1
  <2> QED BY <1>4, <2>2, <2>3
<1> QED BY <1>1, <1>2, <1>3, <1>5, <1>6, <1>7, <1>8, <1>9, SMTT(30) DEF LineOK

\* The head leaves the line, its write having taken effect or not.
LEMMA LineLeave ==
  ASSUME NEW L, NEW A, NEW W, NEW S, NEW lo, NEW hi, LineOK(L, A, W, S, lo, hi),
         L # <<>>, NEW v \in {lo, S[L[1]]}, NEW B, B = A \ {L[1]}, NEW V, V = {}
  PROVE  LineOK(Tail(L), B, V, S, v, hi)
<1> DEFINE M == Tail(L)
<1>1. /\ L \in Seq(Job) /\ S \in [Job -> Nat] /\ lo \in Nat /\ hi \in Nat
      /\ A = {L[i] : i \in DOMAIN L}
  BY DEF LineOK
<1>2. /\ M \in Seq(Job) /\ DOMAIN L = 1..Len(L) /\ DOMAIN M = 1..(Len(L) - 1)
      /\ Len(L) \in Nat \ {0} /\ 1 \in DOMAIN L
      /\ \A i \in DOMAIN M : i + 1 \in DOMAIN L /\ M[i] = L[i + 1]
  BY <1>1
<1>3. \A i, k \in DOMAIN L : L[i] = L[k] => i = k
  BY DEF LineOK
<1>4. B = {M[i] : i \in DOMAIN M}
  <2>1. \A i \in DOMAIN M : M[i] \in A /\ M[i] # L[1]
    BY <1>1, <1>2, <1>3
  <2>2. \A a \in A : a # L[1] => \E i \in DOMAIN M : a = M[i]
    <3> SUFFICES ASSUME NEW i \in DOMAIN L, L[i] # L[1] PROVE \E k \in DOMAIN M : L[i] = M[k]
      BY <1>1
    <3>1. i - 1 \in DOMAIN M /\ M[i - 1] = L[i]
      BY <1>2
    <3> QED BY <3>1
  <2> QED BY <2>1, <2>2
<1>5. \A i, k \in DOMAIN M : M[i] = M[k] => i = k
  BY <1>2, <1>3
<1>6. \A i \in DOMAIN L : S[L[i]] \in Nat /\ lo <= S[L[i]] /\ S[L[i]] <= hi
  BY <1>1, <1>2 DEF LineOK
<1>7. \A i, k \in DOMAIN L : i < k => /\ S[L[i]] <= S[L[k]]
                                      /\ L[k].kind = "purge" => S[L[i]] < S[L[k]]
  BY DEF LineOK
<1>8. v \in Nat /\ v <= hi /\ v <= S[L[1]]
  BY <1>1, <1>2, <1>6 DEF LineOK
<1>9. \A i \in DOMAIN M : v <= S[M[i]] /\ S[M[i]] <= hi
  <2> TAKE i \in DOMAIN M
  <2>1. S[L[1]] <= S[L[i + 1]]
    BY <1>2, <1>7
  <2> QED BY <1>1, <1>2, <1>6, <1>8, <2>1
<1>10. \A i, k \in DOMAIN M : i < k => /\ S[M[i]] <= S[M[k]]
                                       /\ M[k].kind = "purge" => S[M[i]] < S[M[k]]
  <2> SUFFICES ASSUME NEW i \in DOMAIN M, NEW k \in DOMAIN M, i < k
               PROVE  S[M[i]] <= S[M[k]] /\ (M[k].kind = "purge" => S[M[i]] < S[M[k]])
    OBVIOUS
  <2>1. i + 1 < k + 1 /\ i + 1 \in DOMAIN L /\ k + 1 \in DOMAIN L
    BY <1>2
  <2> QED BY <1>2, <1>7, <2>1
<1> QED BY <1>1, <1>2, <1>4, <1>5, <1>8, <1>9, <1>10 DEF LineOK

\* A change in place: the jobs that wait with the array that changes hold the change.
LEMMA LineRaise ==
  ASSUME NEW L, NEW A, NEW W, NEW S, NEW lo, NEW hi, LineOK(L, A, W, S, lo, hi),
         NEW T \in [Job -> Nat],
         \A j \in A : T[j] = IF j \notin W /\ S[j] = hi /\ j.kind # "purge"
                             THEN hi + 1 ELSE S[j]
  PROVE  LineOK(L, A, W, T, lo, hi + 1)
<1>1. /\ L \in Seq(Job) /\ S \in [Job -> Nat] /\ lo \in Nat /\ hi \in Nat /\ lo <= hi
      /\ A = {L[i] : i \in DOMAIN L}
      /\ DOMAIN L = 1..Len(L) /\ Len(L) \in Nat
  BY DEF LineOK
<1>2. \A i \in DOMAIN L : /\ L[i] \in A /\ S[L[i]] \in Nat /\ T[L[i]] \in Nat
                          /\ lo <= S[L[i]] /\ S[L[i]] <= hi
  BY <1>1 DEF LineOK
<1>5. \A i \in DOMAIN L :
        \/ L[i] \notin W /\ S[L[i]] = hi /\ L[i].kind # "purge" /\ T[L[i]] = hi + 1
        \/ (L[i] \in W \/ S[L[i]] # hi \/ L[i].kind = "purge") /\ T[L[i]] = S[L[i]]
  BY <1>2
<1>3. ASSUME NEW i \in DOMAIN L PROVE lo <= T[L[i]] /\ T[L[i]] <= hi + 1
  <2>1. T[L[i]] = S[L[i]] \/ T[L[i]] = hi + 1
    BY <1>5
  <2>2. S[L[i]] \in Nat /\ lo <= S[L[i]] /\ S[L[i]] <= hi
    BY <1>2
  <2> QED BY <1>1, <2>1, <2>2
<1>4. ASSUME NEW i \in DOMAIN L, NEW k \in DOMAIN L, i < k
      PROVE  T[L[i]] <= T[L[k]] /\ (L[k].kind = "purge" => T[L[i]] < T[L[k]])
  <2>1. S[L[i]] <= S[L[k]] /\ (L[k].kind = "purge" => S[L[i]] < S[L[k]])
    BY <1>4 DEF LineOK
  <2>2. L[k] \notin W
    <3> SUFFICES ASSUME L[k] \in W PROVE FALSE
      OBVIOUS
    <3>1. L[1] = L[k] /\ 1 \in DOMAIN L
      BY <1>1 DEF LineOK
    <3>2. k = 1
      BY <3>1 DEF LineOK
    <3> QED BY <1>1, <1>4, <3>2
  <2>3. /\ S[L[i]] \in Nat /\ S[L[k]] \in Nat /\ S[L[i]] <= hi /\ S[L[k]] <= hi
    BY <1>2
  <2>4. CASE L[i] \notin W /\ S[L[i]] = hi /\ L[i].kind # "purge" /\ T[L[i]] = hi + 1
    <3>1. S[L[k]] = hi /\ L[k].kind # "purge"
      BY <1>1, <2>1, <2>3, <2>4
    <3>2. T[L[k]] = hi + 1
      BY <1>5, <2>2, <3>1
    <3> QED BY <1>1, <2>4, <3>1, <3>2
  <2>5. CASE T[L[i]] = S[L[i]]
    <3>1. CASE T[L[k]] = S[L[k]]
      BY <2>1, <2>5, <3>1
    <3>2. CASE T[L[k]] = hi + 1 /\ L[k].kind # "purge"
      BY <1>1, <2>3, <2>5, <3>2
    <3> QED BY <1>5, <3>1, <3>2
  <2> QED BY <1>5, <2>4, <2>5
<1> QED BY <1>1, <1>3, <1>4 DEF LineOK

-------------------------------------------------------------------------------
OthersIn(j, d) == In(d) \ {j}
OthersWriting(j, d) == Writing(d) \ {j}

\* Locked documents are documents, and a job's own document is one.
LEMMA DocFacts == Locked \subseteq Doc /\ \A j \in Job : j.doc \in Doc
BY JobAssumption DEF Locked, Doc

\* The first of some documents is one of them.
LEMMA FirstFact == ASSUME NEW D \in SUBSET Doc, D # {} PROVE FirstOf(D) \in D
<1>1. \E d \in D : D \subseteq Later(d) \cup {d}
  <2>1. CASE "sites" \in D
    BY <2>1 DEF Doc, Later
  <2>2. CASE "sites" \notin D /\ "events" \in D
    BY <2>2 DEF Doc, Later
  <2>3. CASE "sites" \notin D /\ "events" \notin D
    BY <2>3 DEF Doc, Later
  <2> QED BY <2>1, <2>2, <2>3
<1> QED BY <1>1 DEF FirstOf

\* The lines when job j has left that of the document it wrote, whether its write
\* took effect or not.  What is stored has not gone back.
LEMMA LeftLines ==
  ASSUME Types, Lines, NEW j \in Job, phase[j] = "writing",
         NEW v \in {disk[doc[j]], snap[j]}, disk' = [disk EXCEPT ![doc[j]] = v]
  PROVE  /\ Left(j) \in [Locked -> Seq(Job)]
         /\ disk' \in [Doc -> Nat]
         /\ \A d \in Locked :
              /\ LineOK(Left(j)[d], OthersIn(j, d), OthersWriting(j, d), snap, disk'[d], mem[d])
              /\ disk'[d] >= disk[d]
<1> USE DEF Types, DocTypes, JobTypes
<1>1. Locked \subseteq Doc /\ doc[j] \in Doc /\ v \in Nat /\ disk' \in [Doc -> Nat]
  BY DocFacts
<1>2. ASSUME NEW d \in Locked, d # doc[j]
      PROVE  /\ Left(j)[d] = line[d] /\ disk'[d] = disk[d]
             /\ OthersIn(j, d) = In(d) /\ OthersWriting(j, d) = Writing(d)
  BY <1>1, <1>2 DEF Left, In, Writing, OthersIn, OthersWriting
<1>3. ASSUME doc[j] \in Locked
      PROVE  LET d == doc[j] IN
             /\ line[d] # <<>> /\ line[d][1] = j /\ OthersWriting(j, d) = {}
             /\ LineOK(line[d], In(d), Writing(d), snap, disk[d], mem[d])
             /\ disk[d] <= snap[j]
  <2> DEFINE d == doc[j]
  <2>1. LineOK(line[d], In(d), Writing(d), snap, disk[d], mem[d]) /\ j \in Writing(d)
    BY <1>3 DEF Lines, Writing
  <2>2. line[d] # <<>> /\ line[d][1] = j /\ \A w \in Writing(d) : w = j
    BY <2>1 DEF LineOK
  <2>3. 1 \in DOMAIN line[d]
    BY <1>3, <2>2
  <2>4. disk[d] <= snap[j]
    BY <2>1, <2>2, <2>3 DEF LineOK
  <2>5. OthersWriting(j, d) = {}
    BY <2>2 DEF OthersWriting
  <2> QED BY <2>1, <2>2, <2>4, <2>5
<1>4. ASSUME doc[j] \in Locked
      PROVE  LET d == doc[j] IN
             LineOK(Left(j)[d], OthersIn(j, d), OthersWriting(j, d), snap, disk'[d], mem[d])
  <2> DEFINE d == doc[j]
  <2>0. OthersIn(j, d) = In(d) \ {line[d][1]} /\ v \in {disk[d], snap[line[d][1]]}
    BY <1>3, <1>4 DEF OthersIn
  <2>3. /\ line[d] # <<>> /\ OthersWriting(j, d) = {}
        /\ LineOK(line[d], In(d), Writing(d), snap, disk[d], mem[d])
    BY <1>3, <1>4
  <2>1. LineOK(Tail(line[d]), OthersIn(j, d), OthersWriting(j, d), snap, v, mem[d])
    BY ONLY <2>0, <2>3, LineLeave, ZenonT(60)
  <2>2. Left(j)[d] = Tail(line[d]) /\ disk'[d] = v
    BY <1>1, <1>4 DEF Left
  <2> QED BY <1>3, <1>4, <2>1, <2>2
<1>5. ASSUME NEW d \in Locked
      PROVE  /\ LineOK(Left(j)[d], OthersIn(j, d), OthersWriting(j, d), snap, disk'[d], mem[d])
             /\ disk'[d] >= disk[d]
  <2>1. CASE d = doc[j]
    <3>1. disk'[d] \in {disk[d], snap[j]} /\ disk[d] \in Nat /\ snap[j] \in Nat
      BY <1>1, <2>1
    <3> QED BY <1>3, <1>4, <2>1, <3>1
  <2>2. CASE d # doc[j]
    <3>1. LineOK(line[d], In(d), Writing(d), snap, disk[d], mem[d]) /\ disk[d] \in Nat
      BY <1>1 DEF Lines
    <3> QED BY <1>2, <2>2, <3>1
  <2> QED BY <2>1, <2>2
<1>6. Left(j) \in [Locked -> Seq(Job)]
  <2>1. CASE doc[j] \in Locked
    <3>1. Tail(line[doc[j]]) \in Seq(Job)
      BY <1>3, <2>1
    <3> QED BY <2>1, <3>1 DEF Left
  <2>2. CASE doc[j] \notin Locked
    BY <2>2 DEF Left
  <2> QED BY <2>1, <2>2
<1> QED BY <1>1, <1>5, <1>6

\* The hypothesis of the next lemmas: the lines L without job j, for the versions S
\* held and H in memory.
Without(j, L, S, H) ==
  /\ L \in [Locked -> Seq(Job)] /\ S \in [Job -> Nat] /\ H \in [Doc -> Nat]
  /\ disk' \in [Doc -> Nat]
  /\ \A d \in Locked : LineOK(L[d], OthersIn(j, d), OthersWriting(j, d), S, disk'[d], H[d])

\* A job that is over leaves the lines in order.
LEMMA EndsLines ==
  ASSUME JobTypes, NEW j \in Job, NEW L, Without(j, L, snap, mem), Ends(j, L), mem' = mem
  PROVE  JobTypes' /\ Lines'
<1> USE DEF JobTypes, Without
<1>1. JobTypes'
  BY DocFacts DEF Ends, Phase
<1>2. ASSUME NEW d \in Locked
      PROVE  LineOK(line[d], In(d), Writing(d), snap, disk[d], mem[d])'
  <2>1. In(d)' = OthersIn(j, d) /\ Writing(d)' = OthersWriting(j, d) /\ line'[d] = L[d]
    BY DEF Ends, In, Writing, OthersIn, OthersWriting
  <2>2. \A i \in OthersIn(j, d) : snap'[i] = snap[i]
    BY DEF Ends, In, OthersIn
  <2>3. LineOK(L[d], OthersIn(j, d), OthersWriting(j, d), snap, disk'[d], mem[d]) /\ mem[d] \in Nat
    BY DocFacts
  <2>4. snap' \in [Job -> Nat]
    BY <1>1
  <2>5. LineOK(L[d], OthersIn(j, d), OthersWriting(j, d), snap', disk'[d], mem[d])
    BY ONLY <2>2, <2>3, <2>4, LineFrame
  <2> QED BY <2>1, <2>5
<1> QED BY <1>1, <1>2 DEF Lines

\* So does a job that joins the line of e with the contents in memory.
LEMMA PersistLines ==
  ASSUME JobTypes, NEW j \in Job, NEW e \in Doc, NEW L, NEW S, NEW H,
         Without(j, L, S, H), Persist(j, e, L, S), UNCHANGED server, mem' \in [Doc -> Nat],
         \A d \in Doc : H[d] <= mem'[d], j.kind = "purge" => H[e] < mem'[e]
  PROVE  JobTypes' /\ Lines'
<1> USE DEF JobTypes, Without
<1>1. JobTypes'
  <2>1. phase' \in [Job -> Phase]
    BY DEF Persist, Phase
  <2>2. line' \in [Locked -> Seq(Job)]
    <3>1. CASE e \in Locked
      <4>1. Append(L[e], j) \in Seq(Job)
        BY <3>1
      <4> QED BY <3>1, <4>1 DEF Persist
    <3>2. CASE e \notin Locked
      BY <3>2 DEF Persist
    <3> QED BY <3>1, <3>2
  <2> QED BY <2>1, <2>2 DEF Persist
<1>2. ASSUME NEW d \in Locked
      PROVE  LineOK(line[d], In(d), Writing(d), snap, disk[d], mem[d])'
  <2>1. LineOK(L[d], OthersIn(j, d), OthersWriting(j, d), S, disk'[d], H[d])
        /\ H[d] \in Nat /\ mem'[d] \in Nat /\ H[d] <= mem'[d]
    BY DocFacts
  <2>2. CASE d = e
    <3>1. line'[d] = Append(L[d], j) /\ In(d)' = OthersIn(j, d) \cup {j}
          /\ Writing(d)' = OthersWriting(j, d) /\ snap' = [S EXCEPT ![j] = mem'[d]]
      BY <2>2 DEF Persist, In, Writing, OthersIn, OthersWriting
    <3>2. /\ j \in Job /\ j \notin OthersIn(j, d)
          /\ j.kind = "purge" => H[d] < mem'[d]
      BY <2>2 DEF OthersIn
    <3>3. LineOK(Append(L[d], j), In(d)', OthersWriting(j, d), snap', disk'[d], mem'[d])
      BY ONLY <2>1, <3>1, <3>2, LineJoin
    <3> QED BY <3>1, <3>3
  <2>3. CASE d # e
    <3>1. line'[d] = L[d] /\ In(d)' = OthersIn(j, d) /\ Writing(d)' = OthersWriting(j, d)
      BY <2>3 DEF Persist, In, Writing, OthersIn, OthersWriting
    <3>2. snap' \in [Job -> Nat] /\ \A i \in OthersIn(j, d) : snap'[i] = S[i]
      BY <1>1 DEF Persist, In, OthersIn
    <3>3. LineOK(L[d], OthersIn(j, d), OthersWriting(j, d), snap', disk'[d], mem'[d])
      BY ONLY <2>1, <3>2, LineFrame
    <3> QED BY <3>1, <3>3
  <2> QED BY <2>2, <2>3
<1> QED BY <1>1, <1>2 DEF Lines

\* And so does a flush that goes on, whatever it comes to next.
LEMMA ProceedLines ==
  ASSUME JobTypes, NEW j \in Job, j.kind \in Flushes, NEW D \in SUBSET Doc, NEW L,
         Without(j, L, snap, mem), Proceed(j, D, L), mem' = mem
  PROVE  JobTypes' /\ Lines'
<1> DEFINE Needed == {d \in D : d \in Forced(j) \/ dirty'[d]}
<1>1. CASE Needed = {} \/ server # "up"
  <2>1. Ends(j, L)
    BY <1>1 DEF Proceed
  <2> QED BY <2>1, EndsLines
<1>2. CASE Needed # {} /\ server = "up"
  <2>1. Persist(j, FirstOf(Needed), L, snap) /\ UNCHANGED server
    BY <1>2 DEF Proceed
  <2>2. FirstOf(Needed) \in Doc
    BY <1>2, FirstFact
  <2>3. mem' \in [Doc -> Nat] /\ \A d \in Doc : mem[d] <= mem'[d]
    BY DEF Without
  <2>4. j.kind # "purge"
    BY DEF Flushes
  <2> QED BY <2>1, <2>2, <2>3, <2>4, PersistLines
<1> QED BY <1>1, <1>2

\* A job that stands in no line may be left out.
LEMMA OutLines ==
  ASSUME NEW j \in Job, phase[j] \notin {"queued", "writing"}, line \in [Locked -> Seq(Job)],
         NEW S \in [Job -> Nat], NEW H \in [Doc -> Nat], disk \in [Doc -> Nat], disk' = disk,
         \A d \in Locked : LineOK(line[d], In(d), Writing(d), S, disk[d], H[d])
  PROVE  Without(j, line, S, H)
<1>1. \A d \in Locked : OthersIn(j, d) = In(d) /\ OthersWriting(j, d) = Writing(d)
  BY DEF OthersIn, OthersWriting, In, Writing
<1> QED BY <1>1 DEF Without

\* So may the job whose write is over.
LEMMA WriterOut ==
  ASSUME Types, Lines, NEW j \in Job, phase[j] = "writing",
         NEW v \in {disk[doc[j]], snap[j]}, disk' = [disk EXCEPT ![doc[j]] = v]
  PROVE  /\ Without(j, Left(j), snap, mem)
         /\ \A d \in Locked : disk'[d] >= disk[d]
BY LeftLines DEF Without, Types, DocTypes, JobTypes

\* The lines after a change in place.
LEMMA RaisedLines ==
  ASSUME Types, Lines, NEW e \in Doc, mem' = [mem EXCEPT ![e] = @ + 1]
  PROVE  /\ mem' \in [Doc -> Nat] /\ Seen(e) \in [Job -> Nat]
         /\ \A d \in Locked : LineOK(line[d], In(d), Writing(d), Seen(e), disk[d], mem'[d])
<1>1. mem' \in [Doc -> Nat] /\ mem'[e] = mem[e] + 1 /\ mem[e] \in Nat
  BY DEF Types, DocTypes
<1>2. Seen(e) \in [Job -> Nat]
  BY <1>1 DEF Seen, Types, JobTypes
<1>3. ASSUME NEW d \in Locked
      PROVE  LineOK(line[d], In(d), Writing(d), Seen(e), disk[d], mem'[d])
  <2>1. LineOK(line[d], In(d), Writing(d), snap, disk[d], mem[d])
    BY DEF Lines
  <2>2. CASE d = e
    <3>1. \A i \in In(d) : Seen(e)[i] = IF i \notin Writing(d) /\ snap[i] = mem[d]
                                           /\ i.kind # "purge"
                                        THEN mem[d] + 1 ELSE snap[i]
      BY <1>1, <2>2 DEF Seen, In, Writing
    <3>2. LineOK(line[d], In(d), Writing(d), Seen(e), disk[d], mem[d] + 1)
      BY ONLY <1>2, <2>1, <3>1, LineRaise
    <3> QED BY <1>1, <2>2, <3>2
  <2>3. CASE d # e
    <3>1. \A i \in In(d) : Seen(e)[i] = snap[i]
      BY <2>3 DEF Seen, In
    <3>2. mem'[d] = mem[d] /\ mem[d] \in Nat /\ mem[d] <= mem[d]
      BY <2>3, DocFacts DEF Types, DocTypes
    <3>3. LineOK(line[d], In(d), Writing(d), Seen(e), disk[d], mem[d])
      BY ONLY <1>2, <2>1, <3>1, <3>2, LineFrame
    <3> QED BY <3>2, <3>3
  <2> QED BY <2>2, <2>3
<1> QED BY <1>1, <1>2, <1>3

-------------------------------------------------------------------------------
LEMMA LinesInit == Init => Types /\ Lines
<1> SUFFICES ASSUME Init PROVE Types /\ Lines
  OBVIOUS
<1>1. Types
  BY DocFacts DEF Init, Types, DocTypes, JobTypes, Phase
<1>2. ASSUME NEW d \in Locked
      PROVE  LineOK(line[d], In(d), Writing(d), snap, disk[d], mem[d])
  <2>1. line[d] = <<>> /\ In(d) = {} /\ Writing(d) = {}
    BY DEF Init, In, Writing
  <2>2. disk[d] = 0 /\ mem[d] = 0 /\ snap \in [Job -> Nat]
    BY DocFacts DEF Init
  <2> QED BY <2>1, <2>2 DEF LineOK
<1> QED BY <1>1, <1>2 DEF Lines

LEMMA DocTypesStep == Types /\ Lines /\ [Next]_perVars => DocTypes'
<1> SUFFICES ASSUME Types, Lines, [Next]_perVars PROVE DocTypes'
  OBVIOUS
<1> USE DocFacts DEF Types, DocTypes, JobTypes
<1>1. ASSUME NEW d \in Doc, Change(d) PROVE DocTypes'
  BY <1>1 DEF Change, Modified
<1>2. ASSUME NEW j \in Job, LoopTick(j) \/ LoopFlush(j) \/ PatchFlush(j) \/ StartWrite(j)
                            \/ RouteTrailFails(j)
      PROVE  DocTypes'
  BY <1>2 DEF LoopTick, LoopFlush, PatchFlush, StartWrite, RouteTrailFails
<1>3. ASSUME NEW j \in Job, RouteWrites(j) PROVE DocTypes'
  BY <1>3 DEF RouteWrites, Modified
<1>4. ASSUME NEW j \in Job, QuietWrites(j) PROVE DocTypes'
  BY <1>4 DEF QuietWrites, Modified
<1>5. ASSUME NEW j \in Job, Signal(j) PROVE DocTypes'
  BY <1>5 DEF Signal
<1>6. ASSUME NEW j \in Job, FlushWritten(j) \/ WriteEnds(j) \/ RouteTrails(j)
      PROVE  DocTypes'
  <2>1. Stored(j) /\ dirty' \in [Doc -> BOOLEAN]
    BY <1>6 DEF FlushWritten, WriteEnds, RouteTrails
  <2> QED BY <2>1 DEF Stored
<1>7. ASSUME NEW j \in Job, RouteClears(j) PROVE DocTypes'
  BY <1>7 DEF RouteClears
<1>8. ASSUME NEW j \in Job, WriteFails(j) PROVE DocTypes'
  BY <1>8 DEF WriteFails
<1>9. CASE Exit
  BY <1>9 DEF Exit
<1>10. CASE Crash
  <2>1. \A d \in Doc : Outcomes(d) \subseteq Nat
    BY DEF Outcomes
  <2>2. PICK D \in [Doc -> UNION {Outcomes(d) : d \in Doc}] :
          (\A d \in Doc : D[d] \in Outcomes(d)) /\ disk' = D /\ mem' = D
    BY <1>10 DEF Crash
  <2>3. D \in [Doc -> Nat]
    BY <2>1, <2>2
  <2> QED BY <1>10, <2>2, <2>3 DEF Crash
<1>11. CASE UNCHANGED perVars
  BY <1>11 DEF perVars, jobVars
<1> QED BY <1>1, <1>2, <1>3, <1>4, <1>5, <1>6, <1>7, <1>8, <1>9, <1>10, <1>11 DEF Next

\* Nothing that the lines are about has changed.
LEMMA SameLines ==
  ASSUME Types, Lines, UNCHANGED <<mem, disk, doc, snap, line>>, phase' \in [Job -> Phase],
         server' \in {"up", "closing", "exited"},
         \A j \in Job : \/ phase'[j] = phase[j]
                        \/ {phase[j], phase'[j]} \cap {"queued", "writing"} = {},
         \A j \in Job : /\ phase'[j] = "outer" => j.kind = "loop"
                        /\ phase'[j] = "trailing" => j.kind \in Trails
  PROVE  JobTypes' /\ Lines'
<1>1. \A d \in Locked : In(d)' = In(d) /\ Writing(d)' = Writing(d)
  BY DEF In, Writing
<1>2. Lines'
  BY <1>1 DEF Lines
<1> QED BY <1>2 DEF Types, JobTypes

LEMMA LinesStep ==
  Types /\ Lines /\ [Next]_perVars
    => JobTypes' /\ Lines' /\ \A d \in Locked : disk'[d] >= disk[d]
<1> DEFINE Goal == JobTypes' /\ Lines' /\ \A d \in Locked : disk'[d] >= disk[d]
<1> SUFFICES ASSUME Types, Lines, [Next]_perVars PROVE Goal
  OBVIOUS
<1> USE DEF Types
<1>1. mem \in [Doc -> Nat] /\ disk \in [Doc -> Nat] /\ snap \in [Job -> Nat]
      /\ line \in [Locked -> Seq(Job)] /\ phase \in [Job -> Phase]
      /\ \A d \in Locked : LineOK(line[d], In(d), Writing(d), snap, disk[d], mem[d])
  BY DEF DocTypes, JobTypes, Lines
<1>2. disk' = disk => \A d \in Locked : disk'[d] >= disk[d]
  BY <1>1, DocFacts
<1>3. ASSUME NEW j \in Job, phase[j] \notin {"queued", "writing"}, disk' = disk
      PROVE  Without(j, line, snap, mem)
  BY <1>1, <1>3, OutLines
<1>4. ASSUME NEW d \in Doc, Change(d) PROVE Goal
  <2>1. mem' = [mem EXCEPT ![d] = @ + 1] /\ snap' = Seen(d)
        /\ UNCHANGED <<disk, phase, doc, line, server>>
    BY <1>4 DEF Change, Modified
  <2>2. /\ \A e \in Locked : LineOK(line[e], In(e), Writing(e), snap', disk[e], mem'[e])
        /\ snap' \in [Job -> Nat]
    BY <2>1, RaisedLines
  <2>3. Lines'
    BY <2>1, <2>2 DEF Lines, In, Writing
  <2> QED BY <1>2, <2>1, <2>2, <2>3 DEF JobTypes
<1>5. ASSUME NEW j \in Job, LoopTick(j) PROVE Goal
  <2>1. /\ phase' \in [Job -> Phase]
        /\ \A i \in Job : \/ phase'[i] = phase[i]
                          \/ {phase[i], phase'[i]} \cap {"queued", "writing"} = {}
        /\ \A i \in Job : /\ phase'[i] = "outer" => i.kind = "loop"
                          /\ phase'[i] = "trailing" => i.kind \in Trails
    BY <1>1, <1>5 DEF LoopTick, Phase, JobTypes
  <2>2. UNCHANGED <<mem, disk, doc, snap, line, server>>
    BY <1>5 DEF LoopTick
  <2> QED BY <1>2, <2>1, <2>2, SameLines DEF JobTypes
<1>6. ASSUME NEW j \in Job, LoopFlush(j) \/ PatchFlush(j) \/ Signal(j) PROVE Goal
  <2>1. j.kind \in Flushes
    BY <1>6 DEF LoopFlush, PatchFlush, Signal, Flushes, JobTypes
  <2>2. Proceed(j, Doc, line) /\ mem' = mem /\ disk' = disk
        /\ phase[j] \notin {"queued", "writing"}
    BY <1>6 DEF LoopFlush, PatchFlush, Signal
  <2>3. Without(j, line, snap, mem)
    BY <1>3, <2>2
  <2>4. JobTypes' /\ Lines'
    BY <2>1, <2>2, <2>3, ProceedLines
  <2> QED BY <1>2, <2>2, <2>4
<1>7. ASSUME NEW j \in Job, RouteWrites(j) PROVE Goal
  <2> DEFINE e == j.doc
             S == IF j.kind = "replace" THEN snap ELSE Seen(e)
             H == IF j.kind = "replace" THEN mem ELSE mem'
  <2>1. e \in Doc /\ mem' = [mem EXCEPT ![e] = @ + 1] /\ Persist(j, e, line, S)
        /\ UNCHANGED <<disk, server>> /\ phase[j] = "idle" /\ j.kind # "purge"
    BY <1>7, DocFacts DEF RouteWrites, Modified, Quiet
  <2>2. mem' \in [Doc -> Nat] /\ \A d \in Doc : mem[d] <= mem'[d] /\ mem'[d] <= mem'[d]
    BY <1>1, <2>1
  <2>3. Without(j, line, S, H)
    <3>1. CASE j.kind = "replace"
      BY <1>3, <2>1, <3>1
    <3>2. CASE j.kind # "replace"
      <4>1. /\ Seen(e) \in [Job -> Nat]
            /\ \A d \in Locked : LineOK(line[d], In(d), Writing(d), Seen(e), disk[d], mem'[d])
        BY <2>1, RaisedLines
      <4>2. Without(j, line, Seen(e), mem')
        BY <1>1, <2>1, <2>2, <4>1, OutLines
      <4> QED BY <3>2, <4>2
    <3> QED BY <3>1, <3>2
  <2>4. \A d \in Doc : H[d] <= mem'[d]
    BY <2>2
  <2>5. JobTypes' /\ Lines'
    <3> HIDE DEF S, H, e
    <3> QED BY <2>1, <2>2, <2>3, <2>4, PersistLines
  <2> QED BY <1>2, <2>1, <2>5
<1>8. ASSUME NEW j \in Job, QuietWrites(j) PROVE Goal
  <2>1. /\ j.doc \in Doc /\ mem' = [mem EXCEPT ![j.doc] = @ + 1]
        /\ Persist(j, j.doc, line, snap)
        /\ UNCHANGED <<disk, server>> /\ phase[j] = "idle"
    BY <1>8, DocFacts DEF QuietWrites, Modified
  <2>2. /\ mem' \in [Doc -> Nat] /\ mem[j.doc] < mem'[j.doc]
        /\ \A d \in Doc : mem[d] <= mem'[d]
    BY <1>1, <2>1
  <2>3. Without(j, line, snap, mem)
    BY <1>3, <2>1
  <2>4. JobTypes' /\ Lines'
    BY <2>1, <2>2, <2>3, PersistLines
  <2> QED BY <1>2, <2>1, <2>4
<1>9. ASSUME NEW j \in Job, StartWrite(j) PROVE Goal
  <2>1. /\ UNCHANGED <<mem, disk, doc, snap, line, server>>
        /\ phase[j] = "queued" /\ phase' = [phase EXCEPT ![j] = "writing"]
        /\ Head(line[doc[j]]) = j
    BY <1>9 DEF StartWrite
  <2>2. ASSUME NEW d \in Locked
        PROVE  LineOK(line[d], In(d)', Writing(d)', snap, disk[d], mem[d])
    <3>0. LineOK(line[d], In(d), Writing(d), snap, disk[d], mem[d])
      BY <1>1
    <3>1. In(d)' = In(d)
      BY <1>1, <2>1 DEF In
    <3>2. CASE doc[j] = d
      <4>1. j \in In(d) /\ Writing(d)' = Writing(d) \cup {j}
        BY <1>1, <2>1, <3>2 DEF In, Writing
      <4>2. line[d] # <<>> /\ line[d][1] = j
        BY <1>1, <2>1, <3>0, <3>2, <4>1 DEF LineOK
      <4>3. Writing(d)' = Writing(d) \cup {line[d][1]}
        BY <4>1, <4>2
      <4>4. LineOK(line[d], In(d), Writing(d) \cup {line[d][1]}, snap, disk[d], mem[d])
        BY ONLY <3>0, <4>2, LineStart
      <4> QED BY <3>1, <4>3, <4>4
    <3>3. CASE doc[j] # d
      <4>1. Writing(d)' = Writing(d)
        BY <1>1, <2>1, <3>3 DEF Writing
      <4> QED BY <3>0, <3>1, <4>1
    <3> QED BY <3>2, <3>3
  <2>3. Lines'
    BY <2>1, <2>2 DEF Lines
  <2>4. JobTypes'
    BY <1>1, <2>1 DEF JobTypes, Phase
  <2> QED BY <1>2, <2>1, <2>3, <2>4
<1>10. ASSUME NEW j \in Job, FlushWritten(j) \/ WriteEnds(j) \/ RouteTrails(j) \/ WriteFails(j)
       PROVE  Goal
  <2>1. phase[j] = "writing" /\ mem' = mem
        /\ \E v \in {disk[doc[j]], snap[j]} : disk' = [disk EXCEPT ![doc[j]] = v]
    BY <1>10 DEF FlushWritten, WriteEnds, RouteTrails, WriteFails, Stored
  <2>2. Without(j, Left(j), snap, mem) /\ \A d \in Locked : disk'[d] >= disk[d]
    BY <2>1, WriterOut
  <2>3. CASE FlushWritten(j)
    <3>1. j.kind \in Flushes /\ Proceed(j, Later(doc[j]), Left(j))
          /\ Later(doc[j]) \in SUBSET Doc
      BY <2>3 DEF FlushWritten, JobTypes, Later, Doc
    <3>2. JobTypes' /\ Lines'
      BY <2>1, <2>2, <3>1, ProceedLines
    <3> QED BY <2>2, <3>2
  <2>4. CASE WriteEnds(j) \/ WriteFails(j)
    <3>1. Ends(j, Left(j))
      BY <2>4 DEF WriteEnds, WriteFails
    <3>2. JobTypes' /\ Lines'
      BY <2>1, <2>2, <3>1, EndsLines
    <3> QED BY <2>2, <3>2
  <2>5. CASE RouteTrails(j)
    <3>1. phase' = [phase EXCEPT ![j] = "trailing"] /\ line' = Left(j)
          /\ UNCHANGED <<mem, doc, snap, server>> /\ j.kind \in Trails
      BY <2>1, <2>5 DEF RouteTrails
    <3>2. \A d \in Locked : In(d)' = OthersIn(j, d) /\ Writing(d)' = OthersWriting(j, d)
      BY <1>1, <3>1 DEF In, Writing, OthersIn, OthersWriting
    <3>3. Lines'
      BY <2>2, <3>1, <3>2 DEF Lines, Without
    <3>4. JobTypes'
      BY <1>1, <2>2, <3>1 DEF JobTypes, Phase, Without
    <3> QED BY <2>2, <3>3, <3>4
  <2> QED BY <1>10, <2>3, <2>4, <2>5
<1>11. ASSUME NEW j \in Job, RouteClears(j) \/ RouteTrailFails(j) PROVE Goal
  <2>1. Ends(j, line) /\ phase[j] = "trailing" /\ UNCHANGED <<mem, disk>>
    BY <1>11 DEF RouteClears, RouteTrailFails
  <2>2. JobTypes' /\ Lines'
    BY <1>3, <2>1, EndsLines
  <2> QED BY <1>2, <2>1, <2>2
<1>12. CASE Exit
  <2>1. UNCHANGED <<mem, disk, phase, doc, snap, line>> /\ server' = "exited"
    BY <1>12 DEF Exit, jobVars
  <2>2. JobTypes' /\ Lines'
    BY <2>1, SameLines DEF JobTypes
  <2> QED BY <1>2, <2>1, <2>2
<1>13. CASE Crash
  <2>1. PICK D : (\A d \in Doc : D[d] \in Outcomes(d)) /\ disk' = D /\ mem' = D
    BY <1>13 DEF Crash
  <2>2. phase' = [j \in Job |-> "idle"] /\ snap' = [j \in Job |-> 0]
        /\ line' = [d \in Locked |-> <<>>] /\ server' = "up" /\ doc' = [j \in Job |-> j.doc]
    BY <1>13 DEF Crash
  <2>3. ASSUME NEW d \in Locked
        PROVE  disk'[d] \in Nat /\ disk'[d] >= disk[d] /\ mem'[d] = disk'[d]
    <3>1. d \in Doc /\ D[d] \in Outcomes(d)
      BY <2>1, DocFacts
    <3>2. \A j \in Writing(d) : disk[d] <= snap[j]
      <4> SUFFICES ASSUME NEW j \in Writing(d) PROVE disk[d] <= snap[j]
        OBVIOUS
      <4>1. LineOK(line[d], In(d), Writing(d), snap, disk[d], mem[d])
        BY <1>1
      <4>2. line[d] # <<>> /\ line[d][1] = j /\ 1 \in DOMAIN line[d]
        BY <4>1, <1>1 DEF LineOK
      <4> QED BY <4>1, <4>2 DEF LineOK
    <3>3. D[d] = disk[d] \/ \E j \in Writing(d) : D[d] = snap[j]
      BY <3>1 DEF Outcomes, Writing
    <3>4. \A j \in Writing(d) : snap[j] \in Nat
      BY <1>1 DEF Writing
    <3> QED BY <1>1, <2>1, <3>1, <3>2, <3>3, <3>4
  <2>4. Lines'
    <3> SUFFICES ASSUME NEW d \in Locked
                 PROVE  LineOK(line'[d], In(d)', Writing(d)', snap', disk'[d], mem'[d])
      BY DEF Lines
    <3>1. line'[d] = <<>> /\ In(d)' = {} /\ Writing(d)' = {} /\ snap' \in [Job -> Nat]
      BY <2>2 DEF In, Writing
    <3> QED BY <2>3, <3>1 DEF LineOK
  <2>5. JobTypes'
    BY <2>2, DocFacts DEF JobTypes, Phase
  <2> QED BY <2>3, <2>4, <2>5
<1>14. CASE UNCHANGED perVars
  <2>1. UNCHANGED <<mem, disk, phase, doc, snap, line, server>>
    BY <1>14 DEF perVars, jobVars
  <2>2. JobTypes' /\ Lines'
    BY <2>1, SameLines DEF JobTypes
  <2> QED BY <1>2, <2>1, <2>2
<1> QED BY <1>4, <1>5, <1>6, <1>7, <1>8, <1>9, <1>10, <1>11, <1>12, <1>13, <1>14 DEF Next

-------------------------------------------------------------------------------
\* What a flush that goes on, or a job that is over, leaves to the others.
Moves(j, S) ==
  /\ \A i \in Job \ {j} : phase'[i] = phase[i] /\ doc'[i] = doc[i] /\ snap'[i] = S[i]
  /\ \/ phase'[j] = "idle"
     \/ phase'[j] \in {"queued", "writing"} /\ snap'[j] = mem'[doc'[j]]

LEMMA EndsMoves ==
  ASSUME JobTypes, NEW j \in Job, NEW L, Ends(j, L) PROVE Moves(j, snap)
BY DEF JobTypes, Ends, Moves

LEMMA PersistMoves ==
  ASSUME JobTypes, NEW j \in Job, NEW e, NEW L, NEW S \in [Job -> Nat], e \in Doc,
         Persist(j, e, L, S)
  PROVE  Moves(j, S)
BY DEF JobTypes, Persist, Moves

LEMMA ProceedMoves ==
  ASSUME JobTypes, NEW j \in Job, NEW D \in SUBSET Doc, NEW L, Proceed(j, D, L)
  PROVE  Moves(j, snap)
<1> DEFINE Needed == {d \in D : d \in Forced(j) \/ dirty'[d]}
<1>1. CASE Needed = {} \/ server # "up"
  <2>1. Ends(j, L)
    BY <1>1 DEF Proceed
  <2> QED BY <2>1, EndsMoves
<1>2. CASE Needed # {} /\ server = "up"
  <2>1. Persist(j, FirstOf(Needed), L, snap) /\ FirstOf(Needed) \in Doc
    BY <1>2, FirstFact DEF Proceed
  <2> QED BY <2>1, PersistMoves DEF JobTypes
<1> QED BY <1>1, <1>2

\* The documents of a locked kind have versions that the lines bound.
LEMMA Bounds ==
  ASSUME Types, Lines
  PROVE  /\ \A d \in Locked : disk[d] \in Nat /\ mem[d] \in Nat /\ disk[d] <= mem[d]
         /\ \A j \in Job : phase[j] = "writing" /\ doc[j] \in Locked
              => disk[doc[j]] <= snap[j] /\ snap[j] <= mem[doc[j]]
         /\ snap \in [Job -> Nat]
<1> USE DEF Types, DocTypes, JobTypes
<1>1. ASSUME NEW d \in Locked PROVE disk[d] <= mem[d]
  BY DEF Lines, LineOK
<1>2. ASSUME NEW j \in Job, phase[j] = "writing", doc[j] \in Locked
      PROVE  disk[doc[j]] <= snap[j] /\ snap[j] <= mem[doc[j]]
  <2> DEFINE d == doc[j]
  <2>1. LineOK(line[d], In(d), Writing(d), snap, disk[d], mem[d]) /\ j \in Writing(d)
    BY <1>2 DEF Lines, Writing
  <2>2. line[d] # <<>> /\ line[d][1] = j /\ 1 \in DOMAIN line[d]
    BY <1>2, <2>1 DEF LineOK
  <2> QED BY <2>1, <2>2 DEF LineOK
<1> QED BY <1>1, <1>2, DocFacts

\* Steps that change no document in memory keep what is pending in order.
LEMMA PendingKept ==
  ASSUME Types, Lines, Types', Lines', Pending, mem' = mem,
         \A d \in Locked : disk'[d] >= disk[d] /\ (raced[d] => raced'[d] \/ disk'[d] = mem[d]),
         \A i \in Job :
           \/ phase'[i] \in {"idle", "outer"}
           \/ phase'[i] \in {"queued", "writing"} /\ snap'[i] = mem'[doc'[i]]
           \/ /\ doc'[i] = doc[i] /\ snap'[i] = snap[i]
              /\ phase[i] \in {"queued", "writing", "trailing"}
              /\ phase'[i] = "trailing" => phase[i] = "trailing" \/ disk'[doc[i]] = snap[i]
  PROVE  Pending'
<1> SUFFICES ASSUME NEW i \in Job, doc'[i] \in Locked, i.kind \notin Quiet
             PROVE  /\ phase'[i] = "trailing" => snap'[i] <= disk'[doc'[i]]
                    /\ phase'[i] \in {"queued", "writing", "trailing"}
                         /\ snap'[i] # mem'[doc'[i]]
                         => raced'[doc'[i]] \/ disk'[doc'[i]] = mem'[doc'[i]]
  BY DEF Pending
<1>1. CASE phase'[i] \in {"idle", "outer"}
  BY <1>1
<1>2. CASE phase'[i] \in {"queued", "writing"} /\ snap'[i] = mem'[doc'[i]]
  BY <1>2
<1>3. CASE /\ doc'[i] = doc[i] /\ snap'[i] = snap[i]
           /\ phase[i] \in {"queued", "writing", "trailing"}
           /\ phase'[i] = "trailing" => phase[i] = "trailing" \/ disk'[doc[i]] = snap[i]
  <2> DEFINE d == doc[i]
  <2>1. /\ disk[d] \in Nat /\ mem[d] \in Nat /\ snap[i] \in Nat /\ disk'[d] \in Nat
        /\ disk[d] <= disk'[d] /\ disk'[d] <= mem[d]
        /\ raced[d] => raced'[d] \/ disk'[d] = mem[d]
    BY <1>3, Bounds DEF Types, DocTypes, JobTypes, Lines, LineOK
  <2>2. /\ phase[i] = "trailing" => snap[i] <= disk[d]
        /\ snap[i] # mem[d] => raced[d] \/ disk[d] = mem[d]
    BY <1>3 DEF Pending
  <2>3. phase'[i] = "trailing" => snap[i] <= disk'[d]
    BY <1>3, <2>1, <2>2
  <2>4. snap[i] # mem[d] => raced'[d] \/ disk'[d] = mem[d]
    BY <2>1, <2>2
  <2> QED BY <1>3, <2>3, <2>4
<1> QED BY <1>1, <1>2, <1>3

\* Steps that change document e in memory put it on record when somebody is pending.
LEMMA PendingRaised ==
  ASSUME Types, Pending, NEW e \in Doc, disk' = disk, Races(e) => raced'[e],
         \A d \in Locked \ {e} : mem'[d] = mem[d] /\ raced'[d] = raced[d],
         \A i \in Job :
           \/ phase'[i] = "idle"
           \/ phase'[i] \in {"queued", "writing"} /\ snap'[i] = mem'[doc'[i]]
           \/ i.kind \in Quiet
           \/ /\ phase'[i] = phase[i] /\ doc'[i] = doc[i]
              /\ snap'[i] # snap[i] => phase[i] = "queued" /\ doc[i] = e
  PROVE  Pending'
<1> SUFFICES ASSUME NEW i \in Job, doc'[i] \in Locked, i.kind \notin Quiet
             PROVE  /\ phase'[i] = "trailing" => snap'[i] <= disk'[doc'[i]]
                    /\ phase'[i] \in {"queued", "writing", "trailing"}
                         /\ snap'[i] # mem'[doc'[i]]
                         => raced'[doc'[i]] \/ disk'[doc'[i]] = mem'[doc'[i]]
  BY DEF Pending
<1>1. CASE phase'[i] = "idle"
  BY <1>1
<1>2. CASE phase'[i] \in {"queued", "writing"} /\ snap'[i] = mem'[doc'[i]]
  BY <1>2
<1>3. CASE /\ phase'[i] = phase[i] /\ doc'[i] = doc[i]
           /\ snap'[i] # snap[i] => phase[i] = "queued" /\ doc[i] = e
  <2>1. phase'[i] = "trailing" => snap'[i] <= disk'[doc'[i]]
    BY <1>3 DEF Pending
  <2>2. CASE doc[i] = e
    BY <1>3, <2>1, <2>2 DEF Races
  <2>3. CASE doc[i] # e
    BY <1>3, <2>1, <2>3 DEF Pending
  <2> QED BY <2>2, <2>3
<1> QED BY <1>1, <1>2, <1>3

LEMMA ClearingStep == Types /\ Lines /\ Clearing /\ [Next]_perVars => Clearing'
<1> SUFFICES ASSUME Types, Lines, Clearing, [Next]_perVars PROVE CleanUnlessRaced' /\ Pending'
  BY DEF Clearing
<1> USE DEF Clearing
<1>1. Types' /\ Lines' /\ \A d \in Locked : disk'[d] >= disk[d]
  BY DocTypesStep, LinesStep DEF Types
<1>2. JobTypes /\ snap \in [Job -> Nat]
      /\ dirty \in [Doc -> BOOLEAN] /\ raced \in [Doc -> BOOLEAN] /\ Locked \subseteq Doc
      /\ disk \in [Doc -> Nat] /\ mem \in [Doc -> Nat] /\ doc \in [Job -> Doc]
      /\ phase \in [Job -> Phase]
  BY DocFacts DEF Types, DocTypes, JobTypes
\* Nothing but phases of jobs with nothing to clear.
<1>3. ASSUME NEW j \in Job, Moves(j, snap), UNCHANGED <<mem, dirty, disk, raced>>
      PROVE  CleanUnlessRaced' /\ Pending'
  <2>1. CleanUnlessRaced'
    BY <1>3 DEF CleanUnlessRaced
  <2>2. \A i \in Job :
           \/ phase'[i] \in {"idle", "outer"}
           \/ phase'[i] \in {"queued", "writing"} /\ snap'[i] = mem'[doc'[i]]
           \/ /\ doc'[i] = doc[i] /\ snap'[i] = snap[i]
              /\ phase[i] \in {"queued", "writing", "trailing"}
              /\ phase'[i] = "trailing" => phase[i] = "trailing" \/ disk'[doc[i]] = snap[i]
    BY <1>2, <1>3 DEF Moves, Phase
  <2>3. \A d \in Locked : disk'[d] >= disk[d] /\ (raced[d] => raced'[d] \/ disk'[d] = mem[d])
    BY <1>1, <1>3
  <2> QED BY <1>1, <1>3, <2>1, <2>2, <2>3, PendingKept
<1>4. ASSUME NEW d \in Doc, Change(d) PROVE CleanUnlessRaced' /\ Pending'
  <2>1. /\ UNCHANGED <<disk, phase, doc>> /\ snap' = Seen(d)
        /\ \A e \in Locked \ {d} : mem'[e] = mem[e] /\ raced'[e] = raced[e]
                                   /\ dirty'[e] = dirty[e]
        /\ Races(d) => raced'[d]
        /\ dirty'[d] = TRUE
    BY <1>2, <1>4 DEF Change, Modified
  <2>2. CleanUnlessRaced'
    BY <2>1 DEF CleanUnlessRaced
  <2>3. \A i \in Job : snap'[i] # snap[i] => phase[i] = "queued" /\ doc[i] = d
    BY <2>1 DEF Seen
  <2> QED BY <2>1, <2>2, <2>3, PendingRaised
<1>5. ASSUME NEW j \in Job, RouteWrites(j) \/ QuietWrites(j) PROVE CleanUnlessRaced' /\ Pending'
  <2> DEFINE e == j.doc
  <2>1. /\ UNCHANGED disk /\ e \in Doc
        /\ \A d \in Locked \ {e} : mem'[d] = mem[d] /\ raced'[d] = raced[d]
                                   /\ dirty'[d] = dirty[d]
        /\ Races(e) => raced'[e]
        /\ dirty'[e] = TRUE \/ raced'[e] = TRUE
    BY <1>2, <1>5, DocFacts DEF RouteWrites, QuietWrites, Modified
  <2>2. CleanUnlessRaced'
    BY <2>1 DEF CleanUnlessRaced
  <2>3. PICK S \in {snap, Seen(e)} : Persist(j, e, line, S)
    BY <1>5 DEF RouteWrites, QuietWrites
  <2>4. Seen(e) \in [Job -> Nat] /\ S \in [Job -> Nat]
    BY <1>1, <1>2, <2>1, <2>3 DEF Seen, Types, DocTypes
  <2>5. Moves(j, S)
    BY <1>2, <2>1, <2>3, <2>4, PersistMoves
  <2>6. \A i \in Job : S[i] # snap[i] => phase[i] = "queued" /\ doc[i] = e
    BY <2>3 DEF Seen
  <2>7. \A i \in Job :
           \/ phase'[i] = "idle"
           \/ phase'[i] \in {"queued", "writing"} /\ snap'[i] = mem'[doc'[i]]
           \/ i.kind \in Quiet
           \/ /\ phase'[i] = phase[i] /\ doc'[i] = doc[i]
              /\ snap'[i] # snap[i] => phase[i] = "queued" /\ doc[i] = e
    BY <2>5, <2>6 DEF Moves
  <2> QED BY <2>1, <2>2, <2>7, PendingRaised
<1>6. ASSUME NEW j \in Job, LoopFlush(j) \/ PatchFlush(j) \/ Signal(j) \/ RouteTrailFails(j)
      PROVE  CleanUnlessRaced' /\ Pending'
  <2>1. Proceed(j, Doc, line) \/ Ends(j, line)
    BY <1>6 DEF LoopFlush, PatchFlush, Signal, RouteTrailFails
  <2>2. Moves(j, snap)
    BY <1>2, <2>1, ProceedMoves, EndsMoves
  <2> QED BY <1>3, <1>6, <2>2 DEF LoopFlush, PatchFlush, Signal, RouteTrailFails
<1>7. ASSUME NEW j \in Job, LoopTick(j) \/ StartWrite(j) PROVE CleanUnlessRaced' /\ Pending'
  <2>1. /\ UNCHANGED <<mem, dirty, disk, doc, snap, raced>>
        /\ \A i \in Job \ {j} : phase'[i] = phase[i]
        /\ phase'[j] = "outer" \/ (phase[j] = "queued" /\ phase'[j] = "writing")
    BY <1>2, <1>7 DEF LoopTick, StartWrite
  <2>2. CleanUnlessRaced'
    BY <2>1 DEF CleanUnlessRaced
  <2>3. \A d \in Locked : disk'[d] >= disk[d] /\ (raced[d] => raced'[d] \/ disk'[d] = mem[d])
    BY <1>1, <2>1
  <2>4. \A i \in Job :
           \/ phase'[i] \in {"idle", "outer"}
           \/ phase'[i] \in {"queued", "writing"} /\ snap'[i] = mem'[doc'[i]]
           \/ /\ doc'[i] = doc[i] /\ snap'[i] = snap[i]
              /\ phase[i] \in {"queued", "writing", "trailing"}
              /\ phase'[i] = "trailing" => phase[i] = "trailing" \/ disk'[doc[i]] = snap[i]
    BY <1>2, <2>1 DEF Phase
  <2> QED BY <1>1, <2>1, <2>2, <2>3, <2>4, PendingKept
\* A write that took effect: whether the flag is cleared or not.
<1>8. ASSUME NEW j \in Job, FlushWritten(j) \/ WriteEnds(j) \/ RouteTrails(j)
      PROVE  CleanUnlessRaced' /\ Pending'
  <2> DEFINE d == doc[j]
  <2>1. /\ phase[j] = "writing" /\ mem' = mem
        /\ disk' = [disk EXCEPT ![d] = snap[j]]
        /\ raced' = [raced EXCEPT ![d] = @ /\ snap[j] # mem[d]]
    BY <1>8 DEF FlushWritten, WriteEnds, RouteTrails, Stored
  <2>2. dirty' = dirty \/ (j.kind \notin Quiet /\ dirty' = [dirty EXCEPT ![d] = FALSE])
    BY <1>8 DEF FlushWritten, WriteEnds, RouteTrails, Flushes, Quiet
  <2>3. ASSUME d \in Locked
        PROVE  /\ disk'[d] = snap[j] /\ (raced'[d] <=> raced[d] /\ snap[j] # mem[d])
               /\ disk[d] = mem[d] => snap[j] = mem[d]
               /\ snap[j] # mem[d] /\ (j.kind \notin Quiet \/ ~dirty[d]) => raced[d]
    <3>1. disk[d] <= snap[j] /\ snap[j] <= mem[d] /\ disk[d] \in Nat /\ mem[d] \in Nat
          /\ snap[j] \in Nat
      BY <1>2, <2>1, <2>3, Bounds
    <3>2. snap[j] # mem[d] => disk[d] # mem[d]
      BY <3>1
    <3>3. snap[j] # mem[d] /\ (j.kind \notin Quiet \/ ~dirty[d]) => raced[d]
      BY <2>1, <2>3, <3>2 DEF Pending, CleanUnlessRaced
    <3> QED BY <1>2, <2>1, <3>2, <3>3
  <2>4. CleanUnlessRaced'
    <3> SUFFICES ASSUME NEW e \in Locked, ~dirty'[e], disk'[e] # mem'[e] PROVE raced'[e]
      BY DEF CleanUnlessRaced
    <3>1. CASE e = d
      <4>1. ~dirty[d] \/ j.kind \notin Quiet
        BY <1>2, <2>2, <3>1
      <4> QED BY <2>1, <2>3, <3>1, <4>1
    <3>2. CASE e # d
      BY <1>2, <2>1, <2>2, <3>2 DEF CleanUnlessRaced
    <3> QED BY <3>1, <3>2
  <2>5. \A e \in Locked : raced[e] => raced'[e] \/ disk'[e] = mem[e]
    BY <1>2, <2>1
  <2>6. \/ Moves(j, snap)
        \/ UNCHANGED <<doc, snap>> /\ phase' = [phase EXCEPT ![j] = "trailing"]
    <3>1. CASE FlushWritten(j)
      <4>1. Proceed(j, Later(d), Left(j)) /\ Later(d) \in SUBSET Doc
        BY <1>2, <3>1 DEF FlushWritten, Later, Doc
      <4> QED BY <1>2, <4>1, ProceedMoves
    <3>2. CASE WriteEnds(j)
      <4>1. Ends(j, Left(j))
        BY <3>2 DEF WriteEnds
      <4> QED BY <1>2, <4>1, EndsMoves
    <3>3. CASE RouteTrails(j)
      BY <3>3 DEF RouteTrails
    <3> QED BY <1>8, <3>1, <3>2, <3>3
  <2>7. \A i \in Job :
           \/ phase'[i] \in {"idle", "outer"}
           \/ phase'[i] \in {"queued", "writing"} /\ snap'[i] = mem'[doc'[i]]
           \/ /\ doc'[i] = doc[i] /\ snap'[i] = snap[i]
              /\ phase[i] \in {"queued", "writing", "trailing"}
              /\ phase'[i] = "trailing" => phase[i] = "trailing" \/ disk'[doc[i]] = snap[i]
    BY <1>2, <2>1, <2>6 DEF Moves, Phase
  <2> QED BY <1>1, <2>1, <2>4, <2>5, <2>7, PendingKept
<1>9. ASSUME NEW j \in Job, RouteClears(j) PROVE CleanUnlessRaced' /\ Pending'
  <2>1. /\ phase[j] = "trailing" /\ Ends(j, line) /\ UNCHANGED <<mem, disk, raced>>
        /\ dirty' = [dirty EXCEPT ![doc[j]] = FALSE]
    BY <1>9 DEF RouteClears
  <2>2. j.kind \notin Quiet
    BY <2>1 DEF Types, JobTypes, Trails, Quiet
  <2>3. ASSUME doc[j] \in Locked, disk[doc[j]] # mem[doc[j]] PROVE raced[doc[j]]
    <3>1. snap[j] <= disk[doc[j]]
      BY <2>1, <2>2, <2>3 DEF Pending
    <3>2. snap[j] # mem[doc[j]]
      BY <1>2, <2>3, <3>1, Bounds
    <3> QED BY <2>1, <2>2, <2>3, <3>2 DEF Pending
  <2>4. CleanUnlessRaced'
    BY <1>2, <2>1, <2>3 DEF CleanUnlessRaced
  <2>5. Moves(j, snap)
    BY <1>2, <2>1, EndsMoves
  <2>6. \A i \in Job :
           \/ phase'[i] \in {"idle", "outer"}
           \/ phase'[i] \in {"queued", "writing"} /\ snap'[i] = mem'[doc'[i]]
           \/ /\ doc'[i] = doc[i] /\ snap'[i] = snap[i]
              /\ phase[i] \in {"queued", "writing", "trailing"}
              /\ phase'[i] = "trailing" => phase[i] = "trailing" \/ disk'[doc[i]] = snap[i]
    BY <1>2, <2>5 DEF Moves, Phase
  <2>7. \A d \in Locked : disk'[d] >= disk[d] /\ (raced[d] => raced'[d] \/ disk'[d] = mem[d])
    BY <1>1, <2>1
  <2> QED BY <1>1, <2>1, <2>4, <2>6, <2>7, PendingKept
<1>10. ASSUME NEW j \in Job, WriteFails(j) PROVE CleanUnlessRaced' /\ Pending'
  <2> DEFINE d == doc[j]
  <2>1. /\ phase[j] = "writing" /\ Ends(j, Left(j)) /\ UNCHANGED <<mem, dirty, raced>>
        /\ \E v \in {disk[d], snap[j]} : disk' = [disk EXCEPT ![d] = v]
    BY <1>10 DEF WriteFails
  <2>2. \A e \in Locked : disk[e] = mem[e] => disk'[e] = mem[e]
    <3>1. \A e \in Locked : disk'[e] \in Nat /\ disk'[e] <= mem'[e]
      BY <1>1 DEF Types, DocTypes, Lines, LineOK
    <3> QED BY <1>1, <1>2, <2>1, <3>1
  <2>3. CleanUnlessRaced'
    BY <2>1, <2>2 DEF CleanUnlessRaced
  <2>4. Moves(j, snap)
    BY <1>2, <2>1, EndsMoves
  <2>5. \A i \in Job :
           \/ phase'[i] \in {"idle", "outer"}
           \/ phase'[i] \in {"queued", "writing"} /\ snap'[i] = mem'[doc'[i]]
           \/ /\ doc'[i] = doc[i] /\ snap'[i] = snap[i]
              /\ phase[i] \in {"queued", "writing", "trailing"}
              /\ phase'[i] = "trailing" => phase[i] = "trailing" \/ disk'[doc[i]] = snap[i]
    BY <1>2, <2>4 DEF Moves, Phase
  <2> QED BY <1>1, <2>1, <2>3, <2>5, PendingKept
<1>11. CASE Exit \/ UNCHANGED perVars
  BY <1>11 DEF Exit, perVars, jobVars, CleanUnlessRaced, Pending
<1>12. CASE Crash
  BY <1>12, <1>2 DEF Crash, CleanUnlessRaced, Pending
<1> QED BY <1>4, <1>5, <1>6, <1>7, <1>8, <1>9, <1>10, <1>11, <1>12 DEF Next

-------------------------------------------------------------------------------
\* Steps that are not the shutdown's.
LEMMA StoppingKept ==
  ASSUME Types, Types', Stopping, goal' = goal, lost' = lost,
         \A d \in Doc : mem'[d] >= mem[d], \A d \in Locked : disk'[d] >= disk[d],
         server' = server \/ (server = "closing" /\ server' = "exited"),
         \A i \in Job : i.kind = "stop" => /\ phase'[i] = phase[i] \/
                                              (phase[i] = "queued" /\ phase'[i] = "writing")
                                           /\ doc'[i] = doc[i]
                                           /\ phase[i] # "idle" => snap'[i] >= snap[i]
  PROVE  Stopping'
<1> USE DEF Types, DocTypes, JobTypes
<1>1. \A d \in Doc : goal'[d] <= mem'[d]
  BY DEF Stopping
<1>2. ASSUME NEW i \in Job, i.kind = "stop", phase'[i] # "idle"
      PROVE  /\ server' = "up" /\ lost' = {} /\ phase'[i] \in {"queued", "writing"}
             /\ goal'[doc'[i]] <= snap'[i]
             /\ \A d \in Locked : doc'[i] \in Later(d) => goal'[d] <= disk'[d]
  <2>1. phase[i] # "idle" /\ doc'[i] = doc[i] /\ snap'[i] >= snap[i]
        /\ phase'[i] \in {phase[i], "writing"}
    BY <1>2
  <2>2. /\ server = "up" /\ lost = {} /\ phase[i] \in {"queued", "writing"}
        /\ goal[doc[i]] <= snap[i]
        /\ \A d \in Locked : doc[i] \in Later(d) => goal[d] <= disk[d]
    BY <1>2, <2>1 DEF Stopping
  <2>3. goal[doc[i]] \in Nat /\ snap[i] \in Nat /\ snap'[i] \in Nat
    OBVIOUS
  <2>4. \A d \in Locked : goal[d] \in Nat /\ disk[d] \in Nat /\ disk'[d] \in Nat
    BY DocFacts
  <2> QED BY <2>1, <2>2, <2>3, <2>4
<1>3. server' # "up" /\ lost' = {} => \A d \in Locked : goal'[d] <= disk'[d]
  <2>1. \A d \in Locked : goal[d] \in Nat /\ disk[d] \in Nat /\ disk'[d] \in Nat
    BY DocFacts
  <2>2. server' # "up" => server # "up"
    OBVIOUS
  <2> QED BY <2>1, <2>2 DEF Stopping
<1> QED BY <1>1, <1>2, <1>3 DEF Stopping

\* The shutdown goes on with the documents after those stored, all of them forced.
LEMMA StopProceeds ==
  ASSUME Types, NEW j \in Job, j.kind = "stop", server = "up", NEW D, NEW L,
         Proceed(j, D, L), D = Doc \/ \E d \in Doc : D = Later(d)
  PROVE  /\ D = {} => server' = "closing" /\ phase'[j] = "idle"
         /\ D # {} => /\ server' = "up" /\ phase'[j] \in {"queued", "writing"}
                      /\ doc'[j] \in D /\ snap'[j] = mem'[doc'[j]]
                      /\ \A d \in Locked : doc'[j] \in Later(d) => d \notin D
<1> DEFINE Needed == {d \in D : d \in Forced(j) \/ dirty'[d]}
<1>1. D \in SUBSET Doc /\ Forced(j) = Doc
  BY DEF Later, Forced, Doc
<1>2. Needed = D
  BY <1>1
<1>3. CASE D = {}
  <2>1. Ends(j, L)
    BY <1>2, <1>3 DEF Proceed
  <2> QED BY <1>3, <2>1 DEF Ends, Types, JobTypes
<1>4. CASE D # {}
  <2>1. Persist(j, FirstOf(D), L, snap) /\ server' = server
    BY <1>2, <1>4 DEF Proceed
  <2>2. FirstOf(D) \in D /\ D \subseteq Later(FirstOf(D)) \cup {FirstOf(D)}
    <3>1. \E d \in D : D \subseteq Later(d) \cup {d}
      <4>1. CASE "sites" \in D
        BY <1>1, <4>1 DEF Doc, Later
      <4>2. CASE "sites" \notin D /\ "events" \in D
        BY <1>1, <4>2 DEF Doc, Later
      <4>3. CASE "sites" \notin D /\ "events" \notin D
        BY <1>1, <1>4, <4>3 DEF Doc, Later
      <4> QED BY <4>1, <4>2, <4>3
    <3> QED BY <3>1 DEF FirstOf
  <2>3. /\ doc'[j] = FirstOf(D) /\ snap'[j] = mem'[doc'[j]]
        /\ phase'[j] \in {"queued", "writing"}
    BY <1>1, <2>1, <2>2 DEF Persist, Types, JobTypes
  <2>4. \A d \in Locked : doc'[j] \in Later(d) => d \notin D
    BY <1>1, <2>2, <2>3 DEF Locked, Later, Doc
  <2> QED BY <1>4, <2>1, <2>2, <2>3, <2>4
<1> QED BY <1>3, <1>4

LEMMA StoppingStep == Types /\ Lines /\ Stopping /\ [Next]_perVars => Stopping'
<1> SUFFICES ASSUME Types, Lines, Stopping, [Next]_perVars PROVE Stopping'
  OBVIOUS
<1>1. Types' /\ \A d \in Locked : disk'[d] >= disk[d]
  BY DocTypesStep, LinesStep DEF Types
<1>2. /\ JobTypes /\ snap \in [Job -> Nat] /\ mem \in [Doc -> Nat] /\ doc \in [Job -> Doc]
      /\ phase \in [Job -> Phase] /\ goal \in [Doc -> Nat] /\ disk \in [Doc -> Nat]
      /\ Locked \subseteq Doc
  BY DocFacts DEF Types, DocTypes, JobTypes
<1>3. \A i, j \in Job : i.kind = "stop" /\ j.kind = "stop" => i = j
  BY JobAssumption
\* A job that is not the shutdown.
<1>4. ASSUME NEW j \in Job, j.kind # "stop", Moves(j, snap), UNCHANGED <<mem, goal, lost, server>>
      PROVE  Stopping'
  <2>1. \A i \in Job : i.kind = "stop" => phase'[i] = phase[i] /\ doc'[i] = doc[i]
                                          /\ snap'[i] >= snap[i]
    BY <1>2, <1>4 DEF Moves
  <2>2. \A d \in Doc : mem'[d] >= mem[d]
    BY <1>2, <1>4
  <2> QED BY <1>1, <1>4, <2>1, <2>2, StoppingKept
<1>5. ASSUME NEW j \in Job, j.kind # "stop", NEW D \in SUBSET Doc, NEW L,
             Proceed(j, D, L) \/ Ends(j, L)
      PROVE  Moves(j, snap) /\ server' = server
  BY <1>2, <1>5, ProceedMoves, EndsMoves DEF Proceed, Ends
<1>6. ASSUME NEW d \in Doc, Change(d) PROVE Stopping'
  <2>1. /\ mem' = [mem EXCEPT ![d] = @ + 1] /\ snap' = Seen(d)
        /\ UNCHANGED <<phase, doc, server, goal, lost>>
    BY <1>6 DEF Change, Modified
  <2>2. \A i \in Job : phase[i] # "idle" => snap'[i] >= snap[i]
    BY <1>2, <2>1 DEF Seen
  <2>3. \A e \in Doc : mem'[e] >= mem[e]
    BY <1>2, <2>1
  <2> QED BY <1>1, <2>1, <2>2, <2>3, StoppingKept
<1>7. ASSUME NEW j \in Job, LoopTick(j) PROVE Stopping'
  <2>1. /\ UNCHANGED <<mem, snap, doc, server, goal, lost>>
        /\ \A i \in Job : i.kind = "stop" => phase'[i] = phase[i]
    BY <1>2, <1>7 DEF LoopTick
  <2>2. /\ \A d \in Doc : mem'[d] >= mem[d]
        /\ \A i \in Job : snap'[i] >= snap[i]
    BY <1>2, <2>1
  <2> QED BY <1>1, <2>1, <2>2, StoppingKept
<1>8. ASSUME NEW j \in Job, LoopFlush(j) \/ PatchFlush(j) PROVE Stopping'
  <2>1. j.kind # "stop" /\ Proceed(j, Doc, line)
    BY <1>2, <1>8 DEF LoopFlush, PatchFlush, JobTypes
  <2>2. UNCHANGED <<mem, goal, lost>>
    BY <1>8 DEF LoopFlush, PatchFlush
  <2> QED BY <1>4, <1>5, <2>1, <2>2
<1>9. ASSUME NEW j \in Job, RouteWrites(j) \/ QuietWrites(j) PROVE Stopping'
  <2> DEFINE e == j.doc
  <2>1. /\ e \in Doc /\ mem' = [mem EXCEPT ![e] = @ + 1] /\ j.kind # "stop"
        /\ UNCHANGED <<server, goal, lost>>
    BY <1>9, DocFacts DEF RouteWrites, QuietWrites, Modified, Flushes, Quiet
  <2>2. PICK S \in {snap, Seen(e)} : Persist(j, e, line, S)
    BY <1>9 DEF RouteWrites, QuietWrites
  <2>3. Seen(e) \in [Job -> Nat] /\ S \in [Job -> Nat]
    BY <1>1, <1>2, <2>1, <2>2 DEF Seen, Types, DocTypes
  <2>4. Moves(j, S)
    BY <1>2, <2>1, <2>2, <2>3, PersistMoves
  <2>5. \A i \in Job : S[i] >= snap[i]
    BY <1>2, <2>1, <2>2 DEF Seen
  <2>6. \A d \in Doc : mem'[d] >= mem[d]
    BY <1>2, <2>1
  <2>7. \A i \in Job : i.kind = "stop" => phase'[i] = phase[i] /\ doc'[i] = doc[i]
                                          /\ snap'[i] >= snap[i]
    BY <2>1, <2>4, <2>5 DEF Moves
  <2> QED BY <1>1, <2>1, <2>6, <2>7, StoppingKept
<1>10. ASSUME NEW j \in Job, StartWrite(j) PROVE Stopping'
  <2>1. /\ UNCHANGED <<mem, snap, doc, server, goal, lost>>
        /\ \A i \in Job : phase'[i] = phase[i] \/ (phase[i] = "queued" /\ phase'[i] = "writing")
    BY <1>2, <1>10 DEF StartWrite
  <2>2. /\ \A d \in Doc : mem'[d] >= mem[d]
        /\ \A i \in Job : snap'[i] >= snap[i]
    BY <1>2, <2>1
  <2> QED BY <1>1, <2>1, <2>2, StoppingKept
<1>11. ASSUME NEW j \in Job, j.kind # "stop",
              FlushWritten(j) \/ WriteEnds(j) \/ RouteTrails(j) \/ WriteFails(j)
       PROVE  Stopping'
  <2>1. UNCHANGED <<mem, goal, lost>>
    BY <1>11 DEF FlushWritten, WriteEnds, RouteTrails, WriteFails, Stored
  <2>2. CASE FlushWritten(j)
    <3>1. Proceed(j, Later(doc[j]), Left(j)) /\ Later(doc[j]) \in SUBSET Doc
      BY <1>2, <2>2 DEF FlushWritten, Later, Doc
    <3> QED BY <1>4, <1>5, <1>11, <2>1, <3>1
  <2>3. CASE WriteEnds(j) \/ WriteFails(j)
    <3>1. Ends(j, Left(j))
      BY <2>3 DEF WriteEnds, WriteFails
    <3> QED BY <1>4, <1>5, <1>11, <2>1, <3>1
  <2>4. CASE RouteTrails(j)
    <3>1. /\ UNCHANGED <<mem, snap, doc, server, goal, lost>>
          /\ \A i \in Job : i.kind = "stop" => phase'[i] = phase[i]
      BY <1>2, <1>11, <2>1, <2>4 DEF RouteTrails
    <3>2. /\ \A d \in Doc : mem'[d] >= mem[d]
          /\ \A i \in Job : snap'[i] >= snap[i]
      BY <1>2, <3>1
    <3> QED BY <1>1, <3>1, <3>2, StoppingKept
  <2> QED BY <1>11, <2>2, <2>3, <2>4
<1>12. ASSUME NEW j \in Job, RouteClears(j) \/ RouteTrailFails(j) PROVE Stopping'
  <2>1. j.kind # "stop" /\ Ends(j, line) /\ UNCHANGED <<mem, goal, lost>>
    BY <1>12 DEF RouteClears, RouteTrailFails, Types, JobTypes, Trails
  <2> QED BY <1>4, <1>5, <2>1
<1>13. CASE Exit
  <2>1. /\ UNCHANGED <<mem, snap, doc, phase, goal, lost>>
        /\ server = "closing" /\ server' = "exited"
    BY <1>13 DEF Exit, jobVars
  <2>2. /\ \A d \in Doc : mem'[d] >= mem[d]
        /\ \A i \in Job : snap'[i] >= snap[i]
    BY <1>2, <2>1
  <2> QED BY <1>1, <2>1, <2>2, StoppingKept
<1>14. CASE UNCHANGED perVars
  BY <1>14 DEF perVars, jobVars, Stopping
<1>15. CASE Crash
  <2>1. /\ goal' = [d \in Doc |-> 0] /\ server' = "up" /\ phase' = [j \in Job |-> "idle"]
    BY <1>15 DEF Crash
  <2>2. mem' \in [Doc -> Nat]
    BY <1>1 DEF Types, DocTypes
  <2> QED BY <2>1, <2>2 DEF Stopping
\* The shutdown comes to the documents D, having stored the others since the signal.
<1>16. ASSUME NEW j \in Job, j.kind = "stop", server = "up", NEW D, NEW L, Proceed(j, D, L),
              D = Doc \/ \E d \in Doc : D = Later(d), mem' = mem, lost' = {},
              \A d \in Doc : goal'[d] <= mem[d],
              \A d \in Locked : d \notin D => goal'[d] <= disk'[d]
       PROVE  Stopping'
  <2>1. /\ D = {} => server' = "closing" /\ phase'[j] = "idle"
        /\ D # {} => /\ server' = "up" /\ phase'[j] \in {"queued", "writing"}
                     /\ doc'[j] \in D /\ snap'[j] = mem'[doc'[j]]
                     /\ \A d \in Locked : doc'[j] \in Later(d) => d \notin D
    BY <1>16, StopProceeds
  <2>2. D \subseteq Doc
    BY <1>16 DEF Later, Doc
  <2>3. Moves(j, snap)
    BY <1>2, <1>16, <2>2, ProceedMoves
  <2>4. \A i \in Job : i.kind = "stop" => i = j
    BY <1>3, <1>16
  <2>5. CASE D = {}
    BY <1>16, <2>1, <2>4, <2>5 DEF Stopping
  <2>6. CASE D # {}
    BY <1>16, <2>1, <2>2, <2>4, <2>6 DEF Stopping
  <2> QED BY <2>5, <2>6
<1>17. ASSUME NEW j \in Job, Signal(j) PROVE Stopping'
  <2>1. /\ j.kind = "stop" /\ server = "up" /\ Proceed(j, Doc, line) /\ mem' = mem
        /\ goal' = mem /\ lost' = {}
    BY <1>17 DEF Signal
  <2>2. \A d \in Doc : goal'[d] <= mem[d]
    BY <1>2, <2>1
  <2> QED BY <1>2, <1>16, <2>1, <2>2
<1>18. ASSUME NEW j \in Job, j.kind = "stop", FlushWritten(j) PROVE Stopping'
  <2> DEFINE e == doc[j]
  <2>1. /\ phase[j] = "writing" /\ disk' = [disk EXCEPT ![e] = snap[j]]
        /\ UNCHANGED <<mem, goal, lost>> /\ Proceed(j, Later(e), Left(j))
    BY <1>18 DEF FlushWritten, Stored
  <2>2. /\ server = "up" /\ lost = {} /\ goal[e] <= snap[j]
        /\ \A d \in Locked : e \in Later(d) => goal[d] <= disk[d]
        /\ \A d \in Doc : goal[d] <= mem[d]
    BY <1>18, <2>1 DEF Stopping
  <2>3. ASSUME NEW d \in Locked, d \notin Later(e) PROVE goal[d] <= disk'[d]
    <3>1. CASE d = e
      BY <1>2, <2>1, <2>2, <3>1
    <3>2. CASE d # e
      <4>1. e \in Later(d) /\ disk'[d] = disk[d]
        BY <1>2, <2>1, <2>3, <3>2 DEF Later, Doc, Locked
      <4> QED BY <2>2, <4>1
    <3> QED BY <3>1, <3>2
  <2> QED BY <1>2, <1>16, <1>18, <2>1, <2>2, <2>3
<1>19. ASSUME NEW j \in Job, j.kind = "stop", WriteFails(j) PROVE Stopping'
  <2>1. /\ lost' = lost \cup {doc[j]} /\ Ends(j, Left(j)) /\ UNCHANGED <<mem, goal>>
    BY <1>19 DEF WriteFails
  <2>2. lost' # {} /\ phase'[j] = "idle" /\ \A i \in Job : i.kind = "stop" => i = j
    BY <1>2, <1>3, <1>19, <2>1 DEF Ends
  <2> QED BY <2>1, <2>2 DEF Stopping
<1>20. ASSUME NEW j \in Job, WriteEnds(j) \/ RouteTrails(j) PROVE j.kind # "stop"
  BY <1>20 DEF WriteEnds, RouteTrails, Flushes, Trails
<1> QED BY <1>6, <1>7, <1>8, <1>9, <1>10, <1>11, <1>12, <1>13, <1>14, <1>15, <1>17, <1>18,
           <1>19, <1>20 DEF Next


-------------------------------------------------------------------------------
\* No interval comes or goes.
LEMMA LoopsKept ==
  ASSUME Loops, outer' = outer, phase' \in [Job -> Phase],
         \A i \in Job : i.kind = "loop" =>
           /\ phase'[i] = "idle" <=> phase[i] = "idle"
           /\ phase'[i] \notin {"idle", "outer"} =>
                \/ phase[i] \notin {"idle", "outer"}
                \/ outer # <<>> /\ outer[1] = i
  PROVE  Loops'
BY DEF Loops

\* The interval at the head of persistMutex is over.
LEMMA LoopsEnd ==
  ASSUME JobTypes, Loops, NEW j \in Job, NEW L, Ends(j, L),
         j.kind = "loop" => phase[j] # "idle" /\ outer[1] = j
  PROVE  Loops'
<1>1. phase' = [phase EXCEPT ![j] = "idle"] /\ phase \in [Job -> Phase]
  BY DEF Ends, JobTypes
<1>2. CASE j.kind # "loop"
  BY <1>1, <1>2, LoopsKept DEF Ends, Phase
<1>3. CASE j.kind = "loop"
  <2> DEFINE M == Tail(outer)
  <2>1. /\ outer \in Seq(Job) /\ outer' = M /\ DOMAIN outer = 1..Len(outer)
        /\ \A i, k \in DOMAIN outer : outer[i] = outer[k] => i = k
        /\ {outer[i] : i \in DOMAIN outer} = {i \in Job : i.kind = "loop" /\ phase[i] # "idle"}
    BY <1>3 DEF Loops, Ends
  <2>2. j \in {outer[i] : i \in DOMAIN outer} /\ Len(outer) \in Nat
    BY <1>3, <2>1
  <2>3. outer # <<>> /\ 1 \in DOMAIN outer /\ outer[1] = j
    BY <1>3, <2>1, <2>2
  <2>4. /\ M \in Seq(Job) /\ DOMAIN M = 1..(Len(outer) - 1)
        /\ \A i \in DOMAIN M : i + 1 \in DOMAIN outer /\ M[i] = outer[i + 1]
    BY <2>1, <2>2, <2>3
  <2>5. \A i, k \in DOMAIN M : M[i] = M[k] => i = k
    BY <2>1, <2>4
  <2>6. {M[i] : i \in DOMAIN M} = {outer[i] : i \in DOMAIN outer} \ {j}
    <3>1. \A i \in DOMAIN M : M[i] # j
      BY <2>1, <2>3, <2>4
    <3>2. \A i \in DOMAIN outer : outer[i] # j => i - 1 \in DOMAIN M /\ M[i - 1] = outer[i]
      BY <2>1, <2>2, <2>3, <2>4
    <3> QED BY <2>4, <3>1, <3>2, SMTT(30)
  <2>7. {i \in Job : i.kind = "loop" /\ phase'[i] # "idle"}
          = {i \in Job : i.kind = "loop" /\ phase[i] # "idle"} \ {j}
    BY <1>1
  <2>8. \A i \in Job : i.kind = "loop" => phase'[i] \in {"idle", "outer"}
    <3>1. \A i \in Job \ {j} : i.kind = "loop" => phase[i] \in {"idle", "outer"}
      BY <2>3 DEF Loops
    <3> QED BY <1>1, <3>1
  <2>9. {M[i] : i \in DOMAIN M} = {i \in Job : i.kind = "loop" /\ phase'[i] # "idle"}
    BY <2>1, <2>6, <2>7
  <2>10. outer' = M
    BY <2>1
  <2> HIDE DEF M
  <2> QED BY <2>4, <2>5, <2>8, <2>9, <2>10 DEF Loops
<1> QED BY <1>2, <1>3

\* A flush that goes on.
LEMMA LoopsProceed ==
  ASSUME JobTypes, Loops, NEW j \in Job, NEW D \in SUBSET Doc, NEW L, Proceed(j, D, L),
         j.kind = "loop" => phase[j] # "idle" /\ outer[1] = j
  PROVE  Loops'
<1> DEFINE Needed == {d \in D : d \in Forced(j) \/ dirty'[d]}
<1>1. CASE Needed = {} \/ server # "up"
  <2>1. Ends(j, L)
    BY <1>1 DEF Proceed
  <2> QED BY <2>1, LoopsEnd
<1>2. CASE Needed # {} /\ server = "up"
  <2>1. Persist(j, FirstOf(Needed), L, snap) /\ outer' = outer
    BY <1>2 DEF Proceed
  <2>2. phase' = [phase EXCEPT ![j] = "queued"] \/ phase' = [phase EXCEPT ![j] = "writing"]
    BY <2>1 DEF Persist
  <2>3. j.kind = "loop" => outer # <<>>
    <3> SUFFICES ASSUME j.kind = "loop" PROVE outer # <<>>
      OBVIOUS
    <3>1. j \in {outer[i] : i \in DOMAIN outer}
      BY DEF Loops
    <3> QED BY <3>1
  <2> QED BY <2>1, <2>2, <2>3, LoopsKept DEF JobTypes, Phase
<1> QED BY <1>1, <1>2

LEMMA LoopsStep == Types /\ Lines /\ Loops /\ [Next]_perVars => Loops'
<1> SUFFICES ASSUME Types, Lines, Loops, [Next]_perVars PROVE Loops'
  OBVIOUS
<1>1. JobTypes /\ phase \in [Job -> Phase] /\ phase' \in [Job -> Phase]
  BY LinesStep DEF Types, JobTypes
<1>2. \A j \in Job : j.kind = "loop" /\ phase[j] \notin {"idle", "outer"} => outer[1] = j
  BY DEF Loops
<1>3. ASSUME NEW j \in Job, LoopTick(j) PROVE Loops'
  <2> DEFINE M == Append(outer, j)
  <2>1. /\ j.kind = "loop" /\ phase[j] = "idle" /\ phase' = [phase EXCEPT ![j] = "outer"]
        /\ outer' = M /\ outer \in Seq(Job) /\ DOMAIN outer = 1..Len(outer)
        /\ \A i, k \in DOMAIN outer : outer[i] = outer[k] => i = k
        /\ {outer[i] : i \in DOMAIN outer} = {i \in Job : i.kind = "loop" /\ phase[i] # "idle"}
    BY <1>3 DEF LoopTick, Loops
  <2>2. \A i \in DOMAIN outer : outer[i] # j
    BY <2>1
  <2>3. /\ M \in Seq(Job) /\ Len(outer) \in Nat /\ DOMAIN M = 1..(Len(outer) + 1)
        /\ \A i \in DOMAIN outer : i \in DOMAIN M /\ M[i] = outer[i]
        /\ M[Len(outer) + 1] = j
        /\ \A i \in DOMAIN M : i \in DOMAIN outer \/ i = Len(outer) + 1
    BY <2>1
  <2>4. \A i, k \in DOMAIN M : M[i] = M[k] => i = k
    BY <2>1, <2>2, <2>3
  <2>5. {M[i] : i \in DOMAIN M} = {outer[i] : i \in DOMAIN outer} \cup {j}
    BY <2>1, <2>3
  <2>6. {i \in Job : i.kind = "loop" /\ phase'[i] # "idle"}
          = {i \in Job : i.kind = "loop" /\ phase[i] # "idle"} \cup {j}
    BY <1>1, <2>1
  <2>7. \A i \in Job : i.kind = "loop" /\ phase'[i] \notin {"idle", "outer"}
          => M # <<>> /\ M[1] = i
    <3> SUFFICES ASSUME NEW i \in Job, i.kind = "loop", phase'[i] \notin {"idle", "outer"}
                 PROVE  M # <<>> /\ M[1] = i
      OBVIOUS
    <3>1. outer # <<>> /\ outer[1] = i
      BY <1>1, <2>1 DEF Loops
    <3>2. 1 \in DOMAIN outer
      BY <2>1, <3>1
    <3> QED BY <2>3, <3>1, <3>2
  <2> QED BY <2>1, <2>3, <2>4, <2>5, <2>6, <2>7 DEF Loops
<1>4. ASSUME NEW j \in Job, LoopFlush(j) PROVE Loops'
  <2>1. phase[j] = "outer" /\ Head(outer) = j /\ Proceed(j, Doc, line)
    BY <1>4 DEF LoopFlush
  <2>2. outer[1] = j
    BY <2>1
  <2> QED BY <1>1, <2>1, <2>2, LoopsProceed
<1>5. ASSUME NEW j \in Job, PatchFlush(j) \/ Signal(j) PROVE Loops'
  <2>1. j.kind # "loop" /\ Proceed(j, Doc, line)
    BY <1>5 DEF PatchFlush, Signal
  <2> QED BY <1>1, <2>1, LoopsProceed
<1>6. ASSUME NEW j \in Job, FlushWritten(j) PROVE Loops'
  <2>1. phase[j] = "writing" /\ Proceed(j, Later(doc[j]), Left(j)) /\ Later(doc[j]) \in SUBSET Doc
    BY <1>1, <1>6 DEF FlushWritten, Stored, JobTypes, Later, Doc
  <2> QED BY <1>1, <1>2, <2>1, LoopsProceed
<1>7. ASSUME NEW j \in Job,
             WriteEnds(j) \/ WriteFails(j) \/ RouteClears(j) \/ RouteTrailFails(j)
      PROVE  Loops'
  <2>1. /\ phase[j] \in {"writing", "trailing"}
        /\ Ends(j, Left(j)) \/ Ends(j, line)
    BY <1>7 DEF WriteEnds, WriteFails, RouteClears, RouteTrailFails, Stored
  <2> QED BY <1>1, <1>2, <2>1, LoopsEnd
\* The rest leave the intervals alone, but for one at the head that starts to write.
<1>8. ASSUME outer' = outer,
             \A i \in Job : i.kind = "loop" =>
               phase'[i] = phase[i] \/ (phase[i] = "queued" /\ phase'[i] = "writing")
      PROVE  Loops'
  <2>1. \A i \in Job : i.kind = "loop" =>
           /\ phase'[i] = "idle" <=> phase[i] = "idle"
           /\ phase'[i] \notin {"idle", "outer"} => phase[i] \notin {"idle", "outer"}
    BY <1>8
  <2> QED BY <1>1, <1>8, <2>1, LoopsKept
<1>9. ASSUME NEW d \in Doc, Change(d) PROVE Loops'
  BY <1>8, <1>9 DEF Change
<1>10. ASSUME NEW j \in Job, RouteWrites(j) \/ QuietWrites(j) PROVE Loops'
  <2>1. j.kind # "loop" /\ outer' = outer /\ \E S : Persist(j, j.doc, line, S)
    BY <1>10 DEF RouteWrites, QuietWrites, Flushes, Quiet
  <2>2. \A i \in Job \ {j} : phase'[i] = phase[i]
    BY <1>1, <2>1 DEF Persist
  <2> QED BY <1>8, <2>1, <2>2
<1>11. ASSUME NEW j \in Job, StartWrite(j) PROVE Loops'
  BY <1>1, <1>8, <1>11 DEF StartWrite
<1>12. ASSUME NEW j \in Job, RouteTrails(j) PROVE Loops'
  <2>1. j.kind # "loop" /\ outer' = outer /\ phase' = [phase EXCEPT ![j] = "trailing"]
    BY <1>12 DEF RouteTrails, Trails
  <2> QED BY <1>1, <1>8, <2>1
<1>13. CASE Exit \/ UNCHANGED perVars
  BY <1>8, <1>13 DEF Exit, perVars, jobVars
<1>14. CASE Crash
  BY <1>14 DEF Crash, Loops
<1> QED BY <1>3, <1>4, <1>5, <1>6, <1>7, <1>9, <1>10, <1>11, <1>12, <1>13, <1>14 DEF Next

-------------------------------------------------------------------------------
\* The inductive invariant holds of every behaviour.
LEMMA StateInvariant == Spec => []IInv
<1>1. Init => IInv
  <2>1. Init => Clearing /\ Stopping /\ Loops
    BY DEF Init, Clearing, CleanUnlessRaced, Pending, Stopping, Loops
  <2> QED BY <2>1, LinesInit DEF IInv
<1>2. IInv /\ [Next]_perVars => IInv'
  BY DocTypesStep, LinesStep, LoopsStep, ClearingStep, StoppingStep DEF IInv, Types
<1> QED BY <1>1, <1>2, PTL DEF Spec

\* Every variable stays in its type; above all, no line is left by a job that does
\* not stand in it (lib/mutex.js:20).
THEOREM StateTypes == Spec => []TypeOK
<1>1. IInv => TypeOK
  BY DEF IInv, Types, DocTypes, JobTypes, Loops, TypeOK
<1> QED BY <1>1, StateInvariant, PTL

\* What is stored of the sites and of the events never goes back, whatever intervals,
\* routes and shutdowns write them (lib/sites.js:334, lib/events.js:47).
THEOREM StoredDocsAdvance == Spec => LockedDocsAdvance
<1>1. IInv /\ [Next]_perVars => [\A d \in Locked : disk'[d] >= disk[d]]_perVars
  BY LinesStep DEF IInv
<1> QED BY <1>1, StateInvariant, PTL DEF Spec, LockedDocsAdvance

\* A flag is clean only when the document is stored, or for one of the two recorded
\* reasons, whatever jobs there are (lib/sites.js:552).
THEOREM CleanDocsStored == Spec => []CleanUnlessRaced
<1>1. IInv => CleanUnlessRaced
  BY DEF IInv, Clearing
<1> QED BY <1>1, StateInvariant, PTL

\* A shutdown whose writes succeed has stored the sites and the events as they were
\* when the signal came, whatever jobs there are (server.js:865).
THEOREM ShutdownStores == Spec => []ExitStores
<1>1. IInv => ExitStores
  <2> SUFFICES ASSUME IInv, server = "exited", lost = {}, NEW d \in Locked
               PROVE  disk[d] >= goal[d]
    BY DEF ExitStores
  <2>1. goal[d] <= disk[d]
    BY DEF IInv, Stopping
  <2>2. goal[d] \in Nat /\ disk[d] \in Nat
    BY DocFacts DEF IInv, Types, DocTypes
  <2> QED BY <2>1, <2>2
<1> QED BY <1>1, StateInvariant, PTL

\* Both together: nothing a clean flag or an exit stands for is left unstored.
THEOREM StateSafe == Spec => []StateSafety
<1>1. CleanUnlessRaced /\ ExitStores => StateSafety BY DEF StateSafety
<1> QED BY <1>1, CleanDocsStored, ShutdownStores, PTL
===============================================================================
