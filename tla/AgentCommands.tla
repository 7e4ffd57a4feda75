----------------------------- MODULE AgentCommands -----------------------------
(***************************************************************************)
(* The command channel from the server to the collector agents, lib/agent.js *)
(* "Command waiter management": per site a FIFO of command rows with lease *)
(* windows, and a table of the promises that wait for an answer, each with *)
(* a timer.                                                                *)
(*                                                                         *)
(* Every handler runs without interruption, so each is one action.  A row  *)
(* is its command id, the end of its lease and the number of times it was  *)
(* handed out; `lastIssuedAt`, `createdAt` and the command text are        *)
(* written and never read by the channel.  A row that was never handed out *)
(* has leaseUntil = 0.                                                     *)
(*                                                                         *)
(* The payload a promise resolves with is abstracted to the site on whose  *)
(* session it was posted.                                                  *)
(***************************************************************************)
EXTENDS Integers, Sequences, SequencesExt, TLAPS, SequenceTheorems

CONSTANTS
  Site,       \* site ids
  Cmd,        \* command ids, each used once: queueCollectorAgentCommand draws fresh ones
  NoSite,
  Lease,      \* COLLECTOR_AGENT_COMMAND_LEASE_MS
  Timeout,    \* COLLECTOR_AGENT_COMMAND_TIMEOUT_MS
  MaxTime     \* bound of the clock

ASSUME SiteAssumption == NoSite \notin Site
ASSUME TimeAssumption == /\ Lease \in Nat \ {0}
                         /\ Timeout \in Nat \ {0}
                         /\ MaxTime \in Nat

VARIABLES
  now,       \* Date.now()
  queue,     \* state.agentCommandQueue: per site its rows, oldest first
  pending,   \* the keys of state.agentPending
  cmdSite,   \* the siteId of a pending entry (kept after it is gone)
  timer,     \* when the setTimeout of a command is due; 0: none or cleared
  promise,   \* the promise queueCollectorAgentCommand returned
  answer,    \* the payload it resolved with
  issued     \* history: the commands that a poll has returned

chanVars == <<queue, pending, cmdSite, timer, promise, answer, issued>>
cmdVars == <<now, chanVars>>

Row == [id : Cmd, leaseUntil : Nat, attempts : Nat]

NewRow(c) == [id |-> c, leaseUntil |-> 0, attempts |-> 0]

Leased(r, t) == [id |-> r.id, leaseUntil |-> t + Lease, attempts |-> r.attempts + 1]

(* Operators on one site's queue. *)

Indices(q, c) == {i \in DOMAIN q : q[i].id = c}

First(I) == CHOOSE i \in I : \A j \in I : i <= j

-------------------------------------------------------------------------------
(* Faulty variants.  Each is a change somebody could make to lib/agent.js; the *)
(* checks replace the definition it varies by it and expect a property below   *)
(* to fail.                                                                    *)

\* `delete queue[idx]` in the place of splice(idx, 1).
RemoveLeavesHole(q, c) == [i \in DOMAIN q |-> IF i \in Indices(q, c) THEN <<>> ELSE q[i]]

\* The resolve path without its call of removeCollectorAgentQueuedCommand.
ResolveKeepsRow(s, c) ==
  /\ c \in pending
  /\ cmdSite[c] = s
  /\ timer' = [timer EXCEPT ![c] = 0]
  /\ pending' = pending \ {c}
  /\ promise' = [promise EXCEPT ![c] = "resolved"]
  /\ answer' = [answer EXCEPT ![c] = s]
  /\ UNCHANGED <<queue, cmdSite, issued>>

\* The resolve path without its test of the expected site.
ResolveAnySite(s, c) ==
  /\ c \in pending
  /\ timer' = [timer EXCEPT ![c] = 0]
  /\ pending' = pending \ {c}
  /\ queue' = [queue EXCEPT ![cmdSite[c]] = SelectSeq(@, LAMBDA r : r.id # c)]
  /\ promise' = [promise EXCEPT ![c] = "resolved"]
  /\ answer' = [answer EXCEPT ![c] = s]
  /\ UNCHANGED <<cmdSite, issued>>

\* The clear path deleting the entries itself and forgetting clearTimeout.
ClearLeavesTimers(s) ==
  LET C == {c \in pending : cmdSite[c] = s}
  IN /\ queue' = [queue EXCEPT ![s] = <<>>]
     /\ pending' = pending \ C
     /\ promise' = [c \in Cmd |-> IF c \in C THEN "rejected" ELSE promise[c]]
     /\ UNCHANGED <<cmdSite, timer, answer, issued>>

\* unshift in the place of push.
QueueInFront(s, c) ==
  /\ promise[c] = "unused" /\ now + Timeout <= MaxTime
  /\ queue' = [queue EXCEPT ![s] = <<NewRow(c)>> \o @]
  /\ pending' = pending \cup {c}
  /\ cmdSite' = [cmdSite EXCEPT ![c] = s]
  /\ timer' = [timer EXCEPT ![c] = now + Timeout]
  /\ promise' = [promise EXCEPT ![c] = "waiting"]
  /\ UNCHANGED <<answer, issued>>

\* `leaseUntil > now + 1`: a lease that ends one tick early.
DueEarly(q) == {i \in DOMAIN q : q[i].leaseUntil <= now + 1}

\* The timer callback removing the entry only once its row was handed out.
TimeoutOfIssuedRejects(c) ==
  /\ timer[c] # 0 /\ timer[c] <= now
  /\ c \in pending
  /\ timer' = [timer EXCEPT ![c] = 0]
  /\ IF c \in issued
     THEN /\ pending' = pending \ {c}
          /\ queue' = [queue EXCEPT ![cmdSite[c]] = SelectSeq(@, LAMBDA r : r.id # c)]
          /\ promise' = [promise EXCEPT ![c] = "rejected"]
     ELSE UNCHANGED <<pending, queue, promise>>
  /\ UNCHANGED <<cmdSite, answer, issued>>

-------------------------------------------------------------------------------
Init == /\ now = 1
        /\ queue = [s \in Site |-> <<>>]
        /\ pending = {}
        /\ cmdSite = [c \in Cmd |-> NoSite]
        /\ timer = [c \in Cmd |-> 0]
        /\ promise = [c \in Cmd |-> "unused"]
        /\ answer = [c \in Cmd |-> NoSite]
        /\ issued = {}

\* removeCollectorAgentQueuedCommand: findIndex and splice.
RemoveRow(q, c) == IF Indices(q, c) = {} THEN q ELSE RemoveAt(q, First(Indices(q, c)))

\* The rows a poll may hand out now.
Due(q) == {i \in DOMAIN q : q[i].leaseUntil <= now}

\* queueCollectorAgentCommand: push the row, arm the timer, park the promise.
\* The second guard is the bound: no command whose timer lies beyond the clock.
QueueCommand(s, c) ==
  /\ promise[c] = "unused" /\ now + Timeout <= MaxTime
  /\ queue' = [queue EXCEPT ![s] = Append(@, NewRow(c))]
  /\ pending' = pending \cup {c}
  /\ cmdSite' = [cmdSite EXCEPT ![c] = s]
  /\ timer' = [timer EXCEPT ![c] = now + Timeout]
  /\ promise' = [promise EXCEPT ![c] = "waiting"]
  /\ UNCHANGED <<answer, issued>>

\* dequeueCollectorAgentCommandForPoll finding a row: the oldest that is due is
\* leased and stays.
IssueRow(s) ==
  /\ \E i \in Due(queue[s]) :
       /\ \A j \in Due(queue[s]) : i <= j
       /\ queue' = [queue EXCEPT ![s][i] = Leased(@, now)]
       /\ issued' = issued \cup {queue[s][i].id}
  /\ UNCHANGED <<pending, cmdSite, timer, promise, answer>>

NothingDue(s) == Due(queue[s]) = {} /\ UNCHANGED chanVars

DequeueForPoll(s) == IssueRow(s) \/ NothingDue(s)

\* resolveCollectorCommandWaiter for a result posted on a session of site s.
ResolveWaiter(s, c) ==
  /\ c \in pending
  /\ cmdSite[c] = s
  /\ timer' = [timer EXCEPT ![c] = 0]
  /\ pending' = pending \ {c}
  /\ queue' = [queue EXCEPT ![s] = RemoveRow(@, c)]
  /\ promise' = [promise EXCEPT ![c] = "resolved"]
  /\ answer' = [answer EXCEPT ![c] = s]
  /\ UNCHANGED <<cmdSite, issued>>

\* "Unknown or expired command id": nobody waits, or the command is another site's.
IgnoreResult(s, c) ==
  /\ ~ (c \in pending /\ cmdSite[c] = s)
  /\ UNCHANGED chanVars

Result(s, c) == ResolveWaiter(s, c) \/ IgnoreResult(s, c)

\* The timer of a command is due and rejectCollectorCommandWaiter finds its entry.
TimeoutRejects(c) ==
  /\ timer[c] # 0 /\ timer[c] <= now
  /\ c \in pending
  /\ timer' = [timer EXCEPT ![c] = 0]
  /\ pending' = pending \ {c}
  /\ queue' = [queue EXCEPT ![cmdSite[c]] = RemoveRow(@, c)]
  /\ promise' = [promise EXCEPT ![c] = "rejected"]
  /\ UNCHANGED <<cmdSite, answer, issued>>

\* ... and finds none: the table it was in has been replaced.
TimeoutFindsNothing(c) ==
  /\ timer[c] # 0 /\ timer[c] <= now
  /\ c \notin pending
  /\ timer' = [timer EXCEPT ![c] = 0]
  /\ UNCHANGED <<queue, pending, cmdSite, promise, answer, issued>>

TimerFires(c) == TimeoutRejects(c) \/ TimeoutFindsNothing(c)

\* clearCollectorAgentSiteRuntime, as far as the channel goes: the queue of the
\* site goes and everything that waits for the site is rejected.
ClearSite(s) ==
  LET C == {c \in pending : cmdSite[c] = s}
  IN /\ queue' = [queue EXCEPT ![s] = <<>>]
     /\ pending' = pending \ C
     /\ timer' = [c \in Cmd |-> IF c \in C THEN 0 ELSE timer[c]]
     /\ promise' = [c \in Cmd |-> IF c \in C THEN "rejected" ELSE promise[c]]
     /\ UNCHANGED <<cmdSite, answer, issued>>

\* performFactoryResetForDeployment: new, empty tables.  Nobody settles the
\* promises of the old one, and its timers stay armed.
ResetChannel ==
  /\ queue' = [s \in Site |-> <<>>]
  /\ pending' = {}
  /\ UNCHANGED <<cmdSite, timer, promise, answer, issued>>

Tick == now < MaxTime /\ now' = now + 1 /\ UNCHANGED chanVars

ChannelStep ==
  \/ \E s \in Site, c \in Cmd : QueueCommand(s, c) \/ (c \in issued /\ Result(s, c))
  \/ \E s \in Site : DequeueForPoll(s) \/ ClearSite(s)
  \/ \E c \in Cmd : TimerFires(c)
  \/ ResetChannel

\* Agents poll at any time and post results, at any time and any number of times,
\* for commands that some poll has returned, also on a session of another site.
Next == (ChannelStep /\ UNCHANGED now) \/ Tick

Spec == Init /\ [][Next]_cmdVars

\* Node runs a due timer; time passes.
Fairness == /\ \A c \in Cmd : WF_cmdVars(TimerFires(c) /\ UNCHANGED now)
            /\ WF_cmdVars(Tick)

FairSpec == Spec /\ Fairness

-------------------------------------------------------------------------------
TypeOK == /\ now \in Nat
          /\ queue \in [Site -> Seq(Row)]
          /\ pending \in SUBSET Cmd
          /\ cmdSite \in [Cmd -> Site \cup {NoSite}]
          /\ timer \in [Cmd -> Nat]
          /\ promise \in [Cmd -> {"unused", "waiting", "resolved", "rejected"}]
          /\ answer \in [Cmd -> Site \cup {NoSite}]
          /\ issued \in SUBSET Cmd

\* The queues and the table agree: a site's queue holds exactly the commands that
\* wait for it, each once.  A row without a waiter would be handed to an agent for
\* nobody, a waiter without a row could only time out (lib/agent.js:554-577).
QueueMatchesPending ==
  \A s \in Site :
    /\ {queue[s][i].id : i \in DOMAIN queue[s]} = {c \in pending : cmdSite[c] = s}
    /\ \A i, j \in DOMAIN queue[s] : queue[s][i].id = queue[s][j].id => i = j

\* Every waiting command has a timer that will reject it, a settled command has
\* none left to fire, and only commands nobody has settled yet are in the table.
WaiterArmed ==
  \A c \in Cmd :
    /\ c \in pending => promise[c] = "waiting" /\ timer[c] # 0
    /\ promise[c] # "waiting" => timer[c] = 0

\* Within a site commands are handed out for the first time in the order in which
\* they were queued, whatever leases end and whatever rows go in between
\* (dequeueCollectorAgentCommandForPoll scans from the oldest).
FifoFirstIssue ==
  \A s \in Site : \A i, j \in DOMAIN queue[s] :
    i < j /\ queue[s][j].attempts > 0 => queue[s][i].attempts > 0

\* Handing a command out n times takes n - 1 whole leases: the leases of one
\* command never overlap, whoever polls and however often (lib/agent.js:511).
LeasesDisjoint ==
  \A s \in Site : \A i \in DOMAIN queue[s] :
    LET r == queue[s][i]
    IN r.attempts > 0 => r.leaseUntil >= (timer[r.id] - Timeout) + r.attempts * Lease

\* The table, the timers, the order and the leases are right together, in one
\* invariant (lib/agent.js:486-620).
ChannelSafety == QueueMatchesPending /\ WaiterArmed /\ FifoFirstIssue /\ LeasesDisjoint

\* A command leaves the table: answered, timed out, cleared with its site, or
\* dropped with the whole table by a factory reset.
SettlesOrDropped == \A c \in Cmd : c \in pending ~> c \notin pending

\* What the reason of the timer says, "Timed out waiting for collector agent
\* response" (lib/agent.js:598): whoever waits for an agent is told when it does
\* not answer, so no caller waits for ever.
EveryCommandSettles == \A c \in Cmd : promise[c] = "waiting" ~> promise[c] # "waiting"

-------------------------------------------------------------------------------
\* A promise that waits without an entry in the table is lost.
Outcome == [c \in Cmd |-> IF promise[c] = "waiting" /\ c \notin pending
                          THEN "lost" ELSE promise[c]]

Delivery == INSTANCE CommandDelivery WITH
              outcome <- Outcome, target <- cmdSite, offered <- issued, answer <- answer

\* The channel keeps the promise of CommandDelivery: a caller gets at most one
\* answer, from an agent of the site it asked, to a command that was handed out.
ImplementsDelivery == Delivery!Spec

-------------------------------------------------------------------------------
(* Proofs, for any sites, any commands and any lease and time-out.         *)
(*                                                                         *)
(* The invariant speaks of one site's queue at a time: QueueOK says what   *)
(* the queue, the set of commands that wait for the site and the timers    *)
(* have to do with one another, so that each lemma about push, lease and   *)
(* splice is about one sequence.  FifoFirstIssue needs that a row is       *)
(* leased exactly when it was handed out; LeasesDisjoint needs that no     *)
(* timer is more than one time-out ahead of the clock.                     *)

Waiting(s) == {c \in pending : cmdSite[c] = s}

QueueOK(q, C, tm) ==
  /\ q \in Seq(Row)
  /\ \A i \in DOMAIN q : q[i].id \in C
  /\ \A c \in C : \E i \in DOMAIN q : q[i].id = c
  /\ \A i, j \in DOMAIN q : q[i].id = q[j].id => i = j
  /\ \A i, j \in DOMAIN q : i < j /\ q[j].attempts > 0 => q[i].attempts > 0
  /\ \A i \in DOMAIN q :
       /\ q[i].attempts > 0 => q[i].leaseUntil >= (tm[q[i].id] - Timeout) + q[i].attempts * Lease
       /\ q[i].attempts = 0 <=> q[i].leaseUntil = 0

ChannelInv ==
  /\ TypeOK
  /\ WaiterArmed
  /\ \A c \in pending : cmdSite[c] \in Site
  /\ \A c \in Cmd : timer[c] <= now + Timeout
  /\ now > 0
  /\ \A s \in Site : QueueOK(queue[s], Waiting(s), timer)

-------------------------------------------------------------------------------
(* One queue. *)

(* The rows of r are rows of q, in the same order.                         *)
Follows(r, q) ==
  /\ \A i \in DOMAIN r : \E k \in DOMAIN q : r[i] = q[k]
  /\ \A i, j \in DOMAIN r : i < j => \E k, l \in DOMAIN q : k < l /\ r[i] = q[k] /\ r[j] = q[l]

LEMMA EmptyQueueOK == ASSUME NEW tm PROVE QueueOK(<<>>, {}, tm)
  BY DEF QueueOK

LEMMA PushOK ==
  ASSUME NEW q, NEW C, NEW tm, NEW tm2, QueueOK(q, C, tm), NEW c \in Cmd, c \notin C,
         \A d \in C : tm2[d] = tm[d]
  PROVE  QueueOK(Append(q, NewRow(c)), C \cup {c}, tm2)
<1> DEFINE r == Append(q, NewRow(c))
<1>1. /\ NewRow(c) \in Row /\ NewRow(c).id = c
      /\ NewRow(c).attempts = 0 /\ NewRow(c).leaseUntil = 0
  BY DEF NewRow, Row
<1>2. /\ r \in Seq(Row)
      /\ DOMAIN q = 1..Len(q) /\ Len(q) \in Nat
      /\ DOMAIN r = 1..(Len(q) + 1)
      /\ \A i \in DOMAIN q : r[i] = q[i] /\ i \in DOMAIN r
      /\ r[Len(q) + 1] = NewRow(c)
      /\ \A i \in DOMAIN r : i \in DOMAIN q \/ i = Len(q) + 1
  BY <1>1 DEF QueueOK
<1> HIDE DEF r
<1>3. \A i \in DOMAIN r : r[i].id \in C \cup {c} BY <1>1, <1>2 DEF QueueOK
<1>4. \A d \in C \cup {c} : \E i \in DOMAIN r : r[i].id = d
  BY <1>1, <1>2 DEF QueueOK
<1>5. \A i, j \in DOMAIN r : r[i].id = r[j].id => i = j
  BY <1>1, <1>2 DEF QueueOK
<1>6. \A i, j \in DOMAIN r : i < j /\ r[j].attempts > 0 => r[i].attempts > 0
  BY <1>1, <1>2 DEF QueueOK
<1>7. \A i \in DOMAIN r :
       /\ r[i].attempts > 0 => r[i].leaseUntil >= (tm2[r[i].id] - Timeout) + r[i].attempts * Lease
       /\ r[i].attempts = 0 <=> r[i].leaseUntil = 0
  BY <1>1, <1>2 DEF QueueOK
<1>8. QED BY <1>2, <1>3, <1>4, <1>5, <1>6, <1>7 DEF QueueOK, r

LEMMA RemoveAtFacts ==
  ASSUME NEW S, NEW q \in Seq(S), NEW k \in 1..Len(q)
  PROVE  /\ RemoveAt(q, k) \in Seq(S)
         /\ Len(RemoveAt(q, k)) = Len(q) - 1
         /\ \A i \in 1..(Len(q) - 1) : RemoveAt(q, k)[i] = IF i < k THEN q[i] ELSE q[i + 1]
<1> DEFINE front == SubSeq(q, 1, k - 1)
           back == SubSeq(q, k + 1, Len(q))
<1>1. /\ front \in Seq(S) /\ Len(front) = k - 1
      /\ \A i \in 1..(k - 1) : front[i] = q[i]
  BY SubSeqProperties
<1>2. /\ back \in Seq(S) /\ Len(back) = Len(q) - k
      /\ \A i \in 1..(Len(q) - k) : back[i] = q[k + i]
  BY SubSeqProperties
<1>3. RemoveAt(q, k) = front \o back BY DEF RemoveAt
<1> HIDE DEF front, back
<1>4. /\ front \o back \in Seq(S) /\ Len(front \o back) = Len(q) - 1
      /\ \A i \in 1..(k - 1) : (front \o back)[i] = front[i]
      /\ \A i \in k..(Len(q) - 1) : (front \o back)[i] = back[i - (k - 1)]
  <2>1. Len(q) \in Nat OBVIOUS
  <2>2. front \o back \in Seq(S) /\ Len(front \o back) = Len(front) + Len(back)
        /\ \A i \in 1..(Len(front) + Len(back)) : (front \o back)[i] = IF i <= Len(front) THEN front[i] ELSE back[i - Len(front)]
    BY <1>1, <1>2, ConcatProperties
  <2>3. QED BY <1>1, <1>2, <2>1, <2>2
<1>5. \A i \in k..(Len(q) - 1) : back[i - (k - 1)] = q[i + 1]
  <2>1. ASSUME NEW i \in k..(Len(q) - 1) PROVE back[i - (k - 1)] = q[i + 1]
    <3>1. i - (k - 1) \in 1..(Len(q) - k) /\ k + (i - (k - 1)) = i + 1 OBVIOUS
    <3>2. QED BY <1>2, <3>1
  <2>2. QED BY <2>1
<1>6. \A i \in 1..(Len(q) - 1) : i \in 1..(k - 1) \/ i \in k..(Len(q) - 1) OBVIOUS
<1>7. \A i \in 1..(Len(q) - 1) : (front \o back)[i] = IF i < k THEN q[i] ELSE q[i + 1]
  <2>1. ASSUME NEW i \in 1..(Len(q) - 1)
        PROVE (front \o back)[i] = IF i < k THEN q[i] ELSE q[i + 1]
    <3>1. CASE i \in 1..(k - 1) BY <3>1, <1>1, <1>4
    <3>2. CASE i \in k..(Len(q) - 1) BY <3>2, <1>4, <1>5
    <3>3. QED BY <1>6, <3>1, <3>2
  <2>2. QED BY <2>1
<1>8. QED BY <1>3, <1>4, <1>7

LEMMA RemoveOK ==
  ASSUME NEW q, NEW C, NEW tm, NEW tm2, QueueOK(q, C, tm), NEW c \in C,
         \A d \in C \ {c} : tm2[d] = tm[d]
  PROVE  QueueOK(RemoveRow(q, c), C \ {c}, tm2) /\ Follows(RemoveRow(q, c), q)
<1>1. PICK k \in DOMAIN q : q[k].id = c BY DEF QueueOK
<1>2. \A i \in DOMAIN q : q[i].id = c => i = k BY <1>1 DEF QueueOK
<1>3. Indices(q, c) = {k} BY <1>1, <1>2 DEF Indices
<1>4. q \in Seq(Row) /\ Len(q) \in Nat /\ DOMAIN q = 1..Len(q) BY DEF QueueOK
<1>5. First({k}) = k
  <2>1. k \in Int /\ k <= k BY <1>4
  <2>2. \E i \in {k} : \A j \in {k} : i <= j BY <2>1
  <2>3. QED BY <2>2 DEF First
<1> DEFINE r == RemoveRow(q, c)
           at(i) == IF i < k THEN i ELSE i + 1
<1>6. r = RemoveAt(q, k) BY <1>3, <1>5 DEF RemoveRow
<1>7. /\ r \in Seq(Row) /\ DOMAIN r = 1..(Len(q) - 1)
      /\ \A i \in DOMAIN r : r[i] = q[at(i)] /\ at(i) \in DOMAIN q /\ at(i) # k /\ i \in Int
  <2>1. r \in Seq(Row) /\ Len(r) = Len(q) - 1
    BY <1>4, <1>6, RemoveAtFacts
  <2>2. \A i \in 1..(Len(q) - 1) : RemoveAt(q, k)[i] = IF i < k THEN q[i] ELSE q[i + 1]
    <3>1. q \in Seq(Row) /\ k \in 1..Len(q) BY <1>4
    <3>2. QED BY <3>1, RemoveAtFacts, Zenon
  <2>3. QED BY <2>1, <2>2, <1>4, <1>6
<1>8. \A i, j \in DOMAIN r : (i < j <=> at(i) < at(j)) /\ (at(i) = at(j) => i = j)
  BY <1>4, <1>7
<1>9. \A i \in DOMAIN q : i # k => \E j \in DOMAIN r : at(j) = i
  <2>1. ASSUME NEW i \in DOMAIN q, i # k PROVE \E j \in DOMAIN r : at(j) = i
    <3>1. CASE i < k BY <2>1, <3>1, <1>4, <1>7
    <3>2. CASE i > k
      <4>1. i - 1 \in DOMAIN r /\ at(i - 1) = i BY <3>2, <1>4, <1>7
      <4>2. QED BY <4>1
    <3>3. QED BY <2>1, <3>1, <3>2, <1>4
  <2>2. QED BY <2>1
<1> HIDE DEF r, at
<1>10. \A i \in DOMAIN r : r[i].id \in C \ {c} BY <1>2, <1>7 DEF QueueOK
<1>11. \A d \in C \ {c} : \E i \in DOMAIN r : r[i].id = d
  <2>1. ASSUME NEW d \in C \ {c} PROVE \E i \in DOMAIN r : r[i].id = d
    <3>1. PICK i \in DOMAIN q : q[i].id = d BY DEF QueueOK
    <3>2. i # k BY <1>1, <2>1, <3>1
    <3>3. PICK j \in DOMAIN r : at(j) = i BY <1>9, <3>2
    <3>4. QED BY <1>7, <3>1, <3>3
  <2>2. QED BY <2>1
<1>12. \A i, j \in DOMAIN r : r[i].id = r[j].id => i = j
  BY <1>7, <1>8 DEF QueueOK
<1>13. \A i, j \in DOMAIN r : i < j /\ r[j].attempts > 0 => r[i].attempts > 0
  BY <1>7, <1>8 DEF QueueOK
<1>14. \A i \in DOMAIN r :
       /\ r[i].attempts > 0 => r[i].leaseUntil >= (tm2[r[i].id] - Timeout) + r[i].attempts * Lease
       /\ r[i].attempts = 0 <=> r[i].leaseUntil = 0
  <2>1. ASSUME NEW i \in DOMAIN r PROVE tm2[r[i].id] = tm[q[at(i)].id] /\ r[i] = q[at(i)]
    BY <1>7, <1>10, <2>1
  <2>2. QED BY <1>7, <2>1 DEF QueueOK
<1>15. Follows(r, q) BY <1>7, <1>8 DEF Follows
<1>16. QED BY <1>7, <1>10, <1>11, <1>12, <1>13, <1>14, <1>15 DEF QueueOK, r

LEMMA LeaseOK ==
  ASSUME NEW q, NEW C, NEW tm, QueueOK(q, C, tm), NEW t \in Nat \ {0},
         NEW k \in DOMAIN q, q[k].leaseUntil <= t,
         \A j \in DOMAIN q : q[j].leaseUntil <= t => k <= j,
         tm[q[k].id] \in Nat, tm[q[k].id] <= t + Timeout
  PROVE  QueueOK([q EXCEPT ![k] = Leased(@, t)], C, tm)
<1> DEFINE w == Leased(q[k], t)
           r == [q EXCEPT ![k] = w]
<1>1. q \in Seq(Row) /\ Len(q) \in Nat /\ DOMAIN q = 1..Len(q) BY DEF QueueOK
<1>2. q[k] \in Row BY <1>1
<1>3. /\ w \in Row /\ w.id = q[k].id
      /\ w.leaseUntil = t + Lease /\ w.attempts = q[k].attempts + 1
      /\ q[k].attempts \in Nat /\ q[k].leaseUntil \in Nat
  <2>1. q[k].id \in Cmd /\ q[k].attempts \in Nat /\ q[k].leaseUntil \in Nat
    BY <1>2 DEF Row
  <2>2. w = [id |-> q[k].id, leaseUntil |-> t + Lease, attempts |-> q[k].attempts + 1]
    BY DEF Leased
  <2>3. t + Lease \in Nat /\ q[k].attempts + 1 \in Nat BY <2>1, TimeAssumption
  <2> HIDE DEF w
  <2>4. QED BY <2>1, <2>2, <2>3 DEF Row
<1> HIDE DEF w
<1>4. /\ r \in Seq(Row) /\ DOMAIN r = DOMAIN q
      /\ r[k] = w /\ \A i \in DOMAIN q : i # k => r[i] = q[i]
  BY <1>1, <1>3
<1> HIDE DEF r
<1>5. \A i \in DOMAIN q : r[i].id = q[i].id BY <1>3, <1>4
<1>6. \A i \in DOMAIN q : i < k => q[i].attempts > 0
  <2>1. ASSUME NEW i \in DOMAIN q, i < k PROVE q[i].attempts > 0
    <3>1. ~ (q[i].leaseUntil <= t) BY <1>1, <2>1
    <3>2. q[i] \in Row BY <1>1
    <3>3. q[i].leaseUntil # 0 /\ q[i].attempts \in Nat BY <3>1, <3>2 DEF Row
    <3>4. QED BY <3>3 DEF QueueOK
  <2>2. QED BY <2>1
<1>7. \A i, j \in DOMAIN r : i < j /\ r[j].attempts > 0 => r[i].attempts > 0
  <2>1. ASSUME NEW i \in DOMAIN q, NEW j \in DOMAIN q, i < j, r[j].attempts > 0
        PROVE  r[i].attempts > 0
    <3>1. CASE i = k BY <3>1, <1>3, <1>4
    <3>2. CASE i # k /\ j = k BY <3>2, <2>1, <1>4, <1>6
    <3>3. CASE i # k /\ j # k BY <3>3, <2>1, <1>4 DEF QueueOK
    <3>4. QED BY <3>1, <3>2, <3>3
  <2>2. QED BY <2>1, <1>4
<1>8. w.leaseUntil >= (tm[w.id] - Timeout) + w.attempts * Lease
  <2> DEFINE tries == q[k].attempts
             u == tm[q[k].id] - Timeout
  <2>1. u \in Int /\ u <= t /\ tries \in Nat BY <1>3, TimeAssumption
  <2>2. tries > 0 => q[k].leaseUntil >= u + tries * Lease BY DEF QueueOK
  <2>3. w.leaseUntil = t + Lease /\ w.attempts = tries + 1 /\ w.id = q[k].id BY <1>3
  <2>4. q[k].leaseUntil <= t /\ q[k].leaseUntil \in Nat BY <1>3
  <2> HIDE DEF tries, u
  <2>5. (tries + 1) * Lease = tries * Lease + Lease /\ tries * Lease \in Int BY <2>1, TimeAssumption
  <2>6. u + tries * Lease <= t
    <3>1. CASE tries = 0
      <4>1. tries * Lease = 0 BY <3>1, TimeAssumption
      <4>2. QED BY <4>1, <2>1
    <3>2. CASE tries > 0 BY <3>2, <2>1, <2>2, <2>4, <2>5
    <3>3. QED BY <3>1, <3>2, <2>1
  <2>7. t + Lease >= u + (tries * Lease + Lease) BY <2>1, <2>5, <2>6, TimeAssumption
  <2>8. QED BY <2>3, <2>5, <2>7 DEF u
<1>9. \A i \in DOMAIN r :
       /\ r[i].attempts > 0 => r[i].leaseUntil >= (tm[r[i].id] - Timeout) + r[i].attempts * Lease
       /\ r[i].attempts = 0 <=> r[i].leaseUntil = 0
  <2>1. ASSUME NEW i \in DOMAIN q, i # k
        PROVE /\ r[i].attempts > 0 => r[i].leaseUntil >= (tm[r[i].id] - Timeout) + r[i].attempts * Lease
              /\ r[i].attempts = 0 <=> r[i].leaseUntil = 0
    BY <2>1, <1>4 DEF QueueOK
  <2>2. w.attempts # 0 /\ w.leaseUntil # 0 BY <1>3, TimeAssumption
  <2>3. QED BY <2>1, <2>2, <1>4, <1>8
<1>10. QED
  <2>1. \A i \in DOMAIN r : r[i].id \in C BY <1>4, <1>5 DEF QueueOK
  <2>2. \A c \in C : \E i \in DOMAIN r : r[i].id = c BY <1>4, <1>5 DEF QueueOK
  <2>3. \A i, j \in DOMAIN r : r[i].id = r[j].id => i = j BY <1>4, <1>5 DEF QueueOK
  <2>4. QueueOK(r, C, tm) BY <1>4, <1>7, <1>9, <2>1, <2>2, <2>3 DEF QueueOK
  <2>5. QED BY <2>4 DEF r, w

LEMMA SameQueueOK ==
  ASSUME NEW q, NEW C, NEW tm, NEW tm2, QueueOK(q, C, tm), \A c \in C : tm2[c] = tm[c]
  PROVE  QueueOK(q, C, tm2)
  BY DEF QueueOK

-------------------------------------------------------------------------------
(* The steps. *)

LEMMA InitInv == Init => ChannelInv
<1> SUFFICES ASSUME Init PROVE ChannelInv OBVIOUS
<1>1. TypeOK BY DEF Init, TypeOK
<1>2. WaiterArmed BY DEF Init, WaiterArmed
<1>3. \A s \in Site : QueueOK(queue[s], Waiting(s), timer)
  BY EmptyQueueOK DEF Init, Waiting
<1>4. QED BY <1>1, <1>2, <1>3, TimeAssumption DEF Init, ChannelInv

LEMMA QueueCommandInv ==
  ASSUME ChannelInv, NEW s \in Site, NEW c \in Cmd, QueueCommand(s, c), now' = now PROVE ChannelInv'
<1> USE DEF ChannelInv, TypeOK
<1>1. c \notin pending /\ timer[c] = 0 BY DEF QueueCommand, WaiterArmed
<1>2. QueueOK(queue[s], Waiting(s), timer) /\ c \notin Waiting(s) BY <1>1 DEF Waiting
<1>3. \A d \in pending : d # c /\ timer'[d] = timer[d] /\ cmdSite'[d] = cmdSite[d]
  BY <1>1 DEF QueueCommand
<1>4. QueueOK(queue'[s], Waiting(s)', timer')
  <2>1. Waiting(s)' = Waiting(s) \cup {c} BY <1>1 DEF QueueCommand, Waiting
  <2>2. queue'[s] = Append(queue[s], NewRow(c)) BY DEF QueueCommand
  <2>3. \A d \in Waiting(s) : timer'[d] = timer[d] BY <1>3 DEF Waiting
  <2>4. QueueOK(Append(queue[s], NewRow(c)), Waiting(s) \cup {c}, timer')
    BY ONLY <1>2, <2>3, PushOK, c \in Cmd
  <2>5. QED BY ONLY <2>1, <2>2, <2>4
<1>5. ASSUME NEW z \in Site, z # s PROVE QueueOK(queue'[z], Waiting(z)', timer')
  <2>1. Waiting(z)' = Waiting(z) /\ queue'[z] = queue[z]
    BY <1>1, <1>5 DEF QueueCommand, Waiting
  <2>2. \A d \in Waiting(z) : timer'[d] = timer[d] BY <1>3 DEF Waiting
  <2>3. QED BY <2>1, <2>2, SameQueueOK
<1>6. queue'[s] \in Seq(Row) BY <1>4 DEF QueueOK
<1>7. TypeOK'
  <2>1. queue' \in [Site -> Seq(Row)]
    BY <1>6 DEF QueueCommand
  <2>2. QED BY <2>1, TimeAssumption DEF QueueCommand
<1>8. WaiterArmed' BY TimeAssumption DEF QueueCommand, WaiterArmed
<1>9. /\ \A d \in pending' : cmdSite'[d] \in Site
      /\ \A d \in Cmd : timer'[d] <= now' + Timeout
  BY TimeAssumption DEF QueueCommand
<1>10. QED BY <1>4, <1>5, <1>7, <1>8, <1>9

LEMMA DequeueInv ==
  ASSUME ChannelInv, NEW s \in Site, IssueRow(s), now' = now PROVE ChannelInv'
<1> USE DEF ChannelInv, TypeOK
<1>1. PICK k \in Due(queue[s]) :
        /\ \A j \in Due(queue[s]) : k <= j
        /\ queue' = [queue EXCEPT ![s][k] = Leased(@, now)]
        /\ issued' = issued \cup {queue[s][k].id}
  BY DEF IssueRow
<1>2. QueueOK(queue[s], Waiting(s), timer) OBVIOUS
<1>3. k \in DOMAIN queue[s] /\ queue[s][k].leaseUntil <= now BY <1>1 DEF Due
<1>4. queue[s][k].id \in Cmd
  <2>1. queue[s][k] \in Row
    <3>1. queue[s] \in Seq(Row) BY <1>2 DEF QueueOK
    <3>2. QED BY ONLY <1>3, <3>1
  <2>2. QED BY <2>1 DEF Row
<1>5. /\ timer[queue[s][k].id] \in Nat /\ timer[queue[s][k].id] <= now + Timeout
      /\ now \in Nat \ {0}
  BY <1>4
<1>6. \A j \in DOMAIN queue[s] : queue[s][j].leaseUntil <= now => k <= j
  BY <1>1 DEF Due
<1>7. QueueOK([queue[s] EXCEPT ![k] = Leased(@, now)], Waiting(s), timer)
  BY <1>2, <1>3, <1>5, <1>6, LeaseOK
<1>8. /\ queue'[s] = [queue[s] EXCEPT ![k] = Leased(@, now)]
      /\ \A z \in Site : z # s => queue'[z] = queue[z]
      /\ DOMAIN queue' = Site /\ queue' = [z \in Site |-> queue'[z]]
  BY <1>1
<1>9. \A z \in Site : Waiting(z)' = Waiting(z) BY DEF IssueRow, Waiting
<1>10. \A z \in Site : QueueOK(queue'[z], Waiting(z)', timer')
  <2>1. timer' = timer BY DEF IssueRow
  <2>2. QED BY <1>7, <1>8, <1>9, <2>1
<1>11. queue' \in [Site -> Seq(Row)]
  <2>1. \A z \in Site : queue'[z] \in Seq(Row) BY <1>10 DEF QueueOK
  <2>2. QED BY <1>8, <2>1
<1>12. TypeOK' BY <1>1, <1>4, <1>11 DEF IssueRow
<1>13. WaiterArmed' BY DEF IssueRow, WaiterArmed
<1>14. QED BY <1>10, <1>12, <1>13 DEF IssueRow

\* What a command's leaving the table does to the queues, whoever removes it.
LEMMA RemovalInv ==
  ASSUME ChannelInv, NEW c \in pending, now' = now, cmdSite' = cmdSite,
         pending' = pending \ {c},
         timer' = [timer EXCEPT ![c] = 0],
         queue' = [queue EXCEPT ![cmdSite[c]] = RemoveRow(@, c)]
  PROVE  /\ \A s \in Site : QueueOK(queue'[s], Waiting(s)', timer')
         /\ queue' \in [Site -> Seq(Row)]
<1> USE DEF ChannelInv, TypeOK
<1> DEFINE s == cmdSite[c]
<1>1. s \in Site /\ c \in Waiting(s) /\ c \in Cmd BY DEF Waiting
<1>2. \A d \in Cmd \ {c} : timer'[d] = timer[d] OBVIOUS
<1>3. QueueOK(queue'[s], Waiting(s)', timer')
  <2>1. Waiting(s)' = Waiting(s) \ {c} BY DEF Waiting
  <2>2. queue'[s] = RemoveRow(queue[s], c) BY <1>1
  <2>3. \A d \in Waiting(s) \ {c} : timer'[d] = timer[d] BY <1>2 DEF Waiting
  <2>4. QueueOK(queue[s], Waiting(s), timer) BY <1>1
  <2> HIDE DEF s
  <2>5. QueueOK(RemoveRow(queue[s], c), Waiting(s) \ {c}, timer')
    BY ONLY <1>1, <2>3, <2>4, RemoveOK
  <2>6. QED BY ONLY <2>1, <2>2, <2>5
<1>4. ASSUME NEW z \in Site, z # s PROVE QueueOK(queue'[z], Waiting(z)', timer')
  <2>1. Waiting(z)' = Waiting(z) BY <1>4 DEF Waiting
  <2>2. queue'[z] = queue[z] BY <1>4
  <2>3. \A d \in Waiting(z) : timer'[d] = timer[d] BY <1>2, <1>4 DEF Waiting
  <2>4. QueueOK(queue[z], Waiting(z), timer) BY <1>4
  <2>5. QueueOK(queue[z], Waiting(z), timer') BY ONLY <2>3, <2>4, SameQueueOK
  <2>6. QED BY ONLY <2>1, <2>2, <2>5
<1>5. \A z \in Site : QueueOK(queue'[z], Waiting(z)', timer') BY <1>3, <1>4
<1>6. \A z \in Site : queue'[z] \in Seq(Row) BY <1>5 DEF QueueOK
<1>7. DOMAIN queue' = Site /\ queue' = [z \in Site |-> queue'[z]] OBVIOUS
<1>8. queue' \in [Site -> Seq(Row)] BY <1>6, <1>7
<1>9. QED BY <1>5, <1>8

LEMMA ResolveInv ==
  ASSUME ChannelInv, NEW s \in Site, NEW c \in Cmd, ResolveWaiter(s, c), now' = now PROVE ChannelInv'
<1> USE DEF ChannelInv, TypeOK
<1>1. c \in pending /\ cmdSite[c] = s BY DEF ResolveWaiter
<1>2. /\ \A z \in Site : QueueOK(queue'[z], Waiting(z)', timer')
      /\ queue' \in [Site -> Seq(Row)]
  BY <1>1, RemovalInv DEF ResolveWaiter
<1>3. TypeOK' BY <1>2 DEF ResolveWaiter
<1>4. WaiterArmed' BY DEF ResolveWaiter, WaiterArmed
<1>5. /\ \A d \in pending' : cmdSite'[d] \in Site
      /\ \A d \in Cmd : timer'[d] <= now' + Timeout
      /\ now' > 0
  BY TimeAssumption DEF ResolveWaiter
<1>6. QED BY <1>2, <1>3, <1>4, <1>5 DEF ChannelInv

LEMMA TimeoutRejectsInv ==
  ASSUME ChannelInv, NEW c \in Cmd, TimeoutRejects(c), now' = now PROVE ChannelInv'
<1> USE DEF ChannelInv, TypeOK
<1>1. c \in pending BY DEF TimeoutRejects
<1>2. /\ \A z \in Site : QueueOK(queue'[z], Waiting(z)', timer')
      /\ queue' \in [Site -> Seq(Row)]
  BY <1>1, RemovalInv DEF TimeoutRejects
<1>3. TypeOK' BY <1>2 DEF TimeoutRejects
<1>4. WaiterArmed' BY DEF TimeoutRejects, WaiterArmed
<1>5. /\ \A d \in pending' : cmdSite'[d] \in Site
      /\ \A d \in Cmd : timer'[d] <= now' + Timeout
      /\ now' > 0
  BY TimeAssumption DEF TimeoutRejects
<1>6. QED BY <1>2, <1>3, <1>4, <1>5 DEF ChannelInv

LEMMA TimeoutFindsNothingInv ==
  ASSUME ChannelInv, NEW c \in Cmd, TimeoutFindsNothing(c), now' = now PROVE ChannelInv'
<1> USE DEF ChannelInv, TypeOK
<1>1. \A z \in Site : QueueOK(queue'[z], Waiting(z)', timer')
  <2>1. ASSUME NEW z \in Site PROVE QueueOK(queue'[z], Waiting(z)', timer')
    <3>1. Waiting(z)' = Waiting(z) /\ queue' = queue BY DEF TimeoutFindsNothing, Waiting
    <3>2. \A d \in Waiting(z) : timer'[d] = timer[d] BY DEF TimeoutFindsNothing, Waiting
    <3>3. QED BY <3>1, <3>2, SameQueueOK
  <2>2. QED BY <2>1
<1>2. WaiterArmed' BY DEF TimeoutFindsNothing, WaiterArmed
<1>3. /\ TypeOK'
      /\ \A d \in pending' : cmdSite'[d] \in Site
      /\ \A d \in Cmd : timer'[d] <= now' + Timeout
      /\ now' > 0
  BY TimeAssumption DEF TimeoutFindsNothing
<1>4. QED BY <1>1, <1>2, <1>3 DEF ChannelInv

LEMMA ClearSiteInv ==
  ASSUME ChannelInv, NEW s \in Site, ClearSite(s), now' = now PROVE ChannelInv'
<1> USE DEF ChannelInv, TypeOK
<1>1. /\ pending' = pending \ Waiting(s)
      /\ queue' = [queue EXCEPT ![s] = <<>>]
      /\ timer' = [c \in Cmd |-> IF c \in Waiting(s) THEN 0 ELSE timer[c]]
      /\ promise' = [c \in Cmd |-> IF c \in Waiting(s) THEN "rejected" ELSE promise[c]]
      /\ UNCHANGED <<cmdSite, answer, issued>>
  BY DEF ClearSite, Waiting
<1>2. QueueOK(queue'[s], Waiting(s)', timer')
  <2>1. queue'[s] = <<>> BY <1>1
  <2>2. Waiting(s)' = {} BY <1>1 DEF Waiting
  <2>3. QED BY <2>1, <2>2, EmptyQueueOK
<1>3. ASSUME NEW z \in Site, z # s PROVE QueueOK(queue'[z], Waiting(z)', timer')
  <2>1. Waiting(z)' = Waiting(z) /\ queue'[z] = queue[z] BY <1>1, <1>3 DEF Waiting
  <2>2. \A d \in Waiting(z) : timer'[d] = timer[d] BY <1>1, <1>3 DEF Waiting
  <2>3. QED BY <2>1, <2>2, SameQueueOK
<1>4. TypeOK' BY <1>1
<1>5. WaiterArmed' BY <1>1 DEF WaiterArmed
<1>6. /\ \A d \in pending' : cmdSite'[d] \in Site
      /\ \A d \in Cmd : timer'[d] <= now' + Timeout
      /\ now' > 0
  BY <1>1, TimeAssumption
<1>7. QED BY <1>2, <1>3, <1>4, <1>5, <1>6 DEF ChannelInv

LEMMA ResetChannelInv ==
  ASSUME ChannelInv, ResetChannel, now' = now PROVE ChannelInv'
<1> USE DEF ChannelInv, TypeOK
<1>1. \A z \in Site : QueueOK(queue'[z], Waiting(z)', timer')
  <2>1. ASSUME NEW z \in Site PROVE queue'[z] = <<>> /\ Waiting(z)' = {}
    BY DEF ResetChannel, Waiting
  <2>2. QED BY <2>1, EmptyQueueOK
<1>2. WaiterArmed' BY DEF ResetChannel, WaiterArmed
<1>3. QED BY <1>1, <1>2 DEF ResetChannel

LEMMA IdleInv == ASSUME ChannelInv, UNCHANGED chanVars, now' = now \/ Tick PROVE ChannelInv'
<1> USE DEF ChannelInv, TypeOK
<1>1. now' \in Nat /\ now' >= now BY DEF Tick
<1>2. \A z \in Site : QueueOK(queue'[z], Waiting(z)', timer') BY DEF chanVars, Waiting
<1>3. WaiterArmed' BY DEF WaiterArmed, chanVars
<1>4. QED BY <1>1, <1>2, <1>3, TimeAssumption DEF chanVars

LEMMA NextInv == ChannelInv /\ [Next]_cmdVars => ChannelInv'
<1>1. ASSUME ChannelInv, ChannelStep, now' = now PROVE ChannelInv'
  BY <1>1, QueueCommandInv, DequeueInv, ResolveInv, TimeoutRejectsInv,
     TimeoutFindsNothingInv, ClearSiteInv, ResetChannelInv, IdleInv
     DEF ChannelStep, Result, IgnoreResult, DequeueForPoll, NothingDue, TimerFires
<1>2. ASSUME ChannelInv, Tick PROVE ChannelInv' BY <1>2, IdleInv DEF Tick
<1>3. ASSUME ChannelInv, UNCHANGED cmdVars PROVE ChannelInv' BY <1>3, IdleInv DEF cmdVars
<1>4. QED BY <1>1, <1>2, <1>3 DEF Next

\* The inductive invariant of the command channel (lib/agent.js:495-641) holds in
\* every state.
THEOREM ChannelInvHolds == Spec => []ChannelInv
  BY InitInv, NextInv, PTL DEF Spec

\* The queue of a site and the table of waiters agree, at every moment.
THEOREM ChannelQueueMatchesPending == Spec => []QueueMatchesPending
<1>1. ChannelInv => QueueMatchesPending
  BY DEF ChannelInv, QueueOK, Waiting, QueueMatchesPending
<1>2. QED BY <1>1, ChannelInvHolds, PTL

\* Whoever waits in the table has an armed timer; what is settled has none.
THEOREM ChannelWaiterArmed == Spec => []WaiterArmed
<1>1. ChannelInv => WaiterArmed BY DEF ChannelInv
<1>2. QED BY <1>1, ChannelInvHolds, PTL

\* Commands of one site are handed out for the first time in queueing order.
THEOREM ChannelFifo == Spec => []FifoFirstIssue
<1>1. ChannelInv => FifoFirstIssue BY DEF ChannelInv, QueueOK, FifoFirstIssue
<1>2. QED BY <1>1, ChannelInvHolds, PTL

\* The leases of one command never overlap.
THEOREM ChannelLeases == Spec => []LeasesDisjoint
<1>1. ChannelInv => LeasesDisjoint BY DEF ChannelInv, QueueOK, LeasesDisjoint
<1>2. QED BY <1>1, ChannelInvHolds, PTL

\* The four together, at every moment and for any sites and commands.
THEOREM ChannelSafe == Spec => []ChannelSafety
<1>1. QueueMatchesPending /\ WaiterArmed /\ FifoFirstIssue /\ LeasesDisjoint => ChannelSafety
  BY DEF ChannelSafety
<1>2. QED
  BY <1>1, ChannelQueueMatchesPending, ChannelWaiterArmed, ChannelFifo, ChannelLeases, PTL
-------------------------------------------------------------------------------
(* The refinement: each step of the channel is a step of CommandDelivery. *)

LEMMA QueueCommandRefines ==
  ASSUME ChannelInv, NEW s \in Site, NEW c \in Cmd, QueueCommand(s, c) PROVE Delivery!Submit(c, s)
<1> USE DEF ChannelInv, TypeOK
<1>1. Outcome[c] = "unused" BY DEF QueueCommand, Outcome
<1>2. Outcome' = [Outcome EXCEPT ![c] = "waiting"] BY DEF QueueCommand, Outcome
<1>3. QED BY <1>1, <1>2 DEF QueueCommand, Delivery!Submit

LEMMA IssueRefines ==
  ASSUME ChannelInv, NEW s \in Site, IssueRow(s) PROVE \E c \in Cmd : Delivery!Offer(c)
<1> USE DEF ChannelInv, TypeOK
<1>1. PICK k \in Due(queue[s]) : issued' = issued \cup {queue[s][k].id} BY DEF IssueRow
<1>2. QueueOK(queue[s], Waiting(s), timer) OBVIOUS
<1>3. queue[s][k].id \in Waiting(s) BY <1>2 DEF Due, QueueOK
<1>4. PICK c \in Waiting(s) : c = queue[s][k].id BY <1>3
<1>5. c \in Cmd /\ c \in pending BY DEF Waiting
<1>6. Outcome[c] = "waiting" BY <1>5 DEF WaiterArmed, Outcome
<1>7. Outcome' = Outcome BY DEF IssueRow, Outcome
<1>8. Delivery!Offer(c) BY <1>1, <1>4, <1>6, <1>7 DEF IssueRow, Delivery!Offer
<1>9. QED BY <1>5, <1>8

LEMMA ResolveRefines ==
  ASSUME ChannelInv, NEW s \in Site, NEW c \in Cmd, c \in issued, ResolveWaiter(s, c)
  PROVE  Delivery!Resolve(c)
<1> USE DEF ChannelInv, TypeOK
<1>1. Outcome[c] = "waiting" BY DEF ResolveWaiter, WaiterArmed, Outcome
<1>2. Outcome' = [Outcome EXCEPT ![c] = "resolved"] BY DEF ResolveWaiter, Outcome
<1>3. QED BY <1>1, <1>2 DEF ResolveWaiter, Delivery!Resolve

LEMMA TimeoutRefines ==
  ASSUME ChannelInv, NEW c \in Cmd, TimeoutRejects(c) PROVE Delivery!Reject({c})
<1> USE DEF ChannelInv, TypeOK
<1>1. Outcome[c] = "waiting" BY DEF TimeoutRejects, WaiterArmed, Outcome
<1>2. Outcome' = [d \in Cmd |-> IF d \in {c} THEN "rejected" ELSE Outcome[d]]
  BY DEF TimeoutRejects, Outcome
<1>3. QED BY <1>1, <1>2 DEF TimeoutRejects, Delivery!Reject

LEMMA ClearRefines ==
  ASSUME ChannelInv, NEW s \in Site, ClearSite(s) PROVE Delivery!Reject(Waiting(s))
<1> USE DEF ChannelInv, TypeOK
<1>1. \A c \in Waiting(s) : Outcome[c] = "waiting" BY DEF Waiting, WaiterArmed, Outcome
<1>2. Outcome' = [d \in Cmd |-> IF d \in Waiting(s) THEN "rejected" ELSE Outcome[d]]
  BY DEF ClearSite, Waiting, Outcome
<1>3. QED BY <1>1, <1>2 DEF ClearSite, Delivery!Reject

LEMMA ResetRefines ==
  ASSUME ChannelInv, ResetChannel PROVE Delivery!Lose
<1> USE DEF ChannelInv, TypeOK
<1>1. Outcome' = [c \in Cmd |-> IF Outcome[c] = "waiting" THEN "lost" ELSE Outcome[c]]
  BY DEF ResetChannel, WaiterArmed, Outcome
<1>2. QED BY <1>1 DEF ResetChannel, Delivery!Lose

\* The channel implements CommandDelivery: a caller gets at most one answer, from
\* the site it asked, to a command that was handed out.
THEOREM ChannelImplementsDelivery == Spec => ImplementsDelivery
<1>1. Init => Delivery!Init
  <2> SUFFICES ASSUME Init PROVE Delivery!Init OBVIOUS
  <2>1. Outcome = [c \in Cmd |-> "unused"] BY DEF Init, Outcome
  <2>2. QED BY <2>1 DEF Init, Delivery!Init
<1>2. ChannelInv /\ [Next]_cmdVars => [Delivery!Next]_(Delivery!deliveryVars)
  <2>1. ASSUME ChannelInv, ChannelStep PROVE [Delivery!Next]_(Delivery!deliveryVars)
    <3>1. ASSUME UNCHANGED chanVars PROVE UNCHANGED Delivery!deliveryVars
      BY <3>1 DEF chanVars, Outcome, Delivery!deliveryVars
    <3>2. ASSUME NEW c \in Cmd, TimeoutFindsNothing(c) PROVE UNCHANGED Delivery!deliveryVars
      BY <3>2 DEF TimeoutFindsNothing, Outcome, Delivery!deliveryVars
    <3>3. ASSUME NEW c \in Cmd, TimeoutRejects(c) PROVE Delivery!Next
      BY <2>1, <3>3, TimeoutRefines DEF Delivery!Next
    <3>4. ASSUME NEW s \in Site, ClearSite(s) PROVE Delivery!Next
      <4>1. Waiting(s) \in SUBSET Cmd BY <2>1 DEF Waiting, ChannelInv, TypeOK
      <4>2. QED BY <2>1, <3>4, <4>1, ClearRefines DEF Delivery!Next
    <3>5. ASSUME NEW s \in Site, IssueRow(s) PROVE Delivery!Next
      BY <2>1, <3>5, IssueRefines DEF Delivery!Next
    <3>6. QED
      BY <2>1, <3>1, <3>2, <3>3, <3>4, <3>5, QueueCommandRefines, ResolveRefines, ResetRefines
         DEF ChannelStep, Result, IgnoreResult, DequeueForPoll, NothingDue, TimerFires,
             Delivery!Next
  <2>2. ASSUME UNCHANGED chanVars PROVE UNCHANGED Delivery!deliveryVars
    BY <2>2 DEF chanVars, Outcome, Delivery!deliveryVars
  <2>3. QED BY <2>1, <2>2 DEF Next, Tick, cmdVars
<1>3. QED BY <1>1, <1>2, ChannelInvHolds, PTL DEF Spec, ImplementsDelivery, Delivery!Spec
===============================================================================
