------------------------------- MODULE WanWatch --------------------------------
(***************************************************************************)
(* What lib/monitoring.js asks the agents of the collectors about their    *)
(* lines: the speed tests of a day, and the public address.  The two share *)
(* no state.                                                               *)
(*                                                                         *)
(* startWanTestPoller (lib/monitoring.js): the speed test of every         *)
(* collector in each slot of the day, the polls in between while a         *)
(* collector has no public IP, and the rows the page shows by slot.        *)
(*                                                                         *)
(* The bootstrap poll is not waited for, so it may run beside a scheduled  *)
(* one.  A test is a command to the agent of the site; the answers of two  *)
(* commands may come in either order (CollectorAgent).  A tick stands for  *)
(* the shortest delay of the timer.                                        *)
(*                                                                         *)
(* startCollectorWanPublicIpPoller (lib/monitoring.js): the public address *)
(* of every collector, asked of its agent once a minute, and the notice of *)
(* a failover.  A poll that takes longer than the interval runs beside the *)
(* next one.                                                               *)
(*                                                                         *)
(* A site is an object: a backup that is imported replaces all of them,    *)
(* and a poll goes on with the ones it has, of generation g.  An agent     *)
(* runs its commands in turn, so a later answer never tells an earlier     *)
(* address than one before it.                                             *)
(***************************************************************************)
EXTENDS Integers, Sequences, SequencesExt, FiniteSetsExt

CONSTANTS
  Sites,        \* the collectors there may be
  SlotTicks,    \* WAN_TEST_SLOT_INTERVAL_MS
  Slots,        \* slots of a day
  Recovery,     \* WAN_TEST_RECOVERY_INTERVAL_MS
  Limit,        \* COLLECTOR_AGENT_COMMAND_TIMEOUT_MS
  History,      \* WAN_TEST_HISTORY
  MaxTime,      \* bound: the clock
  MaxChanges,   \* bound: sites added and removed
  Collectors,   \* the collectors, in the order of state.sites
  Addresses,
  None,         \* no address
  IpPolls,      \* bound: polls that overlap
  MaxMoves,     \* bound: changes of address
  MaxGen        \* bound: imports and crashes

VARIABLES
  now,
  list,        \* state.sites: the collectors, in order
  rows,        \* metrics.wanTests of a site, the latest first
  poll,        \* the bootstrap poll and the scheduled one
  timer,       \* when the next scheduled poll starts, Never while it runs
  changes,     \* sites added and removed
  begun,       \* history: the slots, counted from time 0, in which a poll began
  straddled,   \* history: the slots that began while a scheduled poll ran
  armed        \* history: the sites runAndReschedule saw when it set the timer,
               \*   but those the bootstrap poll had still to test

testHistory == <<begun, straddled, armed>>
testVars == <<now, list, rows, poll, timer, changes, testHistory>>

Never == -1
Polls == {"bootstrap", "scheduled"}
Off == [at |-> 0, todo |-> <<>>, sent |-> 0, on |-> FALSE]
Row == [at : 0..MaxTime, slot : 0..Slots - 1, ip : BOOLEAN]

Day == Slots * SlotTicks
SlotNumber(t) == t \div SlotTicks
SlotOf(t) == SlotNumber(t) % Slots      \* wanTestSlotHourFromTimestamp

(* nextWanTestSlotTimestamp: an instant that opens a slot is its own next. *)
FaultyNextSlot(t) == (SlotNumber(t) + 2) * SlotTicks
NextSlot(t) == IF t % SlotTicks = 0 THEN t ELSE (SlotNumber(t) + 1) * SlotTicks

(* siteNeedsWanPublicIp *)
FaultyNeedsIp(s) == rows[s] = <<>>
NeedsIp(s) == rows[s] = <<>> \/ ~rows[s][1].ip

Needy == {s \in Range(list) : NeedsIp(s)}

(* runAndReschedule, called at time t with the sites and rows as they are. *)
Delay == LET base == Max({1, NextSlot(now) - now})
         IN  IF Needy = {} THEN base ELSE Min({base, Recovery})

-------------------------------------------------------------------------------
(* The sites the bootstrap poll is not going to test any more. *)
Settled == Range(list) \ Range(poll["bootstrap"].todo)

(* The server starts with sites that were tested in this slot, or never. *)
TestInit ==
  /\ now \in 0..SlotTicks - 1
  /\ list \in {<<>>} \cup {SetToSeq(S) : S \in SUBSET Sites}
  /\ rows \in [Sites -> {<<>>, <<[at |-> now, slot |-> SlotOf(now), ip |-> TRUE]>>}]
  /\ \A s \in Sites \ Range(list) : rows[s] = <<>>
  /\ poll = [p \in Polls |-> IF p = "bootstrap" /\ Needy # {}
                               THEN [at |-> now, todo |-> list, sent |-> now, on |-> TRUE] ELSE Off]
  /\ timer = now + Delay
  /\ changes = 0
  /\ begun = {SlotNumber(now)} /\ straddled = {}
  /\ armed = Settled

Starts ==
  /\ timer # Never /\ now >= timer
  /\ poll' = [poll EXCEPT !["scheduled"] = [at |-> now, todo |-> list, sent |-> now, on |-> TRUE]]
  /\ timer' = Never
  /\ begun' = begun \cup {SlotNumber(now)}
  /\ UNCHANGED <<now, list, rows, changes, straddled, armed>>

(* appendWanTest *)
FaultyAdded(old, row) == SubSeq(<<row>> \o old, 1, Min({History, Len(old) + 1}))
FaultyAddedLate(old, row) ==
  LET new == [row EXCEPT !.at = now]
      others == SelectSeq(old, LAMBDA r : r.slot # SlotOf(now))
  IN  SubSeq(<<new>> \o others, 1, Min({History, Len(others) + 1}))
Added(old, row) == LET others == SelectSeq(old, LAMBDA r : r.slot # row.slot)
                   IN  SubSeq(<<row>> \o others, 1, Min({History, Len(others) + 1}))

(* The test of the next site of a poll is over: it gave the public IP, or  *)
(* did not, or the agent was offline and there was no test.                *)
TestEnds(p, ip) ==
  LET w == poll[p]  s == Head(w.todo)
  IN /\ w.on /\ w.todo # <<>>
     /\ rows' = [rows EXCEPT ![s] = Added(@, [at |-> w.at, slot |-> SlotOf(w.at), ip |-> ip])]
     /\ poll' = [poll EXCEPT ![p].todo = Tail(@), ![p].sent = now]
     /\ UNCHANGED <<now, list, timer, changes, testHistory>>

FaultyPollEnds(p) ==
  /\ poll[p].on /\ poll[p].todo = <<>>
  /\ poll' = [poll EXCEPT ![p] = Off]
  /\ timer' = now + Delay /\ armed' = Settled
  /\ UNCHANGED <<now, list, rows, changes, begun, straddled>>
PollEnds(p) ==
  /\ poll[p].on /\ poll[p].todo = <<>>
  /\ poll' = [poll EXCEPT ![p] = Off]
  /\ IF p = "scheduled" THEN timer' = now + Delay /\ armed' = Settled
                        ELSE UNCHANGED <<timer, armed>>
  /\ UNCHANGED <<now, list, rows, changes, begun, straddled>>

(* Sites come and go; the polls under way go on with the ones they have. *)
Add(s) == /\ changes < MaxChanges /\ s \notin Range(list) /\ rows[s] = <<>>
          /\ \A p \in Polls : s \notin Range(poll[p].todo)
          /\ list' = Append(list, s)
          /\ changes' = changes + 1
          /\ UNCHANGED <<now, rows, poll, timer, testHistory>>
Delete(s) == /\ changes < MaxChanges /\ s \in Range(list)
             /\ list' = Remove(list, s)
             /\ changes' = changes + 1
             /\ UNCHANGED <<now, rows, poll, timer, testHistory>>

(* A command is answered, or given up, within its limit. *)
Tick == /\ now < MaxTime
        /\ timer # Never => now < timer
        /\ \A p \in Polls : poll[p].on => poll[p].todo # <<>> /\ now < poll[p].sent + Limit
        /\ now' = now + 1
        /\ straddled' = IF poll["scheduled"].on /\ SlotNumber(now') # SlotNumber(now)
                          THEN straddled \cup {SlotNumber(now')} ELSE straddled
        /\ UNCHANGED <<list, rows, poll, timer, changes, begun, armed>>

TestNext == \/ Starts \/ Tick
            \/ \E p \in Polls : PollEnds(p) \/ \E ip \in BOOLEAN : TestEnds(p, ip)
            \/ \E s \in Sites : Add(s) \/ Delete(s)

-------------------------------------------------------------------------------
TestTypeOK ==
  /\ now \in 0..MaxTime
  /\ Range(list) \subseteq Sites
  /\ rows \in [Sites -> Seq(Row)]
  /\ timer \in {Never} \cup 0..MaxTime + SlotTicks
  /\ timer = Never <=> poll["scheduled"].on

LongestPoll == Cardinality(Sites) * Limit

(* A slot has one row, and the rows are no more than the history, whatever *)
(* polls overlap.                                                          *)
OneRowPerSlot ==
  \A s \in Sites : /\ Len(rows[s]) <= History
                   /\ \A i, j \in 1..Len(rows[s]) : i # j => rows[s][i].slot # rows[s][j].slot

(* The page shows the rows by slot and without a date: none is from the    *)
(* day before, except in a slot that began while a scheduled poll ran.     *)
RowsOfTheDay ==
  \A s \in Range(list) : \A r \in Range(rows[s]) :
     \/ now - r.at <= Day + LongestPoll
     \/ SlotNumber(r.at) + Slots \in straddled

(* A collector that has no public IP is tested again before long, but one  *)
(* that came, or that the bootstrap poll tested, after the timer was set.  *)
RetriedSoon ==
  timer # Never => \A s \in Range(list) \cap armed :
    rows[s] # <<>> /\ ~rows[s][1].ip => now - rows[s][1].at <= Recovery + LongestPoll

(* The first row is the last test. *)
FirstIsLatest == \A s \in Range(list) : \A r \in Range(rows[s]) : r.at <= rows[s][1].at

(* Every slot that is over had a poll. *)
EverySlotPolled ==
  \A k \in Min(begun)..SlotNumber(now) - 1 : k \in begun

-------------------------------------------------------------------------------
(* The public address. *)
Site == Range(Collectors)

VARIABLES
  path,      \* external: the addresses the site has had, the last one now
  heard,     \* external: how far along them the agent's last answer was
  gen,       \* the generation of the objects of state.sites
  det,       \* metrics.wanDetectedPublicIp of a site of a generation
  known,     \* notificationState.collectorWanPublicIp
  stored,    \* external: the same metrics in the database
  asks,      \* the polls under way: the sites to do, and their generation
  told,      \* history: the address a reader of the notices takes for the site's
  notices,   \* history: the notices about it
  reverted   \* history: an import or a crash put an older address in det

envVars == <<path, heard>>
ipHistory == <<told, notices, reverted>>
ipVars == <<envVars, gen, det, known, stored, asks, ipHistory>>

IP == Addresses \cup {None}
Idle == [todo |-> <<>>, g |-> 0]

(* seedCollectorWanPublicIpState over metrics of this value. *)
Seeded(d) == [s \in Site |-> d[s]]

-------------------------------------------------------------------------------
IpInit ==
  /\ path \in [Site -> {<<a>> : a \in Addresses}] /\ heard = [s \in Site |-> 1]
  /\ gen = 0
  /\ stored \in [Site -> IP]
  /\ det = [o \in Site \X (0..MaxGen) |-> IF o[2] = 0 THEN stored[o[1]] ELSE None]
  /\ known = Seeded(stored)
  /\ asks = [p \in IpPolls |-> Idle]
  /\ told = stored
  /\ notices = [s \in Site |-> 0]
  /\ reverted = [s \in Site |-> FALSE]

Move(s, a) == /\ Len(path[s]) <= MaxMoves /\ a # Last(path[s])
              /\ path' = [path EXCEPT ![s] = Append(@, a)]
              /\ UNCHANGED <<heard, gen, det, known, stored, asks, ipHistory>>

FaultyIpStarts(p) == /\ asks' = [asks EXCEPT ![p] = [todo |-> @.todo \o Collectors, g |-> gen]]
                     /\ UNCHANGED <<envVars, gen, det, known, stored, ipHistory>>
IpStarts(p) == /\ asks[p].todo = <<>>
               /\ asks' = [asks EXCEPT ![p] = [todo |-> Collectors, g |-> gen]]
               /\ UNCHANGED <<envVars, gen, det, known, stored, ipHistory>>

(* What the poll compares the answer with. *)
FaultyPrevious(o) == stored[o[1]]
Previous(o) == IF det[o] # None THEN det[o] ELSE known[o[1]]

(* The agent has answered about the next site of the poll.  The last of    *)
(* two readers of one address has nothing left to report.                  *)
Answered(p, i) ==
  LET s == Head(asks[p].todo)  o == <<s, asks[p].g>>  ip == path[s][i]
      moved == Previous(o) \notin {None, ip}
  IN /\ heard' = [heard EXCEPT ![s] = i]
     /\ det' = [det EXCEPT ![o] = ip]
     /\ known' = [known EXCEPT ![s] = ip]
     /\ notices' = [notices EXCEPT ![s] = IF moved THEN @ + 1 ELSE @]
     /\ told' = [told EXCEPT ![s] = IF moved \/ @ = None THEN ip ELSE @]
     /\ reverted' = [reverted EXCEPT ![s] = @ /\ ~(moved /\ \A q \in IpPolls : asks[q].todo = <<>> \/ asks[q].g = gen)]
     /\ asks' = [asks EXCEPT ![p].todo = Tail(@)]
     /\ UNCHANGED <<path, gen, stored>>
Answer(p) == /\ asks[p].todo # <<>>
             /\ LET s == Head(asks[p].todo) IN \E i \in heard[s]..Len(path[s]) : Answered(p, i)

(* The agent is offline, or its answer has no address. *)
NoAnswer(p) == /\ asks[p].todo # <<>>
               /\ asks' = [asks EXCEPT ![p].todo = Tail(@)]
               /\ UNCHANGED <<envVars, gen, det, known, stored, ipHistory>>

(* flushDirtyState *)
Flush == /\ stored' = [s \in Site |-> det[<<s, gen>>]]
         /\ UNCHANGED <<envVars, gen, det, known, asks, ipHistory>>

(* POST /api/backup/import with the addresses the backup holds. *)
Replaced(d) == /\ gen < MaxGen /\ gen' = gen + 1
               /\ det' = [o \in DOMAIN det |-> IF o[2] = gen + 1 THEN d[o[1]] ELSE det[o]]
               /\ reverted' = [s \in Site |-> TRUE]
Import(d) == /\ Replaced(d)
             /\ stored' = d
             /\ UNCHANGED <<envVars, known, asks, told, notices>>

(* The process ends and another one starts. *)
Crash == /\ Replaced(stored)
         /\ known' = Seeded(stored)
         /\ asks' = [p \in IpPolls |-> Idle]
         /\ UNCHANGED <<envVars, stored, told, notices>>

IpNext == \/ \E s \in Site, a \in Addresses : Move(s, a)
          \/ \E p \in IpPolls : IpStarts(p) \/ Answer(p) \/ NoAnswer(p)
          \/ Flush \/ Crash \/ \E d \in [Site -> IP] : Import(d)

-------------------------------------------------------------------------------
IpTypeOK ==
  /\ \A s \in Site : path[s] \in Seq(Addresses) /\ heard[s] \in 1..Len(path[s])
  /\ gen \in 0..MaxGen
  /\ det \in [Site \X (0..MaxGen) -> IP]
  /\ known \in [Site -> IP] /\ stored \in [Site -> IP] /\ told \in [Site -> IP]
  /\ \A p \in IpPolls : IsSuffix(asks[p].todo, Collectors) /\ asks[p].g <= gen

(* A failover is reported once: the notices about a site are no more than  *)
(* its changes of address, but for those an import or a crash repeats.     *)
ReportedOnce ==
  \A s \in Site : notices[s] <= Len(path[s]) - 1 + (IF stored[s] = None THEN 0 ELSE 1) + 2 * gen

(* The address the server has is the one the notices say, unless an import *)
(* or a crash has put an older one in its place.                           *)
ToldIsKnown ==
  \A s \in Site : det[<<s, gen>>] \in {None, told[s]} \/ reverted[s]

-------------------------------------------------------------------------------
vars == <<testVars, ipVars>>

Init == TestInit /\ IpInit

Next == \/ TestNext /\ UNCHANGED ipVars
        \/ IpNext /\ UNCHANGED testVars

Spec == Init /\ [][Next]_vars
===============================================================================
