------------------------------ MODULE ServicePolls ------------------------------
(***************************************************************************)
(* The boards of the dashboard that show what answers a ping:              *)
(* pollPublicServices (in turn, with notices) and                          *)
(* pollLocationPingMonitors (all at once, events only) of                  *)
(* lib/monitoring.js, their intervals, and the routes of                   *)
(* lib/routes/settings.js that change what is monitored and start a poll   *)
(* of their own.                                                           *)
(*                                                                         *)
(* A poll reads what to ping and the rows shown when it starts, awaits its *)
(* pings, and replaces the rows shown by its own when the last has ended.  *)
(* Nothing keeps two polls of a board from overlapping.                    *)
(*                                                                         *)
(* The module is one board, of either kind.  Silence, routing and delivery *)
(* of the notices are in SiteStatus and WebhookDelivery.                   *)
(***************************************************************************)
EXTENDS Naturals, Sequences, SequencesExt, FiniteSets

CONSTANTS
  Rows,      \* what can be monitored, in the order of the definitions
  Optional,  \* the public services whose target an administrator configures
  Polls,     \* bound: polls under way at a time
  MaxEdits   \* bound: requests of administrators

Row == Range(Rows)
Status == {"unknown", "up", "down"}

VARIABLES
  public,   \* which of the boards this is: TRUE for the public services
  conf,     \* the rows whose target is configured
  shown,    \* state.publicServices, state.locationPingMonitors: the status of each row
  poll,     \* the polls under way, by their slot in Polls
  edits,    \* the requests so far
  told,     \* history: the status the last event gave for a row
  raced,    \* history: the rows whose last poll did not run alone
  again     \* history: the rows a poll that ran alone repeated the last event of

vars == <<public, conf, shown, poll, edits, told, raced, again>>

(* The rows of the board: the public services are always there, a monitor  *)
(* without target is not.                                                  *)
Board(c) == IF public THEN Row ELSE c
Initially(c) == [r \in Board(c) |-> "unknown"]
Baseline == IF public THEN Row \ Optional ELSE {}

(* What a poll pings: what is configured when it starts.                   *)
FaultyDefinitions == Baseline
Definitions == conf

(* A poll: the status each row had, the rows still to be pinged, what the  *)
(* pings said (a row without target is "unknown"), the rows it spoke of    *)
(* and whether it has run alone.                                           *)
NewPoll == [prev |-> shown, todo |-> Definitions, got |-> Initially(Definitions),
            said |-> {}, alone |-> DOMAIN poll = {}]

Before(q, r) == \E i, j \in DOMAIN Rows : i < j /\ Rows[i] = q /\ Rows[j] = r

(* The rows whose ping may end next.                                       *)
Pinged(p) == {r \in p.todo : public => ~\E q \in p.todo : Before(q, r)}

(* An event is logged (and a notice sent, of a public service that is up   *)
(* or down) when the status is not the one the row had at the start.       *)
FaultySays(p, r) == r \in DOMAIN p.prev
FaultySaysNew(p, r) == r \notin DOMAIN p.prev \/ p.prev[r] # p.got[r]
Says(p, r) == r \in DOMAIN p.prev /\ p.prev[r] # p.got[r]

(* What the board shows when poll p ends.                                  *)
FaultyStored(p) == [r \in DOMAIN p.got |-> IF r \in DOMAIN p.prev THEN p.prev[r] ELSE p.got[r]]
Stored(p) == p.got

-------------------------------------------------------------------------------
Init == /\ public \in BOOLEAN
        /\ conf \in {c \in SUBSET Row : Baseline \subseteq c}
        /\ shown = Initially(conf)
        /\ poll = <<>>
        /\ edits = 0
        /\ told = [r \in Row |-> "none"]
        /\ raced = {}
        /\ again = {}

(* A poll starts: at its interval, or by the route that changed what is    *)
(* monitored, once that is written.  A board without rows ends at once.    *)
Poll(k) ==
  /\ k \in Polls \ DOMAIN poll
  /\ IF Definitions = {}
       THEN /\ shown' = Stored(NewPoll)
            /\ told' = [r \in Row |-> "none"]
            /\ UNCHANGED poll
       ELSE /\ poll' = [j \in DOMAIN poll \cup {k} |->
                          IF j = k THEN NewPoll ELSE [poll[j] EXCEPT !.alone = FALSE]]
            /\ UNCHANGED <<shown, told>>
  /\ UNCHANGED <<public, conf, edits, raced, again>>

(* The last ping of poll p ended: the rows without target are spoken of    *)
(* too and the board is replaced.                                          *)
Store(k, p) ==
  LET said == p.said \cup {r \in DOMAIN p.got : p.got[r] = "unknown" /\ Says(p, r)}
  IN /\ shown' = Stored(p)
     /\ poll' = [j \in DOMAIN poll \ {k} |-> poll[j]]
     /\ raced' = (IF p.alone THEN raced \ said ELSE Row) \cap DOMAIN p.got

(* One ping of poll k ends and finds row r in status s.                    *)
PingEnds(k, r, s) ==
  LET q == [poll[k] EXCEPT !.todo = @ \ {r}, !.got[r] = s]
      p == [q EXCEPT !.said = IF Says(q, r) THEN @ \cup {r} ELSE @]
      last == p.todo = {}
  IN /\ r \in Pinged(poll[k])
     /\ IF last THEN Store(k, p) ELSE poll' = [poll EXCEPT ![k] = p] /\ UNCHANGED <<shown, raced>>
     /\ told' = [x \in Row |->
                   IF x = r /\ Says(p, r) THEN s
                   ELSE IF last /\ x \notin DOMAIN p.got THEN "none"
                   ELSE IF last /\ p.got[x] = "unknown" THEN "unknown"
                   ELSE told[x]]
     /\ again' = IF Says(p, r) /\ p.alone /\ r \notin raced /\ told[r] = s
                   THEN again \cup {r} ELSE again
     /\ UNCHANGED <<public, conf, edits>>

(* PATCH of the runtime settings or of the locations, a section added,     *)
(* changed or deleted: the settings are replaced; Poll(k) follows.         *)
Edit(c) == /\ edits < MaxEdits
           /\ Baseline \subseteq c /\ c # conf
           /\ conf' = c
           /\ edits' = edits + 1
           /\ UNCHANGED <<public, shown, poll, told, raced, again>>

(* The factory reset puts back the settings and the boards, and empties    *)
(* the event log; the polls under way go on.                               *)
FactoryReset == /\ edits < MaxEdits
                /\ conf' = Baseline
                /\ shown' = Initially(Baseline)
                /\ told' = [r \in Row |-> "none"]
                /\ edits' = edits + 1
                /\ UNCHANGED <<public, poll, raced, again>>

Next == \/ \E k \in Polls : Poll(k)
        \/ \E k \in DOMAIN poll, s \in {"up", "down"} : \E r \in Row : PingEnds(k, r, s)
        \/ \E c \in SUBSET Row : Edit(c)
        \/ FactoryReset

(* The interval fires, and every ping ends: it has a time-out.             *)
Spec == /\ Init /\ [][Next]_vars
        /\ \A k \in Polls : WF_vars(Poll(k))
        /\ \A k \in Polls, r \in Row :
             WF_vars(k \in DOMAIN poll /\ \E s \in {"up", "down"} : PingEnds(k, r, s))

-------------------------------------------------------------------------------
TypeOK ==
  /\ public \in BOOLEAN /\ conf \in SUBSET Row
  /\ shown \in UNION {[d -> Status] : d \in SUBSET Row}
  /\ DOMAIN poll \subseteq Polls
  /\ \A k \in DOMAIN poll : /\ poll[k].todo # {} /\ poll[k].todo \subseteq DOMAIN poll[k].got
                            /\ poll[k].said \subseteq DOMAIN poll[k].prev
                            /\ poll[k].got \in [DOMAIN poll[k].got -> Status]
  /\ told \in [Row -> Status \cup {"none"}]
  /\ raced \subseteq Row /\ again \subseteq Row
  /\ edits \in 0..MaxEdits

(* Between polls the last event about a row agrees with what the board     *)
(* shows, unless polls overlapped and it has not been spoken of since.     *)
LastEventStands ==
  DOMAIN poll = {} => \A r \in DOMAIN shown : r \in raced \/ told[r] \in {"none", shown[r]}

(* A poll that runs alone never announces what was announced last.         *)
NothingRepeated == again = {}

(* Once the administrators are done the board shows what is configured and *)
(* nothing else, each row with the answer of a ping, whatever polls were   *)
(* under way.                                                              *)
Settles ==
  <>[](/\ DOMAIN shown = Board(conf)
       /\ \A r \in Board(conf) : (shown[r] = "unknown") = (r \notin conf))
=============================================================================
