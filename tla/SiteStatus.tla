------------------------------- MODULE SiteStatus -------------------------------
(***************************************************************************)
(* The status of the sites and what is said about it: the ping poller and  *)
(* deriveSiteStatus (lib/monitoring.js), applyFlowStatus (lib/sites.js),   *)
(* reconcileSiteStatus and the alert silence (lib/notifications.js), the   *)
(* housekeeping of server.js and the routes that change the sites.         *)
(*                                                                         *)
(* A site is an object <<id, g>>: an import replaces every object of       *)
(* state.sites by one of the next generation g, while a handler that       *)
(* awaits, and the poller, still hold the old ones.  All the tables of the *)
(* state are keyed by the id.  The poller is the one loop that awaits in   *)
(* the middle: its `for ... of` walks an array object by index, which a    *)
(* deletion splices and an import leaves behind.                           *)
(*                                                                         *)
(* Notices of every kind are on: sites with notifications.enabled, all     *)
(* routes of the web hook enabled.                                         *)
(***************************************************************************)
EXTENDS Integers, Sequences, SequencesExt, FiniteSets, SequenceTheorems, TLAPS

CONSTANTS
  Id,          \* site ids
  Protos,      \* the protocols, in the order applyFlowStatus takes them
  Slots,       \* the slots that have an address, in the order they are pinged
  NoHost,      \* a heartbeat target without an address
  NoSite,
  Requests,    \* bound: the kinds of requests administrators make
  MaxGen,      \* bound: imports
  MaxEdits     \* bound: requests of administrators

Proto == Range(Protos)
Slot == Range(Slots)
Obj == Id \X (0..MaxGen)

(* A site that is polled has an address.                                   *)
ASSUME SitesAssumption ==
  /\ Slots \in Seq(Slot) /\ Len(Slots) > 0 /\ Protos \in Seq(Proto)
  /\ MaxGen \in Nat /\ MaxEdits \in Nat /\ IsFiniteSet(Id) /\ NoSite \notin Obj

VARIABLES
  sites,     \* state.sites
  status,    \* firewall.status of an object
  target,    \* its heartbeatTarget
  enabled,   \* the protocols its monitorConfig enables
  tele,      \* the protocols its telemetry says are flowing
  fresh,     \* state.lastSeen: <<id, protocol>> seen within the time-out
  flow,      \* state.flowState
  hb,        \* state.pingState
  wan,       \* state.wanPingState
  walk,      \* the ping poller
  silence,   \* alertSilenceUntilMs: 0, ahead of the clock, or behind it
  told,      \* history: the last status a notice gave for an id
  gaps,      \* history: the ids whose last change of status went unsaid
  word,      \* history: the last notice about the silence
  wiped,     \* history: a factory reset ended a silence and nobody was told
  seen,      \* history: what the pings of the visit under way returned
  swapped,   \* history: the tables were replaced during that visit
  ghosts,    \* history: the objects visited after they left state.sites
  known,     \* history: the objects that are or were in state.sites
  edits      \* the requests so far

configVars == <<target, enabled>>
tableVars == <<fresh, flow, hb, wan>>
silenceVars == <<silence, word, wiped>>
wordVars == <<told, gaps, silenceVars>>
visitVars == <<seen, swapped, ghosts>>
siteVars == <<sites, known>>
vars == <<siteVars, status, tele, walk, edits, configVars, tableVars, wordVars, visitVars>>

Tri == {"none", "up", "down"}
Result(ok) == IF ok THEN "up" ELSE "down"

Idle == [at |-> 0, site |-> NoSite, slot |-> 0, cut |-> FALSE, rest |-> <<>>]

Live == Range(sites)
IdsOf(s) == {o[1] : o \in Range(s)}

(* The array the poller walks: state.sites, unless that was replaced. *)
Walked == IF walk.cut THEN walk.rest ELSE sites

-------------------------------------------------------------------------------
(* The status.  "Faulty" marks a change somebody could make to the code;   *)
(* the checks put it in the place of the definition that follows it and    *)
(* expect a property below to fail.                                        *)

(* Faulty: unknown until the first heartbeat. *)
DeriveUnknown(h, on, flowing, old) ==
  CASE h = "down" -> "down"
    [] h = "up"   -> IF on \subseteq flowing THEN "up" ELSE "warn"
    [] OTHER      -> "unknown"

(* Faulty: telemetry outweighs the heartbeat. *)
DeriveFlowFirst(h, on, flowing, old) ==
  CASE h # "none" /\ on \subseteq flowing -> "up"
    [] h = "none" -> old
    [] OTHER      -> "down"

(* deriveSiteStatus *)
Derive(h, on, flowing, old) ==
  CASE h = "down" -> "down"
    [] h = "up"   -> IF on \subseteq flowing THEN "up" ELSE "warn"
    [] OTHER      -> old

Current(o) == Derive(hb[o[1]], enabled[o], tele[o], status[o])

(* Faulty: nobody is told that the silence ended. *)
NoticeEndQuietly ==
  /\ silence' = IF silence = "over" THEN "off" ELSE silence
  /\ UNCHANGED <<word, wiped>>

(* isAlertingSilenced, called: an end that has passed is noticed and said. *)
NoticeEnd ==
  IF silence = "over" THEN silence' = "off" /\ word' = "resumed" /\ wiped' = FALSE
                      ELSE UNCHANGED silenceVars

(* The objects of `changed` went through reconcileSiteStatus with a change. *)
Announce(changed) ==
  IF changed = {} THEN UNCHANGED wordVars
  ELSE /\ NoticeEnd
       /\ IF silence = "on"
          THEN /\ gaps' = gaps \cup {o[1] : o \in changed}
               /\ UNCHANGED told
          ELSE /\ told' = [i \in Id |-> IF \E o \in changed : o[1] = i
                                        THEN status'[CHOOSE o \in changed : o[1] = i]
                                        ELSE told[i]]
               /\ gaps' = (gaps \ {o[1] : o \in changed \cap Live})
                            \cup {o[1] : o \in changed \ Live}

-------------------------------------------------------------------------------
(* Telemetry *)

Packet(o, p) ==
  /\ o \in Live /\ p \in enabled[o]
  /\ fresh' = fresh \cup {<<o[1], p>>}
  /\ UNCHANGED <<siteVars, status, tele, walk, edits, configVars, flow, hb, wan, wordVars, visitVars>>

(* The time-out of the protocol passes without a packet. *)
FlowEnds(i, p) ==
  /\ <<i, p>> \in fresh
  /\ fresh' = fresh \ {<<i, p>>}
  /\ UNCHANGED <<siteVars, status, tele, walk, edits, configVars, flow, hb, wan, wordVars, visitVars>>

Flowing(o) == {p \in enabled[o] : <<o[1], p>> \in fresh}

Flipped(o) == {p \in enabled[o] : flow[o[1]][p] \notin {"none", Result(<<o[1], p>> \in fresh)}}

(* What telemetry says of o once the first k protocols were looked at. *)
Partly(o, k) ==
  {p \in Flowing(o) : \E j \in 1..k : Protos[j] = p}
    \cup {p \in tele[o] : \E j \in (k + 1)..Len(Protos) : Protos[j] = p}

(* The statuses o is reconciled to in one pass: at each flow that flipped, *)
(* and at the end.                                                         *)
Steps(o) ==
  {Derive(hb[o[1]], enabled[o], Partly(o, k), status[o]) :
     k \in {j \in DOMAIN Protos : Protos[j] \in Flipped(o)} \cup {Len(Protos)}}

ApplyFlowStatus ==
  /\ tele' = [o \in Obj |-> IF o \in Live THEN Flowing(o) ELSE tele[o]]
  /\ flow' = [i \in Id |-> [p \in Proto |->
                IF \E o \in Live : o[1] = i /\ p \in enabled[o]
                THEN Result(<<i, p>> \in fresh) ELSE flow[i][p]]]
  /\ status' = [o \in Obj |->
                 IF o \in Live THEN Derive(hb[o[1]], enabled[o], Flowing(o), status[o])
                               ELSE status[o]]
  /\ Announce({o \in Live : Steps(o) # {status[o]}})
  /\ UNCHANGED <<siteVars, walk, edits, configVars, fresh, hb, wan, visitVars>>

-------------------------------------------------------------------------------
(* The ping poller *)

(* Faulty: the array is taken once, outside the loop of the rounds. *)
VisitSameArray(i) ==
  /\ seen' = [s \in Slot |-> "none"]
  /\ swapped' = FALSE
  /\ walk' = LET k == IF i \in DOMAIN Walked THEN i ELSE 1 IN
             IF Walked = <<>> THEN Idle ELSE [walk EXCEPT !.at = k, !.site = Walked[k], !.slot = 1]

(* Faulty: the last site of the array is left out. *)
VisitAllButLast(i) ==
  /\ seen' = [s \in Slot |-> "none"]
  /\ swapped' = FALSE
  /\ walk' = IF i \in DOMAIN Walked \ {Len(Walked)}
             THEN [walk EXCEPT !.at = i, !.site = Walked[i], !.slot = 1]
             ELSE Idle

(* It takes the site at index i of the array it walks, or the round ends. *)
Visit(i) ==
  /\ seen' = [s \in Slot |-> "none"]
  /\ swapped' = FALSE
  /\ walk' = IF i \in DOMAIN Walked
             THEN [walk EXCEPT !.at = i, !.site = Walked[i], !.slot = 1]
             ELSE Idle

StartRound ==
  /\ walk = Idle /\ sites # <<>>
  /\ Visit(1)
  /\ UNCHANGED <<siteVars, status, tele, edits, configVars, tableVars, wordVars, ghosts>>

(* The ping of a slot that is not the last is answered. *)
PingAnswered(ok) ==
  /\ walk # Idle /\ walk.slot < Len(Slots)
  /\ LET s == Slots[walk.slot] IN
     /\ wan' = [wan EXCEPT ![walk.site[1]][s] = Result(ok)]
     /\ seen' = [seen EXCEPT ![s] = Result(ok)]
  /\ walk' = [walk EXCEPT !.slot = @ + 1]
  /\ UNCHANGED <<siteVars, status, tele, edits, configVars, fresh, flow, hb, wordVars, swapped, ghosts>>

(* The result recorded for the target of o. *)
Reached(o, table) == target[o] \in Slot /\ table[target[o]] = "up"

(* Faulty: the refresh at the end changes the status and announces nothing. *)
SiteDecidedRefreshUnsaid(ok) ==
  /\ walk # Idle /\ walk.slot = Len(Slots)
  /\ LET o == walk.site
         i == o[1]
         table == [wan[i] EXCEPT ![Slots[walk.slot]] = Result(ok)]
         beat == Result(Reached(o, table))
         between == IF hb[i] \in {"none", beat} THEN status[o] ELSE Current(o) IN
     /\ wan' = [wan EXCEPT ![i] = table]
     /\ hb' = [hb EXCEPT ![i] = beat]
     /\ status' = [status EXCEPT ![o] = Derive(beat, enabled[o], tele[o], between)]
     /\ Announce(IF between # status[o] THEN {o} ELSE {})
     /\ ghosts' = IF o \in Live THEN ghosts ELSE ghosts \cup {o}
  /\ Visit(walk.at + 1)
  /\ UNCHANGED <<siteVars, tele, edits, configVars, fresh, flow>>

(* Faulty: the heartbeat is read before the last result is recorded. *)
SiteDecidedByOldResult(ok) ==
  /\ walk # Idle /\ walk.slot = Len(Slots)
  /\ LET o == walk.site
         i == o[1]
         table == [wan[i] EXCEPT ![Slots[walk.slot]] = Result(ok)]
         beat == Result(Reached(o, wan[i])) IN
     /\ wan' = [wan EXCEPT ![i] = table]
     /\ hb' = [hb EXCEPT ![i] = beat]
     /\ status' = [status EXCEPT ![o] = Derive(beat, enabled[o], tele[o], status[o])]
     /\ Announce(IF status'[o] # status[o] THEN {o} ELSE {})
     /\ ghosts' = IF o \in Live THEN ghosts ELSE ghosts \cup {o}
  /\ Visit(walk.at + 1)
  /\ UNCHANGED <<siteVars, tele, edits, configVars, fresh, flow>>

(* The ping of the last slot is answered: the heartbeat of the site is     *)
(* decided, its status reconciled with the old heartbeat when that changes *)
(* and with the new one in any case, and the next site is taken.           *)
SiteDecided(ok) ==
  /\ walk # Idle /\ walk.slot = Len(Slots)
  /\ LET o == walk.site
         i == o[1]
         table == [wan[i] EXCEPT ![Slots[walk.slot]] = Result(ok)]
         beat == Result(Reached(o, table))
         between == IF hb[i] \in {"none", beat} THEN status[o] ELSE Current(o) IN
     /\ wan' = [wan EXCEPT ![i] = table]
     /\ hb' = [hb EXCEPT ![i] = beat]
     /\ status' = [status EXCEPT ![o] = Derive(beat, enabled[o], tele[o], between)]
     /\ Announce(IF {between, Derive(beat, enabled[o], tele[o], between)} # {status[o]}
                 THEN {o} ELSE {})
     /\ ghosts' = IF o \in Live THEN ghosts ELSE ghosts \cup {o}
  /\ Visit(walk.at + 1)
  /\ UNCHANGED <<siteVars, tele, edits, configVars, fresh, flow>>

-------------------------------------------------------------------------------
(* Requests of administrators.  Those that await their body hold an object *)
(* that may have left state.sites meanwhile: o ranges over `known`.        *)

(* The sites become s: another array, so that a poller is left behind. *)
ReplaceBy(s) ==
  /\ sites' = s
  /\ walk' = IF walk = Idle THEN Idle ELSE [walk EXCEPT !.cut = TRUE, !.rest = Walked]
  /\ known' = known \cup Range(s)

(* The sequence s is what is left of the sites, those in L, in their order.*)
Left(s, L) ==
  /\ Range(s) = L
  /\ \A j, k \in DOMAIN s : j < k =>
       \E m, n \in DOMAIN sites : m < n /\ sites[m] = s[j] /\ sites[n] = s[k]

(* New tables, as the import and the factory reset make them. *)
EmptyTables ==
  /\ fresh' = {}
  /\ flow' = [i \in Id |-> [p \in Proto |-> "none"]]
  /\ hb' = [i \in Id |-> "none"]
  /\ wan' = [i \in Id |-> [s \in Slot |-> "none"]]
  /\ swapped' = TRUE

Generations == {o[2] : o \in known}

CreateSite(i, t) ==
  /\ i \notin {o[1] : o \in known}
  /\ sites' = Append(sites, <<i, 0>>)
  /\ known' = known \cup {<<i, 0>>}
  /\ status' = [status EXCEPT ![<<i, 0>>] = "down"]
  /\ target' = [target EXCEPT ![<<i, 0>>] = t]
  /\ gaps' = gaps \cup {i}
  /\ UNCHANGED <<enabled, tele, walk, tableVars, told, silenceVars, visitVars>>

(* The array is spliced in place: a poller that walks it skips the site    *)
(* that moves to the index it is at.                                       *)
DeleteSite(k) ==
  /\ k \in DOMAIN sites
  /\ sites' = RemoveAt(sites, k)
  /\ UNCHANGED <<known, status, configVars, tele, walk, tableVars, wordVars, visitVars>>

DeleteSection(S) ==
  /\ S # {} /\ S \subseteq Live
  /\ \E rest \in SeqOf(Live \ S, Len(sites)) : Left(rest, Live \ S) /\ ReplaceBy(rest)
  /\ UNCHANGED <<status, configVars, tele, tableVars, wordVars, visitVars>>

(* An import brings objects of a new generation with statuses, targets and *)
(* monitors of its own.                                                    *)
ImportBackup(ids, st, t, on) ==
  \E g \in (0..MaxGen) \ Generations :
    /\ \A h \in Generations : h < g
    /\ LET new == [k \in DOMAIN ids |-> <<ids[k], g>>] IN
       /\ ReplaceBy(new)
       /\ status' = [o \in Obj |-> IF o \in Range(new) THEN st ELSE status[o]]
       /\ target' = [o \in Obj |-> IF o \in Range(new) THEN t ELSE target[o]]
       /\ enabled' = [o \in Obj |-> IF o \in Range(new) THEN on ELSE enabled[o]]
       /\ gaps' = gaps \cup Range(ids)
    /\ EmptyTables
    /\ UNCHANGED <<tele, told, silenceVars, seen, ghosts>>

(* A factory reset ends a silence as well, and says nothing of it. *)
FactoryReset ==
  /\ ReplaceBy(<<>>)
  /\ EmptyTables
  /\ silence' = "off"
  /\ wiped' = (wiped \/ silence # "off")
  /\ UNCHANGED <<status, configVars, tele, told, gaps, word, seen, ghosts>>

ConfigureMonitor(o, p, on) ==
  /\ o \in known
  /\ enabled' = [enabled EXCEPT ![o] = IF on THEN @ \cup {p} ELSE @ \ {p}]
  /\ tele' = [tele EXCEPT ![o] = IF on THEN @ ELSE @ \ {p}]
  /\ UNCHANGED <<siteVars, status, target, walk, tableVars, wordVars, visitVars>>

SetTarget(o, t) ==
  /\ o \in known
  /\ target' = [target EXCEPT ![o] = t]
  /\ UNCHANGED <<siteVars, status, enabled, tele, walk, tableVars, wordVars, visitVars>>

TestNetflow(o) ==
  /\ o \in known /\ "netflow" \in Proto
  /\ fresh' = fresh \cup {<<o[1], "netflow">>}
  /\ tele' = [tele EXCEPT ![o] = @ \cup {"netflow"}]
  /\ UNCHANGED <<siteVars, status, configVars, walk, flow, hb, wan, wordVars, visitVars>>

(* Faulty: the heartbeats are forgotten by the housekeeping. *)
HousekeepingOfFlows ==
  LET gone(i) == \A o \in Live : o[1] # i IN
  /\ \E i \in Id : gone(i) /\ \E p \in Proto : flow[i][p] # "none" \/ <<i, p>> \in fresh
  /\ flow' = [i \in Id |-> IF gone(i) THEN [p \in Proto |-> "none"] ELSE flow[i]]
  /\ fresh' = {f \in fresh : ~gone(f[1])}
  /\ UNCHANGED <<siteVars, status, configVars, tele, walk, hb, wan, edits, wordVars, visitVars>>

Housekeeping ==
  LET gone(i) == \A o \in Live : o[1] # i IN
  /\ \E i \in Id : gone(i) /\ (hb[i] # "none" \/ \E p \in Proto : flow[i][p] # "none" \/ <<i, p>> \in fresh)
  /\ hb' = [i \in Id |-> IF gone(i) THEN "none" ELSE hb[i]]
  /\ flow' = [i \in Id |-> IF gone(i) THEN [p \in Proto |-> "none"] ELSE flow[i]]
  /\ fresh' = {f \in fresh : ~gone(f[1])}
  /\ UNCHANGED <<siteVars, status, configVars, tele, walk, wan, edits, wordVars, visitVars>>

(* The SNMP poller, which walks the sites too, holds an object as well. *)
SnmpAnswered(o) ==
  /\ o \in known /\ "snmp" \in enabled[o]
  /\ fresh' = fresh \cup {<<o[1], "snmp">>}
  /\ UNCHANGED <<siteVars, status, configVars, tele, walk, flow, hb, wan, edits, wordVars, visitVars>>

-------------------------------------------------------------------------------
(* The silence *)

ToggleSilence ==
  /\ IF silence = "on" THEN silence' = "off" /\ word' = "resumed"
                       ELSE silence' = "on" /\ word' = "silenced"
  /\ wiped' = FALSE
  /\ UNCHANGED <<siteVars, status, configVars, tele, walk, tableVars, told, gaps, visitVars>>

SilenceEnds ==
  /\ silence = "on"
  /\ silence' = "over"
  /\ UNCHANGED <<siteVars, status, configVars, tele, walk, tableVars, edits, told, gaps, word, wiped, visitVars>>

(* A client asks for the state of the alerting. *)
AskSilence ==
  /\ silence = "over"
  /\ NoticeEnd
  /\ UNCHANGED <<siteVars, status, configVars, tele, walk, tableVars, edits, told, gaps, visitVars>>

-------------------------------------------------------------------------------
Status == {"up", "warn", "down"}
Target == Slot \cup {NoHost}
Distinct(s) == \A j, k \in DOMAIN s : j # k => s[j] # s[k]
IdLists == {s \in SeqOf(Id, Cardinality(Id)) : Distinct(s)}

Init ==
  /\ \E ids \in IdLists : sites = [k \in DOMAIN ids |-> <<ids[k], 0>>]
  /\ known = Live
  /\ status \in [Obj -> {"up", "down"}] /\ \A o \in Obj \ Live : status[o] = "down"
  /\ \E t \in Target : target = [o \in Obj |-> t]
  /\ \E on \in SUBSET Proto : enabled = [o \in Obj |-> IF o \in Live THEN on ELSE {}]
  /\ tele = [o \in Obj |-> {}]
  /\ fresh = {}
  /\ flow = [i \in Id |-> [p \in Proto |-> "none"]]
  /\ hb = [i \in Id |-> "none"]
  /\ wan = [i \in Id |-> [s \in Slot |-> "none"]]
  /\ walk = Idle
  /\ silence = "off" /\ word = "resumed" /\ wiped = FALSE
  /\ told = [i \in Id |-> status[<<i, 0>>]]
  /\ gaps = {}
  /\ seen = [s \in Slot |-> "none"] /\ swapped = FALSE /\ ghosts = {}
  /\ edits = 0

Request ==
  /\ edits < MaxEdits
  /\ edits' = edits + 1
  /\ \/ "create" \in Requests /\ \E i \in Id, t \in Target : CreateSite(i, t)
     \/ "delete" \in Requests /\ \E k \in DOMAIN sites : DeleteSite(k)
     \/ "section" \in Requests /\ \E S \in SUBSET Live : DeleteSection(S)
     \/ "import" \in Requests /\ \E ids \in IdLists \ {<<>>}, st \in {"up", "down"}, t \in Slot, on \in SUBSET Proto :
                                   ImportBackup(ids, st, t, on)
     \/ "reset" \in Requests /\ FactoryReset
     \/ "monitor" \in Requests /\ \E o \in known, p \in Proto, on \in BOOLEAN : ConfigureMonitor(o, p, on)
     \/ "target" \in Requests /\ \E o \in known, t \in Target : SetTarget(o, t)
     \/ "test" \in Requests /\ \E o \in known : TestNetflow(o)
     \/ "silence" \in Requests /\ ToggleSilence

Poll == StartRound \/ \E ok \in BOOLEAN : PingAnswered(ok) \/ SiteDecided(ok)

Next ==
  \/ \E o \in known, p \in Proto : Packet(o, p)
  \/ \E i \in Id, p \in Proto : FlowEnds(i, p)
  \/ \E o \in known : SnmpAnswered(o)
  \/ ApplyFlowStatus
  \/ Poll
  \/ Housekeeping
  \/ SilenceEnds
  \/ AskSilence
  \/ Request

(* The intervals keep firing, and runPing gives an answer or times out.    *)
Fairness == WF_vars(ApplyFlowStatus) /\ WF_vars(Poll) /\ WF_vars(Housekeeping)

Spec == Init /\ [][Next]_vars /\ Fairness

-------------------------------------------------------------------------------
(* Properties *)

TypeOK ==
  /\ sites \in Seq(Obj)
  /\ status \in [Obj -> Status]
  /\ target \in [Obj -> Target]
  /\ enabled \in [Obj -> SUBSET Proto]
  /\ tele \in [Obj -> SUBSET Proto]
  /\ fresh \subseteq Id \X Proto
  /\ flow \in [Id -> [Proto -> Tri]]
  /\ hb \in [Id -> Tri]
  /\ wan \in [Id -> [Slot -> Tri]]
  /\ walk \in [at : Nat, site : Obj \cup {NoSite}, slot : 0..Len(Slots), cut : BOOLEAN, rest : Seq(Obj)]
  /\ silence \in {"off", "on", "over"}
  /\ word \in {"silenced", "resumed"} /\ wiped \in BOOLEAN
  /\ told \in [Id -> Status] /\ gaps \subseteq Id
  /\ seen \in [Slot -> Tri] /\ swapped \in BOOLEAN
  /\ ghosts \subseteq known /\ known \subseteq Obj /\ Live \subseteq known
  /\ edits \in 0..MaxEdits

(* The last notice about a site gives its status, whichever of the five    *)
(* callers of reconcileSiteStatus changed it, but for three gaps: the      *)
(* change was silenced, the site came with a status of its own (creation,  *)
(* import), or a poller that held a removed object spoke for its id.       *)
LastWordStands ==
  \A o \in Live : told[o[1]] = status[o] \/ o[1] \in gaps

(* While alerts are silenced, or the end of the silence is still to be     *)
(* noticed, the last notice about it says so; afterwards it says that      *)
(* alerting resumed, unless a factory reset ended the silence.             *)
SilenceSaid ==
  /\ silence # "off" => word = "silenced"
  /\ silence = "off" /\ word = "silenced" => wiped

(* The last word about each site, and about the silence, is true.          *)
Words == TypeOK /\ LastWordStands /\ SilenceSaid

(* A heartbeat turns down only when the ping of its target failed in this  *)
(* visit, or the target has no address -- as long as nobody replaced the   *)
(* tables between that ping and the decision.                              *)
Decided(o) == walk.site = o /\ walk'.at # walk.at
DownMeansFailed ==
  \A o \in Obj : Decided(o) /\ target[o] \in Slot /\ hb'[o[1]] = "down"
                   => (IF target[o] = Slots[Len(Slots)] THEN wan'[o[1]] ELSE seen)[target[o]] = "down"
DownMeansFailedIfKept == [][~swapped => DownMeansFailed]_vars
DownAlwaysMeansFailed == [][DownMeansFailed]_vars

(* A site that was deleted, or replaced by an import, is decided once more *)
(* at most: by the round that was under way.                               *)
RemovedDecidedOnce ==
  [][\A o \in Obj : Decided(o) /\ o \notin Live => o \notin ghosts]_vars

(* The ping poller turns a heartbeat down for what it saw in that visit,   *)
(* and decides a site that is gone once at most: both of the above.        *)
VisitsSound == DownMeansFailedIfKept /\ RemovedDecidedOnce

(* A site that stays is polled again and again, although deletions of      *)
(* others make a round skip it.                                            *)
EverySitePolled ==
  \A o \in Obj : []<>(o \notin Live \/ walk.site = o)

(* A heartbeat that is down shows in the status of the site. *)
DownShows ==
  \A o \in Obj : (o \in Live /\ hb[o[1]] = "down")
                   ~> (o \notin Live \/ hb[o[1]] # "down" \/ status[o] = "down")

(* The heartbeat of a removed id is forgotten, although the poller may     *)
(* store it once more after its removal.                                   *)
RemovedForgotten ==
  \A i \in Id : []<>(hb[i] = "none" \/ \E o \in Live : o[1] = i)

-------------------------------------------------------------------------------
(* Proofs *)

(* No two sites have the same id.                                          *)
OwnIds == \A j, k \in DOMAIN sites : j # k => sites[j][1] # sites[k][1]

(* The poller is at a site it knows, and so are those it has before it.    *)
Places ==
  [at : Nat, site : Obj \cup {NoSite}, slot : 0..Len(Slots), cut : BOOLEAN, rest : Seq(Obj)]
AtSite ==
  /\ walk # Idle => walk.at > 0 /\ walk.site \in known /\ walk.slot > 0
  /\ Range(walk.rest) \subseteq known

(* The inductive invariant: a notice is about the id, and AtSite keeps the *)
(* objects that the poller holds among the known ones.                     *)
WordsInv == TypeOK /\ OwnIds /\ AtSite /\ LastWordStands /\ SilenceSaid

-------------------------------------------------------------------------------
LEMMA SitesTyped ==
  ASSUME TypeOK
  PROVE  /\ sites \in Seq(Obj) /\ Live \subseteq Obj /\ Live \subseteq known /\ known \subseteq Obj
         /\ \A k \in DOMAIN sites : sites[k] \in Live /\ sites[k] \in Obj
         /\ \A o \in Live : \E k \in DOMAIN sites : sites[k] = o
         /\ \A o \in Obj : o[1] \in Id /\ o[2] \in 0..MaxGen
BY DEF TypeOK, Live, Range, Obj

LEMMA DeriveTyped ==
  ASSUME NEW h, NEW on, NEW flowing, NEW old \in Status
  PROVE  Derive(h, on, flowing, old) \in Status
BY DEF Derive, Status

LEMMA ProtosLooked == ASSUME TypeOK, NEW o \in Obj PROVE Partly(o, Len(Protos)) = Flowing(o)
<1>1. enabled[o] \subseteq Proto /\ tele[o] \subseteq Proto
  BY DEF TypeOK
<1>2. \A p \in Proto : \E j \in 1..Len(Protos) : Protos[j] = p
  BY SitesAssumption DEF Proto, Range
<1>3. ~\E j \in (Len(Protos) + 1)..Len(Protos) : TRUE
  BY SitesAssumption
<1> QED BY <1>1, <1>2, <1>3 DEF Partly, Flowing

(* What is said when the objects of C changed: each of them has an id of   *)
(* its own among the sites, and its new status.                            *)
Saying(C) ==
  /\ C \subseteq known /\ UNCHANGED <<sites, known>>
  /\ status' \in [Obj -> Status] /\ \A o \in Obj \ C : status'[o] = status[o]
  /\ \A o, q \in C : o[1] = q[1] => o = q
  /\ \A o \in C, q \in Live : o \in Live /\ o[1] = q[1] => o = q
  /\ Announce(C)

LEMMA NoticeEndKeeps ==
  ASSUME TypeOK, SilenceSaid, NoticeEnd
  PROVE  /\ silence' \in {"off", "on", "over"} /\ word' \in {"silenced", "resumed"} /\ wiped' \in BOOLEAN
         /\ SilenceSaid'
BY DEF TypeOK, SilenceSaid, NoticeEnd, silenceVars

LEMMA AnnounceKeeps ==
  ASSUME TypeOK, LastWordStands, SilenceSaid, NEW C, Saying(C)
  PROVE  /\ silence' \in {"off", "on", "over"} /\ word' \in {"silenced", "resumed"} /\ wiped' \in BOOLEAN
         /\ told' \in [Id -> Status] /\ gaps' \subseteq Id
         /\ LastWordStands' /\ SilenceSaid'
<1>1. /\ C \subseteq Obj /\ Live' = Live /\ \A o \in Obj : o[1] \in Id
      /\ status' \in [Obj -> Status] /\ \A o \in Obj \ C : status'[o] = status[o]
      /\ \A o, q \in C : o[1] = q[1] => o = q
      /\ \A o \in C, q \in Live : o \in Live /\ o[1] = q[1] => o = q
      /\ Live \subseteq Obj
  BY SitesTyped DEF Saying, Live
<1>2. told \in [Id -> Status] /\ gaps \subseteq Id
  BY DEF TypeOK
<1>3. CASE C = {}
  <2>1. UNCHANGED <<told, gaps, silence, word, wiped>>
    BY <1>3 DEF Saying, Announce, wordVars, silenceVars
  <2>2. LastWordStands'
    BY <2>1, <1>1, <1>3 DEF LastWordStands
  <2> QED BY <2>1, <2>2, <1>2 DEF TypeOK, SilenceSaid
<1>4. CASE C # {}
  <2>1. NoticeEnd
    BY <1>4 DEF Saying, Announce
  <2>2. CASE silence = "on"
    <3>1. gaps' = gaps \cup {o[1] : o \in C} /\ told' = told
      BY <1>4, <2>2 DEF Saying, Announce
    <3>2. LastWordStands'
      BY <3>1, <1>1 DEF LastWordStands
    <3>3. gaps' \subseteq Id
      BY <3>1, <1>1, <1>2
    <3> QED BY <2>1, <3>1, <3>2, <3>3, <1>2, NoticeEndKeeps
  <2>3. CASE silence # "on"
    <3>1. /\ told' = [i \in Id |-> IF \E o \in C : o[1] = i THEN status'[CHOOSE o \in C : o[1] = i] ELSE told[i]]
          /\ gaps' = (gaps \ {o[1] : o \in C \cap Live}) \cup {o[1] : o \in C \ Live}
      BY <1>4, <2>3 DEF Saying, Announce
    <3>2. gaps' \subseteq Id
      BY <3>1, <1>1, <1>2
    <3>3. \A i \in Id : (\E o \in C : o[1] = i) =>
             (CHOOSE o \in C : o[1] = i) \in C /\ (CHOOSE o \in C : o[1] = i)[1] = i
      OBVIOUS
    <3>4. told' \in [Id -> Status]
      <4> SUFFICES ASSUME NEW i \in Id
                   PROVE (IF \E o \in C : o[1] = i THEN status'[CHOOSE o \in C : o[1] = i] ELSE told[i]) \in Status
        BY <3>1
      <4> QED BY <3>3, <1>1, <1>2
    <3>5. \A o \in C : told'[o[1]] = status'[o]
      <4> SUFFICES ASSUME NEW o \in C PROVE told'[o[1]] = status'[o]
        OBVIOUS
      <4>1. o[1] \in Id /\ (CHOOSE q \in C : q[1] = o[1]) = o
        BY <3>3, <1>1
      <4> QED BY <4>1, <3>1
    <3>6. \A i \in Id : (~\E o \in C : o[1] = i) => told'[i] = told[i]
      BY <3>1
    <3>7. LastWordStands'
      <4> SUFFICES ASSUME NEW q \in Live PROVE told'[q[1]] = status'[q] \/ q[1] \in gaps'
        BY <1>1 DEF LastWordStands
      <4>1. q \in Obj /\ q[1] \in Id /\ (told[q[1]] = status[q] \/ q[1] \in gaps)
        BY <1>1 DEF LastWordStands
      <4>2. CASE q \in C
        BY <4>2, <3>5
      <4>3. CASE q \notin C /\ \E o \in C : o[1] = q[1]
        <5>1. PICK o \in C : o[1] = q[1]
          BY <4>3
        <5>2. o \notin Live
          BY <5>1, <1>1, <4>3
        <5> QED BY <5>1, <5>2, <3>1
      <4>4. CASE q \notin C /\ ~\E o \in C : o[1] = q[1]
        <5>1. told'[q[1]] = told[q[1]] /\ status'[q] = status[q]
          BY <4>1, <4>4, <3>6, <1>1
        <5>2. q[1] \in gaps => q[1] \in gaps'
          BY <4>4, <3>1
        <5> QED BY <5>1, <5>2, <4>1
      <4> QED BY <4>2, <4>3, <4>4
    <3> QED BY <2>1, <3>2, <3>4, <3>7, NoticeEndKeeps
  <2> QED BY <2>2, <2>3
<1> QED BY <1>3, <1>4

LEMMA WalkedKnown ==
  ASSUME TypeOK, AtSite
  PROVE  /\ Walked \in Seq(Obj) /\ \A k \in DOMAIN Walked : Walked[k] \in known /\ Walked[k] \in Obj
         /\ walk \in Places
<1>1. walk \in Places /\ walk.rest \in Seq(Obj) /\ \A k \in DOMAIN walk.rest : walk.rest[k] \in known
  BY DEF TypeOK, Places, AtSite, Range
<1> QED BY <1>1, SitesTyped DEF Walked

LEMMA VisitKeeps ==
  ASSUME TypeOK, AtSite, NEW i \in Nat \ {0}, Visit(i), UNCHANGED known
  PROVE  /\ walk' \in Places /\ AtSite'
         /\ seen' \in [Slot -> Tri] /\ swapped' \in BOOLEAN
<1>1. seen' \in [Slot -> Tri] /\ swapped' \in BOOLEAN
  BY DEF Visit, Tri
<1>2. CASE i \in DOMAIN Walked
  <2>1. walk' = [walk EXCEPT !.at = i, !.site = Walked[i], !.slot = 1] /\ walk \in Places /\ Walked[i] \in known
        /\ Walked[i] \in Obj
    BY <1>2, WalkedKnown DEF Visit
  <2>2. walk' \in Places /\ walk'.at = i /\ walk'.site = Walked[i] /\ walk'.slot = 1 /\ walk'.rest = walk.rest
    <3>1. 1 \in 0..Len(Slots)
      BY SitesAssumption
    <3>2. walk.cut \in BOOLEAN /\ walk.rest \in Seq(Obj) /\ DOMAIN walk = {"at", "site", "slot", "cut", "rest"}
      BY <2>1 DEF Places
    <3>3. walk' = [at |-> i, site |-> Walked[i], slot |-> 1, cut |-> walk.cut, rest |-> walk.rest]
      BY <2>1, <3>2
    <3> QED BY <2>1, <3>1, <3>2, <3>3 DEF Places
  <2> QED BY <1>1, <2>1, <2>2 DEF AtSite
<1>3. CASE i \notin DOMAIN Walked
  <2>1. walk' = Idle /\ Idle \in Places /\ Range(Idle.rest) = {}
    BY <1>3, SitesAssumption DEF Visit, Idle, Places, Range
  <2> QED BY <1>1, <2>1 DEF AtSite
<1> QED BY <1>2, <1>3

(* A step that changes no status and says nothing leaves the words alone,  *)
(* unless a site comes that is not in gaps.                                *)
LEMMA Unsaid ==
  ASSUME LastWordStands, Live' \subseteq Live, UNCHANGED <<status, told, gaps>>
  PROVE  LastWordStands'
BY DEF LastWordStands

LEMMA PollKeepsWords == ASSUME WordsInv, Poll PROVE WordsInv'
<1> USE DEF WordsInv
<1>1. CASE StartRound
  <2>1. /\ Visit(1)
        /\ UNCHANGED <<sites, known, status, tele, edits, target, enabled, fresh, flow, hb, wan, told, gaps, silence, word, wiped, ghosts>>
    BY <1>1 DEF StartRound, siteVars, configVars, tableVars, wordVars, silenceVars
  <2>2. /\ walk' \in Places /\ AtSite' /\ seen' \in [Slot -> Tri] /\ swapped' \in BOOLEAN
    BY <2>1, VisitKeeps
  <2>3. Live' = Live
    BY <2>1 DEF Live
  <2>4. TypeOK'
    BY <2>1, <2>2, <2>3 DEF TypeOK, Places
  <2>5. LastWordStands' /\ SilenceSaid' /\ OwnIds'
    BY <2>1, <2>3, Unsaid DEF SilenceSaid, OwnIds
  <2> QED BY <2>2, <2>4, <2>5
<1>2. ASSUME NEW ok \in BOOLEAN, PingAnswered(ok) PROVE WordsInv'
  <2> DEFINE s == Slots[walk.slot]
  <2>1. /\ walk # Idle /\ walk.slot < Len(Slots)
        /\ wan' = [wan EXCEPT ![walk.site[1]][s] = Result(ok)]
        /\ seen' = [seen EXCEPT ![s] = Result(ok)]
        /\ walk' = [walk EXCEPT !.slot = @ + 1]
        /\ UNCHANGED <<sites, known, status, tele, edits, target, enabled, fresh, flow, hb, told, gaps, silence, word, wiped, swapped, ghosts>>
    BY <1>2 DEF PingAnswered, siteVars, configVars, wordVars, silenceVars
  <2>2. walk \in Places /\ walk.slot > 0 /\ walk.site \in Obj /\ walk.site[1] \in Id
    BY <2>1, SitesTyped DEF AtSite, TypeOK, Places
  <2>3. s \in Slot /\ Result(ok) \in Tri
    BY <2>1, <2>2, SitesAssumption DEF Places, Result, Tri
  <2>4. wan' \in [Id -> [Slot -> Tri]] /\ seen' \in [Slot -> Tri]
    BY <2>1, <2>2, <2>3 DEF TypeOK
  <2>5. /\ walk' \in Places /\ walk'.at = walk.at /\ walk'.site = walk.site /\ walk'.slot = walk.slot + 1
        /\ walk'.rest = walk.rest
    <3>1. walk.slot + 1 \in 0..Len(Slots)
      BY <2>1, <2>2, SitesAssumption DEF Places
    <3>2. walk.at \in Nat /\ walk.cut \in BOOLEAN /\ walk.rest \in Seq(Obj) /\ DOMAIN walk = {"at", "site", "slot", "cut", "rest"}
      BY <2>2 DEF Places
    <3>3. walk' = [at |-> walk.at, site |-> walk.site, slot |-> walk.slot + 1, cut |-> walk.cut, rest |-> walk.rest]
      BY <2>1, <3>2
    <3> QED BY <2>2, <3>1, <3>2, <3>3 DEF Places
  <2>6. AtSite' /\ Live' = Live
    BY <2>1, <2>2, <2>5 DEF AtSite, Live, Places
  <2>7. TypeOK'
    BY <2>1, <2>4, <2>5, <2>6 DEF TypeOK, Places
  <2>8. LastWordStands' /\ SilenceSaid' /\ OwnIds'
    BY <2>1, <2>6, Unsaid DEF SilenceSaid, OwnIds
  <2> QED BY <2>6, <2>7, <2>8
<1>3. ASSUME NEW ok \in BOOLEAN, SiteDecided(ok) PROVE WordsInv'
  <2> DEFINE o == walk.site
             i == o[1]
             table == [wan[i] EXCEPT ![Slots[walk.slot]] = Result(ok)]
             beat == Result(Reached(o, table))
             between == IF hb[i] \in {"none", beat} THEN status[o] ELSE Current(o)
             final == Derive(beat, enabled[o], tele[o], between)
             C == IF {between, final} # {status[o]} THEN {o} ELSE {}
  <2>1. /\ walk # Idle /\ walk.slot = Len(Slots)
        /\ wan' = [wan EXCEPT ![i] = table] /\ hb' = [hb EXCEPT ![i] = beat]
        /\ status' = [status EXCEPT ![o] = final]
        /\ Announce(C)
        /\ ghosts' = IF o \in Live THEN ghosts ELSE ghosts \cup {o}
        /\ Visit(walk.at + 1)
        /\ UNCHANGED <<sites, known, tele, edits, target, enabled, fresh, flow>>
    BY <1>3 DEF SiteDecided, siteVars, configVars
  <2>2. walk \in Places /\ walk.at + 1 \in Nat \ {0} /\ o \in known /\ o \in Obj /\ i \in Id
    BY <2>1, SitesTyped DEF AtSite, TypeOK, Places
  <2>3. Slots[walk.slot] \in Slot /\ Result(ok) \in Tri /\ beat \in Tri
    BY <2>1, SitesAssumption DEF Result, Tri
  <2> HIDE DEF beat
  <2>4. wan' \in [Id -> [Slot -> Tri]] /\ hb' \in [Id -> Tri]
    BY <2>1, <2>2, <2>3 DEF TypeOK
  <2>5. between \in Status /\ final \in Status
    <3>1. between \in Status
      BY <2>2, DeriveTyped DEF Current, TypeOK
    <3> HIDE DEF between
    <3> QED BY <3>1, DeriveTyped
  <2> HIDE DEF between, final
  <2>6. Saying(C)
    <3>1. C \subseteq {o} /\ (o \notin C => final = status[o])
      OBVIOUS
    <3>2. status' \in [Obj -> Status] /\ \A q \in Obj \ C : status'[q] = status[q]
      BY <2>1, <2>2, <2>5, <3>1 DEF TypeOK
    <3>3. \A p, q \in Live : p[1] = q[1] => p = q
      BY SitesTyped DEF OwnIds
    <3> HIDE DEF C, o
    <3> QED BY <2>1, <2>2, <3>1, <3>2, <3>3 DEF Saying
  <2>7. /\ silence' \in {"off", "on", "over"} /\ word' \in {"silenced", "resumed"} /\ wiped' \in BOOLEAN
        /\ told' \in [Id -> Status] /\ gaps' \subseteq Id
        /\ LastWordStands' /\ SilenceSaid'
    BY <2>6, AnnounceKeeps
  <2>8. /\ walk' \in Places /\ AtSite' /\ seen' \in [Slot -> Tri] /\ swapped' \in BOOLEAN
    BY <2>1, <2>2, VisitKeeps
  <2>9. Live' = Live /\ ghosts' \subseteq known' /\ status' \in [Obj -> Status]
    BY <2>1, <2>2, <2>6 DEF Live, TypeOK, Saying
  <2>10. TypeOK' /\ OwnIds'
    BY <2>1, <2>4, <2>7, <2>8, <2>9 DEF TypeOK, Places, OwnIds
  <2> QED BY <2>7, <2>8, <2>10
<1> QED BY <1>1, <1>2, <1>3 DEF Poll

(* A step of the tables and the settings only.                             *)
LEMMA TablesKeep ==
  ASSUME WordsInv,
         UNCHANGED <<sites, known, status, walk, told, gaps, silence, word, wiped, seen, swapped, ghosts>>,
         target' \in [Obj -> Target], enabled' \in [Obj -> SUBSET Proto], tele' \in [Obj -> SUBSET Proto],
         fresh' \subseteq Id \X Proto, flow' \in [Id -> [Proto -> Tri]], hb' \in [Id -> Tri],
         wan' \in [Id -> [Slot -> Tri]], edits' \in 0..MaxEdits
  PROVE  WordsInv'
<1>1. Live' = Live /\ Places' = Places
  BY DEF Live, Places
<1>2. TypeOK'
  BY <1>1 DEF WordsInv, TypeOK
<1>3. LastWordStands' /\ SilenceSaid' /\ OwnIds' /\ AtSite'
  BY <1>1, Unsaid DEF WordsInv, SilenceSaid, OwnIds, AtSite
<1> QED BY <1>2, <1>3 DEF WordsInv

LEMMA ApplyFlowKeeps == ASSUME WordsInv, ApplyFlowStatus PROVE WordsInv'
<1> USE DEF WordsInv
<1> DEFINE C == {o \in Live : Steps(o) # {status[o]}}
<1>1. /\ tele' = [o \in Obj |-> IF o \in Live THEN Flowing(o) ELSE tele[o]]
      /\ flow' = [i \in Id |-> [p \in Proto |->
                    IF \E o \in Live : o[1] = i /\ p \in enabled[o]
                    THEN Result(<<i, p>> \in fresh) ELSE flow[i][p]]]
      /\ status' = [o \in Obj |->
                     IF o \in Live THEN Derive(hb[o[1]], enabled[o], Flowing(o), status[o])
                                   ELSE status[o]]
      /\ Announce(C)
      /\ UNCHANGED <<sites, known, walk, edits, target, enabled, fresh, hb, wan, seen, swapped, ghosts>>
  BY DEF ApplyFlowStatus, siteVars, configVars, visitVars
<1>2. \A o \in Obj : Flowing(o) \in SUBSET Proto
  BY DEF Flowing, TypeOK
<1>3. tele' \in [Obj -> SUBSET Proto]
  BY <1>1, <1>2 DEF TypeOK
<1>4. flow' \in [Id -> [Proto -> Tri]]
  BY <1>1 DEF TypeOK, Result, Tri
<1>5. status' \in [Obj -> Status]
  BY <1>1, DeriveTyped DEF TypeOK
<1>6. ASSUME NEW o \in Live, o \notin C PROVE status'[o] = status[o]
  <2>1. o \in Obj /\ status'[o] = Derive(hb[o[1]], enabled[o], Flowing(o), status[o])
    BY <1>1, SitesTyped
  <2>2. Derive(hb[o[1]], enabled[o], Flowing(o), status[o]) \in Steps(o)
    BY <2>1, ProtosLooked DEF Steps
  <2> QED BY <2>1, <2>2, <1>6
<1>7. Saying(C)
  <2>1. \A o \in Obj \ C : status'[o] = status[o]
    BY <1>1, <1>6
  <2>2. \A p, q \in Live : p[1] = q[1] => p = q
    BY SitesTyped DEF OwnIds
  <2>3. C \subseteq Live /\ C \subseteq known
    BY SitesTyped
  <2> HIDE DEF C
  <2> QED BY <1>1, <1>5, <2>1, <2>2, <2>3 DEF Saying
<1>8. /\ silence' \in {"off", "on", "over"} /\ word' \in {"silenced", "resumed"} /\ wiped' \in BOOLEAN
      /\ told' \in [Id -> Status] /\ gaps' \subseteq Id
      /\ LastWordStands' /\ SilenceSaid'
  BY <1>7, AnnounceKeeps
<1>9. Live' = Live /\ Places' = Places
  BY <1>1 DEF Live, Places
<1> HIDE DEF C
<1>10. TypeOK' /\ OwnIds' /\ AtSite'
  BY <1>1, <1>3, <1>4, <1>5, <1>8, <1>9 DEF TypeOK, OwnIds, AtSite
<1> QED BY <1>8, <1>10

(* The sites become others, all known: those that were not sites before are*)
(* in gaps, and the poller may be left behind.                             *)
LEMMA ReplaceKeeps ==
  ASSUME WordsInv, NEW s \in Seq(Obj), ReplaceBy(s),
         \A j, k \in DOMAIN s : j # k => s[j][1] # s[k][1]
  PROVE  /\ sites' \in Seq(Obj) /\ known' \subseteq Obj /\ Live' = Range(s) /\ Live' \subseteq known' /\ known \subseteq known'
         /\ walk' \in Places /\ AtSite' /\ OwnIds'
<1> USE DEF WordsInv
<1>1. sites' = s /\ known' = known \cup Range(s) /\ Live' = Range(s) /\ Range(s) \subseteq Obj
  BY DEF ReplaceBy, Live, Range
<1>2. OwnIds'
  BY <1>1 DEF OwnIds
<1>3. Walked \in Seq(Obj) /\ walk \in Places /\ \A k \in DOMAIN Walked : Walked[k] \in known
  BY WalkedKnown
<1>4. walk' \in Places /\ AtSite'
  <2>1. CASE walk = Idle
    BY <2>1, <1>1, <1>3 DEF ReplaceBy, AtSite
  <2>2. CASE walk # Idle
    <3>1. walk.at \in Nat /\ walk.slot \in 0..Len(Slots) /\ DOMAIN walk = {"at", "site", "slot", "cut", "rest"}
          /\ walk.site \in Obj \cup {NoSite}
      BY <1>3 DEF Places
    <3>2. walk' = [at |-> walk.at, site |-> walk.site, slot |-> walk.slot, cut |-> TRUE, rest |-> Walked]
      BY <2>2, <3>1 DEF ReplaceBy
    <3>3. walk' \in Places
      BY <3>1, <3>2, <1>3 DEF Places
    <3>4. Range(Walked) \subseteq known
      BY <1>3 DEF Range
    <3> QED BY <2>2, <3>2, <3>3, <3>4, <1>1 DEF AtSite
  <2> QED BY <2>1, <2>2
<1>5. known \subseteq Obj
  BY DEF TypeOK
<1> QED BY <1>1, <1>2, <1>4, <1>5

LEMMA CreateKeeps ==
  ASSUME WordsInv, NEW i \in Id, NEW t \in Target, CreateSite(i, t), edits' \in 0..MaxEdits
  PROVE  WordsInv'
<1> USE DEF WordsInv
<1> DEFINE n == <<i, 0>>
<1>1. /\ i \notin {o[1] : o \in known} /\ sites' = Append(sites, n) /\ known' = known \cup {n}
      /\ status' = [status EXCEPT ![n] = "down"] /\ target' = [target EXCEPT ![n] = t] /\ gaps' = gaps \cup {i}
      /\ UNCHANGED <<enabled, tele, walk, fresh, flow, hb, wan, told, silence, word, wiped, seen, swapped, ghosts>>
  BY DEF CreateSite, tableVars, silenceVars, visitVars
<1>2. n \in Obj /\ n[1] = i /\ n \notin known
  BY <1>1, SitesAssumption DEF Obj
<1> HIDE DEF n
<1>3. /\ sites' \in Seq(Obj) /\ Len(sites') = Len(sites) + 1 /\ sites'[Len(sites) + 1] = n
      /\ \A k \in DOMAIN sites : sites'[k] = sites[k]
  BY <1>1, <1>2, SitesTyped
<1>4. Live' = Live \cup {n}
  <2>1. DOMAIN sites = 1..Len(sites) /\ Len(sites) \in Nat /\ DOMAIN sites' = 1..(Len(sites) + 1)
    BY <1>3, SitesTyped
  <2>2. Live' \subseteq Live \cup {n}
    BY <1>3, <2>1 DEF Live, Range
  <2>3. Live \subseteq Live'
    BY <1>3, <2>1 DEF Live, Range
  <2>4. n \in Live'
    BY <1>3, <2>1 DEF Live, Range
  <2> QED BY <2>2, <2>3, <2>4
<1>5. OwnIds'
  <2>1. \A k \in DOMAIN sites : sites[k][1] # i
    BY <1>1, SitesTyped
  <2>2. \A k \in DOMAIN sites' : k \in DOMAIN sites \/ k = Len(sites) + 1
    BY <1>3, SitesTyped
  <2>3. DOMAIN sites = 1..Len(sites) /\ Len(sites) \in Nat
    BY SitesTyped
  <2> QED BY <1>2, <1>3, <2>1, <2>2, <2>3 DEF OwnIds
<1>6. LastWordStands'
  <2> SUFFICES ASSUME NEW o \in Live' PROVE told'[o[1]] = status'[o] \/ o[1] \in gaps'
    BY DEF LastWordStands
  <2>1. CASE o = n
    BY <2>1, <1>1, <1>2
  <2>2. CASE o # n
    <3>1. o \in Live /\ o \in Obj
      BY <2>2, <1>4, SitesTyped
    <3>2. status'[o] = status[o]
      BY <2>2, <3>1, <1>1 DEF TypeOK
    <3> QED BY <3>1, <3>2, <1>1 DEF LastWordStands
  <2> QED BY <2>1, <2>2
<1>7. status' \in [Obj -> Status] /\ target' \in [Obj -> Target] /\ gaps' \subseteq Id
  BY <1>1, <1>2 DEF TypeOK, Status
<1>8. known' \subseteq Obj /\ Live' \subseteq known' /\ ghosts' \subseteq known'
  BY <1>1, <1>2, <1>4 DEF TypeOK
<1>9. Places' = Places /\ AtSite' /\ SilenceSaid'
  BY <1>1 DEF Places, AtSite, SilenceSaid
<1>10. TypeOK'
  BY <1>1, <1>3, <1>7, <1>8, <1>9 DEF TypeOK
<1> QED BY <1>5, <1>6, <1>9, <1>10

LEMMA Removed ==
  ASSUME NEW s \in Seq(Obj), NEW k \in DOMAIN s
  PROVE  /\ RemoveAt(s, k) \in Seq(Obj) /\ Len(RemoveAt(s, k)) = Len(s) - 1
         /\ \A j \in 1..(Len(s) - 1) : RemoveAt(s, k)[j] = IF j < k THEN s[j] ELSE s[j + 1]
<1> DEFINE front == SubSeq(s, 1, k - 1)
           back == SubSeq(s, k + 1, Len(s))
<1>1. front \in Seq(Obj) /\ Len(front) = k - 1 /\ \A i \in 1..(k - 1) : front[i] = s[i]
  BY SubSeqProperties
<1>2. back \in Seq(Obj) /\ Len(back) = Len(s) - k /\ \A i \in 1..(Len(s) - k) : back[i] = s[k + i]
  BY SubSeqProperties
<1>3. RemoveAt(s, k) = front \o back
  BY DEF RemoveAt
<1> HIDE DEF front, back
<1>4. k \in 1..Len(s) /\ Len(s) \in Nat
  OBVIOUS
<1>5. /\ front \o back \in Seq(Obj) /\ Len(front \o back) = (k - 1) + (Len(s) - k)
      /\ \A j \in 1..((k - 1) + (Len(s) - k)) :
           (front \o back)[j] = IF j <= k - 1 THEN front[j] ELSE back[j - (k - 1)]
  <2>1. front \in Seq(Obj) /\ back \in Seq(Obj)
    BY <1>1, <1>2
  <2>2. /\ Len(front \o back) = Len(front) + Len(back)
        /\ \A j \in 1..(Len(front) + Len(back)) :
             (front \o back)[j] = IF j <= Len(front) THEN front[j] ELSE back[j - Len(front)]
    BY <2>1, ConcatProperties, Zenon
  <2>3. front \o back \in Seq(Obj)
    BY <2>1, ConcatProperties, Zenon
  <2> QED BY <1>1, <1>2, <2>2, <2>3, Zenon
<1>6. (k - 1) + (Len(s) - k) = Len(s) - 1
  BY <1>4
<1>7. ASSUME NEW j \in 1..(Len(s) - 1)
      PROVE  (front \o back)[j] = IF j < k THEN s[j] ELSE s[j + 1]
  <2>1. CASE j < k
    <3>1. j <= k - 1 /\ j \in 1..(k - 1)
      BY <1>4, <2>1
    <3> QED BY <1>1, <1>5, <1>6, <2>1, <3>1
  <2>2. CASE ~(j < k)
    <3>1. ~(j <= k - 1) /\ j - (k - 1) \in 1..(Len(s) - k) /\ k + (j - (k - 1)) = j + 1
      BY <1>4, <2>2
    <3> QED BY <1>2, <1>5, <1>6, <2>2, <3>1
  <2> QED BY <2>1, <2>2
<1> QED BY <1>3, <1>5, <1>6, <1>7

LEMMA DeleteSiteKeeps ==
  ASSUME WordsInv, NEW k \in DOMAIN sites, DeleteSite(k), edits' \in 0..MaxEdits
  PROVE  WordsInv'
<1> USE DEF WordsInv
<1>1. /\ sites' = RemoveAt(sites, k)
      /\ UNCHANGED <<known, status, target, enabled, tele, walk, fresh, flow, hb, wan, told, gaps, silence, word, wiped,
                     seen, swapped, ghosts>>
  BY DEF DeleteSite, tableVars, configVars, wordVars, silenceVars, visitVars
<1>2. sites \in Seq(Obj) /\ DOMAIN sites = 1..Len(sites) /\ Len(sites) \in Nat
  BY SitesTyped
<1>3. /\ sites' \in Seq(Obj) /\ Len(sites') = Len(sites) - 1 /\ DOMAIN sites' = 1..(Len(sites) - 1)
      /\ \A j \in DOMAIN sites' : sites'[j] = IF j < k THEN sites[j] ELSE sites[j + 1]
  <2>1. sites' \in Seq(Obj) /\ Len(sites') = Len(sites) - 1
        /\ \A j \in 1..(Len(sites) - 1) : sites'[j] = IF j < k THEN sites[j] ELSE sites[j + 1]
    BY <1>1, <1>2, Removed, Zenon
  <2>2. DOMAIN sites' = 1..Len(sites')
    BY <2>1, LenProperties
  <2> QED BY <2>1, <2>2, Zenon
<1>4. Live' \subseteq Live
  <2>1. ASSUME NEW j \in DOMAIN sites' PROVE \E m \in DOMAIN sites : sites'[j] = sites[m]
    <3>1. j \in DOMAIN sites /\ j + 1 \in DOMAIN sites
      BY <1>2, <1>3
    <3> QED BY <1>3, <3>1
  <2> QED BY <2>1 DEF Live, Range
<1>5. OwnIds'
  <2> SUFFICES ASSUME NEW j \in DOMAIN sites', NEW m \in DOMAIN sites', j # m PROVE sites'[j][1] # sites'[m][1]
    BY DEF OwnIds
  <2>1. PICK p \in DOMAIN sites : sites'[j] = sites[p] /\ p = IF j < k THEN j ELSE j + 1
    BY <1>2, <1>3
  <2>2. PICK q \in DOMAIN sites : sites'[m] = sites[q] /\ q = IF m < k THEN m ELSE m + 1
    BY <1>2, <1>3
  <2>3. p # q
    BY <2>1, <2>2, <1>2, <1>3
  <2> QED BY <2>1, <2>2, <2>3 DEF OwnIds
<1>6. LastWordStands' /\ SilenceSaid' /\ Places' = Places /\ AtSite'
  BY <1>1, <1>4, Unsaid DEF SilenceSaid, Places, AtSite
<1>7. TypeOK'
  BY <1>1, <1>3, <1>4, <1>6 DEF TypeOK
<1> QED BY <1>5, <1>6, <1>7

LEMMA DeleteSectionKeeps ==
  ASSUME WordsInv, NEW S \in SUBSET Live, DeleteSection(S), edits' \in 0..MaxEdits
  PROVE  WordsInv'
<1> USE DEF WordsInv
<1>1. /\ UNCHANGED <<status, target, enabled, tele, fresh, flow, hb, wan, told, gaps, silence, word, wiped,
                     seen, swapped, ghosts>>
      /\ \E rest \in SeqOf(Live \ S, Len(sites)) : Left(rest, Live \ S) /\ ReplaceBy(rest)
  BY DEF DeleteSection, tableVars, configVars, wordVars, silenceVars, visitVars
<1>2. PICK rest \in SeqOf(Live \ S, Len(sites)) : Left(rest, Live \ S) /\ ReplaceBy(rest)
  BY <1>1
<1>3. rest \in Seq(Obj)
  <2>1. PICK m \in 0..Len(sites) : rest \in [1..m -> Live \ S]
    BY <1>2 DEF SeqOf
  <2>2. m \in Nat /\ rest \in [1..m -> Obj]
    BY <2>1, SitesTyped
  <2> QED BY <2>2
<1>4. Range(rest) = Live \ S
  BY <1>2 DEF Left
<1>5. \A j, k \in DOMAIN rest : j # k => rest[j][1] # rest[k][1]
  <2>1. ASSUME NEW j \in DOMAIN rest, NEW k \in DOMAIN rest, j < k PROVE rest[j][1] # rest[k][1]
    <3>1. PICK m \in DOMAIN sites, n \in DOMAIN sites : m < n /\ sites[m] = rest[j] /\ sites[n] = rest[k]
      BY <1>2, <2>1 DEF Left
    <3>2. m # n
      BY <3>1, SitesTyped
    <3> QED BY <3>1, <3>2 DEF OwnIds
  <2>2. \A j, k \in DOMAIN rest : j # k => j < k \/ k < j
    BY <1>3
  <2> QED BY <2>1, <2>2
<1>6. /\ sites' \in Seq(Obj) /\ known' \subseteq Obj /\ Live' = Range(rest) /\ Live' \subseteq known' /\ known \subseteq known'
      /\ walk' \in Places /\ AtSite' /\ OwnIds'
  BY <1>2, <1>3, <1>5, ReplaceKeeps
<1>7. LastWordStands' /\ SilenceSaid'
  BY <1>1, <1>4, <1>6, Unsaid DEF SilenceSaid
<1>8. TypeOK'
  BY <1>1, <1>6 DEF TypeOK, Places
<1> QED BY <1>6, <1>7, <1>8

LEMMA TablesEmpty ==
  ASSUME EmptyTables
  PROVE  /\ fresh' \subseteq Id \X Proto /\ flow' \in [Id -> [Proto -> Tri]] /\ hb' \in [Id -> Tri]
         /\ wan' \in [Id -> [Slot -> Tri]] /\ swapped' \in BOOLEAN
BY DEF EmptyTables, Tri

LEMMA ImportKeeps ==
  ASSUME WordsInv, NEW ids \in IdLists, NEW st \in {"up", "down"}, NEW t \in Slot, NEW on \in SUBSET Proto,
         ImportBackup(ids, st, t, on), edits' \in 0..MaxEdits
  PROVE  WordsInv'
<1> USE DEF WordsInv
<1>1. PICK g \in (0..MaxGen) \ Generations :
        LET new == [k \in DOMAIN ids |-> <<ids[k], g>>] IN
        /\ ReplaceBy(new)
        /\ status' = [o \in Obj |-> IF o \in Range(new) THEN st ELSE status[o]]
        /\ target' = [o \in Obj |-> IF o \in Range(new) THEN t ELSE target[o]]
        /\ enabled' = [o \in Obj |-> IF o \in Range(new) THEN on ELSE enabled[o]]
        /\ gaps' = gaps \cup Range(ids)
  BY DEF ImportBackup
<1> DEFINE new == [k \in DOMAIN ids |-> <<ids[k], g>>]
<1>2. /\ EmptyTables /\ UNCHANGED <<tele, told, silence, word, wiped, seen, ghosts>>
  BY DEF ImportBackup, silenceVars
<1>3. \E n \in Nat : ids \in [1..n -> Id]
  BY DEF IdLists, SeqOf
<1>4. ids \in Seq(Id) /\ \A j, k \in DOMAIN ids : j # k => ids[j] # ids[k]
  BY <1>3 DEF IdLists, Distinct
<1>5. new \in Seq(Obj) /\ \A j, k \in DOMAIN new : j # k => new[j][1] # new[k][1]
  <2>1. PICK n \in Nat : ids \in [1..n -> Id]
    BY <1>3
  <2>2. new \in [1..n -> Obj]
    BY <2>1 DEF Obj
  <2> QED BY <2>2, <1>4
<1>6. \A o \in Range(new) : o[1] \in Range(ids)
  BY DEF Range
<1>7. Range(ids) \subseteq Id
  BY <1>4 DEF Range
<1> HIDE DEF new
<1>8. /\ ReplaceBy(new) /\ gaps' = gaps \cup Range(ids)
      /\ status' = [o \in Obj |-> IF o \in Range(new) THEN st ELSE status[o]]
      /\ target' = [o \in Obj |-> IF o \in Range(new) THEN t ELSE target[o]]
      /\ enabled' = [o \in Obj |-> IF o \in Range(new) THEN on ELSE enabled[o]]
  BY <1>1 DEF new
<1>9. /\ sites' \in Seq(Obj) /\ known' \subseteq Obj /\ Live' = Range(new) /\ Live' \subseteq known' /\ known \subseteq known'
      /\ walk' \in Places /\ AtSite' /\ OwnIds'
  BY <1>5, <1>8, ReplaceKeeps
<1>10. LastWordStands' /\ SilenceSaid'
  BY <1>2, <1>6, <1>8, <1>9 DEF SilenceSaid, LastWordStands
<1>11. /\ status' \in [Obj -> Status] /\ target' \in [Obj -> Target] /\ enabled' \in [Obj -> SUBSET Proto]
       /\ gaps' \subseteq Id
  BY <1>7, <1>8 DEF TypeOK, Status, Target
<1>12. TypeOK'
  BY <1>2, <1>9, <1>11, TablesEmpty DEF TypeOK, Places
<1> QED BY <1>9, <1>10, <1>12

LEMMA ResetKeeps ==
  ASSUME WordsInv, FactoryReset, edits' \in 0..MaxEdits
  PROVE  WordsInv'
<1> USE DEF WordsInv
<1>1. /\ ReplaceBy(<<>>) /\ EmptyTables /\ silence' = "off" /\ wiped' = (wiped \/ silence # "off")
      /\ UNCHANGED <<status, target, enabled, tele, told, gaps, word, seen, ghosts>>
  BY DEF FactoryReset, configVars
<1>2. <<>> \in Seq(Obj) /\ Range(<<>>) = {} /\ DOMAIN <<>> = {}
  BY DEF Range
<1> DEFINE none == <<>>
<1>0. none \in Seq(Obj) /\ ReplaceBy(none) /\ \A j, k \in DOMAIN none : j # k => none[j][1] # none[k][1]
  BY <1>1, <1>2
<1> HIDE DEF none
<1>3. /\ sites' \in Seq(Obj) /\ known' \subseteq Obj /\ Live' = {} /\ Live' \subseteq known' /\ known \subseteq known'
      /\ walk' \in Places /\ AtSite' /\ OwnIds'
  <2>1. Range(none) = {}
    BY <1>2 DEF none
  <2> QED BY <1>0, <2>1, ReplaceKeeps
<1>4. LastWordStands'
  BY <1>3 DEF LastWordStands
<1>5. SilenceSaid' /\ wiped' \in BOOLEAN
  BY <1>1 DEF SilenceSaid, TypeOK
<1>6. TypeOK'
  BY <1>1, <1>3, <1>5, TablesEmpty DEF TypeOK, Places
<1> QED BY <1>3, <1>4, <1>5, <1>6

LEMMA SilenceKeeps ==
  ASSUME WordsInv, ToggleSilence \/ SilenceEnds \/ AskSilence, edits' \in 0..MaxEdits
  PROVE  WordsInv'
<1> USE DEF WordsInv
<1>1. UNCHANGED <<sites, known, status, target, enabled, tele, walk, fresh, flow, hb, wan, told, gaps, seen, swapped, ghosts>>
  BY DEF ToggleSilence, SilenceEnds, AskSilence, siteVars, configVars, tableVars, visitVars
<1>2. /\ silence' \in {"off", "on", "over"} /\ word' \in {"silenced", "resumed"} /\ wiped' \in BOOLEAN /\ SilenceSaid'
  <2>1. CASE ToggleSilence
    BY <2>1 DEF ToggleSilence, SilenceSaid
  <2>2. CASE SilenceEnds
    BY <2>2 DEF SilenceEnds, SilenceSaid, TypeOK
  <2>3. CASE AskSilence
    BY <2>3, NoticeEndKeeps DEF AskSilence
  <2> QED BY <2>1, <2>2, <2>3
<1>3. Live' = Live /\ Places' = Places
  BY <1>1 DEF Live, Places
<1>4. LastWordStands' /\ OwnIds' /\ AtSite'
  BY <1>1, <1>3, Unsaid DEF OwnIds, AtSite
<1>5. TypeOK'
  BY <1>1, <1>2, <1>3 DEF TypeOK
<1> QED BY <1>2, <1>4, <1>5

LEMMA RequestKeeps == ASSUME WordsInv, Request PROVE WordsInv'
<1>1. edits' \in 0..MaxEdits
  BY SitesAssumption DEF Request, WordsInv, TypeOK
<1>2. \A o \in known : o \in Obj /\ o[1] \in Id
  BY SitesTyped DEF WordsInv
<1>3. ASSUME NEW o \in known, NEW p \in Proto, NEW on \in BOOLEAN, ConfigureMonitor(o, p, on) PROVE WordsInv'
  <2>1. /\ enabled' = [enabled EXCEPT ![o] = IF on THEN @ \cup {p} ELSE @ \ {p}]
        /\ tele' = [tele EXCEPT ![o] = IF on THEN @ ELSE @ \ {p}]
        /\ UNCHANGED <<sites, known, status, target, walk, fresh, flow, hb, wan, told, gaps, silence, word, wiped,
                       seen, swapped, ghosts>>
    BY <1>3 DEF ConfigureMonitor, siteVars, tableVars, wordVars, silenceVars, visitVars
  <2>2. enabled' \in [Obj -> SUBSET Proto] /\ tele' \in [Obj -> SUBSET Proto]
    BY <2>1, <1>2 DEF WordsInv, TypeOK
  <2>3. TypeOK
    BY DEF WordsInv
  <2> QED BY <1>1, <2>1, <2>2, <2>3, TablesKeep DEF TypeOK
<1>4. ASSUME NEW o \in known, NEW t \in Target, SetTarget(o, t) PROVE WordsInv'
  <2>1. /\ target' = [target EXCEPT ![o] = t]
        /\ UNCHANGED <<sites, known, status, enabled, tele, walk, fresh, flow, hb, wan, told, gaps, silence, word, wiped,
                       seen, swapped, ghosts>>
    BY <1>4 DEF SetTarget, siteVars, tableVars, wordVars, silenceVars, visitVars
  <2>2. target' \in [Obj -> Target]
    BY <2>1, <1>2 DEF WordsInv, TypeOK
  <2>3. TypeOK
    BY DEF WordsInv
  <2> QED BY <1>1, <2>1, <2>2, <2>3, TablesKeep DEF TypeOK
<1>5. ASSUME NEW o \in known, TestNetflow(o) PROVE WordsInv'
  <2>1. /\ fresh' = fresh \cup {<<o[1], "netflow">>} /\ "netflow" \in Proto
        /\ tele' = [tele EXCEPT ![o] = @ \cup {"netflow"}]
        /\ UNCHANGED <<sites, known, status, target, enabled, walk, flow, hb, wan, told, gaps, silence, word, wiped,
                       seen, swapped, ghosts>>
    BY <1>5 DEF TestNetflow, siteVars, configVars, wordVars, silenceVars, visitVars
  <2>2. fresh' \subseteq Id \X Proto /\ tele' \in [Obj -> SUBSET Proto]
    BY <2>1, <1>2 DEF WordsInv, TypeOK
  <2>3. TypeOK
    BY DEF WordsInv
  <2> QED BY <1>1, <2>1, <2>2, <2>3, TablesKeep DEF TypeOK
<1> QED BY <1>1, <1>3, <1>4, <1>5, CreateKeeps, DeleteSiteKeeps, DeleteSectionKeeps, ImportKeeps, ResetKeeps, SilenceKeeps
        DEF Request

LEMMA WordsInitial == Init => WordsInv
<1> SUFFICES ASSUME Init PROVE WordsInv
  OBVIOUS
<1>1. PICK ids \in IdLists : sites = [k \in DOMAIN ids |-> <<ids[k], 0>>]
  BY DEF Init
<1>2. PICK n \in Nat : ids \in [1..n -> Id]
  BY <1>1 DEF IdLists, SeqOf
<1>3. sites \in [1..n -> Obj] /\ \A k \in 1..n : sites[k] = <<ids[k], 0>>
  BY <1>1, <1>2, SitesAssumption DEF Obj
<1>4. sites \in Seq(Obj) /\ DOMAIN sites = 1..n
  BY <1>3
<1>5. OwnIds
  BY <1>1, <1>2, <1>3, <1>4 DEF OwnIds, IdLists, Distinct
<1>6. Live \subseteq Obj /\ \A o \in Live : o = <<o[1], 0>>
  <2> SUFFICES ASSUME NEW o \in Live PROVE o \in Obj /\ o = <<o[1], 0>>
    OBVIOUS
  <2>1. PICK k \in 1..n : sites[k] = o
    BY <1>4 DEF Live, Range
  <2>2. o \in Obj /\ o = <<ids[k], 0>>
    BY <2>1, <1>3
  <2>3. o[1] = ids[k]
    BY <2>2
  <2> QED BY <2>2, <2>3
<1>7. Idle \in Places /\ Range(Idle.rest) = {} /\ AtSite
  BY SitesAssumption DEF Init, Idle, Places, Range, AtSite
<1>8. \A i \in Id : <<i, 0>> \in Obj
  BY SitesAssumption DEF Obj
<1>9. told \in [Id -> Status] /\ status \in [Obj -> Status]
  BY <1>8 DEF Init, Status
<1>10. LastWordStands
  <2> SUFFICES ASSUME NEW o \in Live PROVE told[o[1]] = status[o]
    BY DEF LastWordStands
  <2>1. o = <<o[1], 0>> /\ o[1] \in Id
    BY <1>6 DEF Obj
  <2> QED BY <2>1 DEF Init
<1>11. target \in [Obj -> Target] /\ enabled \in [Obj -> SUBSET Proto] /\ tele \in [Obj -> SUBSET Proto]
  BY DEF Init
<1>12. /\ fresh \subseteq Id \X Proto /\ flow \in [Id -> [Proto -> Tri]] /\ hb \in [Id -> Tri]
       /\ wan \in [Id -> [Slot -> Tri]] /\ seen \in [Slot -> Tri]
  BY DEF Init, Tri
<1>13. /\ walk \in Places /\ silence = "off" /\ word = "resumed" /\ gaps = {}
       /\ ghosts = {} /\ known = Live /\ edits \in 0..MaxEdits
  BY <1>7, SitesAssumption DEF Init
<1>15. wiped \in BOOLEAN /\ swapped \in BOOLEAN
  BY Zenon DEF Init
<1>14. TypeOK /\ SilenceSaid
  BY <1>4, <1>6, <1>9, <1>11, <1>12, <1>13, <1>15 DEF TypeOK, Places, SilenceSaid
<1> QED BY <1>5, <1>7, <1>10, <1>14 DEF WordsInv

LEMMA WordsStep == WordsInv /\ [Next]_vars => WordsInv'
<1> SUFFICES ASSUME WordsInv, [Next]_vars PROVE WordsInv'
  OBVIOUS
<1>1. TypeOK /\ \A o \in known : o \in Obj /\ o[1] \in Id
  BY SitesTyped DEF WordsInv
<1>2. ASSUME UNCHANGED <<sites, known, status, walk, told, gaps, silence, word, wiped, seen, swapped, ghosts, target, enabled,
                         tele, wan, edits>>,
             fresh' \subseteq Id \X Proto, flow' \in [Id -> [Proto -> Tri]], hb' \in [Id -> Tri]
      PROVE  WordsInv'
  BY <1>1, <1>2, TablesKeep DEF TypeOK
<1>3. ASSUME NEW o \in known, NEW p \in Proto, Packet(o, p) PROVE WordsInv'
  <2>1. fresh' = fresh \cup {<<o[1], p>>} /\ fresh \subseteq Id \X Proto
        /\ UNCHANGED <<sites, known, status, tele, walk, edits, target, enabled, flow, hb, wan, told, gaps, silence, word, wiped,
                       seen, swapped, ghosts>>
    BY <1>1, <1>3 DEF Packet, siteVars, configVars, wordVars, silenceVars, visitVars, TypeOK
  <2>2. fresh' \subseteq Id \X Proto
    BY <2>1, <1>1
  <2> QED BY <1>1, <1>2, <2>1, <2>2 DEF TypeOK
<1>4. ASSUME NEW i \in Id, NEW p \in Proto, FlowEnds(i, p) PROVE WordsInv'
  <2>1. fresh' \subseteq fresh
        /\ UNCHANGED <<sites, known, status, tele, walk, edits, target, enabled, flow, hb, wan, told, gaps, silence, word, wiped,
                       seen, swapped, ghosts>>
    BY <1>4 DEF FlowEnds, siteVars, configVars, wordVars, silenceVars, visitVars
  <2> QED BY <1>1, <1>2, <2>1 DEF TypeOK
<1>5. ASSUME NEW o \in known, SnmpAnswered(o) PROVE WordsInv'
  <2>1. fresh' = fresh \cup {<<o[1], "snmp">>} /\ "snmp" \in enabled[o]
        /\ UNCHANGED <<sites, known, status, tele, walk, edits, target, enabled, flow, hb, wan, told, gaps, silence, word, wiped,
                       seen, swapped, ghosts>>
    BY <1>5 DEF SnmpAnswered, siteVars, configVars, wordVars, silenceVars, visitVars
  <2>2. "snmp" \in Proto
    BY <1>1, <2>1 DEF TypeOK
  <2>3. fresh' \subseteq Id \X Proto
    BY <2>1, <2>2, <1>1 DEF TypeOK
  <2> QED BY <1>1, <1>2, <2>1, <2>3 DEF TypeOK
<1>6. CASE Housekeeping
  <2> DEFINE gone(i) == \A o \in Live : o[1] # i
  <2>1. /\ hb' = [i \in Id |-> IF gone(i) THEN "none" ELSE hb[i]]
        /\ flow' = [i \in Id |-> IF gone(i) THEN [p \in Proto |-> "none"] ELSE flow[i]]
        /\ fresh' \subseteq fresh
        /\ UNCHANGED <<sites, known, status, tele, walk, edits, target, enabled, wan, told, gaps, silence, word, wiped,
                       seen, swapped, ghosts>>
    BY <1>6 DEF Housekeeping, siteVars, configVars, wordVars, silenceVars, visitVars
  <2> HIDE DEF gone
  <2>2. hb' \in [Id -> Tri] /\ flow' \in [Id -> [Proto -> Tri]] /\ fresh' \subseteq Id \X Proto
    BY <2>1, <1>1 DEF TypeOK, Tri
  <2> QED BY <1>2, <2>1, <2>2
<1>7. CASE SilenceEnds \/ AskSilence
  <2>1. edits' \in 0..MaxEdits
    BY <1>1, <1>7 DEF SilenceEnds, AskSilence, TypeOK
  <2> QED BY <1>7, <2>1, SilenceKeeps
<1>8. CASE UNCHANGED vars
  <2>1. UNCHANGED <<sites, known, status, tele, walk, edits, target, enabled, fresh, flow, hb, wan, told, gaps, silence, word,
                    wiped, seen, swapped, ghosts>>
    BY <1>8 DEF vars, siteVars, configVars, tableVars, wordVars, silenceVars, visitVars
  <2> QED BY <1>1, <1>2, <2>1 DEF TypeOK
<1> QED BY <1>3, <1>4, <1>5, <1>6, <1>7, <1>8, ApplyFlowKeeps, PollKeepsWords, RequestKeeps DEF Next

(* However many sites there are, with whatever protocols and slots, and     *)
(* however requests, packets, time-outs and pings interleave: each caller of*)
(* reconcileSiteStatus says what it changes, but for the three gaps, and   *)
(* what was said last about the silence is so.                             *)
THEOREM WordsKept == Spec => []Words
<1>1. WordsInv => Words
  BY DEF WordsInv, Words
<1> QED BY <1>1, WordsInitial, WordsStep, PTL DEF Spec

-------------------------------------------------------------------------------
(* What the pings of the visit under way returned is in the table of the   *)
(* site, unless the tables were replaced.                                  *)
SeenKept ==
  walk # Idle /\ ~swapped =>
    \A j \in 1..Len(Slots) : j < walk.slot =>
      wan[walk.site[1]][Slots[j]] = seen[Slots[j]] /\ seen[Slots[j]] \in {"up", "down"}

(* What the poller has before it is not behind it.                         *)
Ahead ==
  walk # Idle => /\ walk.site \notin ghosts
                 /\ \A j \in DOMAIN Walked : j > walk.at => Walked[j] \notin ghosts /\ Walked[j] # walk.site

(* With WordsInv inductive: an array that was left behind has no object    *)
(* twice, and nothing that is in state.sites was seen to be gone.          *)
VisitInv ==
  /\ SeenKept /\ Ahead
  /\ ghosts \cap Live = {}
  /\ \A j, k \in DOMAIN walk.rest : j # k => walk.rest[j] # walk.rest[k]

LEMMA WalkedOnce ==
  ASSUME WordsInv, VisitInv
  PROVE  \A j, k \in DOMAIN Walked : j # k => Walked[j] # Walked[k]
BY DEF WordsInv, VisitInv, OwnIds, Walked

LEMMA VisitStays ==
  ASSUME VisitInv, UNCHANGED <<sites, walk, wan, seen, swapped, ghosts>>
  PROVE  VisitInv'
<1>1. Live' = Live /\ Walked' = Walked
  BY DEF Live, Walked
<1> QED BY <1>1 DEF VisitInv, SeenKept, Ahead

(* The poller takes a site: the one it was at may have become a ghost.     *)
LEMMA VisitGoesOn ==
  ASSUME WordsInv, VisitInv, NEW i \in Nat \ {0}, Visit(i), UNCHANGED sites,
         walk = Idle => i = 1, walk # Idle => i = walk.at + 1,
         ghosts' = ghosts \/ (walk # Idle /\ walk.site \notin Live /\ ghosts' = ghosts \cup {walk.site})
  PROVE  VisitInv'
<1>1. swapped' = FALSE /\ Live' = Live /\ ghosts' \cap Live' = {}
  BY DEF Visit, Live, VisitInv
<1>2. Walked \in Seq(Obj) /\ walk \in Places /\ \A j, k \in DOMAIN Walked : j # k => Walked[j] # Walked[k]
  BY WalkedKnown, WalkedOnce DEF WordsInv
<1>3. \A j \in DOMAIN Walked : j >= i => Walked[j] \notin ghosts'
  <2>1. CASE walk = Idle
    <3>1. Walked = sites /\ \A j \in DOMAIN sites : sites[j] \in Live
      BY <2>1, SitesTyped DEF Walked, Idle, WordsInv
    <3> QED BY <3>1, <2>1 DEF VisitInv
  <2>2. CASE walk # Idle
    <3>1. walk.at \in Nat
      BY <1>2 DEF Places
    <3> QED BY <2>2, <3>1, <1>2 DEF VisitInv, Ahead
  <2> QED BY <2>1, <2>2
<1>4. CASE i \in DOMAIN Walked
  <2>1. walk' = [walk EXCEPT !.at = i, !.site = Walked[i], !.slot = 1]
    BY <1>4 DEF Visit
  <2>2. walk'.at = i /\ walk'.site = Walked[i] /\ walk'.slot = 1 /\ walk'.rest = walk.rest /\ walk'.cut = walk.cut
    BY <2>1, <1>2 DEF Places
  <2>3. Walked' = Walked
    BY <2>2 DEF Walked
  <2>4. Ahead'
    <3>1. \A j \in DOMAIN Walked : j > i => j # i /\ j >= i
      BY <1>2
    <3>2. i >= i
      OBVIOUS
    <3> QED BY <2>2, <2>3, <3>1, <3>2, <1>2, <1>3, <1>4 DEF Ahead
  <2>5. SeenKept'
    BY <2>2, SitesAssumption DEF SeenKept
  <2> QED BY <1>1, <2>2, <2>4, <2>5 DEF VisitInv
<1>5. CASE i \notin DOMAIN Walked
  <2>1. walk' = Idle /\ Idle.rest = <<>>
    BY <1>5 DEF Visit, Idle
  <2> QED BY <1>1, <2>1 DEF VisitInv, SeenKept, Ahead
<1> QED BY <1>4, <1>5

LEMMA PingVisits ==
  ASSUME WordsInv, VisitInv, NEW ok \in BOOLEAN, PingAnswered(ok)
  PROVE  VisitInv'
<1> DEFINE s == Slots[walk.slot]
<1>1. /\ walk # Idle /\ walk.slot < Len(Slots)
      /\ wan' = [wan EXCEPT ![walk.site[1]][s] = Result(ok)]
      /\ seen' = [seen EXCEPT ![s] = Result(ok)]
      /\ walk' = [walk EXCEPT !.slot = @ + 1]
      /\ UNCHANGED <<sites, swapped, ghosts>>
  BY DEF PingAnswered, siteVars
<1>2. walk \in Places /\ walk.slot > 0 /\ walk.site[1] \in Id
  BY <1>1, SitesTyped DEF WordsInv, AtSite, TypeOK, Places
<1>3. /\ walk'.at = walk.at /\ walk'.site = walk.site /\ walk'.slot = walk.slot + 1
      /\ walk'.rest = walk.rest /\ walk'.cut = walk.cut
  BY <1>1, <1>2 DEF Places
<1>4. Walked' = Walked /\ Live' = Live
  BY <1>1, <1>3 DEF Walked, Live
<1>5. Ahead'
  BY <1>1, <1>3, <1>4 DEF Ahead, VisitInv
<1>6. SeenKept'
  <2> SUFFICES ASSUME ~swapped, NEW j \in 1..Len(Slots), j < walk.slot + 1
               PROVE  wan'[walk.site[1]][Slots[j]] = seen'[Slots[j]] /\ seen'[Slots[j]] \in {"up", "down"}
    BY <1>1, <1>3 DEF SeenKept
  <2>1. \A r \in Slot : /\ wan'[walk.site[1]][r] = IF r = s THEN Result(ok) ELSE wan[walk.site[1]][r]
                        /\ seen'[r] = IF r = s THEN Result(ok) ELSE seen[r]
    BY <1>1, <1>2 DEF WordsInv, TypeOK
  <2>2. Slots[j] \in Slot /\ Result(ok) \in {"up", "down"}
    BY SitesAssumption DEF Result
  <2>3. j < walk.slot \/ j = walk.slot
    BY <1>2 DEF Places
  <2>4. j < walk.slot => wan[walk.site[1]][Slots[j]] = seen[Slots[j]] /\ seen[Slots[j]] \in {"up", "down"}
    BY <1>1 DEF VisitInv, SeenKept
  <2> HIDE DEF s
  <2>5. CASE Slots[j] = s
    BY <2>1, <2>2, <2>5
  <2>6. CASE Slots[j] # s
    <3>1. j < walk.slot
      BY <2>3, <2>6 DEF s
    <3> QED BY <3>1, <2>1, <2>2, <2>4, <2>6
  <2> QED BY <2>5, <2>6
<1> QED BY <1>1, <1>3, <1>4, <1>5, <1>6 DEF VisitInv

LEMMA DecidedVisits ==
  ASSUME WordsInv, VisitInv, NEW ok \in BOOLEAN, SiteDecided(ok)
  PROVE  VisitInv'
<1>1. /\ walk # Idle /\ Visit(walk.at + 1) /\ UNCHANGED sites
      /\ ghosts' = IF walk.site \in Live THEN ghosts ELSE ghosts \cup {walk.site}
  BY DEF SiteDecided, siteVars
<1>2. walk.at + 1 \in Nat \ {0}
  BY DEF WordsInv, TypeOK
<1> QED BY <1>1, <1>2, VisitGoesOn

LEMMA CreateVisits ==
  ASSUME WordsInv, VisitInv, NEW i \in Id, NEW t \in Target, CreateSite(i, t)
  PROVE  VisitInv'
<1> DEFINE n == <<i, 0>>
<1>1. n \notin known /\ sites' = Append(sites, n) /\ UNCHANGED <<walk, wan, seen, swapped, ghosts>>
  BY DEF CreateSite, tableVars, visitVars
<1>2. ghosts \subseteq known /\ n \in Obj /\ sites \in Seq(Obj)
  BY SitesAssumption DEF WordsInv, TypeOK, Obj
<1> HIDE DEF n
<1>3. DOMAIN sites = 1..Len(sites) /\ Len(sites) \in Nat /\ DOMAIN sites' = 1..(Len(sites) + 1)
      /\ sites'[Len(sites) + 1] = n /\ \A k \in DOMAIN sites : sites'[k] = sites[k]
  BY <1>1, <1>2
<1>4. \A j \in DOMAIN sites' : sites'[j] = n \/ (j \in DOMAIN sites /\ sites'[j] = sites[j])
  BY <1>3
<1>5. ghosts' \cap Live' = {}
  BY <1>1, <1>2, <1>4 DEF Live, Range, VisitInv
<1>6. Ahead'
  <2> SUFFICES ASSUME walk # Idle, NEW j \in DOMAIN Walked', j > walk.at
               PROVE  Walked'[j] \notin ghosts /\ Walked'[j] # walk.site
    BY <1>1 DEF Ahead, VisitInv
  <2>1. CASE walk.cut
    BY <1>1, <2>1 DEF Walked, Ahead, VisitInv
  <2>2. CASE ~walk.cut
    <3>1. Walked' = sites' /\ Walked = sites /\ walk.site \in known
      BY <1>1, <2>2 DEF Walked, WordsInv, AtSite
    <3>2. CASE Walked'[j] = n
      BY <3>1, <3>2, <1>1, <1>2
    <3>3. CASE Walked'[j] # n
      BY <3>1, <3>3, <1>4 DEF Ahead, VisitInv
    <3> QED BY <3>2, <3>3
  <2> QED BY <2>1, <2>2
<1>7. SeenKept'
  BY <1>1 DEF SeenKept, VisitInv
<1> QED BY <1>1, <1>5, <1>6, <1>7 DEF VisitInv

LEMMA DeleteVisits ==
  ASSUME WordsInv, VisitInv, NEW k \in DOMAIN sites, DeleteSite(k)
  PROVE  VisitInv'
<1>1. sites' = RemoveAt(sites, k) /\ UNCHANGED <<walk, wan, seen, swapped, ghosts>>
  BY DEF DeleteSite, tableVars, visitVars
<1>2. sites \in Seq(Obj) /\ DOMAIN sites = 1..Len(sites) /\ Len(sites) \in Nat /\ k \in 1..Len(sites)
  BY SitesTyped DEF WordsInv
<1>3. /\ sites' \in Seq(Obj) /\ Len(sites') = Len(sites) - 1
      /\ \A j \in 1..(Len(sites) - 1) : sites'[j] = IF j < k THEN sites[j] ELSE sites[j + 1]
  BY <1>1, <1>2, Removed, Zenon
<1>4. \A j \in DOMAIN sites' : \E m \in DOMAIN sites : m >= j /\ sites'[j] = sites[m]
  <2> SUFFICES ASSUME NEW j \in DOMAIN sites' PROVE \E m \in DOMAIN sites : m >= j /\ sites'[j] = sites[m]
    OBVIOUS
  <2>1. j \in 1..(Len(sites) - 1)
    BY <1>3
  <2>2. CASE j < k
    BY <2>1, <2>2, <1>2, <1>3
  <2>3. CASE ~(j < k)
    <3>1. j + 1 \in DOMAIN sites /\ j + 1 >= j /\ sites'[j] = sites[j + 1]
      BY <2>1, <2>3, <1>2, <1>3
    <3> QED BY <3>1
  <2> QED BY <2>2, <2>3
<1>5. ghosts' \cap Live' = {}
  BY <1>1, <1>4 DEF Live, Range, VisitInv
<1>6. Ahead'
  <2> SUFFICES ASSUME walk # Idle, NEW j \in DOMAIN Walked', j > walk.at
               PROVE  Walked'[j] \notin ghosts /\ Walked'[j] # walk.site
    BY <1>1 DEF Ahead, VisitInv
  <2>1. CASE walk.cut
    BY <1>1, <2>1 DEF Walked, Ahead, VisitInv
  <2>2. CASE ~walk.cut
    <3>1. Walked' = sites' /\ Walked = sites /\ walk.at \in Nat
      BY <1>1, <2>2 DEF Walked, WordsInv, TypeOK
    <3>2. PICK m \in DOMAIN sites : m >= j /\ sites'[j] = sites[m]
      BY <3>1, <1>4
    <3>3. j \in Nat /\ m > walk.at
      BY <3>1, <3>2, <1>2, <1>3
    <3> QED BY <3>1, <3>2, <3>3 DEF Ahead, VisitInv
  <2> QED BY <2>1, <2>2
<1>7. SeenKept'
  BY <1>1 DEF SeenKept, VisitInv
<1> QED BY <1>1, <1>5, <1>6, <1>7 DEF VisitInv

(* The sites become others, that were not removed before; the tables stay  *)
(* or are replaced.                                                        *)
LEMMA ReplaceVisits ==
  ASSUME WordsInv, VisitInv, NEW s, ReplaceBy(s), Range(s) \cap ghosts = {},
         UNCHANGED <<seen, ghosts>>, swapped' = TRUE \/ UNCHANGED <<wan, swapped>>
  PROVE  VisitInv'
<1>1. sites' = s /\ ghosts' \cap Live' = {}
  BY DEF ReplaceBy, Live
<1>2. walk \in Places
  BY WalkedKnown DEF WordsInv
<1>3. CASE walk = Idle
  <2>1. walk' = Idle /\ Idle.rest = <<>>
    BY <1>3 DEF ReplaceBy, Idle
  <2> QED BY <1>1, <2>1 DEF VisitInv, SeenKept, Ahead
<1>4. CASE walk # Idle
  <2>1. walk' = [walk EXCEPT !.cut = TRUE, !.rest = Walked]
    BY <1>4 DEF ReplaceBy
  <2>2. walk'.at = walk.at /\ walk'.site = walk.site /\ walk'.slot = walk.slot /\ walk'.cut = TRUE /\ walk'.rest = Walked
    BY <2>1, <1>2 DEF Places
  <2>3. Walked' = Walked
    BY <2>2 DEF Walked
  <2>4. Ahead'
    BY <2>2, <2>3, <1>4 DEF Ahead, VisitInv
  <2>5. SeenKept'
    BY <2>2, <1>4 DEF SeenKept, VisitInv
  <2> QED BY <1>1, <2>2, <2>4, <2>5, WalkedOnce DEF VisitInv
<1> QED BY <1>3, <1>4

LEMMA RequestVisits == ASSUME WordsInv, VisitInv, Request PROVE VisitInv'
<1>1. ASSUME NEW S \in SUBSET Live, DeleteSection(S) PROVE VisitInv'
  <2>1. UNCHANGED <<wan, seen, swapped, ghosts>>
    BY <1>1 DEF DeleteSection, tableVars, visitVars
  <2>2. PICK rest \in SeqOf(Live \ S, Len(sites)) : Left(rest, Live \ S) /\ ReplaceBy(rest)
    BY <1>1 DEF DeleteSection
  <2>3. Range(rest) \cap ghosts = {}
    BY <2>2 DEF Left, VisitInv
  <2> QED BY <2>1, <2>2, <2>3, ReplaceVisits
<1>2. ASSUME NEW ids \in IdLists, NEW st \in {"up", "down"}, NEW t \in Slot, NEW on \in SUBSET Proto,
             ImportBackup(ids, st, t, on)
      PROVE  VisitInv'
  <2>1. swapped' = TRUE /\ UNCHANGED <<seen, ghosts>>
    BY <1>2 DEF ImportBackup, EmptyTables
  <2>2. PICK g \in (0..MaxGen) \ Generations : ReplaceBy([k \in DOMAIN ids |-> <<ids[k], g>>])
    BY <1>2 DEF ImportBackup
  <2> DEFINE new == [k \in DOMAIN ids |-> <<ids[k], g>>]
  <2>3. \A o \in Range(new) : o[2] = g
    BY DEF Range
  <2>4. \A o \in ghosts : o[2] \in Generations
    BY DEF WordsInv, TypeOK, Generations
  <2>5. Range(new) \cap ghosts = {}
    <3> HIDE DEF new
    <3> QED BY <2>3, <2>4, <2>2
  <2>6. ReplaceBy(new)
    BY <2>2
  <2> HIDE DEF new
  <2> QED BY <2>1, <2>5, <2>6, ReplaceVisits
<1>3. CASE FactoryReset
  <2>1. swapped' = TRUE /\ UNCHANGED <<seen, ghosts>> /\ ReplaceBy(<<>>)
    BY <1>3 DEF FactoryReset, EmptyTables
  <2>2. Range(<<>>) = {}
    BY DEF Range
  <2> DEFINE none == <<>>
  <2>3. ReplaceBy(none) /\ Range(none) \cap ghosts = {}
    BY <2>1, <2>2
  <2> HIDE DEF none
  <2> QED BY <2>1, <2>3, ReplaceVisits
<1>4. ASSUME NEW o, NEW p, NEW on, NEW t,
             ConfigureMonitor(o, p, on) \/ SetTarget(o, t) \/ TestNetflow(o) \/ ToggleSilence
      PROVE  VisitInv'
  BY <1>4, VisitStays DEF ConfigureMonitor, SetTarget, TestNetflow, ToggleSilence, siteVars, tableVars, visitVars
<1> QED BY <1>1, <1>2, <1>3, <1>4, CreateVisits, DeleteVisits DEF Request

LEMMA VisitInitial == Init => VisitInv
<1> SUFFICES ASSUME Init PROVE VisitInv
  OBVIOUS
<1>1. walk = Idle /\ ghosts = {} /\ Idle.rest = <<>>
  BY DEF Init, Idle
<1> QED BY <1>1 DEF VisitInv, SeenKept, Ahead

LEMMA VisitStep == WordsInv /\ VisitInv /\ [Next]_vars => VisitInv'
<1> SUFFICES ASSUME WordsInv, VisitInv, [Next]_vars PROVE VisitInv'
  OBVIOUS
<1>1. ASSUME NEW o, NEW p, Packet(o, p) \/ FlowEnds(o, p) \/ SnmpAnswered(o) \/ ApplyFlowStatus \/ Housekeeping
                            \/ SilenceEnds \/ AskSilence \/ UNCHANGED vars
      PROVE  VisitInv'
  BY <1>1, VisitStays DEF Packet, FlowEnds, SnmpAnswered, ApplyFlowStatus, Housekeeping, SilenceEnds, AskSilence, vars,
                          siteVars, tableVars, visitVars
<1>2. CASE StartRound
  BY <1>2, VisitGoesOn DEF StartRound, siteVars
<1> QED BY <1>1, <1>2, PingVisits, DecidedVisits, RequestVisits DEF Next, Poll

-------------------------------------------------------------------------------
(* Only the decision about a site takes the poller on.                     *)
LEMMA DecidedBy ==
  ASSUME WordsInv, [Next]_vars, NEW o \in Obj, Decided(o)
  PROVE  \E ok \in BOOLEAN : SiteDecided(ok)
<1>1. walk # Idle /\ walk \in Places
  BY WalkedKnown, SitesAssumption DEF Decided, Idle, WordsInv
<1>2. ASSUME walk' = walk \/ walk' = [walk EXCEPT !.slot = @ + 1] \/ (\E s : ReplaceBy(s)) PROVE FALSE
  <2>1. walk'.at = walk.at
    BY <1>1, <1>2 DEF ReplaceBy, Places
  <2> QED BY <2>1 DEF Decided
<1>3. ~Request
  <2>1. ASSUME NEW i, NEW p, NEW on, NEW t, NEW k,
               \/ CreateSite(i, t) \/ DeleteSite(k) \/ ConfigureMonitor(i, p, on) \/ SetTarget(i, t) \/ TestNetflow(i)
               \/ ToggleSilence
        PROVE  FALSE
    BY <1>2, <2>1 DEF CreateSite, DeleteSite, ConfigureMonitor, SetTarget, TestNetflow, ToggleSilence
  <2>2. ASSUME NEW S, NEW ids, NEW st, NEW t, NEW on, DeleteSection(S) \/ ImportBackup(ids, st, t, on) \/ FactoryReset
        PROVE  FALSE
    BY <1>2, <2>2 DEF DeleteSection, ImportBackup, FactoryReset
  <2> QED BY <2>1, <2>2 DEF Request
<1>4. ASSUME NEW i, NEW p, Packet(i, p) \/ FlowEnds(i, p) \/ SnmpAnswered(i) \/ ApplyFlowStatus \/ Housekeeping
                            \/ SilenceEnds \/ AskSilence \/ UNCHANGED vars
      PROVE  FALSE
  BY <1>2, <1>4 DEF Packet, FlowEnds, SnmpAnswered, ApplyFlowStatus, Housekeeping, SilenceEnds, AskSilence, vars
<1>5. ~StartRound
  BY <1>1 DEF StartRound
<1>6. ASSUME NEW ok \in BOOLEAN, PingAnswered(ok) PROVE FALSE
  BY <1>2, <1>6 DEF PingAnswered
<1> QED BY <1>3, <1>4, <1>5, <1>6 DEF Next, Poll

LEMMA DownFails == WordsInv /\ VisitInv /\ [Next]_vars => (~swapped => DownMeansFailed)
<1> SUFFICES ASSUME WordsInv, VisitInv, [Next]_vars, ~swapped, NEW o \in Obj, Decided(o), target[o] \in Slot, hb'[o[1]] = "down"
             PROVE  (IF target[o] = Slots[Len(Slots)] THEN wan'[o[1]] ELSE seen)[target[o]] = "down"
  BY DEF DownMeansFailed
<1> DEFINE i == o[1]
<1>1. PICK ok \in BOOLEAN : SiteDecided(ok)
  BY DecidedBy
<1>2. walk.site = o /\ i \in Id /\ walk # Idle
  BY <1>1, SitesTyped DEF Decided, SiteDecided, WordsInv
<1> DEFINE table == [wan[i] EXCEPT ![Slots[walk.slot]] = Result(ok)]
<1>3. /\ walk.slot = Len(Slots) /\ wan' = [wan EXCEPT ![i] = table]
      /\ hb' = [hb EXCEPT ![i] = Result(Reached(o, table))]
  BY <1>1, <1>2 DEF SiteDecided
<1>4. wan[i] \in [Slot -> Tri] /\ wan'[i] = table /\ hb'[i] = Result(Reached(o, table))
  BY <1>2, <1>3 DEF WordsInv, TypeOK
<1>5. table[target[o]] # "up"
  BY <1>4 DEF Reached, Result
<1>6. CASE target[o] = Slots[Len(Slots)]
  <2>1. table[target[o]] = Result(ok) /\ Result(ok) \in {"up", "down"}
    BY <1>3, <1>4, <1>6 DEF Result
  <2> QED BY <2>1, <1>4, <1>5, <1>6
<1>7. CASE target[o] # Slots[Len(Slots)]
  <2>1. PICK j \in 1..Len(Slots) : Slots[j] = target[o]
    BY SitesAssumption DEF Slot, Range
  <2>2. j < walk.slot
    BY <2>1, <1>3, <1>7, SitesAssumption
  <2>3. wan[i][Slots[j]] = seen[Slots[j]] /\ seen[Slots[j]] \in {"up", "down"}
    BY <2>2, <1>2 DEF VisitInv, SeenKept
  <2>4. table[target[o]] = wan[i][target[o]]
    BY <1>3, <1>4, <1>7
  <2> HIDE DEF table
  <2> QED BY <2>1, <2>3, <2>4, <1>5, <1>7
<1> QED BY <1>6, <1>7

LEMMA GhostOnce ==
  WordsInv /\ VisitInv /\ [Next]_vars => \A o \in Obj : Decided(o) /\ o \notin Live => o \notin ghosts
<1> SUFFICES ASSUME WordsInv, VisitInv, [Next]_vars, NEW o \in Obj, Decided(o) PROVE o \notin ghosts
  OBVIOUS
<1>1. walk # Idle /\ walk.site = o
  BY DecidedBy DEF SiteDecided, Decided
<1> QED BY <1>1 DEF VisitInv, Ahead

(* The ping poller, whatever deletions and imports do to the array it walks*)
(* and to the objects it holds: a heartbeat it turns down is one it saw    *)
(* fail, and an object that is gone is decided by one round at most.       *)
THEOREM VisitsKept == Spec => VisitsSound
<1>1. Init => WordsInv /\ VisitInv
  BY WordsInitial, VisitInitial
<1>2. WordsInv /\ VisitInv /\ [Next]_vars => (WordsInv /\ VisitInv)'
  BY WordsStep, VisitStep
<1>3. Spec => DownMeansFailedIfKept
  BY <1>1, <1>2, DownFails, PTL DEF Spec, DownMeansFailedIfKept
<1>4. Spec => RemovedDecidedOnce
  BY <1>1, <1>2, GhostOnce, PTL DEF Spec, RemovedDecidedOnce
<1> QED BY <1>3, <1>4 DEF VisitsSound
================================================================================
