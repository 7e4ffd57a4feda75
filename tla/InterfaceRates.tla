---------------------------- MODULE InterfaceRates ----------------------------
(***************************************************************************)
(* The SNMP poller (startSnmpPoller in lib/monitoring.js) and the traffic  *)
(* it makes out of the octet counters of an interface                      *)
(* (computeInterfaceDeltas): site after site it asks for the uptime and    *)
(* walks the interface table, over awaits between which sites are edited   *)
(* and deleted, devices count on and start again, and replies stay out.    *)
(* The poll walks the array state.sites by index: a deletion takes a site  *)
(* out of that very array.                                                 *)
(*                                                                         *)
(* A poll never overlaps another one.  A counter has Modulus values, 2^32  *)
(* in the code; the rate is the difference of two readings over the time   *)
(* between them, of which the difference is kept.                          *)
(***************************************************************************)
EXTENDS Naturals, Integers, Sequences, SequencesExt, FiniteSetsExt, FiniteSets

CONSTANTS
  Sites,      \* state.sites at the start, in its order
  Devices,    \* the hosts an SNMP configuration may name
  Modulus,    \* 4294967296
  MaxOctets,  \* bound: octets a device counts
  MaxBoots,   \* bound: starts of a device
  MaxEdits,   \* bound: changes of a site, deletions and restarts
  MaxPolls    \* bound: polls

VARIABLES
  octets,    \* external: octets of each device's interface since it was made
  booted,    \* external: of them, those before its last start
  boots,     \* external: how often it has started
  sites,     \* state.sites
  host,      \* monitorConfig.snmp.targetHost of a site
  enabled,   \* monitorConfig.snmp.enabled
  index,     \* the place in state.sites the poll is at
  site,      \* the site it is about
  at,        \* what the poll does: "wait", "next", "get" or "walk"
  asked,     \* the host of the call under way
  snapshot,  \* _ifTableSnapshots: the last reading of a site, or none
  rate,      \* metrics.snmp.interfaces: the octets of the rate
  lastError, \* metrics.snmp.lastError
  polls, edits, \* the bounds MaxPolls and MaxEdits count here
  truth,     \* history: the octets between the two readings of the rate, or -1
  visited, cuts \* history: the sites this poll has come by, the deletions meanwhile

deviceVars == <<octets, booted, boots>>
vars == <<deviceVars, sites, host, enabled, index, site, at, asked, snapshot, rate, lastError, polls, edits, truth, visited, cuts>>

Site == Range(Sites)
NoReading == [device |-> "none"]
(* external: what a device answers, and what it was read from *)
Reading(d) == [device |-> d, boot |-> boots[d], octets |-> octets[d], counter |-> (octets[d] - booted[d]) % Modulus]

Init ==
  /\ octets = [d \in Devices |-> 0] /\ booted = octets /\ boots = octets
  /\ sites = Sites
  /\ host \in [Site -> Devices] /\ enabled \in [Site -> BOOLEAN]
  /\ index = 1 /\ site = Sites[1] /\ at = "wait" /\ asked = host[Sites[1]]
  /\ snapshot = [s \in Site |-> NoReading]
  /\ rate = [s \in Site |-> 0]
  /\ lastError = [s \in Site |-> FALSE]
  /\ polls = 0 /\ edits = 0
  /\ truth = [s \in Site |-> -1]
  /\ visited = {} /\ cuts = 0

-------------------------------------------------------------------------------
(* external *)
Traffic(d, n) == /\ octets[d] + n <= MaxOctets /\ octets' = [octets EXCEPT ![d] = @ + n]
                 /\ UNCHANGED <<booted, boots, sites, host, enabled, index, site, at, asked, snapshot, rate, lastError, polls, edits, truth, visited, cuts>>
Boot(d) == /\ boots[d] < MaxBoots /\ boots' = [boots EXCEPT ![d] = @ + 1]
           /\ booted' = [booted EXCEPT ![d] = octets[d]]
           /\ UNCHANGED <<octets, sites, host, enabled, index, site, at, asked, snapshot, rate, lastError, polls, edits, truth, visited, cuts>>

(* PATCH .../monitors/snmp and DELETE /api/sites/:id *)
Edited == edits < MaxEdits /\ edits' = edits + 1
Edit(s, d, on) == /\ Edited /\ s \in Range(sites) /\ <<d, on>> # <<host[s], enabled[s]>>
                  /\ host' = [host EXCEPT ![s] = d] /\ enabled' = [enabled EXCEPT ![s] = on]
                  /\ UNCHANGED <<deviceVars, sites, index, site, at, asked, snapshot, rate, lastError, polls, truth, visited, cuts>>
Delete(s) == /\ Edited /\ s \in Range(sites)
             /\ sites' = Remove(sites, s) /\ cuts' = cuts + 1
             /\ UNCHANGED <<deviceVars, host, enabled, index, site, at, asked, snapshot, rate, lastError, polls, truth, visited>>
(* The process starts again over the metrics of the last flush. *)
Restart == /\ Edited /\ at' = "wait" /\ index' = 1
           /\ snapshot' = [s \in Site |-> NoReading]
           /\ UNCHANGED <<deviceVars, sites, host, enabled, site, asked, rate, lastError, polls, truth, visited, cuts>>

editVars == <<deviceVars, sites, host, enabled, edits>>

(* The timer has fired. *)
Starts == /\ at = "wait" /\ polls < MaxPolls /\ polls' = polls + 1
          /\ index' = 1 /\ at' = "next"
          /\ visited' = {} /\ cuts' = 0
          /\ UNCHANGED <<editVars, site, asked, snapshot, rate, lastError, truth>>
Ends == /\ at = "next" /\ index > Len(sites) /\ at' = "wait"
        /\ UNCHANGED <<editVars, index, site, asked, snapshot, rate, lastError, polls, truth, visited, cuts>>
Skip == /\ at = "next" /\ index <= Len(sites) /\ ~enabled[sites[index]]
        /\ index' = index + 1 /\ visited' = visited \cup {sites[index]}
        /\ UNCHANGED <<editVars, site, at, asked, snapshot, rate, lastError, polls, truth, cuts>>
(* The configuration is read once for both calls. *)
Get == /\ at = "next" /\ index <= Len(sites) /\ enabled[sites[index]]
       /\ site' = sites[index] /\ asked' = host[sites[index]] /\ at' = "get"
       /\ visited' = visited \cup {sites[index]}
       /\ UNCHANGED <<editVars, index, snapshot, rate, lastError, polls, truth, cuts>>
FaultyGetFails == /\ at = "get"
                  /\ lastError' = [lastError EXCEPT ![site] = TRUE]
                  /\ at' = "wait"
                  /\ UNCHANGED <<editVars, index, site, asked, snapshot, rate, polls, truth, visited, cuts>>
GetFails == /\ at = "get"
            /\ lastError' = [lastError EXCEPT ![site] = TRUE]
            /\ at' = "next" /\ index' = index + 1
            /\ UNCHANGED <<editVars, site, asked, snapshot, rate, polls, truth, visited, cuts>>
GetAnswers == /\ at = "get" /\ at' = "walk"
              /\ lastError' = [lastError EXCEPT ![site] = FALSE]
              /\ UNCHANGED <<editVars, index, site, asked, snapshot, rate, polls, truth, visited, cuts>>
(* The interfaces of the poll before stay. *)
WalkFails == /\ at = "walk"
             /\ at' = "next" /\ index' = index + 1
             /\ UNCHANGED <<editVars, site, asked, snapshot, rate, lastError, polls, truth, visited, cuts>>

(* computeInterfaceDeltas, of a counter and of the one before. *)
FaultyDelta(counter, before) == IF counter < before THEN counter ELSE counter - before
FaultyDeltaRaw(counter, before) == counter - before
Delta(counter, before) == IF counter < before THEN counter - before + Modulus ELSE counter - before

WalkAnswers ==
  LET before == snapshot[site]  new == Reading(asked) IN
  /\ at = "walk"
  /\ rate' = [rate EXCEPT ![site] = IF before = NoReading THEN 0 ELSE Delta(new.counter, before.counter)]
  /\ truth' = [truth EXCEPT ![site] =
                 IF before = NoReading \/ before.device # asked \/ before.boot # new.boot \/ new.octets - before.octets >= Modulus
                 THEN -1 ELSE new.octets - before.octets]
  /\ snapshot' = [snapshot EXCEPT ![site] = new]
  /\ at' = "next" /\ index' = index + 1
  /\ UNCHANGED <<editVars, site, asked, lastError, polls, visited, cuts>>

Next == \/ \E d \in Devices : Boot(d) \/ \E n \in 1..MaxOctets : Traffic(d, n)
        \/ \E s \in Site : Delete(s) \/ \E d \in Devices, on \in BOOLEAN : Edit(s, d, on)
        \/ Restart
        \/ Starts \/ Ends \/ Skip \/ Get \/ GetFails \/ GetAnswers \/ WalkFails \/ WalkAnswers

Spec == Init /\ [][Next]_vars

-------------------------------------------------------------------------------
TypeOK == /\ sites = SelectSeq(Sites, LAMBDA s : s \in Range(sites))
          /\ index \in 1..(Len(Sites) + 1)
          /\ \A s \in Site : rate[s] \in 0..(Modulus - 1)

(* Over any failures and edits between two polls, the octets a rate stands *)
(* for are those the device counted between the two readings: unless it    *)
(* started again, another device took its place, or it counted round.      *)
RateIsTraffic == \A s \in Site : truth[s] # -1 => rate[s] = truth[s]

(* A poll comes by every site that is there at its end, but for one site   *)
(* at most for every deletion while it ran; one failure stops no other.    *)
EndsWithAll ==
  [][at # "wait" /\ at' = "wait" /\ edits' = edits
     => Cardinality(Range(sites) \ visited) <= cuts]_vars
=============================================================================
