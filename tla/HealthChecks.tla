------------------------------ MODULE HealthChecks ------------------------------
(***************************************************************************)
(* What the server tells about itself (lib/health.js): the firewall check, *)
(* the diagnosis of a site's monitor and the public health report.  Each   *)
(* is a request that waits for commands, pings or queries, while the host, *)
(* the sites and the database change; what it finds before a wait it uses  *)
(* after it.                                                               *)
(*                                                                         *)
(* Ports and addresses are sequences of digits, since the firewall check   *)
(* looks for them as parts of lines that ss and ufw print.                 *)
(***************************************************************************)
EXTENDS Integers, Sequences, SequencesExt

CONSTANTS
  Ports,     \* ports that are listened on, allowed or required
  AppPort,   \* the port of the server's own listener
  Sources,   \* addresses that are required or allowed
  Forms,     \* the ways in which a rule is written
  Nobody,    \* no address
  Site,
  MaxRules,  \* bound of ufw's rules
  MaxEdits   \* bound of the changes under way

VARIABLES
  host,    \* ufw with its rules, and what ss lists
  output,  \* what the commands of the firewall check printed, as they end
  seen,    \* history: how the host was since that check began
  config,  \* per site, the monitor's configuration
  diag,    \* per site, its diagnosis
  unique,  \* per site, what the last diagnosis of a stored change told
  world,   \* the database and the storage answer, nothing else is amiss
  report,  \* the health report
  edits

firewallVars == <<host, output, seen>>
siteVars == <<config, diag, unique>>
reportVars == <<world, report>>
healthVars == <<firewallVars, siteVars, reportVars, edits>>

Rule == {r \in [form : Forms, port : Ports, from : Sources \cup {Nobody}] :
           r.form = "anywhere" <=> r.from = Nobody}
Command == {"verbose", "numbered", "ss"}
NoOutput == [c \in {} |-> 0]
Off == [on |-> FALSE, from |-> Nobody, whole |-> FALSE]
NoDiag == [at |-> "none", cfg |-> Off, kind |-> "none", failed |-> FALSE, probed |-> FALSE]
NoReport == [at |-> "none", failed |-> FALSE, warned |-> FALSE, alive |-> FALSE]

Init ==
  /\ host \in [ufw : {"none", "denied", "inactive", "active"},
               rules : {<<>>} \cup {<<r>> : r \in Rule},
               ss : BOOLEAN, listens : {{}} \cup {{p} : p \in Ports}]
  /\ output = NoOutput /\ seen = {}
  /\ config = [s \in Site |-> Off] /\ diag = [s \in Site |-> NoDiag]
  /\ unique = [s \in Site |-> "unknown"]
  /\ world = [db |-> TRUE, storage |-> TRUE, rest |-> TRUE] /\ report = NoReport
  /\ edits = 0

Edited == edits < MaxEdits /\ edits' = edits + 1

-------------------------------------------------------------------------------
(* "Faulty" marks a change somebody could make to the code; the checks put *)
(* it in the place of the definition that follows it and expect a property *)
(* below to fail.                                                          *)

(* The firewall check. *)

(* ssHasListener: the line has a colon and then the port's digits.         *)
HasListener(listens, p) == \E q \in listens : IsPrefix(p, q)

(* ufw prints a rule's port with its protocol, unless the rule has none.   *)
Within(a, b) == \E i \in 0..(Len(b) - Len(a)) : SubSeq(b, i + 1, i + Len(a)) = a

SaysAllow(r) == r.form \in {"allow", "out", "bare", "net", "anywhere"}

(* ufwAllowsSource: a row that has "allow", the port's digits before the   *)
(* protocol and the address somewhere, or "any".                           *)
AllowsSource(rules, p, from) ==
  \E i \in DOMAIN rules :
    /\ SaysAllow(rules[i])
    /\ rules[i].form # "bare" /\ IsSuffix(p, rules[i].port)
    /\ \/ from = Nobody \/ rules[i].form = "anywhere"
       \/ rules[i].form # "net" /\ Within(from, rules[i].from)

(* inferAppListenerOpen, where there is no ss.                             *)
Inferred(p) == p = AppPort

(* Faulty: what cannot be read does not count. *)
FaultyUfwOutcome(status, ufw, allowed) ==
  IF ufw = "active" /\ ~allowed THEN "fail" ELSE status

(* evaluateFirewallUfwRuleStatus; "denied" is also a status nobody reads.  *)
UfwOutcome(status, ufw, allowed) ==
  CASE ufw = "none" -> status
    [] ufw = "denied" -> IF status = "fail" THEN status ELSE "unknown"
    [] ufw = "inactive" -> status
    [] ufw = "active" -> IF allowed THEN status ELSE "fail"

(* A row of buildFirewallCheck, for a monitor that needs the port.         *)
Verdict(p, from) ==
  LET ss == output["ss"]
      listening == IF ss.there THEN HasListener(ss.listens, p) ELSE Inferred(p)
      status == IF listening THEN "pass" ELSE IF ss.there THEN "fail" ELSE "warn"
  IN UfwOutcome(status, output["verbose"], AllowsSource(output["numbered"], p, from))

AskFirewall ==
  /\ seen = {}
  /\ seen' = {host}
  /\ UNCHANGED <<host, output, siteVars, reportVars, edits>>

(* "status numbered" lists no rules while ufw is inactive.                 *)
Printed(h, c) ==
  CASE c = "verbose" -> h.ufw
    [] c = "numbered" -> IF h.ufw = "active" THEN h.rules ELSE <<>>
    [] c = "ss" -> [there |-> h.ss, listens |-> h.listens]

(* The commands run side by side; each prints what it finds at its time.   *)
CommandEnds(c) ==
  /\ seen # {} /\ c \notin DOMAIN output
  /\ output' = [d \in DOMAIN output \cup {c} |->
       IF d = c THEN Printed(host, c) ELSE output[d]]
  /\ UNCHANGED <<host, seen, siteVars, reportVars, edits>>

FirewallTold == DOMAIN output = Command

AnswerFirewall ==
  /\ FirewallTold
  /\ output' = NoOutput /\ seen' = {}
  /\ UNCHANGED <<host, siteVars, reportVars, edits>>

(* ufw is switched on or off, a rule is deleted or put before or after the *)
(* others, a listener opens or ends.                                       *)
HostChanges ==
  /\ Edited
  /\ \/ /\ host.ufw \in {"inactive", "active"}
        /\ \E u \in {"inactive", "active"} \ {host.ufw} : host' = [host EXCEPT !.ufw = u]
     \/ \E i \in DOMAIN host.rules : host' = [host EXCEPT !.rules = RemoveAt(@, i)]
     \/ /\ Len(host.rules) < MaxRules
        /\ \E r \in Rule : \/ host' = [host EXCEPT !.rules = <<r>> \o @]
                           \/ host' = [host EXCEPT !.rules = Append(@, r)]
     \/ \E p \in Ports : host' = [host EXCEPT !.listens =
          IF p \in @ THEN @ \ {p} ELSE @ \cup {p}]
  /\ seen' = IF seen = {} THEN {} ELSE seen \cup {host'}
  /\ UNCHANGED <<output, siteVars, reportVars>>

-------------------------------------------------------------------------------
(* The diagnosis of a monitor. *)

(* Faulty: the list is searched as far as the site itself. *)
FaultyConflict(s, c, cfgs) == \E t \in Site : t < s /\ cfgs[t].on /\ cfgs[t].from = c.from

(* Another site whose monitor is on has the same source.                   *)
Conflict(s, c, cfgs) == \E t \in Site \ {s} : cfgs[t].on /\ cfgs[t].from = c.from

(* The first part of runMonitorDiagnostics, up to the ping.                *)
Begun(c, kind) ==
  [at |-> IF c.from = Nobody THEN "flow" ELSE "ping", cfg |-> c, kind |-> kind,
   failed |-> c.from = Nobody \/ ~c.whole, probed |-> FALSE]

Told(s, c, cfgs) ==
  IF c.from # Nobody THEN IF Conflict(s, c, cfgs) THEN "shared" ELSE "unique"
  ELSE "unknown"

(* PATCH /api/sites/:id/monitors/:protocol: the change is there for all to *)
(* see before its diagnosis begins.                                        *)
Patch(s, c) ==
  /\ diag[s].at = "none" /\ Edited
  /\ config' = [config EXCEPT ![s] = c]
  /\ diag' = IF c.on THEN [diag EXCEPT ![s] = Begun(c, "stored")] ELSE diag
  /\ unique' = [unique EXCEPT ![s] = IF c.on THEN Told(s, c, config) ELSE "unknown"]
  /\ UNCHANGED <<firewallVars, reportVars>>

(* POST .../diagnostics: of what the form has, with a live SNMP probe.     *)
Test(s, c) ==
  /\ diag[s].at = "none" /\ Edited
  /\ diag' = [diag EXCEPT ![s] = Begun(c, "tested")]
  /\ UNCHANGED <<firewallVars, config, unique, reportVars>>

(* runPingProbe: without the command it is a warning.                      *)
Ping(s) ==
  /\ diag[s].at = "ping"
  /\ \E fails \in BOOLEAN :
       diag' = [diag EXCEPT ![s] = [@ EXCEPT !.at = "flow", !.failed = diag[s].failed \/ fails]]
  /\ UNCHANGED <<firewallVars, config, unique, reportVars, edits>>

(* What the site has received warns at worst.  Then the probe, if nothing  *)
(* failed before it.                                                       *)
Flow(s) ==
  /\ diag[s].at = "flow"
  /\ diag' = [diag EXCEPT ![s] = [@ EXCEPT !.at =
       IF diag[s].kind = "tested" /\ ~diag[s].failed /\ diag[s].cfg.on
       THEN "probe" ELSE "done"]]
  /\ UNCHANGED <<firewallVars, config, unique, reportVars, edits>>

(* Faulty: the summary is made before the probe. *)
FaultyProbed(d, fails) == [d EXCEPT !.at = "done", !.probed = ~fails]

Probed(d, fails) == [d EXCEPT !.at = "done", !.failed = fails, !.probed = ~fails]

Probe(s) ==
  /\ diag[s].at = "probe"
  /\ \E fails \in BOOLEAN : diag' = [diag EXCEPT ![s] = Probed(@, fails)]
  /\ UNCHANGED <<firewallVars, config, unique, reportVars, edits>>

(* It is logged and answered; PATCH stores the sites first.                *)
DiagnosisAnswered(s) ==
  /\ diag[s].at = "done"
  /\ diag' = [diag EXCEPT ![s] = NoDiag]
  /\ UNCHANGED <<firewallVars, config, unique, reportVars, edits>>

-------------------------------------------------------------------------------
(* GET /api/health *)

WorldChanges(w) ==
  /\ Edited
  /\ world' = [world EXCEPT ![w] = ~@]
  /\ report' = [report EXCEPT !.alive = @ \/ (report.at = "db" /\ world'.db)]
  /\ UNCHANGED <<firewallVars, siteVars>>

AskReport ==
  /\ report.at = "none"
  /\ report' = [NoReport EXCEPT !.at = "db", !.alive = world.db]
  /\ UNCHANGED <<firewallVars, siteVars, world, edits>>

(* Faulty: a query that fails is a warning, as a full disk is. *)
FaultyDatabaseCheck == [report EXCEPT !.at = "storage", !.warned = ~world.db]

(* runDatabaseHealthCheck *)
DatabaseCheck == [report EXCEPT !.at = "storage", !.failed = ~world.db]

DatabaseAnswers ==
  /\ report.at = "db"
  /\ report' = DatabaseCheck
  /\ UNCHANGED <<firewallVars, siteVars, world, edits>>

(* buildStorageSummary throws, or tells how much is used; what follows     *)
(* waits for nothing, and only an invalid port fails there.                *)
StorageAnswers ==
  /\ report.at = "storage"
  /\ report' = [report EXCEPT !.at = "done",
       !.failed = @ \/ ~world.storage, !.warned = @ \/ ~world.rest]
  /\ UNCHANGED <<firewallVars, siteVars, world, edits>>

ReportAnswered ==
  /\ report.at = "done"
  /\ report' = NoReport
  /\ UNCHANGED <<firewallVars, siteVars, world, edits>>

(* healthStatusFromChecks and healthHttpStatusForState.                    *)
HealthStatus == IF report.failed THEN "fail" ELSE IF report.warned THEN "degraded" ELSE "ok"

-------------------------------------------------------------------------------
Configs == [on : BOOLEAN, from : Sources \cup {Nobody}, whole : BOOLEAN]

FirewallNext ==
  AskFirewall \/ (\E c \in Command : CommandEnds(c)) \/ AnswerFirewall \/ HostChanges
DiagnosisNext ==
  \E s \in Site : \/ \E c \in Configs : Patch(s, c) \/ Test(s, c)
                 \/ Ping(s) \/ Flow(s) \/ Probe(s) \/ DiagnosisAnswered(s)
ReportNext ==
  \/ \E w \in DOMAIN world : WorldChanges(w)
  \/ AskReport \/ DatabaseAnswers \/ StorageAnswers \/ ReportAnswered

Next == FirewallNext \/ DiagnosisNext \/ ReportNext

Spec == Init /\ [][Next]_healthVars

-------------------------------------------------------------------------------
(* Properties *)

(* What ufw does with a packet: the first rule that fits decides.  A "net" *)
(* holds its address among others, "bare" is for both protocols.           *)
Fits(r, p, from) ==
  /\ r.form # "out" /\ r.port = p
  /\ from = Nobody \/ r.form = "anywhere" \/ r.from = from
Admitted(rules, p, from) ==
  \E i \in DOMAIN rules :
    /\ Fits(rules[i], p, from) /\ rules[i].form # "deny"
    /\ \A j \in 1..(i - 1) : ~(Fits(rules[j], p, from) /\ rules[j].form = "deny")

(* Where the check misreads lines: a listener whose port begins with the   *)
(* digits of this one; a rule for what leaves, behind one that denies, for *)
(* a port that ends with these digits or an address that has them.  What   *)
(* it overlooks are rules without protocol, for a network and as a limit.  *)
AnotherListens(h, p) == \E q \in h.listens : q # p /\ IsPrefix(p, q)
AnotherRule(h, p, from) ==
  \E i \in DOMAIN h.rules : LET r == h.rules[i] IN
    /\ r.form \in {"allow", "out", "net", "anywhere"} /\ IsSuffix(p, r.port)
    /\ \/ r.form = "out" \/ r.port # p
       \/ Nobody \notin {from, r.from} /\ r.from # from /\ Within(from, r.from)
       \/ \E j \in 1..(i - 1) : Fits(h.rules[j], p, from) /\ h.rules[j].form = "deny"
Overlooked(h, p, from) ==
  \E i \in DOMAIN h.rules :
    h.rules[i].form \in {"bare", "net", "limit"} /\ Fits(h.rules[i], p, from)

(* Apart from those, a monitor passes only if, since the check began, its  *)
(* port was listened on (or nobody could tell and it is the server's own)  *)
(* and ufw let its source in or was off; and it fails only if one of these *)
(* was not so, or ufw was switched on meanwhile.                           *)
Listening(h, p) == IF h.ss THEN p \in h.listens ELSE p = AppPort
Open(h, p, from) ==
  h.ufw \in {"none", "inactive"} \/ (h.ufw = "active" /\ Admitted(h.rules, p, from))
VerdictIsTrue ==
  FirewallTold => \A p \in Ports, from \in Sources \cup {Nobody} :
    /\ Verdict(p, from) = "pass" =>
         /\ \E h \in seen : Listening(h, p) \/ AnotherListens(h, p)
         /\ \E h \in seen : Open(h, p, from) \/ AnotherRule(h, p, from)
    /\ Verdict(p, from) = "fail" =>
         \/ \E h \in seen : ~Listening(h, p)
         \/ \E h \in seen : ~Open(h, p, from) \/ Overlooked(h, p, from)
         \/ {"active", "inactive"} \subseteq {h.ufw : h \in seen}

(* Two sites whose monitors take the same source, so that only one of them *)
(* receives it: one of the administrators was told.                        *)
SharedSourceTold ==
  \A s, t \in Site :
    s # t /\ config[s].on /\ config[t].on /\ config[s].from = config[t].from
      /\ config[s].from # Nobody => "shared" \in {unique[s], unique[t]}

(* A diagnosis is ok only for a complete configuration, and after a probe  *)
(* only if that succeeded.                                                 *)
OkIsComplete ==
  \A s \in Site : diag[s].at = "done" /\ ~diag[s].failed =>
    /\ diag[s].cfg.whole /\ diag[s].cfg.from # Nobody
    /\ diag[s].kind = "tested" /\ diag[s].cfg.on => diag[s].probed

(* A health report without 503: the database answered while it was made.   *)
ServingIsAlive == report.at = "done" /\ HealthStatus # "fail" => report.alive
===============================================================================
