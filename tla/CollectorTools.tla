----------------------------- MODULE CollectorTools -----------------------------
(***************************************************************************)
(* What a command of the collector terminal does on the collector's host   *)
(* (execute_remote_command, cajal-linux-agent.py) and what the server      *)
(* makes of it (runCollectorTerminalCommand, routes/sites.js).  A command  *)
(* runs programs one after the other; each may be missing, fail or time    *)
(* out, and programs come and go between commands and within one.          *)
(*                                                                         *)
(* The way of a command to the agent and back is in AgentCommands and      *)
(* CollectorAgent; here one command is under way at a time.                *)
(***************************************************************************)
EXTENDS Integers, Sequences, SequencesExt

CONSTANTS
  Chain,     \* the programs of a lookup (dns, traceroute, ipconfig), in order
  Checked,   \* those that "doctor" looks for
  Backends,  \* the programs that measure throughput, in order
  Probes,    \* [by, at] of the public address: a program and "web" or "resolver"
  Own,       \* the collector's public address
  Resolver,  \* that of the resolver that is asked
  MaxChanges,
  MaxCommands

VARIABLES
  installed,  \* the programs that are there
  backend,    \* LAST_SPEEDTEST_BACKEND, or "none"
  run,        \* the command under way
  tried,      \* history: the programs it has tried, and how each went
  hits,       \* the addresses that probes have found
  passed,     \* history: the last doctor found everything, nothing changed since
  version,    \* the agent's: "legacy" (no update command), "old" or "new"
  root,       \* the agent was started by hand as root, not by systemd
  job,        \* the update in the background
  told,       \* what the server answered and logged last
  changes, commands

toolsVars == <<installed, backend, run, tried, hits, passed, version, root, job, told,
               changes, commands>>
hostVars == <<version, root, job>>

Program == Range(Chain) \cup Range(Backends) \cup {p.by : p \in Range(Probes)}
NoRun == [kind |-> "none", left |-> <<>>, at |-> "none", code |-> 0, data |-> FALSE]
NoAnswer == [kind |-> "none", ok |-> FALSE, code |-> 0, address |-> "none", manual |-> FALSE]
NoJob == [at |-> "none", hosted |-> FALSE]

Init ==
  /\ installed \in SUBSET Program /\ backend = "none"
  /\ run = NoRun /\ tried = <<>> /\ hits = <<>> /\ passed = FALSE
  /\ version \in {"legacy", "old"} /\ root \in BOOLEAN /\ job = NoJob
  /\ told = NoAnswer /\ changes = 0 /\ commands = 0

-------------------------------------------------------------------------------
(* "Faulty" marks a change somebody could make to the code; the checks put *)
(* it in the place of the definition that follows it and expect a property *)
(* below to fail.                                                          *)

(* Faulty: the one that worked last is the only one. *)
FaultyOrdered == IF backend = "none" THEN Backends ELSE <<backend>>

(* ordered_speedtest_candidates: the one that worked last, if it is there, *)
(* then those that are, then those that are not.                           *)
Ordered ==
  LET others == SelectSeq(Backends, LAMBDA b : b # backend)
      there == SelectSeq(others, LAMBDA b : b \in installed)
      missing == SelectSeq(others, LAMBDA b : b \notin installed)
      last == SelectSeq(Backends, LAMBDA b : b = backend)
  IN IF backend \in installed THEN last \o there \o missing ELSE there \o last \o missing

Programs(kind) ==
  CASE kind = "lookup" -> Chain
    [] kind = "speedtest" -> Ordered
    [] kind = "publicip" -> Probes
    [] OTHER -> <<>>

(* The server answers help, status and clear itself and refuses what is    *)
(* not on its list; the rest goes to the agent.  No update is sent while   *)
(* the job of another is under way.                                        *)
Kinds == {"lookup", "speedtest", "publicip", "doctor", "update"}
Send(kind) ==
  /\ run.at = "none" /\ commands < MaxCommands
  /\ kind = "update" => job = NoJob
  /\ commands' = commands + 1
  /\ run' = [NoRun EXCEPT !.kind = kind, !.at = "try", !.left = Programs(kind)]
  /\ tried' = <<>> /\ hits' = <<>>
  /\ UNCHANGED <<installed, backend, passed, hostVars, told, changes>>

Refuse ==
  /\ run.at = "none" /\ commands < MaxCommands
  /\ commands' = commands + 1
  /\ \E ok \in BOOLEAN :
       told' = [NoAnswer EXCEPT !.kind = "server", !.ok = ok, !.code = IF ok THEN 0 ELSE 1]
  /\ UNCHANGED <<installed, backend, run, tried, hits, passed, hostVars, changes>>

(* A program is installed or removed.                                      *)
Change(p) ==
  /\ changes < MaxChanges /\ changes' = changes + 1
  /\ installed' = IF p \in installed THEN installed \ {p} ELSE installed \cup {p}
  /\ passed' = FALSE
  /\ UNCHANGED <<backend, run, tried, hits, hostVars, told, commands>>

-------------------------------------------------------------------------------
(* run_exec_candidates: one that is not found leaves its place to the next *)
(* one; any other outcome is the command's.                                *)
Outcome(p) == IF p \in installed THEN {0, 1, 124} ELSE {127}

(* Faulty: one that fails leaves its place as well. *)
FaultyGivesUp(code) == code = 0

GivesUp(code) == code # 127

Lookup ==
  /\ run.kind = "lookup" /\ run.at = "try"
  /\ LET p == Head(run.left) IN \E code \in Outcome(p) :
       /\ tried' = Append(tried, [by |-> p, code |-> code])
       /\ run' = IF GivesUp(code) \/ Len(run.left) = 1
                 THEN [run EXCEPT !.at = "post", !.code = code, !.data = (code = 0)]
                 ELSE [run EXCEPT !.left = Tail(@)]
  /\ UNCHANGED <<installed, backend, hits, passed, hostVars, told, changes, commands>>

(* run_speedtest: the first that prints numbers, whatever its exit code.   *)
Speedtest ==
  /\ run.kind = "speedtest" /\ run.at = "try"
  /\ LET p == Head(run.left) IN \E code \in Outcome(p), numbers \in BOOLEAN :
       /\ numbers => p \in installed
       /\ tried' = Append(tried, [by |-> p, code |-> code])
       /\ backend' = IF numbers THEN p ELSE backend
       /\ run' = IF numbers THEN [run EXCEPT !.at = "ping", !.data = TRUE]
                 ELSE IF Len(run.left) = 1 THEN [run EXCEPT !.at = "ping"]
                 ELSE [run EXCEPT !.left = Tail(@)]
  /\ UNCHANGED <<installed, hits, passed, hostVars, told, changes, commands>>

(* The latency counts as data.                                             *)
Latency ==
  /\ run.at = "ping"
  /\ \E answers \in BOOLEAN :
       run' = [run EXCEPT !.at = "post", !.data = @ \/ answers,
                          !.code = IF run.data \/ answers THEN 0 ELSE 1]
  /\ UNCHANGED <<installed, backend, tried, hits, passed, hostVars, told, changes, commands>>

(* parse_public_ipv4_from_text takes the last public address of all that   *)
(* was printed: a resolver that does not answer is named itself.           *)
Found(probe) ==
  IF probe.by \notin installed THEN {"none"}
  ELSE IF probe.at = "web" THEN {"none", Own} ELSE {"none", Own, Resolver}

(* run_publicip: every probe is made.                                      *)
PublicIp ==
  /\ run.kind = "publicip" /\ run.at = "try"
  /\ \E a \in Found(Head(run.left)) :
       /\ hits' = IF a = "none" THEN hits ELSE Append(hits, a)
       /\ run' = IF Len(run.left) > 1 THEN [run EXCEPT !.left = Tail(@)]
                 ELSE [run EXCEPT !.at = "post", !.data = (hits' # <<>>),
                                  !.code = IF hits' # <<>> THEN 0 ELSE 1]
  /\ UNCHANGED <<installed, backend, tried, passed, hostVars, told, changes, commands>>

Votes(a) == Len(SelectSeq(hits, LAMBDA h : h = a))
FirstSeen(a) == SelectInSeq(hits, LAMBDA h : h = a)

(* Faulty: the one that was found last. *)
FaultyBest == IF hits = <<>> THEN "none" ELSE Last(hits)

(* The address with the most votes; among those, the one seen first.       *)
Best ==
  IF hits = <<>> THEN "none"
  ELSE CHOOSE a \in Range(hits) : \A b \in Range(hits) \ {a} :
         Votes(a) > Votes(b) \/ (Votes(a) = Votes(b) /\ FirstSeen(a) < FirstSeen(b))

(* Faulty: any program will do. *)
FaultyDoctor == installed # {}

(* run_doctor asks for one program of each required row.                   *)
Doctor == \E p \in Checked : p \in installed

Examine ==
  /\ run.kind = "doctor" /\ run.at = "try"
  /\ run' = [run EXCEPT !.at = "post", !.data = Doctor, !.code = IF Doctor THEN 0 ELSE 1]
  /\ passed' = Doctor
  /\ UNCHANGED <<installed, backend, tried, hits, hostVars, told, changes, commands>>

(* run_update starts a job in the background and answers at once, or       *)
(* without dpkg, curl and wget not at all; a legacy agent has no such      *)
(* command.  The package is the server's own or lies elsewhere.            *)
Update ==
  /\ run.kind = "update" /\ run.at = "try"
  /\ \E ready \in BOOLEAN, hosted \in BOOLEAN :
       LET starts == ready /\ version # "legacy" IN
       /\ run' = [run EXCEPT !.at = "post", !.data = starts, !.code = IF starts THEN 0 ELSE 1]
       /\ job' = IF starts THEN [at |-> "download", hosted |-> hosted] ELSE job
  /\ UNCHANGED <<installed, backend, tried, hits, passed, version, root, told, changes, commands>>

(* The job has no session, which the server's own download asks for.       *)
JobDownloads ==
  /\ job.at = "download"
  /\ job' = IF job.hosted THEN NoJob ELSE [job EXCEPT !.at = "install"]
  /\ UNCHANGED <<installed, backend, run, tried, hits, passed, version, root, told,
                 changes, commands>>

(* dpkg needs root, and systemd runs the agent as cajal-agent.             *)
JobInstalls ==
  /\ job.at = "install"
  /\ version' = IF root THEN "new" ELSE version
  /\ job' = NoJob
  /\ UNCHANGED <<installed, backend, run, tried, hits, passed, root, told, changes, commands>>

-------------------------------------------------------------------------------
(* Faulty: the exit code decides. *)
FaultyManual(r) == r.kind = "update" /\ r.code # 0

(* collectorResultHasUnsupportedCommand: the steps to do it by hand.       *)
Manual(r) == r.kind = "update" /\ version = "legacy"

(* The result is logged as a success or a failure and answered.            *)
Post ==
  /\ run.at = "post"
  /\ told' = [kind |-> run.kind, ok |-> run.data, code |-> run.code, manual |-> Manual(run),
              address |-> IF run.kind = "publicip" THEN Best ELSE "none"]
  /\ run' = NoRun
  /\ UNCHANGED <<installed, backend, tried, hits, passed, hostVars, changes, commands>>

Agent == Lookup \/ Speedtest \/ Latency \/ PublicIp \/ Examine \/ Update \/ Post
Job == JobDownloads \/ JobInstalls

Next ==
  \/ \E kind \in Kinds : Send(kind)
  \/ Refuse
  \/ \E p \in Program : Change(p)
  \/ Agent \/ Job

Spec == Init /\ [][Next]_toolsVars
FairSpec == Spec /\ WF_toolsVars(Agent) /\ WF_toolsVars(Job)

-------------------------------------------------------------------------------
(* Properties *)

(* One program of a lookup runs at most, and "not found" is answered only  *)
(* when each of them was missing as it was tried; not when "doctor" passed *)
(* and nothing was removed since.                                          *)
LookupSound ==
  told.kind = "lookup" /\ run = NoRun /\ tried # <<>> =>
    /\ \A i \in 1..(Len(tried) - 1) : tried[i].code = 127
    /\ told.code = 127 => Len(tried) = Len(Chain) /\ ~passed

(* A speed test without numbers has tried every backend, also when the one *)
(* that worked last does not any more.                                     *)
SpeedtestSound ==
  run.kind = "speedtest" /\ run.at = "ping" /\ ~run.data =>
    \A b \in Range(Backends) : \E i \in DOMAIN tried : tried[i].by = b

(* The address that is reported, and compared with the one before, is the  *)
(* collector's, if as many probes found it as there are resolvers to ask.  *)
AddressSound ==
  told.kind = "publicip" /\ run = NoRun /\ told.address # "none" =>
    \/ told.address = Own
    \/ Votes(Own) < Len(SelectSeq(Probes, LAMBDA p : p.at = "resolver"))

(* The steps by hand are shown for an agent that cannot update itself, and *)
(* for no other.                                                           *)
StepsForLegacyOnly == told.manual => version = "legacy"

(* README.md:766: "Pushes remote agent self-update using the CAJAL-hosted  *)
(* .deb package URL".                                                      *)
UpdateInstalls == (job.at = "download" /\ job.hosted) ~> version = "new"
===============================================================================
