------------------------------ MODULE AgentInstall ------------------------------
(***************************************************************************)
(* The Linux agent as a package: the server builds and caches it           *)
(* (buildLinuxAgentDebPackage, lib/agent.js), its postinst and the setup   *)
(* program (cajal-agent-setup.py) write /etc/cajal-agent/agent.env, and    *)
(* systemd runs the launcher, which reads that file as the user            *)
(* cajal-agent.  Of the server's site it matters for which installation it *)
(* is locked and who has the session.                                      *)
(*                                                                         *)
(* Every run of the setup program makes an installation of its own, with   *)
(* the time of that run: installations are numbered in that order, further *)
(* apart than the lock's tie (InstallLock has the tie).                    *)
(***************************************************************************)
EXTENDS Integers, Sequences

CONSTANTS
  MaxSetups,  \* bound of the setups, each with its installation; 0: no host
  MaxFaults,  \* bound of crashes, reboots and answers that are lost
  Files,      \* how many scripts go into the package; the server has three
  MaxEdits,   \* bound of the changes of those scripts
  Download    \* requests for the package that may be under way together

VARIABLES
  conf,     \* the installation in agent.env: 0 for the example or an empty
            \* file, -1 for no file
  shut,     \* only root may read agent.env
  enabled,  \* systemctl is-enabled
  unit,     \* "off", "starting" (also while it waits to try again) or "up"
  proc,     \* the installation the agent's process was started with, or 0
  holds,    \* that process has a token
  lock,     \* the installation the server has locked the site on, or 0
  session,  \* who has the site's session: "none", "agent" or "setup"
  setup,    \* the run of the setup program
  made,     \* installations made so far
  lost,     \* history: those that were registered and never written
  written,  \* history: the last one written there, 0 after a setup that failed
            \* with the file already emptied
  faults,
  script,   \* the server's scripts, as the numbers of their versions
  cache,    \* the package that was built last, with the versions it stands for
  load,     \* the requests for the package
  edits

hostVars == <<conf, shut, enabled, unit, proc, holds>>
siteVars == <<lock, session>>
packageVars == <<script, cache, load, edits>>
history == <<lost, written>>
installVars == <<hostVars, siteVars, setup, made, history, faults, packageVars>>

Nobody == [by |-> "nobody", at |-> "none", id |-> 0]
Idle == [at |-> "none", seen |-> <<>>, body |-> <<>>, since |-> <<>>]

Init ==
  /\ conf = -1 /\ shut = FALSE /\ enabled = FALSE
  /\ unit = "off" /\ proc = 0 /\ holds = FALSE
  /\ lock = 0 /\ session = "none"
  /\ setup = Nobody /\ made = 0 /\ lost = {} /\ written = 0 /\ faults = 0
  /\ script = [i \in 1..Files |-> 0] /\ edits = 0
  /\ cache = [seen |-> <<>>, body |-> <<>>]
  /\ load = [d \in Download |-> Idle]

Fault == faults < MaxFaults /\ faults' = faults + 1

-------------------------------------------------------------------------------
(* "Faulty" marks a change somebody could make to the code; the checks put *)
(* it in the place of the definition that follows it and expect a property *)
(* below to fail.                                                          *)

(* The server. *)

(* Faulty: an installation registers once. *)
AdmitsNewer(i) == i > lock

(* evaluateCollectorAgentInstallRegistration, with times apart.            *)
Admits(i) == i >= lock

(* POST /api/agent/register: a session, which takes the site from whoever  *)
(* had it, and the lock.                                                   *)
Registered(i, who) == Admits(i) /\ lock' = i /\ session' = who

-------------------------------------------------------------------------------
(* systemd and the agent. *)

(* systemctl enable --now, and what follows a failed start: nothing is     *)
(* started that runs.                                                      *)
Started == IF unit = "off" THEN "starting" ELSE unit

(* The launcher sources agent.env as cajal-agent, under set -e, and leaves *)
(* when a value is missing.  On failure systemd tries again, for ever.     *)
Launch ==
  /\ unit = "starting"
  /\ conf > 0 /\ ~shut
  /\ unit' = "up" /\ proc' = conf /\ holds' = FALSE
  /\ UNCHANGED <<conf, shut, enabled, siteVars, setup, made, history, faults, packageVars>>

(* The agent registers; when it is refused it sleeps and tries again.      *)
Register ==
  /\ unit = "up" /\ ~holds
  /\ Registered(proc, "agent")
  /\ holds' = TRUE
  /\ UNCHANGED <<conf, shut, enabled, unit, proc, setup, made, history, faults, packageVars>>

(* A poll with a token that is no longer the site's is answered with 401.  *)
Unknown ==
  /\ holds /\ session # "agent"
  /\ holds' = FALSE
  /\ UNCHANGED <<conf, shut, enabled, unit, proc, siteVars, setup, made, history, faults, packageVars>>

(* A session that nobody polls with ends.                                  *)
SessionEnds ==
  /\ session = "setup" \/ (session = "agent" /\ ~holds)
  /\ session' = "none"
  /\ UNCHANGED <<hostVars, lock, setup, made, history, faults, packageVars>>

(* The process ends with a failure or is killed: Restart=on-failure.       *)
Crash ==
  /\ unit = "up" /\ Fault
  /\ unit' = "starting" /\ proc' = 0 /\ holds' = FALSE
  /\ UNCHANGED <<conf, shut, enabled, siteVars, setup, made, history, packageVars>>

(* What a setup leaves when it ends as it is: the site may be locked on an *)
(* installation that was not written, and the file empty.                  *)
Abandoned ==
  /\ lost' = IF setup.id > 0 /\ lock = setup.id /\ conf # lock THEN lost \cup {lock} ELSE lost
  /\ written' = IF setup.at = "fill" THEN 0 ELSE written

(* The host starts again: WantedBy=multi-user.target.  A setup goes with it.*)
Reboot ==
  /\ conf >= 0 /\ Fault
  /\ unit' = IF enabled THEN "starting" ELSE "off"
  /\ proc' = 0 /\ holds' = FALSE
  /\ setup' = Nobody /\ Abandoned
  /\ UNCHANGED <<conf, shut, enabled, siteVars, made, packageVars>>

-------------------------------------------------------------------------------
(* The setup program. *)

(* An administrator runs it, or somebody who may not write /etc.           *)
Begin(by) ==
  /\ setup = Nobody /\ conf >= 0 /\ made < MaxSetups
  /\ setup' = [by |-> by, at |-> "ask", id |-> 0]
  /\ UNCHANGED <<hostVars, siteVars, made, history, faults, packageVars>>

(* Who started the program goes on without it: the wizard's window comes   *)
(* before its prompts, and the installation is finished after both.        *)
Left(by) ==
  CASE by = "window" -> [by |-> "prompts", at |-> "ask", id |-> 0]
    [] by = "prompts" -> [by |-> "package", at |-> "finish", id |-> 0]
    [] OTHER -> Nobody

(* No input, values that do not hold, or a required tool that is missing:  *)
(* it ends before it asked the server anything.                            *)
Quit ==
  /\ setup.at = "ask"
  /\ setup' = Left(setup.by)
  /\ UNCHANGED <<hostVars, siteVars, made, history, faults, packageVars>>

(* A new identity; --skip-verify goes straight to the file.                *)
Collected ==
  /\ setup.at = "ask" /\ made < MaxSetups
  /\ made' = made + 1
  /\ \E to \in {"verify"} \cup (IF setup.by \in {"root", "user"} THEN {"write"} ELSE {}) :
       setup' = [by |-> setup.by, at |-> to, id |-> made + 1]
  /\ UNCHANGED <<hostVars, siteVars, history, faults, packageVars>>

(* The server does not answer, or refuses the password or the site.        *)
Unverified ==
  /\ setup.at = "verify"
  /\ setup' = Left(setup.by)
  /\ UNCHANGED <<hostVars, siteVars, made, history, faults, packageVars>>

(* verify_registration registers as the installation that is to be.        *)
Verified ==
  /\ setup.at = "verify"
  /\ Registered(setup.id, "setup")
  /\ setup' = [setup EXCEPT !.at = "poll"]
  /\ UNCHANGED <<hostVars, made, history, faults, packageVars>>

(* The answer of the registration is lost, or the poll after it fails or   *)
(* finds the session gone: the site is locked, and nothing is written.     *)
VerifyFails ==
  /\ setup.at = "poll"
  /\ Fault \/ (session # "setup" /\ UNCHANGED faults)
  /\ setup' = Left(setup.by) /\ Abandoned
  /\ UNCHANGED <<hostVars, siteVars, made, packageVars>>

Polled ==
  /\ setup.at = "poll" /\ session = "setup"
  /\ setup' = [setup EXCEPT !.at = "write"]
  /\ UNCHANGED <<hostVars, siteVars, made, history, faults, packageVars>>

(* The wizard's window only prints, and postinst puts that into the file:  *)
(* after it the installation is finished, whether that went well or not.   *)
Written == Left(IF setup.by = "window" THEN "prompts" ELSE setup.by)

(* write_env_file opens the file and so empties it, its mode as before; the*)
(* package puts a file of its own there that only root may read.           *)
Empty ==
  /\ setup.at = "write" /\ setup.by # "user"
  /\ conf' = 0 /\ shut' = (shut \/ setup.by = "window")
  /\ setup' = [setup EXCEPT !.at = "fill"]
  /\ UNCHANGED <<enabled, unit, proc, holds, siteVars, made, history, faults, packageVars>>

(* A file of some hundred bytes is there as a whole or not at all.         *)
Fill ==
  /\ setup.at = "fill"
  /\ conf' = setup.id /\ written' = setup.id
  /\ setup' = [setup EXCEPT !.at = "close"]
  /\ UNCHANGED <<shut, enabled, unit, proc, holds, siteVars, made, lost, faults, packageVars>>

(* chmod 0600: the file is left to root.                                   *)
Close ==
  /\ setup.at = "close"
  /\ shut' = TRUE /\ setup' = Written
  /\ UNCHANGED <<conf, enabled, unit, proc, holds, siteVars, made, history, faults, packageVars>>

(* The file cannot be opened, as by somebody who may not write /etc, the   *)
(* disk is full, or the program is stopped: it ends where it is.           *)
WriteFails ==
  /\ setup.at \in {"write", "fill", "close"}
  /\ Fault \/ (setup.at = "write" /\ setup.by = "user" /\ UNCHANGED faults)
  /\ setup' = Written /\ Abandoned
  /\ UNCHANGED <<hostVars, siteVars, made, packageVars>>

(* "Run: sudo systemctl enable --now cajal-agent".                         *)
EnableNow ==
  /\ conf >= 0 /\ setup = Nobody /\ ~(enabled /\ unit # "off")
  /\ enabled' = TRUE /\ unit' = Started
  /\ UNCHANGED <<conf, shut, proc, holds, siteVars, setup, made, history, faults, packageVars>>

-------------------------------------------------------------------------------
(* postinst. *)

(* Faulty: the example is put there whether there is a file or not. *)
PlacedAlways == conf' = 0 /\ shut' = FALSE

(* The example, when there is no file; else the group may read it again.   *)
Placed == conf' = (IF conf = -1 THEN 0 ELSE conf) /\ shut' = FALSE

(* dpkg -i: a file without the required values calls for the wizard, in a  *)
(* window or with prompts, when there is somebody to ask.                  *)
Install ==
  /\ setup = Nobody
  /\ Placed
  /\ IF conf' > 0 THEN setup' = Left("prompts")
     ELSE \E by \in {"window", "prompts"} :
            setup' \in {Left("prompts"), [by |-> by, at |-> "ask", id |-> 0]}
  /\ UNCHANGED <<enabled, unit, proc, holds, siteVars, made, history, faults, packageVars>>

(* With the required values the service is enabled and started, else it is *)
(* disabled and stopped.                                                   *)
Finish ==
  /\ setup.at = "finish"
  /\ enabled' = (conf > 0)
  /\ IF conf > 0 THEN unit' = Started /\ UNCHANGED <<proc, holds>>
     ELSE unit' = "off" /\ proc' = 0 /\ holds' = FALSE
  /\ setup' = Nobody
  /\ UNCHANGED <<conf, shut, siteVars, made, history, faults, packageVars>>

-------------------------------------------------------------------------------
(* The package at the server. *)

(* The request d goes on. *)
Goes(d, at, seen, body) ==
  load' = [load EXCEPT ![d] = [at |-> at, seen |-> seen, body |-> body, since |-> load[d].since]]

Edit(i) ==
  /\ edits < MaxEdits
  /\ script' = [script EXCEPT ![i] = @ + 1] /\ edits' = edits + 1
  /\ UNCHANGED <<hostVars, siteVars, setup, made, history, faults, cache, load>>

Ask(d) ==
  /\ load[d].at = "none"
  /\ load' = [load EXCEPT ![d] = [at |-> "stat", seen |-> <<>>, body |-> <<>>, since |-> script]]
  /\ UNCHANGED <<hostVars, siteVars, setup, made, history, faults, script, cache, edits>>

(* The scripts are looked at one after the other; when none has changed    *)
(* since the package was built, that one is answered.                      *)
Stat(d) ==
  /\ load[d].at = "stat"
  /\ LET seen == Append(load[d].seen, script[Len(load[d].seen) + 1]) IN
       \/ Len(seen) < Files /\ Goes(d, "stat", seen, <<>>)
       \/ Len(seen) = Files /\ cache.seen = seen /\ Goes(d, "served", seen, cache.body)
       \/ Len(seen) = Files /\ cache.seen # seen /\ Goes(d, "read", seen, <<>>)
  /\ UNCHANGED <<hostVars, siteVars, setup, made, history, faults, script, cache, edits>>

Read(d) ==
  /\ load[d].at = "read"
  /\ LET body == Append(load[d].body, script[Len(load[d].body) + 1]) IN
     Goes(d, IF Len(body) < Files THEN "read" ELSE "pack", load[d].seen, body)
  /\ UNCHANGED <<hostVars, siteVars, setup, made, history, faults, script, cache, edits>>

(* Faulty: the package stands for what the scripts are when it is done. *)
StandsForNow(d) == script

StandsFor(d) == load[d].seen

(* dpkg-deb has built it: it is kept for the next request.                 *)
Pack(d) ==
  /\ load[d].at = "pack"
  /\ cache' = [seen |-> StandsFor(d), body |-> load[d].body]
  /\ Goes(d, "served", load[d].seen, load[d].body)
  /\ UNCHANGED <<hostVars, siteVars, setup, made, history, faults, script, edits>>

(* The answer is sent, or dpkg-deb is missing or fails and an error is.    *)
Answer(d) ==
  /\ load[d].at \in {"served", "read", "pack"}
  /\ load' = [load EXCEPT ![d] = Idle]
  /\ UNCHANGED <<hostVars, siteVars, setup, made, history, faults, script, cache, edits>>

-------------------------------------------------------------------------------
Agent == Launch \/ Register \/ Unknown \/ SessionEnds \/ Crash \/ Reboot

Admin ==
  \/ \E by \in {"root", "user"} : Begin(by)
  \/ Quit \/ Collected \/ Unverified \/ Verified \/ VerifyFails \/ Polled
  \/ Empty \/ Fill \/ Close \/ WriteFails
  \/ EnableNow \/ Install \/ Finish

Package ==
  \/ \E i \in 1..Files : Edit(i)
  \/ \E d \in Download : Ask(d) \/ Stat(d) \/ Read(d) \/ Pack(d) \/ Answer(d)

Next ==
  \/ MaxSetups > 0 /\ (Agent \/ Admin)
  \/ Package

Spec == Init /\ [][Next]_installVars

(* systemd tries again, and the agent goes on asking.                      *)
FairSpec ==
  Spec /\ WF_installVars(Launch) /\ WF_installVars(Register) /\ WF_installVars(Unknown)

-------------------------------------------------------------------------------
(* Properties *)

(* An agent that is started from the file is refused only while a setup is *)
(* between its registration and its file, or after one that failed there:  *)
(* the order "verify, then write" costs the site nothing else.             *)
RefusedAfterFailureOnly ==
  conf > 0 /\ conf < lock =>
    lock \in lost \/ (setup.at \in {"poll", "write"} /\ setup.id = lock)

(* agent.env has the installation that was written last, through every     *)
(* package, reboot and setup that ends before it writes: only while a setup*)
(* is writing, or after one that failed there, is the file without one.    *)
(* And no older one takes its place.                                       *)
LastWritten ==
  conf = written \/ (conf <= 0 /\ (written = 0 \/ setup.at = "fill"))
ConfigurationStays == [][LastWritten' /\ (written' # 0 => written' >= written)]_installVars

(* A service that is enabled, whose file can be read and is as new as the  *)
(* lock, and whose process was not started from an older one, has the      *)
(* site's session in the end and keeps it.                                 *)
Sound ==
  /\ enabled /\ conf > 0 /\ ~shut /\ setup = Nobody
  /\ conf >= lock /\ proc \in {0, conf} /\ unit # "off"
ServesInTheEnd == <>[]Sound => <>[](session = "agent")

(* A package has the scripts as they were when it was asked for, or newer. *)
ServedFresh ==
  \A d \in Download :
    load[d].at = "served" => \A i \in 1..Files : load[d].body[i] >= load[d].since[i]

(* README.md:750: "Service auto-enables/starts when config is valid and    *)
(* auto-starts on reboot".                                                 *)
ValidConfigStarts ==
  (enabled /\ conf > 0 /\ unit = "starting") ~> (unit # "starting" \/ conf = 0)
===============================================================================
