------------------------------- MODULE MCAgents -------------------------------
(***************************************************************************)
(* Checks the sessions of the collector agents with their rows in Postgres,*)
(* one site and three tokens: an agent registers anew, and again, while the*)
(* queries of its registrations are under way, and a restart may find      *)
(* several rows. Side by side with them: the sessions of two sites in a    *)
(* server that does not restart, an agent that is installed and set up again*)
(* and again on its host; and the package the server serves it from. They  *)
(* share no state, so a behaviour is one of one of them: "on" says which,  *)
(* from the start, and the others stand still.                             *)
(***************************************************************************)
EXTENDS AgentSessionStore, Integers, Sequences

CONSTANTS
  s1, s2, t1, t2, t3,
  MaxSetups, MaxFaults,    \* of the host
  Files, MaxEdits, Download  \* of the package

ASSUME SetupAssumption == MaxSetups \in Nat /\ MaxFaults \in Nat
ASSUME PackageAssumption == Files \in Nat \ {0} /\ MaxEdits \in Nat

VARIABLES
  on,  \* the component that moves
  memoryNow, memoryRole, memorySiteOf, memoryExpires, memoryPresence,
  memoryTold, memoryUsed,
  setupConf, setupShut, setupEnabled, setupUnit, setupProc, setupHolds,
  setupLock, setupSession, setupSetup, setupMade, setupLost, setupWritten, setupFaults,
  setupScript, setupCache, setupLoad, setupEdits,
  packageConf, packageShut, packageEnabled, packageUnit, packageProc,
  packageHolds, packageLock, packageSession, packageSetup, packageMade,
  packageLost, packageWritten, packageFaults, packageScript, packageCache,
  packageLoad, packageEdits

Memory == INSTANCE AgentSessions WITH
  Site <- {s1, s2}, Token <- {t1, t2, t3}, Ttl <- 2, MaxTime <- 6,
  now <- memoryNow, role <- memoryRole, siteOf <- memorySiteOf,
  expires <- memoryExpires, presence <- memoryPresence, told <- memoryTold,
  used <- memoryUsed
Setup == INSTANCE AgentInstall WITH
  Files <- 0, MaxEdits <- 0, Download <- {},
  conf <- setupConf, shut <- setupShut, enabled <- setupEnabled,
  unit <- setupUnit, proc <- setupProc, holds <- setupHolds, lock <- setupLock,
  session <- setupSession, setup <- setupSetup, made <- setupMade,
  lost <- setupLost, written <- setupWritten, faults <- setupFaults, script <- setupScript,
  cache <- setupCache, load <- setupLoad, edits <- setupEdits
Package == INSTANCE AgentInstall WITH
  MaxSetups <- 0, MaxFaults <- 0, conf <- packageConf, shut <- packageShut,
  enabled <- packageEnabled, unit <- packageUnit, proc <- packageProc,
  holds <- packageHolds, lock <- packageLock, session <- packageSession,
  setup <- packageSetup, made <- packageMade, lost <- packageLost,
  written <- packageWritten, faults <- packageFaults, script <- packageScript, cache <- packageCache,
  load <- packageLoad, edits <- packageEdits

memoryVars == <<memoryNow, memoryRole, memorySiteOf, memoryExpires,
                memoryPresence, memoryTold, memoryUsed>>
setupVars == <<setupConf, setupShut, setupEnabled, setupUnit, setupProc,
               setupHolds, setupLock, setupSession, setupSetup, setupMade,
               setupLost, setupWritten, setupFaults, setupScript, setupCache, setupLoad,
               setupEdits>>
packageVars == <<packageConf, packageShut, packageEnabled, packageUnit,
                 packageProc, packageHolds, packageLock, packageSession,
                 packageSetup, packageMade, packageLost, packageWritten, packageFaults,
                 packageScript, packageCache, packageLoad, packageEdits>>
agentsVars == <<on, storeVars, memoryVars, setupVars, packageVars>>

AgentsInit ==
  /\ on \in {"store", "memory", "setup", "package"}
  /\ StoreInit /\ (on # "store" => role = [s \in Site |-> "collector"])
  /\ Memory!Init /\ (on # "memory" => memoryRole = [s \in {s1, s2} |-> "collector"])
  /\ Setup!Init
  /\ Package!Init

StoreMoves == /\ on = "store" /\ StoreNext
              /\ UNCHANGED <<on, memoryVars, setupVars, packageVars>>
MemoryMoves == /\ on = "memory" /\ Memory!Next
               /\ UNCHANGED <<on, storeVars, setupVars, packageVars>>
SetupMoves == /\ on = "setup" /\ Setup!Next
              /\ UNCHANGED <<on, storeVars, memoryVars, packageVars>>
PackageMoves == /\ on = "package" /\ Package!Next
                /\ UNCHANGED <<on, storeVars, memoryVars, setupVars>>

AgentsNext == StoreMoves \/ MemoryMoves \/ SetupMoves \/ PackageMoves

AgentsSpec ==
  /\ AgentsInit /\ [][AgentsNext]_agentsVars
  /\ WF_memoryVars(on = "memory" /\ Memory!Prune)
  /\ WF_memoryVars(on = "memory" /\ Memory!Tick)
  /\ WF_setupVars(on = "setup" /\ Setup!Launch)
  /\ WF_setupVars(on = "setup" /\ Setup!Register)
  /\ WF_setupVars(on = "setup" /\ Setup!Unknown)

-------------------------------------------------------------------------------
(* An agent that is started from its file is refused only while a setup is *)
(* between its registration and its file, or after one that failed there;  *)
(* and a package has the scripts as they were when it was asked for, or    *)
(* newer.                                                                  *)
InstallSound == Setup!RefusedAfterFailureOnly /\ Package!ServedFresh

(* While the server runs, a token is accepted for a site exactly when it is*)
(* the one shown there, the last word about a site with an agent is        *)
(* "online", and a token that was revoked is never accepted again.         *)
SessionsAgree ==
  [](Memory!PresenceMatchesSession /\ Memory!ToldOnlineWhileLive) /\ Memory!RevocationIsFinal

(* The session of an agent that fell silent goes, though nobody uses its   *)
(* token.                                                                  *)
SilentSessionGoes == Memory!ExpiredSessionGoes

(* Installing a package again keeps the configuration, which only a setup  *)
(* that fails while it writes the file may cost; and an agent whose        *)
(* site stays on its installation, and whose file its user can read, gets  *)
(* the session in the end.                                                 *)
InstalledRuns ==
  /\ Setup!ConfigurationStays
  /\ on # "setup" \/ Setup!ServesInTheEnd
===============================================================================
