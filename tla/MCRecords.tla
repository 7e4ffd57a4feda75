------------------------------ MODULE MCRecords -------------------------------
(***************************************************************************)
(* Checks two web sessions with their commands to Redis, and side by side  *)
(* with them what else the server keeps and counts: the tokens of a first  *)
(* login, the lockout, the API tokens, the users, the documents of the     *)
(* configuration, the names of the locations, the database at a start, what*)
(* the server tells of its own health, and the import of users from a      *)
(* directory with entries of users and from one with groups of the posix   *)
(* kind.  They share no state, so a behaviour is one of one of them: "on"  *)
(* says which, from the start, and the others stand still.                 *)
(***************************************************************************)
EXTENDS RecordsProofs, FiniteSets

VARIABLES
  on,  \* the component that moves
  users, directory, doc, line, body, loose, revs, accepted, usersFailed,
  usersRaced,
  mem, configStored, integrity, jobs, configEdits, configFails, configRaced,
  unsaved, promised, blind, cleared, wiped,
  settings, last

\* Both identifiers name one account.
AccountOf == [id \in {"address", "name"} |-> "address"]

\* Two ports, and two addresses, of which one has the digits of the other.
Digits == {<<1>>, <<1, 1>>}
OnePort == <<1>>

\* The database of a start has four documents, of which one is never seeded.
Tracked == <<"sites", "devices", "users", "ldap">>

UserDocument == INSTANCE UsersDocument WITH
  Emails <- {"admin", "ana"}, Baseline <- "admin", MaxRev <- 2, MaxLine <- 2,
  MaxLoose <- 1, failed <- usersFailed, raced <- usersRaced
Config == INSTANCE ConfigDocuments WITH
  Doc <- {"devices", "locations", "tokens", "ldap"},
  ResetDocs <- {"devices", "locations", "tokens"},
  ImportDocs <- <<"devices", "locations">>, Reported <- {"tokens", "ldap"},
  Needed <- {"devices"}, MaxEdits <- 3, MaxJobs <- 2, MaxFails <- 1,
  stored <- configStored, edits <- configEdits, fails <- configFails,
  raced <- configRaced
Section == INSTANCE LocationSections WITH
  Names <- {"Office", "Branch"}, MaxSections <- 3

setupVars == <<setupNow, mfa, entry, setupSaving, began, passwords,
               setupSessions, stale>>
lockoutVars == <<lockoutNow, lockoutRow, lockoutSaving, lockoutFailed>>
tokensVars == <<tokensNow, tokens, dirty, tokensDue, tokensWrites, tokensStored,
                tokensMade, tokensFaults, answered, gone, lastUse>>
usersVars == <<users, directory, doc, line, body, loose, revs, accepted,
               usersFailed, usersRaced>>
configVars == <<mem, configStored, integrity, jobs, configEdits, configFails,
                configRaced, unsaved, promised, blind, cleared, wiped>>
startVars == <<startAt, startStep, missing, applied, recorded, startVersion, startRow,
               files, startFaults, skipped>>
healthVars == <<host, output, healthSeen, config, diag, unique, world, report,
                healthEdits>>
sectionsVars == <<settings, last>>
directoryVars == <<posix, directoryConfig, directoryForm, directoryKnown,
                   directoryUndo, directoryBack, directoryTests, directoryPage,
                   directoryImport, directoryUsers, directoryRoles,
                   directoryEdits>>
recordsVars == <<on, webVars, setupVars, lockoutVars, tokensVars, usersVars,
                 configVars, startVars, healthVars, sectionsVars, directoryVars>>

RecordsInit ==
  /\ on \in {"sessions", "setup", "lockout", "tokens", "stamps", "users", "config", "start",
            "firewall", "diagnosis", "report", "sections", "directory", "form"}
  /\ Init
  /\ Setup!Init /\ (on # "setup" => mfa = FALSE)
  /\ Lockout!Init /\ Token!Init
  /\ UserDocument!Init
  /\ IF on = "config" THEN Config!Init
     ELSE mem = 0 /\ configStored = 0 /\ integrity = 0 /\ jobs = 0 /\
          configEdits = 0 /\ configFails = 0 /\ configRaced = 0 /\ unsaved =
          0 /\ promised = 0 /\ blind = 0 /\ cleared = 0 /\ wiped = 0
  /\ Start!Init /\ (on # "start" => applied = {} /\ files = {})
  /\ Health!Init /\ (host.ss <=> host.listens # {})
  /\ (on # "firewall" => host = [ufw |-> "none", rules |-> <<>>, ss |-> FALSE, listens |-> {}])
  /\ Directory!Init /\ (posix <=> on = "form")
  /\ \A n \in Directory!Names :
       /\ on # "directory" \/ n.who = "q" => directoryUsers[n] = "none"
       /\ directoryUsers[n] # "none" => directoryUsers[[n EXCEPT !.as = "mail"]] # "none"
  /\ IF on = "sections" THEN Section!Init ELSE settings = 0 /\ last = 0

SessionsMoves == /\ on = "sessions" /\ Next
                 /\ UNCHANGED <<on, setupVars, lockoutVars, tokensVars,
                                usersVars, configVars, startVars, healthVars, sectionsVars, directoryVars>>
SetupMoves == /\ on = "setup" /\ Setup!Next
              /\ UNCHANGED <<on, webVars, lockoutVars, tokensVars, usersVars,
                             configVars, startVars, healthVars, sectionsVars, directoryVars>>
LockoutMoves == /\ on = "lockout" /\ Lockout!Next
                /\ UNCHANGED <<on, webVars, setupVars, tokensVars, usersVars,
                               configVars, startVars, healthVars, sectionsVars, directoryVars>>
ExceptTokens == <<on, webVars, setupVars, lockoutVars, usersVars, configVars,
                  startVars, healthVars, sectionsVars, directoryVars>>
Unused == \A i \in Token!Id : lastUse'[i] = 0

(* Two tokens and two writes of their list at one time, neither used; and  *)
(* one write at a time, of two tokens that are used or of one more than the*)
(* list holds.                                                             *)
TokensMoves == /\ on = "tokens" /\ Token!Next
               /\ Unused /\ tokensMade' <= 2 /\ tokensNow' <= 2 /\ ~tokensDue'
               /\ UNCHANGED ExceptTokens
StampsMoves == /\ on = "stamps" /\ Token!Next
               /\ Cardinality(tokensWrites') <= 1 /\ Token!Of("stop")' = {}
               /\ Unused \/ (tokensMade' <= 2 /\ ~tokensDue')
               /\ UNCHANGED ExceptTokens
UsersMoves == /\ on = "users" /\ UserDocument!Next
              /\ UNCHANGED <<on, webVars, setupVars, lockoutVars, tokensVars,
                             configVars, startVars, healthVars, sectionsVars, directoryVars>>
ConfigMoves == /\ on = "config" /\ Config!Next
               /\ UNCHANGED <<on, webVars, setupVars, lockoutVars, tokensVars,
                              usersVars, startVars, healthVars, sectionsVars, directoryVars>>
StartMoves == /\ on = "start" /\ Start!Next
              /\ UNCHANGED <<on, webVars, setupVars, lockoutVars, tokensVars,
                             usersVars, configVars, healthVars,
                             sectionsVars, directoryVars>>
ExceptHealth == <<on, webVars, setupVars, lockoutVars, tokensVars, usersVars,
                  configVars, startVars, sectionsVars, directoryVars>>
ExceptDirectory == <<on, webVars, setupVars, lockoutVars, tokensVars, usersVars,
                     configVars, startVars, healthVars, sectionsVars>>
FirewallMoves == /\ on = "firewall" /\ Health!FirewallNext /\ healthEdits' <= 1
                 /\ UNCHANGED ExceptHealth
DiagnosisMoves == /\ on = "diagnosis" /\ Health!DiagnosisNext
                  /\ UNCHANGED ExceptHealth
ReportMoves == /\ on = "report" /\ Health!ReportNext
               /\ UNCHANGED ExceptHealth
SectionsMoves == /\ on = "sections" /\ Section!Next
                 /\ UNCHANGED <<on, webVars, setupVars, lockoutVars,
                                tokensVars, usersVars, configVars, startVars, healthVars, directoryVars>>
(* Two tests of a form that stays and is not saved, and a form that changes*)
(* with one test.                                                          *)
DirectoryMoves == /\ on = "directory" /\ Directory!Next
                  /\ directoryEdits' = 0 /\ directoryUndo' = Directory!Nothing
                  /\ UNCHANGED ExceptDirectory
FormMoves == /\ on = "form" /\ Directory!Next /\ directoryTests'[2].at = "no"
             /\ UNCHANGED ExceptDirectory

RecordsNext == SessionsMoves \/ SetupMoves \/ LockoutMoves \/ TokensMoves \/ StampsMoves \/
  UsersMoves \/ ConfigMoves \/ StartMoves \/ FirewallMoves \/ DiagnosisMoves \/ ReportMoves \/
  SectionsMoves \/ DirectoryMoves \/ FormMoves

RecordsSpec ==
  /\ RecordsInit /\ [][RecordsNext]_recordsVars

-------------------------------------------------------------------------------
(* The stored users and each document of the configuration are as memory has*)
(* them when no write is under way, unless writes of it raced or failed; the*)
(* directory of roles follows the users; what was answered is stored, and an*)
(* unreadable document is reported.  The labels of the locations are the   *)
(* names of the first two, a new one has the name it was given, and a start*)
(* reads back what was there.                                              *)
DocumentsKept ==
  /\ on = "users" => /\ UserDocument!TypeOK /\ UserDocument!StoredUnlessRaced
                     /\ UserDocument!DirectoryFollows
  /\ on = "config" => /\ Config!TypeOK /\ Config!StoredUnlessRaced
                      /\ Config!AnsweredIsStored /\ Config!UnreadIsReported
  /\ on = "sections" => /\ Section!TypeOK /\ Section!LabelsAreNames
                        /\ Section!NewIsNamed

(* An expired session is not found again after a restart, and a deleted user*)
(* does not come back.                                                     *)
NothingComesBack ==
  /\ ExpiredStaysOut
  /\ UserDocument!NeverBack
===============================================================================
