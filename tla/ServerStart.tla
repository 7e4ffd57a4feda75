------------------------------ MODULE ServerStart ------------------------------
(***************************************************************************)
(* How the server comes up: connectWithRetry, the tables and the schema    *)
(* migrations, migrateExistingFilesToPostgresStore (lib/storage.js), and   *)
(* ensureDataFiles (server.js), which seeds the documents that are not     *)
(* stored.  Every query is a step, may fail, and the process may end       *)
(* after it; the container starts it again.                                *)
(*                                                                         *)
(* A stored document is what a file of an earlier installation held, the   *)
(* default, or something an administrator saved.                           *)
(***************************************************************************)
EXTENDS Naturals, Sequences, SequencesExt

CONSTANTS
  Keys,         \* the tracked documents in the order of STORAGE_TRACKED_FILES
  Sites,        \* the document of the sites, and
  Devices,      \*   that of the devices, seeded together
  Unseeded,     \* the documents that are never seeded (the LDAP settings)
  Migrations,   \* the versions of SCHEMA_MIGRATIONS are 1..Migrations
  Attempts,     \* maxRetries of connectWithRetry
  MaxFaults     \* bound: queries that fail and crashes

Key == Range(Keys)

VARIABLES
  at,        \* the step the process has come to, "down" or "up"
  n,         \* its number: the attempt, the version or the document
  missing,   \* what ensureDataFiles found missing
  applied,   \* external: the migrations whose statement has been run
  recorded,  \* external: the rows of cajal_schema_migrations
  version,   \* the version read from them
  row,       \* external: cajal_store, "none" or what the document is
  files,     \* external: the documents that exist as files
  faults,    \* failures so far
  skipped    \* history: the documents a failure left out of the migration

vars == <<at, n, missing, applied, recorded, version, row, files, faults, skipped>>
store == <<applied, recorded, row, files>>

Content == {"none", "file", "default", "saved"}
Steps == {"connect", "tables", "version", "apply", "record", "files", "find", "seed", "pair"}

-------------------------------------------------------------------------------
(* The database is new, or one an earlier version of the server has left   *)
(* at its own version (the first had no migrations) with every document of *)
(* its own.  The files, too, have both sites and devices or neither.       *)
Init == /\ at = "down" /\ n = 0 /\ version = 0
        /\ missing = {} /\ skipped = {}
        /\ applied \in {1..v : v \in 0..Migrations}
        /\ recorded \in {applied, applied \ {1}}
        /\ recorded # applied => recorded = {}
        /\ row = [k \in Key |-> IF applied = {} \/ k \in Unseeded THEN "none" ELSE "saved"]
        /\ files \in {f \in SUBSET Key : Sites \in f <=> Devices \in f}
        /\ faults = 0

Goto(step, i) == at' = step /\ n' = i
Start == /\ at = "down" /\ Goto("connect", 1)
         /\ missing' = {} /\ version' = 0
         /\ UNCHANGED <<store, faults, skipped>>

(* A query fails and the start with it; the last attempt to connect too.   *)
Fails == /\ at \in Steps /\ faults < MaxFaults
         /\ at = "connect" => n = Attempts
         /\ Goto("down", 0)
         /\ faults' = faults + 1
         /\ UNCHANGED <<missing, version, store, skipped>>

(* connectWithRetry. *)
Retried == Goto("connect", n + 1)
Retry == /\ at = "connect" /\ n < Attempts /\ faults < MaxFaults
         /\ Retried
         /\ faults' = faults + 1
         /\ UNCHANGED <<missing, version, store, skipped>>
Connect == /\ at = "connect" /\ Goto("tables", 0)
           /\ UNCHANGED <<missing, version, store, faults, skipped>>

(* cajal_store and cajal_schema_migrations are created if they are not     *)
(* there.                                                                  *)
Tables == /\ at = "tables" /\ Goto("version", 0)
          /\ applied' = applied \cup {1}
          /\ UNCHANGED <<missing, version, recorded, row, files, faults, skipped>>

(* The next migration after version v, or the files when there is none.    *)
FaultyAfter(v) == IF v >= Migrations - 1 THEN Goto("files", 1) ELSE Goto("apply", v + 1)
FaultyAfterAgain(v) ==
  IF v >= Migrations THEN Goto("files", 1) ELSE Goto("apply", IF v = 0 THEN 1 ELSE v)
After(v) == IF v >= Migrations THEN Goto("files", 1) ELSE Goto("apply", v + 1)

Version == /\ at = "version"
           /\ version' = CHOOSE v \in recorded \cup {0} : \A w \in recorded : w <= v
           /\ After(version')
           /\ UNCHANGED <<missing, store, faults, skipped>>

FaultyApply == recorded' = recorded \cup {n} /\ applied' = applied
ApplyIt == applied' = applied \cup {n} /\ recorded' = recorded
Apply == /\ at = "apply"
         /\ ApplyIt
         /\ Goto("record", n)
         /\ UNCHANGED <<missing, version, row, files, faults, skipped>>

RecordIt == recorded' = recorded \cup {n} /\ applied' = applied
Record == /\ at = "record"
          /\ RecordIt
          /\ After(n)
          /\ UNCHANGED <<missing, version, row, files, faults, skipped>>

(* One document of migrateExistingFilesToPostgresStore: not stored, and    *)
(* there as a file.  A write that fails is passed over.                    *)
Wanted(k) == row[k] = "none" /\ k \in files
FaultyNextFile == Goto("files", n + 1)
NextFile == IF n = Len(Keys) THEN Goto("find", 0) ELSE Goto("files", n + 1)
MigrateFile ==
  /\ at = "files"
  /\ row' = IF Wanted(Keys[n]) THEN [row EXCEPT ![Keys[n]] = "file"] ELSE row
  /\ NextFile
  /\ UNCHANGED <<missing, version, applied, recorded, files, faults, skipped>>
SkipFile ==
  /\ at = "files" /\ Wanted(Keys[n]) /\ faults < MaxFaults
  /\ skipped' = skipped \cup {Keys[n]}
  /\ NextFile
  /\ faults' = faults + 1
  /\ UNCHANGED <<missing, version, store>>

(* ensureDataFiles asks for all documents, then seeds: the sites and the   *)
(* devices when either is missing, then the others.                        *)
FaultyMissing == {k \in Key \ Unseeded : row[k] # "file"}
Missing == {k \in Key \ Unseeded : row[k] = "none"}
PairMissing == {Sites, Devices} \cap missing' # {}
Find == /\ at = "find"
        /\ missing' = Missing
        /\ IF PairMissing THEN Goto("pair", 1) ELSE Goto("seed", 1)
        /\ UNCHANGED <<version, store, faults, skipped>>
Pair == /\ at = "pair"
        /\ row' = [row EXCEPT ![<<Sites, Devices>>[n]] = "default"]
        /\ IF n = 1 THEN Goto("pair", 2) ELSE Goto("seed", 1)
        /\ UNCHANGED <<missing, version, applied, recorded, files, faults, skipped>>
(* Every other one that is missing, in their order.                        *)
Seed == /\ at = "seed" /\ n <= Len(Keys)
        /\ row' = IF Keys[n] \in missing \ {Sites, Devices}
                  THEN [row EXCEPT ![Keys[n]] = "default"] ELSE row
        /\ Goto("seed", n + 1)
        /\ UNCHANGED <<missing, version, applied, recorded, files, faults, skipped>>

(* loadState and main have what they need. *)
Up == /\ at = "seed" /\ n > Len(Keys)
      /\ Goto("up", 0)
      /\ UNCHANGED <<missing, version, store, faults, skipped>>

(* An administrator saves a document; the process ends.                    *)
Save(k) == /\ at = "up" /\ row[k] # "saved"
           /\ row' = [row EXCEPT ![k] = "saved"]
           /\ UNCHANGED <<at, n, missing, version, applied, recorded, files, faults, skipped>>
Crash == /\ at = "up" /\ faults < MaxFaults
         /\ Goto("down", 0)
         /\ faults' = faults + 1
         /\ UNCHANGED <<missing, version, store, skipped>>

Work == Start \/ Connect \/ Tables \/ Version \/ Apply \/ Record \/ MigrateFile
          \/ Find \/ Pair \/ Seed \/ Up
Next == Work \/ Fails \/ Retry \/ SkipFile \/ (\E k \in Key : Save(k)) \/ Crash

(* The container restarts the process, and a process goes on.              *)
Spec == Init /\ [][Next]_vars /\ WF_vars(Work)

-------------------------------------------------------------------------------
TypeOK ==
  /\ at \in Steps \cup {"down", "up"}
  /\ at = "connect" => n \in 1..Attempts
  /\ at = "files" => n \in 1..Len(Keys)
  /\ applied \subseteq 1..Migrations /\ recorded \subseteq 1..Migrations
  /\ row \in [Key -> Content]
  /\ missing \subseteq Key \ Unseeded /\ skipped \subseteq Key
  /\ faults \in 0..MaxFaults

(* A version is recorded once its statement has been run and all earlier   *)
(* ones are recorded: MAX(version) tells them all.                         *)
RecordedIsApplied ==
  /\ recorded \subseteq applied
  /\ \A v \in recorded, w \in 1..Migrations : w < v => w \in recorded

(* A server that is up has the whole schema and every seeded document.     *)
UpIsReady == at = "up" => /\ applied = 1..Migrations /\ recorded = applied
                          /\ \A k \in Key \ Unseeded : row[k] # "none"

(* A start replaces nothing that is stored, but the sites when the devices *)
(* are missing and the devices when the sites are.                         *)
KeepsWhatIsStored ==
  [][\A k \in Key : row[k] # "none" /\ at # "up" /\ row'[k] # row[k]
       => k \in {Sites, Devices} /\ missing \cap {Sites, Devices} # {}]_vars

(* What was there as a file at the first start of a document is stored in  *)
(* the end, unless the write of it, or of the other of sites and devices,  *)
(* failed.                                                                 *)
FilesComeIn ==
  at = "up" => \A k \in files : row[k] = "default"
                 => k \in skipped \/ (k \in {Sites, Devices} /\ skipped \cap {Sites, Devices} # {})

(* The server comes up and stays, once the failures are over.              *)
ComesUp == <>[](at = "up")

(* Only documents that are missing are seeded.                             *)
SeedsOnlyMissing ==
  [][\A k \in Key : row[k] # "none" /\ at # "up" => row'[k] = row[k]]_vars
=============================================================================
