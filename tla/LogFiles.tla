-------------------------------- MODULE LogFiles --------------------------------
(***************************************************************************)
(* One of the three logs of lines (errors, diagnostics, telemetry;         *)
(* lib/logging.js) in its row of Postgres: the queue of entries that       *)
(* appends one at a time and cuts the log when it is too large, the        *)
(* retention that reads the log, drops old lines and writes it back        *)
(* (retainRecentJsonLinesFile, lib/health.js), and the purge.  Only the    *)
(* entries go through the queue.                                           *)
(*                                                                         *)
(* A statement to the database is atomic, and any may fail.  All lines     *)
(* have the same size.  purgeStaleDbRows (lib/storage.js) looks for rows   *)
(* with other names and changes nothing.                                   *)
(***************************************************************************)
EXTENDS Integers, Sequences, SequencesExt, FiniteSets

CONSTANTS
  MaxLines,    \* *_LOG_MAX_LINES
  MaxSize,     \* *_LOG_MAX_BYTES, in lines
  Retention,   \* DATA_RETENTION_MS
  MaxId,       \* bound of the entries
  MaxTime,     \* bound of the clock
  MaxFails     \* bound of the statements that fail

VARIABLES
  now,      \* Date.now()
  file,     \* the lines of the log
  waiting,  \* entries behind the one at work, with the time they were made
  writer,   \* where the entry at the head is: "idle", "stat", "read", "cut", "append"
  seen,     \* the lines the writer read
  sweep,    \* the retention holds lines it will write back
  swept,    \* those lines
  fails,    \* statements that failed
  born,     \* history: when each entry was made
  appended, \* history: entries that were appended
  lost,     \* history: entries whose append failed
  spent,    \* history: lines that a purge, the age or the size may remove
  purged,   \* history: lines a purge removed
  raced     \* history: lines appended while lines read before were held

vars == <<now, file, waiting, writer, seen, sweep, swept, fails, born,
          appended, lost, spent, purged, raced>>
histVars == <<born, appended, lost, spent, purged, raced>>

Entries == 1 .. MaxId
Made == DOMAIN born
Newest(s, n) == IF Len(s) <= n THEN s ELSE SubSeq(s, Len(s) - n + 1, Len(s))
Old(e) == born[e] < now - Retention

(* What may go from lines that were read: the old ones, and those with     *)
(* MaxLines newer ones.                                                    *)
Expendable(s) == {s[i] : i \in {j \in DOMAIN s : Old(s[j]) \/ j + MaxLines <= Len(s)}}

Fails == fails < MaxFails /\ fails' = fails + 1

Init ==
  /\ now = 1 /\ file = <<>> /\ waiting = <<>> /\ writer = "idle" /\ seen = <<>>
  /\ sweep = FALSE /\ swept = <<>> /\ fails = 0
  /\ born = <<>> /\ appended = {} /\ lost = {} /\ spent = {} /\ purged = {} /\ raced = {}

-------------------------------------------------------------------------------
(* queueErrorLogEntry and its like.                                        *)
Log ==
  /\ Len(born) < MaxId
  /\ born' = Append(born, now)
  /\ waiting' = Append(waiting, Len(born) + 1)
  /\ UNCHANGED <<now, file, writer, seen, sweep, swept, fails, appended, lost, spent, purged, raced>>

Begin ==
  /\ writer = "idle" /\ waiting # <<>>
  /\ writer' = "stat"
  /\ UNCHANGED <<now, file, waiting, seen, sweep, swept, fails, histVars>>

(* Faulty: the size is never looked at. *)
TooLargeNever == FALSE

TooLarge == Len(file) > MaxSize

Stat ==
  /\ writer = "stat"
  /\ writer' = IF TooLarge THEN "read" ELSE "append"
  /\ UNCHANGED <<now, file, waiting, seen, sweep, swept, fails, histVars>>

Read ==
  /\ writer = "read"
  /\ seen' = file /\ writer' = "cut"
  /\ UNCHANGED <<now, file, waiting, sweep, swept, fails, histVars>>

Cut ==
  /\ writer = "cut"
  /\ file' = Newest(seen, MaxLines)
  /\ spent' = spent \cup Expendable(seen)
  /\ seen' = <<>> /\ writer' = "append"
  /\ UNCHANGED <<now, waiting, sweep, swept, fails, born, appended, lost, purged, raced>>

(* A failure on the way is taken for a log that is not there yet.          *)
CutFails ==
  /\ writer \in {"stat", "read", "cut"} /\ Fails
  /\ writer' = "append" /\ seen' = <<>>
  /\ UNCHANGED <<now, file, waiting, sweep, swept, histVars>>

AppendLine ==
  /\ writer = "append"
  /\ file' = Append(file, Head(waiting))
  /\ appended' = appended \cup {Head(waiting)}
  /\ raced' = IF sweep THEN raced \cup {Head(waiting)} ELSE raced
  /\ waiting' = Tail(waiting) /\ writer' = "idle"
  /\ UNCHANGED <<now, seen, sweep, swept, fails, born, lost, spent, purged>>

(* Faulty: the queue without its catch is over after a failure. *)
AppendFailsForGood ==
  /\ writer = "append" /\ Fails
  /\ lost' = lost \cup {Head(waiting)}
  /\ waiting' = Tail(waiting) /\ writer' = "rejected"
  /\ UNCHANGED <<now, file, seen, sweep, swept, born, appended, spent, purged, raced>>

(* The catch of the queue: the entry goes to the console, the next is next. *)
AppendFails ==
  /\ writer = "append" /\ Fails
  /\ lost' = lost \cup {Head(waiting)}
  /\ waiting' = Tail(waiting) /\ writer' = "idle"
  /\ UNCHANGED <<now, file, seen, sweep, swept, born, appended, spent, purged, raced>>

(* Faulty: the oldest lines are kept. *)
KeptFirst(s) == LET young == SelectSeq(s, LAMBDA e : ~Old(e))
                IN IF Len(young) <= MaxLines THEN young ELSE SubSeq(young, 1, MaxLines)

Kept(s) == Newest(SelectSeq(s, LAMBDA e : ~Old(e)), MaxLines)

(* retainRecentJsonLinesFile up to its write, which it leaves out when the *)
(* number of lines is the same.                                            *)
Sweep ==
  /\ ~sweep
  /\ Kept(file) # file
  /\ sweep' = TRUE /\ swept' = Kept(file)
  /\ spent' = spent \cup Expendable(file)
  /\ UNCHANGED <<now, file, waiting, writer, seen, fails, born, appended, lost, purged, raced>>

(* Faulty: the lines are added to the log they came from. *)
SweptAppended ==
  /\ sweep
  /\ file' = file \o swept
  /\ sweep' = FALSE /\ swept' = <<>>
  /\ UNCHANGED <<now, waiting, writer, seen, fails, histVars>>

Swept ==
  /\ sweep
  /\ file' = swept
  /\ sweep' = FALSE /\ swept' = <<>>
  /\ UNCHANGED <<now, waiting, writer, seen, fails, histVars>>

SweepFails ==
  /\ sweep /\ Fails
  /\ sweep' = FALSE /\ swept' = <<>>
  /\ UNCHANGED <<now, file, waiting, writer, seen, histVars>>

(* purgeStorageLogs: the log is written empty.                             *)
Purge ==
  /\ file # <<>>
  /\ file' = <<>>
  /\ spent' = spent \cup ToSet(file) /\ purged' = purged \cup ToSet(file)
  /\ UNCHANGED <<now, waiting, writer, seen, sweep, swept, fails, born, appended, lost, raced>>

Tick == now < MaxTime /\ now' = now + 1
        /\ UNCHANGED <<file, waiting, writer, seen, sweep, swept, fails, histVars>>

Writer == Begin \/ Stat \/ Read \/ Cut \/ CutFails \/ AppendLine \/ AppendFails

Next == Log \/ Writer \/ Sweep \/ Swept \/ SweepFails \/ Purge \/ Tick

(* The statements of the writer end, well or not (query_timeout).          *)
Spec == Init /\ [][Next]_vars
FairSpec == Spec /\ WF_vars(Writer)

-------------------------------------------------------------------------------
(* Properties *)

TypeOK ==
  /\ now \in Nat /\ fails \in Nat
  /\ file \in Seq(Made) /\ waiting \in Seq(Made)
  /\ seen \in Seq(Made) /\ swept \in Seq(Made)
  /\ writer \in {"idle", "stat", "read", "cut", "append"}
  /\ sweep \in BOOLEAN /\ (sweep \/ swept = <<>>)
  /\ born \in Seq(Nat) /\ appended \cup lost \cup spent \cup purged \cup raced \subseteq Made

(* The log is in the order in which its entries were made, each at most    *)
(* once, whatever is written back over it and when.                        *)
LinesInOrder == \A i, j \in DOMAIN file : i < j => file[i] < file[j]

(* The log grows past its size by the line that finds it too large, and by *)
(* one more for each failure to cut it.                                    *)
SizeBounded ==
  Len(file) <= (IF MaxLines > MaxSize THEN MaxLines ELSE MaxSize) + 1 + fails

(* "Logs and telemetry are retained for up to ... days, subject to size    *)
(* caps" (lib/health.js:419): a line that was appended stays until the     *)
(* purge, its age or the size removes it, but for one that was appended    *)
(* while the retention held what it had read before.                       *)
KeptUnlessRaced == appended \subseteq ToSet(file) \cup spent \cup raced

(* Every entry is appended or given up: one that fails does not hold up    *)
(* the others.                                                             *)
EveryEntryDone == \A e \in Entries : e \in Made ~> e \in appended \cup lost

(* public/app.js:3466: "Purge all stored logs (events, error logs,         *)
(* diagnostics, raw telemetry)? This cannot be undone."                    *)
PurgedStaysOut == purged \cap ToSet(file) = {}
===============================================================================
