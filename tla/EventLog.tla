-------------------------------- MODULE EventLog --------------------------------
(***************************************************************************)
(* The event log in memory, newest row first (lib/events.js), with its     *)
(* throttle, its two limits and its copy in the store.  A row of a         *)
(* throttled event says how many of its kind were left out before it.      *)
(*                                                                         *)
(* That a flush takes time, and what that does to the flag, is in          *)
(* StatePersistence; here it is one step.                                  *)
(***************************************************************************)
EXTENDS Integers, Sequences, SequencesExt

CONSTANTS
  Key,        \* kinds of throttled events
  Plain,      \* the events that are not throttled
  Interval,   \* minIntervalMs of a kind
  Cap,        \* EVENT_RETENTION
  Retention,  \* DATA_RETENTION_MS
  MaxCount,   \* bound of the events of each kind
  MaxTime     \* bound of the clock

Kind == Key \cup {Plain}

Row == [key : Kind, ts : Nat, suppressed : Nat, nth : Nat, era : Nat]

VARIABLES
  now,       \* Date.now()
  events,    \* state.events
  throttle,  \* state.eventThrottle
  stored,    \* the log in the store
  count,     \* history: events of each kind so far; a row has its number as nth
  era,       \* history: how often the throttle was emptied
  made       \* history: the rows made since the log was emptied or loaded, newest first

vars == <<now, events, throttle, stored, count, era, made>>

Fresh == [lastAt |-> 0, suppressed |-> 0]
Old(r) == r.ts < now - Retention

Init ==
  /\ now = Interval[CHOOSE k \in Key : \A j \in Key : Interval[k] >= Interval[j]]
  /\ events = <<>> /\ stored = <<>> /\ made = <<>>
  /\ throttle = [k \in Key |-> Fresh]
  /\ count = [k \in Kind |-> 0] /\ era = 0

-------------------------------------------------------------------------------
FirstOf(s, n) == IF Len(s) <= n THEN s ELSE SubSeq(s, 1, n)

(* Faulty: a full log takes no more. *)
LogEventFull(r) ==
  /\ events' = IF Len(events) < Cap THEN <<r>> \o events ELSE events
  /\ made' = <<r>> \o made

LogEvent(r) ==
  /\ events' = FirstOf(<<r>> \o events, Cap)
  /\ made' = <<r>> \o made

(* Faulty: the row itself is taken off. *)
NewRowLess(k, n) ==
  [key |-> k, ts |-> now, suppressed |-> n - 1, nth |-> count[k] + 1, era |-> era]

NewRow(k, n) == [key |-> k, ts |-> now, suppressed |-> n, nth |-> count[k] + 1, era |-> era]

Counted(k) == count[k] < MaxCount[k] /\ count' = [count EXCEPT ![k] = @ + 1]

Throttled(k) == now - throttle[k].lastAt < Interval[k]

Suppress(k) ==
  /\ Counted(k) /\ Throttled(k)
  /\ throttle' = [throttle EXCEPT ![k].suppressed = @ + 1]
  /\ UNCHANGED <<now, events, stored, era, made>>

(* Faulty: the number goes on growing. *)
WindowKept(k) == [throttle[k] EXCEPT !.lastAt = now]

(* Faulty: windows follow each other without a gap. *)
WindowNext(k) == [lastAt |-> throttle[k].lastAt + Interval[k], suppressed |-> 0]

Opened(k) == [lastAt |-> now, suppressed |-> 0]

Pass(k) ==
  /\ Counted(k) /\ ~Throttled(k)
  /\ throttle' = [throttle EXCEPT ![k] = Opened(k)]
  /\ LogEvent(NewRow(k, throttle[k].suppressed))
  /\ UNCHANGED <<now, stored, era>>

LogPlain ==
  /\ Counted(Plain)
  /\ LogEvent(NewRow(Plain, 0))
  /\ UNCHANGED <<now, throttle, stored, era>>

(* Faulty: the rows come out oldest first. *)
PrunedTail == FirstOf(Reverse(SelectSeq(events, LAMBDA r : ~Old(r))), Cap)

(* Faulty: the age is looked at only when the log is full. *)
PrunedWhenFull == IF Len(events) < Cap THEN events
                  ELSE FirstOf(SelectSeq(events, LAMBDA r : ~Old(r)), Cap)

Pruned == FirstOf(SelectSeq(events, LAMBDA r : ~Old(r)), Cap)

(* enforceStorageRetention: the log is replaced when the pruned one        *)
(* differs, and stored.                                                    *)
Retain ==
  /\ Pruned # events
  /\ events' = Pruned /\ stored' = Pruned
  /\ UNCHANGED <<now, throttle, count, era, made>>

Flush ==
  /\ stored # events
  /\ stored' = events
  /\ UNCHANGED <<now, events, throttle, count, era, made>>

(* Faulty: the windows stay when the log is emptied. *)
EmptiedThrottled ==
  /\ events' = <<>> /\ stored' = <<>> /\ made' = <<>>
  /\ throttle' = [k \in Key |-> [throttle[k] EXCEPT !.suppressed = 0]]
  /\ UNCHANGED <<now, count, era>>

(* purgeStorageLogs and the factory reset.                                 *)
Emptied ==
  /\ events' = <<>> /\ stored' = <<>> /\ made' = <<>>
  /\ throttle' = [k \in Key |-> Fresh] /\ era' = era + 1
  /\ UNCHANGED <<now, count>>

Empty == era < 2 /\ Emptied

(* The rows that were not stored are gone, and so are all windows.         *)
Restart ==
  /\ era < 2 /\ era' = era + 1
  /\ events' = stored /\ made' = stored
  /\ throttle' = [k \in Key |-> Fresh]
  /\ UNCHANGED <<now, stored, count>>

Tick == now < MaxTime /\ now' = now + 1
        /\ UNCHANGED <<events, throttle, stored, count, era, made>>

Next == \/ \E k \in Key : Suppress(k) \/ Pass(k)
        \/ LogPlain \/ Retain \/ Flush \/ Empty \/ Restart \/ Tick

Spec == Init /\ [][Next]_vars

(* The interval of the retention runs on.                                  *)
FairSpec == Spec /\ WF_vars(Retain)

-------------------------------------------------------------------------------
(* Properties *)

TypeOK ==
  /\ now \in Nat /\ era \in Nat
  /\ events \in Seq(Row) /\ stored \in Seq(Row) /\ made \in Seq(Row)
  /\ throttle \in [Key -> [lastAt : Nat, suppressed : Nat]]
  /\ count \in [Kind -> Nat]

(* The log holds the newest rows there are: a row that was made and is not *)
(* in it is old, or Cap newer ones were made; and it is never out of order *)
(* or larger than its cap, whatever is cut, pruned, stored and loaded.     *)
NewestRowsKept ==
  /\ Len(events) <= Cap
  /\ \A i, j \in DOMAIN events : i < j => events[i].ts >= events[j].ts
  /\ \A i \in DOMAIN made : made[i] \in ToSet(events) \/ Old(made[i]) \/ i > Cap

(* The rows account for every event: what lies between two neighbouring    *)
(* rows of a kind is what the newer one says was left out, so that a       *)
(* reader who adds up rows and numbers gets the number of events; only     *)
(* where the throttle was emptied in between can there have been more.     *)
NumbersAddUp ==
  \A k \in Key : LET s == SelectSeq(events, LAMBDA r : r.key = k)
                 IN \A i \in 2 .. Len(s) :
    LET between == s[i - 1].nth - s[i].nth - 1
    IN IF s[i - 1].era = s[i].era THEN between = s[i - 1].suppressed
                                  ELSE between >= s[i - 1].suppressed

(* Rows of a kind are Interval apart while the throttle lasts.             *)
RowsApart ==
  \A i, j \in DOMAIN events :
    LET newer == events[i] older == events[j]
    IN i < j /\ newer.key = older.key /\ newer.key # Plain /\ newer.era = older.era
         => newer.ts - older.ts >= Interval[newer.key]

(* After a purge or a reset the next event of a kind is logged, however    *)
(* short a time ago the last one was: an empty log never swallows one.     *)
EmptyLogTakesAll == \A k \in Key : made = <<>> => ~Throttled(k)

(* "Logs and telemetry are retained for up to ... days"                    *)
(* (lib/health.js:419): old rows go, one day, also those that a restart    *)
(* loads.                                                                  *)
OldRowsGo ==
  (\E i \in DOMAIN events : Old(events[i])) ~> (\A i \in DOMAIN events : ~Old(events[i]))
===============================================================================
