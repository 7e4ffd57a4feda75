------------------------------ MODULE LoginLockout ------------------------------
(***************************************************************************)
(* The account lockout of the local login: loginAccountFailures in         *)
(* lib/ratelimit.js, and POST /api/auth/local/login with the two setup     *)
(* routes of lib/routes/auth.js, which read and write it.                  *)
(*                                                                         *)
(* Between reading the lock and recording a failure the login awaits       *)
(* nothing: an attempt that fails is one step.  An attempt that succeeds   *)
(* with a one-time code, and a setup, await persistUsers before they clear *)
(* the failures.                                                           *)
(***************************************************************************)
EXTENDS Integers, Sequences, FiniteSets

CONSTANTS
  Ids,         \* login identifiers, normalised
  Email,       \* the address of the account an identifier names
  Threshold,   \* LOGIN_ACCOUNT_FAILURE_THRESHOLD
  Window,      \* LOGIN_ACCOUNT_FAILURE_WINDOW_MS
  LockFor,     \* LOGIN_ACCOUNT_LOCK_MS
  MaxRows,     \* rows kept before the stale ones are dropped: 10000
  MaxTime,     \* bound: the clock stops here
  MaxSaving,   \* bound: successes that await their save, per identifier
  None         \* no row

Row == [failures : 0..(Threshold - 1), windowStartedAtMs : Nat, lockedUntilMs : Nat]

VARIABLES
  now,      \* Date.now()
  row,      \* loginAccountFailures: the row of an identifier, or None
  saving,   \* successes with that identifier that await persistUsers
  failed    \* history: times of the checked and failed attempts with an
            \* identifier since its failures were cleared

vars == <<now, row, saving, failed>>

Locked(r) == r # None /\ r.lockedUntilMs > now
-------------------------------------------------------------------------------
(* "Faulty" marks a change somebody could make to the code; the checks put *)
(* it in the place of the definition that follows it and expect a property *)
(* below to fail.                                                          *)

(* Faulty: the window ends a tick late. *)
OverLate(r) == now - r.windowStartedAtMs > Window + 1

Over(r) == now - r.windowStartedAtMs > Window

(* The row a failure is counted in.                                        *)
Kept(rows, id) ==
  IF rows[id] = None \/ Over(rows[id])
  THEN [failures |-> 0, windowStartedAtMs |-> now, lockedUntilMs |-> 0]
  ELSE rows[id]

(* Faulty: the lock is set one failure late. *)
CountLate(r) ==
  IF r.failures >= Threshold
  THEN [r EXCEPT !.failures = 0, !.lockedUntilMs = now + LockFor]
  ELSE [r EXCEPT !.failures = @ + 1]

(* Faulty: a window has one lock. *)
CountOnce(r) ==
  IF r.lockedUntilMs > 0 THEN r
  ELSE IF r.failures + 1 >= Threshold
  THEN [r EXCEPT !.failures = 0, !.lockedUntilMs = now + LockFor]
  ELSE [r EXCEPT !.failures = @ + 1]

Count(r) ==
  IF r.failures + 1 >= Threshold
  THEN [failures |-> 0, windowStartedAtMs |-> r.windowStartedAtMs, lockedUntilMs |-> now + LockFor]
  ELSE [r EXCEPT !.failures = @ + 1]

(* Faulty: the clean-up looks at the window alone. *)
StaleWindow(r) == r # None /\ Over(r)

Stale(r) == r # None /\ r.lockedUntilMs <= now /\ Over(r)

(* Above MaxRows the stale rows are dropped before a failure is counted.   *)
Trimmed(rows) ==
  IF Cardinality({id \in Ids : rows[id] # None}) > MaxRows
  THEN [id \in Ids |-> IF Stale(rows[id]) THEN None ELSE rows[id]]
  ELSE rows

(* getLoginAccountLockState: it answers "locked", or drops the row of an   *)
(* identifier whose window is over.                                        *)
Open(id) == ~Locked(row[id])
Asked(id) == IF row[id] # None /\ Over(row[id]) THEN [row EXCEPT ![id] = None] ELSE row

(* recordLoginAccountFailure, after the lock was asked for.                *)
Recorded(id) ==
  LET rows == Trimmed(Asked(id)) IN [rows EXCEPT ![id] = Count(Kept(rows, id))]

(* Wrong password, wrong code or no such user.                             *)
BadAttempt(id) ==
  /\ Open(id)
  /\ row' = Recorded(id)
  /\ failed' = [failed EXCEPT ![id] = Append(@, now)]
  /\ UNCHANGED <<now, saving>>

(* A correct password without its code, an account without a password, an  *)
(* enrolment: nothing is counted.                                          *)
OpenAttempt(id) ==
  /\ Open(id)
  /\ row' = Asked(id)
  /\ UNCHANGED <<now, saving, failed>>

(* clearLoginAccountFailures of some identifiers.                          *)
Forget(ids) ==
  /\ row' = [id \in Ids |-> IF id \in ids THEN None ELSE row[id]]
  /\ failed' = [id \in Ids |-> IF id \in ids THEN <<>> ELSE failed[id]]

(* A login with password alone: the answer of the check and the clearing   *)
(* are one step.                                                           *)
PasswordLogin(id) ==
  /\ Open(id)
  /\ Forget({id, Email[id]})
  /\ UNCHANGED <<now, saving>>

(* A login with password and code, which saves the users first.            *)
CodeLogin(id) ==
  /\ Open(id)
  /\ row' = Asked(id)
  /\ saving[id] < MaxSaving
  /\ saving' = [saving EXCEPT ![id] = @ + 1]
  /\ UNCHANGED <<now, failed>>

(* setup-password and verify-totp do not ask for the lock, and clear the   *)
(* address alone.                                                          *)
Setup(id) ==
  /\ Email[id] = id
  /\ saving[id] < MaxSaving
  /\ saving' = [saving EXCEPT ![id] = @ + 1]
  /\ UNCHANGED <<now, row, failed>>

Saved(id) ==
  /\ saving[id] > 0
  /\ saving' = [saving EXCEPT ![id] = @ - 1]
  /\ Forget({id, Email[id]})
  /\ UNCHANGED now

(* persistUsers throws: the request is answered 400.                       *)
SaveFails(id) ==
  /\ saving[id] > 0
  /\ saving' = [saving EXCEPT ![id] = @ - 1]
  /\ UNCHANGED <<now, row, failed>>

(* loginAccountFailures.clear()                                            *)
FactoryReset ==
  /\ Forget(Ids)
  /\ UNCHANGED <<now, saving>>

Tick == now < MaxTime /\ now' = now + 1 /\ UNCHANGED <<row, saving, failed>>

Init ==
  /\ now = 0
  /\ row = [id \in Ids |-> None]
  /\ saving = [id \in Ids |-> 0]
  /\ failed = [id \in Ids |-> <<>>]

Next ==
  \/ \E id \in Ids : \/ BadAttempt(id) \/ OpenAttempt(id)
                     \/ PasswordLogin(id) \/ CodeLogin(id) \/ Setup(id)
                     \/ Saved(id) \/ SaveFails(id)
  \/ FactoryReset \/ Tick

Spec == Init /\ [][Next]_vars

-------------------------------------------------------------------------------
(* Properties *)

TypeOK ==
  /\ now \in Nat
  /\ row \in [Ids -> Row \cup {None}]
  /\ saving \in [Ids -> Nat]
  /\ failed \in [Ids -> Seq(Nat)]

Least(a, b) == IF a < b THEN a ELSE b

(* Of 2 * Threshold failures in a row with one identifier the last comes a *)
(* lock or a window after the first: the counter is reset when the lock is *)
(* set and the window keeps running, and still no row lets more through.   *)
FailuresSpread ==
  \A id \in Ids : \A i \in DOMAIN failed[id] :
    i + 2 * Threshold - 1 <= Len(failed[id])
      => failed[id][i + 2 * Threshold - 1] - failed[id][i] >= Least(LockFor, Window + 1)

(* An identifier is locked only by Threshold failures of its own, all      *)
(* within one window.                                                      *)
LockedByOwnFailures ==
  \A id \in Ids : Locked(row[id]) =>
    /\ Len(failed[id]) >= Threshold
    /\ LET n == Len(failed[id]) IN
       /\ failed[id][n] + LockFor = row[id].lockedUntilMs
       /\ failed[id][n] - failed[id][n - Threshold + 1] <= Window

(* A lock is neither lengthened by further attempts nor dropped before its *)
(* end, except by a success of that account or a factory reset.            *)
LockStands ==
  [][\A id \in Ids : Locked(row[id]) /\ failed'[id] # <<>>
       => row'[id] # None /\ row'[id].lockedUntilMs = row[id].lockedUntilMs]_vars

===============================================================================
