------------------------------- MODULE LocalSetup -------------------------------
(***************************************************************************)
(* Setup tokens: shared.localSetupState, created by the login of an        *)
(* account that lacks a password or an authenticator, and consumed by      *)
(* POST /api/auth/local/setup-password and .../verify-totp                 *)
(* (lib/auth.js, lib/routes/auth.js).                                      *)
(*                                                                         *)
(* A token is taken out of the Map before the users are saved; a password  *)
(* puts it back for its second stage when the save is done.                *)
(***************************************************************************)
EXTENDS Integers

CONSTANTS
  Tokens,    \* tokens; each is created once
  Ttl,       \* LOCAL_SETUP_TTL_MS
  MaxTime,   \* bound: the clock stops here
  None       \* no entry

Entry == [stage : {"set_password", "enroll_totp"}, createdAt : Nat]

VARIABLES
  now,        \* Date.now()
  mfa,        \* localTotpMfaEnabled()
  entry,      \* shared.localSetupState: the entry of a token, or None
  saving,     \* tokens whose handler awaits persistUsers, by what it saves
  began,      \* history: the stage a token was created for, or None
  passwords,  \* history: passwords set with a token
  sessions,   \* history: sessions issued for a token
  stale       \* history: tokens from before a factory reset, with whether
              \* their password was being saved then

vars == <<now, mfa, entry, saving, began, passwords, sessions, stale>>

-------------------------------------------------------------------------------
(* "Faulty" marks a change somebody could make to the code; the checks put *)
(* it in the place of the definition that follows it and expect a property *)
(* below to fail.                                                          *)

Over(t) == now - entry[t].createdAt > Ttl

Create(t, stage) ==
  /\ began[t] = None
  /\ entry' = [entry EXCEPT ![t] = [stage |-> stage, createdAt |-> now]]
  /\ began' = [began EXCEPT ![t] = stage]
  /\ UNCHANGED <<now, mfa, saving, passwords, sessions, stale>>

(* The login of an account without a password, or without an authenticator *)
(* when one is asked for.                                                  *)
Login(t) == Create(t, "set_password") \/ (mfa /\ Create(t, "enroll_totp"))

(* Faulty: the stage is not compared. *)
MatchesAny(t, stage) == entry[t] # None /\ ~Over(t)

Matches(t, stage) == entry[t] # None /\ ~Over(t) /\ entry[t].stage = stage

(* Faulty: the entry is only looked at: peekSetupToken. *)
ConsumePeek(t, stage) == Matches(t, stage) /\ entry' = entry

(* consumeSetupToken that returns the entry.                               *)
Consume(t, stage) == Matches(t, stage) /\ entry' = [entry EXCEPT ![t] = None]

(* consumeSetupToken and peekSetupToken that find an entry that is over.   *)
Expire(t) ==
  /\ entry[t] # None /\ Over(t)
  /\ entry' = [entry EXCEPT ![t] = None]
  /\ UNCHANGED <<now, mfa, saving, began, passwords, sessions, stale>>

(* GET /api/auth/local/totp-qr looks at the token and leaves it, unless it *)
(* is over.                                                                *)
ShowQr(t) == Expire(t) \/ (Matches(t, "enroll_totp") /\ UNCHANGED vars)

(* The housekeeping.                                                       *)
Housekeeping ==
  /\ entry' = [t \in Tokens |-> IF entry[t] # None /\ Over(t) THEN None ELSE entry[t]]
  /\ UNCHANGED <<now, mfa, saving, began, passwords, sessions, stale>>

SetPassword(t) ==
  /\ Consume(t, "set_password")
  /\ saving' = [saving EXCEPT ![t] = "password"]
  /\ UNCHANGED <<now, mfa, began, passwords, sessions, stale>>

SignedIn(t) == sessions' = [sessions EXCEPT ![t] = @ + 1]

PasswordSaved(t) ==
  /\ saving[t] = "password"
  /\ saving' = [saving EXCEPT ![t] = None]
  /\ passwords' = [passwords EXCEPT ![t] = @ + 1]
  /\ IF mfa
     THEN /\ entry' = [entry EXCEPT ![t] = [stage |-> "enroll_totp", createdAt |-> now]]
          /\ UNCHANGED sessions
     ELSE entry' = [entry EXCEPT ![t] = None] /\ SignedIn(t)
  /\ UNCHANGED <<now, mfa, began, stale>>

(* A code that does not verify costs the token, and so does a user who is  *)
(* gone.                                                                   *)
Refused(t) ==
  /\ Consume(t, "set_password") \/ (mfa /\ Consume(t, "enroll_totp"))
  /\ UNCHANGED <<now, mfa, saving, began, passwords, sessions, stale>>

VerifyTotp(t) ==
  /\ mfa
  /\ Consume(t, "enroll_totp")
  /\ saving' = [saving EXCEPT ![t] = "totp"]
  /\ UNCHANGED <<now, mfa, began, passwords, sessions, stale>>

TotpSaved(t) ==
  /\ saving[t] = "totp"
  /\ saving' = [saving EXCEPT ![t] = None]
  /\ SignedIn(t)
  /\ UNCHANGED <<now, mfa, entry, began, passwords, stale>>

(* Faulty: the request is kept for another try. *)
SaveFailsKept(t) ==
  /\ saving[t] # None
  /\ saving' = [saving EXCEPT ![t] = "failed"]
  /\ UNCHANGED <<now, mfa, entry, began, passwords, sessions, stale>>

(* persistUsers throws: the request is answered 400, the token is gone.    *)
SaveFails(t) ==
  /\ saving[t] # None
  /\ saving' = [saving EXCEPT ![t] = None]
  /\ UNCHANGED <<now, mfa, entry, began, passwords, sessions, stale>>

Cleared == [t \in Tokens |-> None]

(* Faulty: the tokens stay. *)
FactoryResetKeeps ==
  /\ stale' = [t \in Tokens |-> IF began[t] = None THEN None ELSE saving[t] = "password"]
  /\ UNCHANGED <<now, mfa, entry, saving, began, passwords, sessions>>

(* localSetupState.clear()                                                 *)
FactoryReset ==
  /\ entry' = Cleared
  /\ stale' = [t \in Tokens |-> IF began[t] = None THEN None ELSE saving[t] = "password"]
  /\ UNCHANGED <<now, mfa, saving, began, passwords, sessions>>

(* The tokens are not stored.                                              *)
Restart ==
  /\ entry' = Cleared /\ saving' = Cleared
  /\ UNCHANGED <<now, mfa, began, passwords, sessions, stale>>

SwitchMfa == mfa' = ~mfa /\ UNCHANGED <<now, entry, saving, began, passwords, sessions, stale>>

Tick == now < MaxTime /\ now' = now + 1
        /\ UNCHANGED <<mfa, entry, saving, began, passwords, sessions, stale>>

Init ==
  /\ now = 0 /\ mfa \in BOOLEAN
  /\ entry = Cleared /\ saving = Cleared /\ began = Cleared /\ stale = Cleared
  /\ passwords = [t \in Tokens |-> 0] /\ sessions = [t \in Tokens |-> 0]

Next ==
  \/ \E t \in Tokens :
       \/ Login(t) \/ Expire(t) \/ ShowQr(t) \/ SetPassword(t) \/ PasswordSaved(t)
       \/ Refused(t) \/ VerifyTotp(t) \/ TotpSaved(t) \/ SaveFails(t)
  \/ Housekeeping \/ FactoryReset \/ Restart \/ SwitchMfa \/ Tick

Spec == Init /\ [][Next]_vars

-------------------------------------------------------------------------------
(* Properties *)

TypeOK ==
  /\ now \in Nat /\ mfa \in BOOLEAN
  /\ entry \in [Tokens -> Entry \cup {None}]
  /\ saving \in [Tokens -> {"password", "totp", None}]
  /\ began \in [Tokens -> {"set_password", "enroll_totp", None}]
  /\ passwords \in [Tokens -> Nat] /\ sessions \in [Tokens -> Nat]
  /\ stale \in [Tokens -> BOOLEAN \cup {None}]

(* A token sets one password and signs in once, however the requests that  *)
(* carry it overlap and whatever the setting is between its stages.        *)
OncePerToken == \A t \in Tokens : passwords[t] <= 1 /\ sessions[t] <= 1

(* A token that was created to set a password signs in only after it did,  *)
(* and one that was created to enrol sets none.                            *)
StagesInOrder ==
  \A t \in Tokens :
    /\ began[t] = "set_password" /\ sessions[t] > 0 => passwords[t] = 1
    /\ began[t] = "enroll_totp" => passwords[t] = 0 /\ saving[t] # "password"

(* A factory reset ends every setup but one whose password was being saved *)
(* at that moment, which puts its token back when it is done.              *)
ResetEndsSetup ==
  \A t \in Tokens : stale[t] = FALSE => entry[t] = None
===============================================================================
