------------------------------ MODULE LoginPage ------------------------------
(***************************************************************************)
(* The page of the local login (public/login.js): its form, and the dialog *)
(* that sets a password and enrolls an authenticator with a setup token,   *)
(* with the answers of lib/routes/auth.js.  Form, dialog and the question  *)
(* whether there are accounts at all are asked independently of each       *)
(* other, and their answers come in any order.                             *)
(*                                                                         *)
(* One page and one account.  What else the server does with its tokens is *)
(* in LocalSetup, its lockout in LoginLockout.                             *)
(***************************************************************************)
EXTENDS Naturals

CONSTANTS
  Tokens,       \* bound: tokens at a time, 1..n; 0 is none
  MaxMistakes,  \* bound: wrong passwords and codes
  MaxFailures   \* bound: writes that fail and tokens that are lost

VARIABLES
  account,   \* on the server: [password, totp]
  mfa,       \* localTotpMfaEnabled()
  entry,     \* shared.localSetupState: the stage of each token, "none" without one
  page,      \* registerDialog, registerStage, registerSetupToken, the secret that is
             \* shown (by its token), the field of the code, what the dialog says,
             \* and whether the page has been left
  login, register,  \* the request of the form, and of the dialog
  health,    \* the request for setupRequired
  mistakes, failures

pageVars == <<account, mfa, entry, page, login, register, health, mistakes, failures>>
counts == <<mistakes, failures>>
serverVars == <<account, mfa, entry>>

NoRequest == [at |-> "no", stage |-> "login", right |-> FALSE, code |-> FALSE, token |-> 0]
FaultyReset(p) == [p EXCEPT !.stage = "username", !.secret = 0, !.says = "nothing"]
Reset(p) == [p EXCEPT !.stage = "username", !.token = 0, !.secret = 0, !.says = "nothing"]
Opened(p) == [Reset(p) EXCEPT !.dialog = TRUE]

Init == /\ account \in [password : BOOLEAN, totp : {"none", "set", "invalid"}]
        /\ account.totp # "none" => account.password
        /\ mfa \in BOOLEAN /\ entry = [t \in Tokens |-> "none"]
        /\ page = [dialog |-> FALSE, stage |-> "username", token |-> 0, secret |-> 0,
                   field |-> FALSE, says |-> "nothing", left |-> FALSE]
        /\ login = NoRequest /\ register = NoRequest /\ health = "asked"
        /\ mistakes = 0 /\ failures = 0

Setup == {"set_password", "enroll_totp"}
Mistaken(right) == mistakes + (IF right THEN 0 ELSE 1)
-------------------------------------------------------------------------------
(* GET /api/health: without an account the dialog opens.                   *)
ServeHealth == /\ health = "asked" /\ health' = IF account.password THEN "fine" ELSE "required"
               /\ UNCHANGED <<serverVars, page, login, register, counts>>
HealthAnswered == /\ health \in {"fine", "required"} /\ ~page.left /\ health' = "done"
                  /\ page' = IF health = "required" THEN Opened(page) ELSE page
                  /\ UNCHANGED <<serverVars, login, register, counts>>

-------------------------------------------------------------------------------
(* The form. The field of the code must be filled once it is there.        *)
Login(right) == /\ ~page.dialog /\ ~page.left /\ login.at = "no"
                /\ mistakes' = Mistaken(right) /\ mistakes' <= MaxMistakes
                /\ login' = [NoRequest EXCEPT !.at = "sent", !.right = right, !.code = page.field]
                /\ UNCHANGED <<serverVars, page, register, health, failures>>
(* The dialog. *)
Submit(right) == /\ page.dialog /\ ~page.left /\ register.at = "no"
                 /\ mistakes' = Mistaken(right) /\ mistakes' <= MaxMistakes
                 /\ register' = [NoRequest EXCEPT !.at = "sent", !.right = right,
                                                  !.stage = page.stage, !.token = page.token]
                 /\ UNCHANGED <<serverVars, page, login, health, failures>>
Cancel == /\ page.dialog /\ ~page.left /\ page' = [Reset(page) EXCEPT !.dialog = FALSE]
          /\ UNCHANGED <<serverVars, login, register, health, counts>>

-------------------------------------------------------------------------------
(* POST /api/auth/local/login, of the form, and of the dialog with an      *)
(* empty password.                                                         *)
Spare == CHOOSE t \in Tokens : t \notin {page.token, login.token, register.token}
LoginAnswer(r) ==
  IF ~account.password THEN "set_password"
  ELSE IF ~r.right \/ r.stage = "username" THEN "error"
  ELSE IF ~mfa THEN "ok"
  ELSE IF account.totp = "invalid" THEN "error"
  ELSE IF account.totp = "none" THEN "enroll_totp"
  ELSE IF ~r.code THEN "verify_totp" ELSE "ok"
Answered(r, kind) == [r EXCEPT !.at = kind, !.token = IF kind \in Setup THEN Spare ELSE 0]
Created(kind) == entry' = IF kind \in Setup THEN [entry EXCEPT ![Spare] = kind] ELSE entry
ServeLogin == /\ login.at = "sent" /\ Created(LoginAnswer(login))
              /\ login' = Answered(login, LoginAnswer(login))
              /\ UNCHANGED <<account, mfa, page, register, health, counts>>
ServeName == /\ register.at = "sent" /\ register.stage = "username"
             /\ Created(LoginAnswer(register)) /\ register' = Answered(register, LoginAnswer(register))
             /\ UNCHANGED <<account, mfa, page, login, health, counts>>
(* The two stages: the token is consumed, whatever comes of it. *)
Refuse(stage) == /\ register.at = "sent" /\ register.stage = stage
                 /\ register.token = 0 \/ entry[register.token] # stage
                 /\ register' = [register EXCEPT !.at = "error", !.token = 0]
                 /\ UNCHANGED <<serverVars, page, login, health, counts>>
Consumed == register.at = "sent" /\ register.token # 0 /\ entry[register.token] = register.stage
FaultyServePassword(written) ==
  /\ Consumed /\ register.stage = "set_password"
  /\ account' = [account EXCEPT !.password = TRUE]
  /\ failures' = failures + (IF written THEN 0 ELSE 1) /\ failures' <= MaxFailures
  /\ entry' = [entry EXCEPT ![register.token] = IF written /\ mfa THEN "set_password" ELSE "none"]
  /\ register' = [register EXCEPT !.at = IF ~written THEN "error" ELSE IF mfa THEN "enroll_totp" ELSE "ok"]
  /\ UNCHANGED <<mfa, page, login, health, mistakes>>
ServePassword(written) ==
  /\ Consumed /\ register.stage = "set_password"
  /\ account' = [account EXCEPT !.password = TRUE]
  /\ failures' = failures + (IF written THEN 0 ELSE 1) /\ failures' <= MaxFailures
  /\ entry' = [entry EXCEPT ![register.token] = IF written /\ mfa THEN "enroll_totp" ELSE "none"]
  /\ register' = [register EXCEPT !.at = IF ~written THEN "error" ELSE IF mfa THEN "enroll_totp" ELSE "ok"]
  /\ UNCHANGED <<mfa, page, login, health, mistakes>>
ServeCode(written) ==
  /\ Consumed /\ register.stage = "enroll_totp"
  /\ failures' = failures + (IF written THEN 0 ELSE 1) /\ failures' <= MaxFailures
  /\ written \/ register.right
  /\ account' = IF register.right THEN [account EXCEPT !.totp = "set"] ELSE account
  /\ entry' = [entry EXCEPT ![register.token] = "none"]
  /\ register' = [register EXCEPT !.at = IF written /\ register.right THEN "ok" ELSE "error"]
  /\ UNCHANGED <<mfa, page, login, health, mistakes>>
(* A token gets too old, or the server starts anew. *)
Lose == \E t \in Tokens : /\ entry[t] # "none" /\ failures < MaxFailures
                          /\ failures' = failures + 1
                          /\ entry' = [entry EXCEPT ![t] = "none"]
                          /\ UNCHANGED <<account, mfa, page, login, register, health, mistakes>>

-------------------------------------------------------------------------------
At(p, stage, token) == [p EXCEPT !.stage = stage, !.token = token,
                                 !.secret = IF stage = "enroll_totp" THEN token ELSE 0,
                                 !.says = "nothing"]
LoginAnswered == /\ login.at \notin {"no", "sent"} /\ ~page.left /\ login' = NoRequest
                 /\ page' = CASE login.at \in Setup ->
                                   [At(Opened(page), login.at, login.token)
                                      EXCEPT !.field = @ /\ login.at # "enroll_totp"]
                              [] login.at = "verify_totp" -> [page EXCEPT !.field = TRUE]
                              [] login.at = "ok" -> [page EXCEPT !.left = TRUE]
                              [] OTHER -> page
                 /\ UNCHANGED <<serverVars, register, health, counts>>
(* What an error says depends on the stage the dialog is at by then.       *)
Says(stage) == CASE stage = "username" -> "contact" [] stage = "set_password" -> "requirements"
                 [] OTHER -> "try again"
FaultySubmitAnswered == /\ register.at \notin {"no", "sent"} /\ ~page.left
                        /\ register' = IF register.at = "error" THEN register ELSE NoRequest
                        /\ page' = CASE register.at \in Setup -> At(page, register.at, register.token)
                                     [] register.at = "ok" -> [page EXCEPT !.left = TRUE]
                                     [] OTHER -> [page EXCEPT !.says = Says(page.stage)]
                        /\ UNCHANGED <<serverVars, login, health, counts>>
SubmitAnswered == /\ register.at \notin {"no", "sent"} /\ ~page.left /\ register' = NoRequest
                  /\ page' = CASE register.at \in Setup -> At(page, register.at, register.token)
                               [] register.at = "ok" -> [page EXCEPT !.left = TRUE]
                               [] OTHER -> [page EXCEPT !.says = Says(page.stage)]
                  /\ UNCHANGED <<serverVars, login, health, counts>>

Serve == \/ ServeName \/ Refuse("set_password") \/ Refuse("enroll_totp")
         \/ \E written \in BOOLEAN : ServePassword(written) \/ ServeCode(written)
Answers == LoginAnswered \/ SubmitAnswered
Next == \/ ServeLogin \/ ServeHealth \/ HealthAnswered \/ Cancel \/ Lose \/ Serve \/ Answers
        \/ \E right \in BOOLEAN : Login(right) \/ Submit(right)
(* Requests are answered; somebody who wants to sign in tries again and    *)
(* again, gives a dialog up that does not lead on, and means to be right.  *)
Spec == /\ Init /\ [][Next]_pageVars
        /\ WF_pageVars(ServeHealth \/ HealthAnswered) /\ WF_pageVars(ServeLogin) /\ WF_pageVars(Serve)
        /\ SF_pageVars(LoginAnswered) /\ SF_pageVars(SubmitAnswered)
        /\ SF_pageVars(Login(TRUE)) /\ SF_pageVars(Submit(TRUE)) /\ WF_pageVars(Cancel)

-------------------------------------------------------------------------------
TypeOK == /\ page.stage = "username" <=> page.token = 0
          /\ page.token \in Tokens \cup {0} /\ \A t \in Tokens : entry[t] \in {"none"} \cup Setup
          /\ page.left => login.at # "sent" \/ register.at # "sent"

(* The stage of the dialog is the one its token is for, as far as there is *)
(* such a token and no request with it is under way; and the secret that   *)
(* is shown is the token's.                                                *)
StageFits == /\ page.token # 0 /\ register.token # page.token /\ entry[page.token] # "none"
                => entry[page.token] = page.stage
             /\ page.secret # 0 => page.secret = page.token /\ page.stage = "enroll_totp"

(* Whoever goes on gets in, unless the stored authenticator cannot be      *)
(* read: no mistake, lost token or failed write, and no order of the       *)
(* answers, leaves the page where nothing helps.                           *)
GetsIn == (mfa /\ account.totp = "invalid") \/ <>page.left

(* "Check your authenticator app and try again."                           *)
(* (src/public/login.js:348): there is a token to try again with.          *)
TryAgainWorks == page.says = "try again" => entry[page.token] = "enroll_totp"
=============================================================================
