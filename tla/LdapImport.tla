----------------------------- MODULE LdapImport -----------------------------
(***************************************************************************)
(* The directory of the settings (lib/ldap.js, the routes ldap, ldap/test  *)
(* and ldap/import of lib/routes/settings.js, the form and the dialog of   *)
(* public/app.js): the configuration is saved and taken back, a test reads *)
(* two groups of the directory in steps, its base DN is kept, and what it  *)
(* found is approved and imported as users.                                *)
(*                                                                         *)
(* A base DN is named by the server it belongs to.  A member is known by   *)
(* its account name, or by its common name when only the group's list of   *)
(* DNs could be read.  The directory answers or fails as it likes, with    *)
(* groups that do not change.                                              *)
(***************************************************************************)
EXTENDS Naturals, Sequences

CONSTANTS
  People,            \* those in the directory
  Admins, Monitors,  \* its two groups
  Servers, First,    \* domain controllers; the one configured at first
  Tests,             \* bound: tests, 1..n
  MaxEdits           \* bound: changes of the form

VARIABLES
  posix,   \* whether the groups are posixGroup entries, which have no mail
  config,  \* shared.ldapRuntimeConfig: [server, base, pass]
  form,    \* the fields of the form; pass is "mask" unless it is typed
  known,   \* ldapConfigState, without the password
  undo,    \* the undo of the last save: what it sends, and the configuration it is of; Nothing
  back,    \* history: the configuration that has just been taken back; Nothing
  tests,   \* each test on the server
  page,    \* the dialog: [open, pending, table, approve, busy]
  import,  \* the import under way: [at, list, before]
  users,   \* the role each user has; a user is a person under one of three names
  roles,   \* shared.userRoleDirectory
  edits

ldapVars == <<posix, config, form, known, undo, back, tests, page, import, users, roles, edits>>
formVars == <<form, known, undo, back, edits>>
userVars == <<import, users, roles>>

Nothing == [none |-> TRUE]
Names == [who : People, as : {"account", "cn", "mail"}]
Shown(c) == [server |-> c.server, base |-> c.base]
NoImport == [at |-> "no", list |-> {}, before |-> {}]

-------------------------------------------------------------------------------
Untested == [at |-> "no", server |-> First, base |-> "", given |-> TRUE, open |-> FALSE,
             list |-> {}, read |-> <<>>, copy |-> Nothing]
Init == /\ posix \in BOOLEAN
        /\ config = [server |-> First, base |-> "", pass |-> 1]
        /\ form = [server |-> First, base |-> "", pass |-> "mask"] /\ known = Shown(config)
        /\ undo = Nothing /\ back = Nothing /\ edits = 0
        /\ tests = [t \in Tests |-> Untested]
        /\ page = [open |-> FALSE, pending |-> {}, table |-> {}, approve |-> FALSE, busy |-> FALSE]
        /\ import = NoImport
        /\ users \in [Names -> {"none", "monitor"}]
        /\ \A n \in Names : users[n] # "none" => n.as \in {"account", "mail"}
        /\ roles = users

-------------------------------------------------------------------------------
(* The form: a server with its base DN or none, and the password.          *)
Edit == \E s \in Servers, named \in BOOLEAN, p \in {"mask", "typed"} :
          /\ ~page.open /\ edits < MaxEdits
          /\ form' = [server |-> s, base |-> IF named THEN s ELSE "", pass |-> p]
          /\ edits' = edits + 1
          /\ UNCHANGED <<config, known, undo, back, tests, page, userVars>>
Loaded(c) == form' = [server |-> c.server, base |-> c.base, pass |-> "mask"] /\ known' = Shown(c)
Patched(sent) == [config EXCEPT !.server = sent.server, !.base = sent.base,
                                !.pass = IF sent.pass = "typed" THEN @ + 1 ELSE @]
Save == /\ ~page.open /\ form.server # "" /\ config.pass < 1 + MaxEdits
        /\ config' = Patched(form) /\ Loaded(config')
        /\ undo' = [server |-> known.server, base |-> known.base, pass |-> "mask", of |-> config]
        /\ back' = Nothing
        /\ UNCHANGED <<tests, page, userVars, edits>>
(* A password that is set is masked, so that the undo cannot send it. *)
Undo == /\ ~page.open /\ undo # Nothing
        /\ config' = Patched(undo) /\ Loaded(config')
        /\ undo' = Nothing /\ back' = undo.of
        /\ UNCHANGED <<tests, page, userVars, edits>>

-------------------------------------------------------------------------------
(* testLdapConnection, one step for each answer of the server.             *)
Set(t, r) == tests' = [tests EXCEPT ![t] = r]
Press(t) == /\ ~page.open /\ tests[t].at = "no" /\ \A u \in Tests : u < t => tests[u].at # "no"
            /\ page' = [page EXCEPT !.open = TRUE, !.pending = {}, !.table = {}, !.approve = FALSE]
            /\ Set(t, [Untested EXCEPT !.at = "ping", !.server = form.server, !.base = form.base,
                                       !.given = form.base # ""])
            /\ UNCHANGED <<config, formVars, userVars>>
Close == /\ page.open /\ page' = [page EXCEPT !.open = FALSE]
         /\ UNCHANGED <<config, formVars, tests, userVars>>

Step(t, at) == tests[t].at = at /\ UNCHANGED <<config, formVars, page, userVars>>
FaultyFailed(r) == [r EXCEPT !.at = "answered", !.list = {}]
(* A step that fails ends the test, and the connection to the directory. *)
Failed(r) == [r EXCEPT !.at = "answered", !.list = {}, !.open = FALSE]
Ping(t) == Step(t, "ping") /\ \/ Set(t, [tests[t] EXCEPT !.at = "bind"])
                              \/ Set(t, Failed(tests[t]))
Bind(t) == LET r == [tests[t] EXCEPT !.open = TRUE] IN
  /\ Step(t, "bind")
  /\ \/ Set(t, [r EXCEPT !.at = IF r.given THEN "admins" ELSE "discover"])
     \/ Set(t, Failed(r))
(* discoverBaseDn: the naming context the server names first. *)
Discovered(server) == server
Discover(t) == Step(t, "discover")
               /\ \/ Set(t, [tests[t] EXCEPT !.at = "admins", !.base = Discovered(tests[t].server)])
                  \/ Set(t, Failed(tests[t]))

(* resolveGroupMembers: the search fails, finds nothing under a base DN of *)
(* another server, or finds the group and one of two kinds of names.       *)
Results(r) == {"fail"} \cup (IF r.base # r.server THEN {"missing"}
                             ELSE {"account"} \cup IF posix THEN {} ELSE {"cn"})
Members(group, result) == IF result \in {"account", "cn"} THEN [who : group, as : {result}] ELSE {}
ReadAdmins(t) == \E result \in Results(tests[t]) :
  /\ Step(t, "admins")
  /\ Set(t, [tests[t] EXCEPT !.at = "monitors", !.read = <<result>>,
                             !.list = [name : Members(Admins, result), role : {"admin"}]])
FaultyReadMonitors(t) == \E result \in Results(tests[t]) :
  /\ Step(t, "monitors")
  /\ Set(t, [tests[t] EXCEPT !.at = "unbound", !.open = FALSE, !.read = Append(@, result),
                             !.list = @ \cup [name : Members(Monitors, result), role : {"monitor"}]])
ReadMonitors(t) == \E result \in Results(tests[t]) :
  LET listed == {e.name : e \in tests[t].list} IN
  /\ Step(t, "monitors")
  /\ Set(t, [tests[t] EXCEPT !.at = "unbound", !.open = FALSE, !.read = Append(@, result),
                             !.list = @ \cup [name : Members(Monitors, result) \ listed, role : {"monitor"}]])

(* The base DN that was discovered is put into a copy of the configuration *)
(* which is written, and then replaces it.                                 *)
Cache(t) == /\ Step(t, "unbound")
            /\ Set(t, IF tests[t].given THEN [tests[t] EXCEPT !.at = "answered"]
                      ELSE [tests[t] EXCEPT !.at = "caching", !.copy = [config EXCEPT !.base = tests[t].base]])
FaultyCached(t) == /\ tests[t].at = "caching"
                   /\ \/ config' = tests[t].copy /\ Set(t, [tests[t] EXCEPT !.at = "answered", !.copy = Nothing])
                         /\ back' = Nothing
                      \/ UNCHANGED <<config, back>> /\ Set(t, [tests[t] EXCEPT !.at = "lost", !.copy = Nothing])
                   /\ UNCHANGED <<form, known, undo, edits, page, userVars>>
Cached(t) == /\ tests[t].at = "caching"
             /\ \/ config' = tests[t].copy /\ Set(t, [tests[t] EXCEPT !.at = "answered", !.copy = Nothing])
                   /\ back' = Nothing
                \/ UNCHANGED <<config, back>> /\ Set(t, [tests[t] EXCEPT !.at = "error", !.copy = Nothing])
             /\ UNCHANGED <<form, known, undo, edits, page, userVars>>

FaultyAnswer(t) == LET list == tests[t].list IN
  /\ tests[t].at = "answered"
  /\ Set(t, [tests[t] EXCEPT !.at = "done"])
  /\ page' = [page EXCEPT !.pending = list, !.approve = @ \/ list # {},
                          !.table = IF page.approve THEN @ ELSE list]
  /\ UNCHANGED <<config, formVars, userVars>>
(* The button that approves is shown with the users, and not hidden without. *)
Answer(t) == LET list == tests[t].list IN
  /\ tests[t].at = "answered"
  /\ Set(t, [tests[t] EXCEPT !.at = "done"])
  /\ page' = [page EXCEPT !.pending = list, !.table = list, !.approve = @ \/ list # {}]
  /\ UNCHANGED <<config, formVars, userVars>>
AnswerError(t) == Step(t, "error") /\ Set(t, [tests[t] EXCEPT !.at = "done"])

-------------------------------------------------------------------------------
(* The import of what has been found.                                      *)
Approve == /\ page.open /\ page.approve /\ ~page.busy /\ page.pending # {}
           /\ page' = [page EXCEPT !.busy = TRUE]
           /\ import' = [at |-> "sent", list |-> page.pending, before |-> users]
           /\ UNCHANGED <<config, formVars, tests, users, roles>>
FaultyUserOf(name, first) == name
(* A user is found by the account name or the mail, of which only an entry *)
(* of a user has one; when there are both, by the one that stands first.   *)
UserOf(name, first) ==
  LET mail == [name EXCEPT !.as = "mail"]
      both == users[name] # "none" /\ users[mail] # "none"
  IN IF name.as = "account" /\ ~posix /\ users[mail] # "none" /\ (both => first = "mail") THEN mail ELSE name
ServeImport == \E first \in {"account", "mail"} :
  /\ import.at = "sent"
  /\ users' = [n \in Names |-> IF \E e \in import.list : UserOf(e.name, first) = n
                               THEN (CHOOSE e \in import.list : UserOf(e.name, first) = n).role ELSE users[n]]
  /\ import' = [import EXCEPT !.at = "writing"]
  /\ UNCHANGED <<config, formVars, tests, page, roles>>
FaultyWritten == /\ import.at = "writing"
                 /\ \/ import' = [import EXCEPT !.at = "imported"]
                    \/ import' = [import EXCEPT !.at = "failed"]
                 /\ UNCHANGED <<config, formVars, tests, page, users, roles>>
Written == /\ import.at = "writing"
           /\ \/ import' = [import EXCEPT !.at = "imported"] /\ roles' = users
              \/ import' = [import EXCEPT !.at = "failed"] /\ UNCHANGED roles
           /\ UNCHANGED <<config, formVars, tests, page, users>>
ImportDone == /\ page.busy /\ import.at \in {"imported", "failed"}
              /\ page' = IF import.at = "failed" THEN [page EXCEPT !.busy = FALSE]
                         ELSE [page EXCEPT !.busy = FALSE, !.approve = FALSE, !.pending = {}]
              /\ import' = NoImport
              /\ UNCHANGED <<config, formVars, tests, users, roles>>

Works(t) == \/ Ping(t) \/ Bind(t) \/ Discover(t) \/ ReadAdmins(t) \/ ReadMonitors(t)
            \/ Cache(t) \/ Cached(t) \/ Answer(t) \/ AnswerError(t)
Imports == ServeImport \/ Written \/ ImportDone
Next == /\ \/ Edit \/ Save \/ Undo \/ Close \/ Approve \/ Imports
           \/ \E t \in Tests : Press(t) \/ Works(t)
        /\ UNCHANGED posix
(* Every call of the directory and every write ends or fails. *)
Spec == Init /\ [][Next]_ldapVars /\ WF_ldapVars(Imports /\ UNCHANGED posix)
        /\ \A t \in Tests : WF_ldapVars(Works(t) /\ UNCHANGED posix)
-------------------------------------------------------------------------------
TypeOK == /\ users \in [Names -> {"none", "admin", "monitor"}] /\ roles \in [Names -> {"none", "admin", "monitor"}]
          /\ page.busy <=> import.at \in {"sent", "writing", "imported", "failed"}
          /\ \A t \in Tests : tests[t].open => tests[t].at \in {"discover", "admins", "monitors"}
          /\ config.server \in Servers /\ config.base \in Servers \cup {""}

(* An admin who is in both groups, both read with the same kind of names,  *)
(* is listed as admin and not as monitor.                                  *)
AdminFirst == \A t \in Tests : Len(tests[t].read) = 2 /\ tests[t].read[1] = tests[t].read[2] =>
                \A e \in tests[t].list : e.name.who \in Admins => e.role = "admin"

(* What is approved is what the table shows, whichever of two tests was    *)
(* answered last, with an import under way or not.                         *)
ApprovesShown == page.pending # {} => page.pending = page.table /\ page.approve

(* Before the import, one found by account name was a user by mail alone.  *)
MailOnly(name) == /\ ~posix /\ name.as = "account" /\ import.before[name] = "none"
                  /\ import.before[[name EXCEPT !.as = "mail"]] # "none"

(* After an import that is said to be complete, every person of the list   *)
(* has a user of the listed role, the one with the mail if that was the    *)
(* only one, and no second one was made beside it; the directory of the    *)
(* roles follows the users.                                                *)
ImportedAsListed ==
  import.at = "imported" =>
    /\ roles = users
    /\ \A e \in import.list :
         \E n \in Names : /\ n.who = e.name.who /\ users[n] = e.role
                          /\ MailOnly(e.name) => n.as = "mail" /\ users[e.name] = "none"

(* Every test is answered.                                                 *)
TestEnds == \A t \in Tests : tests[t].at = "ping" ~> tests[t].at = "done"

(* "admin takes precedence" (src/lib/ldap.js:309): one who is in the group *)
(* of the admins is not listed as monitor.                                 *)
AdminTakesPrecedence ==
  \A t \in Tests : \A e \in tests[t].list : e.name.who \in Admins => e.role = "admin"

(* "Cache discovered baseDn back into the saved config so subsequent syncs *)
(* work" (src/lib/routes/settings.js:866): it is put to its own server.    *)
BaseFits == [][\A t \in Tests : tests[t].at = "caching" /\ config'.base # config.base
                              => config'.base = config'.server]_ldapVars

(* 'LDAP config saved.' (src/public/app.js:6196): a test leaves what has   *)
(* been saved as it is, but for the base DN.                               *)
SavedStays == [][config'.server # config.server \/ config'.pass # config.pass => undo' # undo]_ldapVars

(* 'Import Failed' (src/public/app.js:6306): the users are as before.      *)
FailedImport == import.at = "failed" => users = import.before

(* 'LDAP configuration' (src/public/app.js:6185): what is taken back is    *)
(* the whole configuration.                                                *)
UndoRestores == back # Nothing => config.server = back.server /\ config.pass = back.pass
=============================================================================
