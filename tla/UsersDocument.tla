----------------------------- MODULE UsersDocument -----------------------------
(***************************************************************************)
(* The local users: state.users in memory, shared.userRoleDirectory that   *)
(* requests take roles from, and the stored document.  persistUsers        *)
(* (lib/sites.js) writes it under the mutex of the documents,              *)
(* markUserLastLogin (lib/events.js) writes it without.                    *)
(*                                                                         *)
(* A user is the revision of everything a route may change, and whether    *)
(* localAuth.totpLastUsedStep is set.  Postgres is the backend: a write    *)
(* lands whole or not at all.                                              *)
(***************************************************************************)
EXTENDS Integers, Sequences, SequencesExt

CONSTANTS
  Emails,     \* addresses of users
  Baseline,   \* the user of the factory reset
  MaxRev,     \* bound: changes
  MaxLine,    \* bound: writes that wait for the mutex or hold it
  MaxLoose,   \* bound: writes of markUserLastLogin under way
  None        \* no user, no document

User == [rev : Nat, step : BOOLEAN]
Users == [Emails -> User \cup {None}]

(* What a request does when its write is done: build the role directory;   *)
(* note a login of email; both; or neither (the factory reset).            *)
Job == [then : {"roles", "login", "both", "nothing"}, email : Emails,
        of : Users \cup {None}]   \* an array that was replaced, or None

VARIABLES
  users,       \* state.users
  directory,   \* shared.userRoleDirectory: the revision of a user's role
  doc,         \* external: the stored document
  line,        \* persistUsers calls, the first holds the mutex
  body,        \* what the first writes, or None before it has read the users
  loose,       \* what markUserLastLogin writes, all under way
  revs,        \* history: changes so far
  accepted,    \* history: users who signed in with a one-time code
  failed,      \* history: a write failed since the start
  raced        \* history: two writes overlapped since the start

vars == <<users, directory, doc, line, body, loose, revs, accepted, failed, raced>>
past == <<revs, accepted>>

-------------------------------------------------------------------------------
(* "Faulty" marks a change somebody could make to the code; the checks put *)
(* it in the place of the definition that follows it and expect a property *)
(* below to fail.                                                          *)

(* normalizeUserEntry keeps seven fields of localAuth; totpLastUsedStep is *)
(* none of them.                                                           *)
Normalized(u) == IF u = None THEN None ELSE [u EXCEPT !.step = FALSE]
Saved(us) == [e \in Emails |-> Normalized(us[e])]

(* Faulty: an unknown address has a role. *)
RolesOfAll(us) == [e \in Emails |-> IF us[e] = None THEN -1 ELSE us[e].rev]

(* buildUserRoleDirectory *)
Roles(us) == [e \in Emails |-> IF us[e] = None THEN None ELSE us[e].rev]

Calm == line = <<>> /\ loose = <<>>

(* Faulty: persistUsers copies the users before it waits for the mutex. *)
CallCopies(then, e) == /\ Len(line) < MaxLine
                       /\ line' = Append(line, [then |-> then, email |-> e, of |-> users'])

(* persistUsers *)
Call(then, e) == /\ Len(line) < MaxLine
                 /\ line' = Append(line, [then |-> then, email |-> e, of |-> None])

Revised(e) == /\ revs < MaxRev
              /\ revs' = revs + 1
              /\ users' = [users EXCEPT ![e] = Normalized([rev |-> revs + 1, step |-> FALSE])]

(* Faulty: the change is kept in memory. *)
ChangeUnsaved(e) ==
  /\ Revised(e)
  /\ directory' = Roles(users')
  /\ UNCHANGED <<doc, line, body, loose, accepted, failed, raced>>

(* A route that changes or adds a user: POST and PATCH /api/users, the     *)
(* resets, the import from the directory service.                          *)
Change(e) ==
  /\ Revised(e)
  /\ Call("roles", e)
  /\ UNCHANGED <<directory, doc, body, loose, accepted, failed, raced>>

(* POST /api/auth/local/reset-totp: a user drops the own authenticator.    *)
ResetTotp(e) == users[e] # None /\ Change(e)

(* setup-password and verify-totp change the user in place, and sign in.   *)
Setup(e) ==
  /\ users[e] # None
  /\ revs < MaxRev
  /\ revs' = revs + 1
  /\ users' = [users EXCEPT ![e].rev = revs + 1]
  /\ Call("both", e)
  /\ UNCHANGED <<directory, doc, body, loose, accepted, failed, raced>>

(* Faulty: the role directory is left as it is. *)
DeleteQuiet(e) ==
  /\ users[e] # None
  /\ users' = [users EXCEPT ![e] = None]
  /\ Call("nothing", e)
  /\ UNCHANGED <<directory, doc, body, loose, past, failed, raced>>

(* DELETE /api/users/:email *)
Delete(e) ==
  /\ users[e] # None
  /\ users' = [users EXCEPT ![e] = None]
  /\ Call("roles", e)
  /\ UNCHANGED <<directory, doc, body, loose, past, failed, raced>>

(* A login with password and one-time code.                                *)
CodeLogin(e) ==
  /\ users[e] # None
  /\ users' = [users EXCEPT ![e].step = TRUE]
  /\ Call("login", e)
  /\ UNCHANGED <<directory, doc, body, loose, past, failed, raced>>

(* markUserLastLogin in the state us: it puts a new object in the place of *)
(* the user and writes at once.                                            *)
MarkLogin(us, e) ==
  IF us[e] = None THEN users' = us /\ UNCHANGED <<loose, raced>>
  ELSE /\ Len(loose) < MaxLoose
       /\ users' = [us EXCEPT ![e] = Normalized(@)]
       /\ loose' = Append(loose, Saved(us))
       /\ raced' = (raced \/ body' # None \/ loose # <<>>)

(* A login with password alone, or of the single sign-on.                  *)
PasswordLogin(e) ==
  /\ users[e] # None
  /\ body' = body
  /\ MarkLogin(users, e)
  /\ UNCHANGED <<directory, doc, line, past, failed>>

(* What persistUsers writes: it is called with the array.                  *)
Taken(job) == IF job.of = None THEN Saved(users) ELSE Saved(job.of)

(* The first call has the mutex and reads the users.                       *)
Start ==
  /\ line # <<>> /\ body = None
  /\ body' = Taken(Head(line))
  /\ raced' = (raced \/ loose # <<>>)
  /\ UNCHANGED <<users, directory, doc, line, loose, past, failed>>

Written ==
  /\ body # None
  /\ doc' = body /\ body' = None /\ line' = Tail(line)
  /\ LET job == Head(line) IN
     /\ directory' = IF job.then \in {"roles", "both"} THEN Roles(users) ELSE directory
     /\ IF job.then \in {"login", "both"} THEN MarkLogin(users, job.email)
                                          ELSE UNCHANGED <<users, loose, raced>>
     /\ accepted' = IF job.then = "login" THEN accepted \cup {job.email} ELSE accepted
  /\ UNCHANGED <<revs, failed>>

(* The request is answered with an error; the users stay as they are.      *)
WriteFails ==
  /\ body # None
  /\ body' = None /\ line' = Tail(line)
  /\ failed' = TRUE
  /\ UNCHANGED <<users, directory, doc, loose, past, raced>>

LoginWritten ==
  \E i \in DOMAIN loose :
    /\ doc' = loose[i]
    /\ loose' = RemoveAt(loose, i)
    /\ directory' = Roles(users)
    /\ UNCHANGED <<users, line, body, past, failed, raced>>

LoginWriteFails ==
  \E i \in DOMAIN loose :
    /\ loose' = RemoveAt(loose, i)
    /\ failed' = TRUE
    /\ UNCHANGED <<users, directory, doc, line, body, past, raced>>

OnlyBaseline(n) == [e \in Emails |-> IF e = Baseline THEN [rev |-> n, step |-> FALSE] ELSE None]

(* The factory reset replaces the array: calls that wait still hold the    *)
(* old one.                                                                *)
FactoryReset ==
  /\ revs < MaxRev /\ Len(line) < MaxLine
  /\ revs' = revs + 1
  /\ users' = OnlyBaseline(revs + 1)
  /\ directory' = Roles(users')
  /\ line' = Append([i \in DOMAIN line |-> IF line[i].of = None THEN [line[i] EXCEPT !.of = users]
                                                              ELSE line[i]],
                    [then |-> "nothing", email |-> Baseline, of |-> None])
  /\ accepted' = {}
  /\ UNCHANGED <<doc, body, loose, failed, raced>>

(* The process dies and loads the document.                                *)
Restart ==
  /\ users' = doc /\ directory' = Roles(doc)
  /\ line' = <<>> /\ body' = None /\ loose' = <<>>
  /\ failed' = FALSE /\ raced' = FALSE
  /\ UNCHANGED <<doc, past>>

Init ==
  /\ users = OnlyBaseline(0) /\ doc = users /\ directory = Roles(users)
  /\ line = <<>> /\ body = None /\ loose = <<>>
  /\ revs = 0 /\ accepted = {} /\ failed = FALSE /\ raced = FALSE

Next ==
  \/ \E e \in Emails : \/ Change(e) \/ ResetTotp(e) \/ Setup(e) \/ Delete(e)
                       \/ CodeLogin(e) \/ PasswordLogin(e)
  \/ Start \/ Written \/ WriteFails \/ LoginWritten \/ LoginWriteFails
  \/ FactoryReset \/ Restart

Spec == Init /\ [][Next]_vars

-------------------------------------------------------------------------------
(* Properties *)

TypeOK ==
  /\ users \in Users /\ doc \in Users
  /\ directory \in [Emails -> Nat \cup {None}]
  /\ line \in Seq(Job) /\ body \in Users \cup {None} /\ loose \in Seq(Users)
  /\ revs \in Nat /\ accepted \in SUBSET Emails
  /\ failed \in BOOLEAN /\ raced \in BOOLEAN

(* When all is quiet the document is what memory holds, unless a write     *)
(* failed or a login wrote while another write was under way.              *)
StoredUnlessRaced == Calm /\ ~failed /\ ~raced => doc = Saved(users)

(* The role directory, which nobody rebuilds when a request fails, follows *)
(* the users, whatever writes overlap.                                     *)
DirectoryFollows == Calm /\ ~failed => directory = Roles(users)

(* The document goes back to an older user only where writes overlapped,   *)
(* or while the write of a factory reset waits behind calls that hold the  *)
(* users from before it.                                                   *)
NeverBack ==
  [][\A e \in Emails :
       doc[e] # None /\ doc'[e] # None /\ doc'[e].rev < doc[e].rev
         => raced \/ \E i \in DOMAIN line : i > 1 /\ line[i].then = "nothing"]_vars

(* lib/routes/auth.js:72: "persisted to user.localAuth.totpLastUsedStep so *)
(* replay prevention survives server restarts".                            *)
StepIsStored ==
  Calm /\ ~failed /\ ~raced
    => \A e \in accepted : doc[e] # None => doc[e].step
===============================================================================
