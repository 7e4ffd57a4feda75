----------------------------- MODULE RecordsProofs -----------------------------
(***************************************************************************)
(* What lets somebody in: the web sessions, the tokens of a first login,   *)
(* the lockout, the API tokens and the import of users; how the server     *)
(* comes up; and what it tells of its health.  They share no state.  What  *)
(* they promise is stated here, and proved for all values of the constants:*)
(*                                                                         *)
(*  - of the sessions: the argument follows the commands under way to      *)
(*    Redis: what Redis holds of an id once they are carried out (EndsAs)  *)
(*    is nothing, or the session as it was last used, unless a command     *)
(*    about the id was lost;                                               *)
(*  - of a token of a first login: the entry and the save under way exclude*)
(*    each other, and each stands where its stage allows it (Staged);      *)
(*  - of the lockout: the row counts the last of the failures, those since *)
(*    its lock or since its window began (Counts);                         *)
(*  - of the API tokens: the list of memory, those under way and the stored*)
(*    one are ordered lists of tokens, in which those that are gone for    *)
(*    good are over (Over, Listed), and they agree about when a token      *)
(*    expires;                                                             *)
(*  - of a start: what each of its steps may rely on (Schema, Migrated,    *)
(*    Seeding), however often it was cut off before;                       *)
(*  - of the health checks: what a command printed is what it prints of the*)
(*    host as it was at some time of the check (FirewallSeen);             *)
(*  - of the import: what a test has listed is what it has read of the     *)
(*    groups (ListsRead), and every entry of a list that was carried out   *)
(*    has become a user (Carried).                                         *)
(***************************************************************************)
EXTENDS WebSessions, TLAPS, SequenceTheorems

CONSTANTS
  SetupTokens, SetupTtl,                      \* lib/local-setup.js
  Ids, Email, Threshold, Window, LockFor,     \* lib/constants.js, the lockout
  MaxRows, MaxSaving,                         \* bounds of the lockout
  MaxCount, Lives, Throttle,                  \* lib/constants.js, API tokens
  MaxTokens, MaxWrites, MaxFaults,            \* bounds of the API tokens
  MaxClock, TokensClock,                      \* bounds: the clocks
  StartKeys, SitesDoc, DevicesDoc, Unseeded,  \* server.js, the tracked documents
  Migrations, Attempts, MaxStartFaults,       \* lib/storage.js, and the bound of its faults
  HealthSite, Ports, AppPort, Sources, Forms,  \* lib/health.js
  MaxRules, MaxHealthEdits,                   \* bounds of the health checks
  People, Admins, Monitors, Servers, First,   \* lib/ldap.js, the directory
  LdapTests, MaxLdapEdits                     \* tests of it, and the bound of the edits

VARIABLES
  setupNow, mfa, entry, setupSaving, began, passwords, setupSessions, stale,
  lockoutNow, lockoutRow, lockoutSaving, lockoutFailed,
  tokensNow, tokens, dirty, tokensDue, tokensWrites, tokensStored, tokensMade,
  tokensFaults, answered, gone, lastUse,
  startAt, startStep, missing, applied, recorded, startVersion, startRow,
  files, startFaults, skipped,
  host, output, healthSeen, config, diag, unique, world, report, healthEdits,
  posix, directoryConfig, directoryForm, directoryKnown, directoryUndo,
  directoryBack, directoryTests, directoryPage, directoryImport,
  directoryUsers, directoryRoles, directoryEdits

Setup == INSTANCE LocalSetup WITH
  Tokens <- SetupTokens, Ttl <- SetupTtl, MaxTime <- MaxClock, now <- setupNow,
  saving <- setupSaving, sessions <- setupSessions
Lockout == INSTANCE LoginLockout WITH
  MaxTime <- MaxClock, now <- lockoutNow, row <- lockoutRow,
  saving <- lockoutSaving, failed <- lockoutFailed
Token == INSTANCE ApiTokens WITH
  MaxTime <- TokensClock, now <- tokensNow, due <- tokensDue,
  writes <- tokensWrites, stored <- tokensStored, made <- tokensMade,
  faults <- tokensFaults
Start == INSTANCE ServerStart WITH
  Keys <- StartKeys, Sites <- SitesDoc, Devices <- DevicesDoc,
  MaxFaults <- MaxStartFaults, at <- startAt, n <- startStep,
  version <- startVersion, row <- startRow, faults <- startFaults
Health == INSTANCE HealthChecks WITH
  Nobody <- None, Site <- HealthSite, MaxEdits <- MaxHealthEdits,
  seen <- healthSeen, edits <- healthEdits
Directory == INSTANCE LdapImport WITH
  Tests <- LdapTests, MaxEdits <- MaxLdapEdits, config <- directoryConfig,
  form <- directoryForm, known <- directoryKnown, undo <- directoryUndo,
  back <- directoryBack, tests <- directoryTests, page <- directoryPage,
  import <- directoryImport, users <- directoryUsers, roles <- directoryRoles,
  edits <- directoryEdits

(* A stage is a string and a save is a stage or none; an entry is a record. *)
ASSUME SetupAssumption ==
  /\ SetupTtl \in Nat
  /\ None \notin [stage : {"set_password", "enroll_totp"}, createdAt : Nat]
  /\ None \notin BOOLEAN /\ None \notin {"password", "totp", "set_password", "enroll_totp"}

(* LOGIN_LOCKOUT_THRESHOLD and its times are positive constants, and an    *)
(* identifier has one account.                                             *)
ASSUME LockoutAssumption ==
  /\ Email \in [Ids -> Ids]
  /\ Threshold \in Nat \ {0} /\ LockFor \in Nat \ {0} /\ Window \in Nat
  /\ None \notin [failures : 0..(Threshold - 1), windowStartedAtMs : Nat, lockedUntilMs : Nat]

ASSUME TokensAssumption ==
  /\ MaxCount \in Nat \ {0} /\ Throttle \in Nat \ {0} /\ Lives \in SUBSET Nat
  /\ MaxTokens \in Nat /\ MaxFaults \in Nat /\ TokensClock \in Nat \ {0}

(* STORAGE_TRACKED_FILES is a list, and ensureDataFiles seeds the sites and*)
(* the devices.                                                            *)
ASSUME StartAssumption ==
  /\ StartKeys \in Seq(Start!Key) /\ StartKeys # <<>>
  /\ {SitesDoc, DevicesDoc} \subseteq Start!Key \ Unseeded
  /\ Migrations \in Nat \ {0} /\ Attempts \in Nat \ {0} /\ MaxStartFaults \in Nat

(* Ports and addresses are written in digits, and rules in one of seven    *)
(* ways.                                                                   *)
ASSUME HealthAssumption ==
  /\ Ports \subseteq Seq(Nat) /\ Sources \subseteq Seq(Nat) /\ None \notin Sources
  /\ Forms \subseteq {"allow", "deny", "out", "bare", "net", "anywhere", "limit"}

(* The groups are of people of the directory.                              *)
ASSUME DirectoryAssumption ==
  /\ Admins \subseteq People /\ Monitors \subseteq People
  /\ First \in Servers

-------------------------------------------------------------------------------
(* Of twice the threshold of failures in a row the last comes a lock or a  *)
(* window after the first, and an identifier is locked by failures of its  *)
(* own in one window only.  The token of a first login sets one password and*)
(* signs in once, in this order, and a factory reset ends it.              *)
LoginsGuarded ==
  /\ Lockout!TypeOK /\ Lockout!FailuresSpread /\ Lockout!LockedByOwnFailures
  /\ Setup!TypeOK /\ Setup!OncePerToken /\ Setup!StagesInOrder /\ Setup!ResetEndsSetup

(* A token that expired, or was revoked while no older list was under way  *)
(* that accepts it, is never accepted again, whatever fails and restarts; a*)
(* token that was created while no list was under way is lost to a reset or*)
(* to as many newer ones only; the time of its last use is close.          *)
TokensHold ==
  Token!TypeOK /\ Token!GoneForGood /\ Token!KeptUnlessCrowded /\ Token!StampIsClose

(* A migration is recorded once it and all earlier ones have been applied, a*)
(* server that is up has the whole schema and every document, and a file of*)
(* the first start is stored, unless its write failed.                     *)
StartSound ==
  Start!TypeOK /\ Start!RecordedIsApplied /\ Start!UpIsReady /\ Start!FilesComeIn

(* The firewall check passes a monitor whose port is open and fails one    *)
(* whose port is not, as the host was since the check began, but for lines *)
(* it misreads or overlooks.  Of two sites whose monitors take the same    *)
(* source an administrator was told, a diagnosis is ok for a complete      *)
(* configuration only, and a health report without a failure comes from a  *)
(* server whose database answered.                                         *)
HealthSound ==
  /\ Health!VerdictIsTrue /\ Health!SharedSourceTold
  /\ Health!OkIsComplete /\ Health!ServingIsAlive

(* An admin who is in both groups is imported as admin, what is approved is*)
(* what the table shows, and after an import every listed person has one   *)
(* user of the listed role.                                                *)
ImportSound ==
  /\ Directory!TypeOK /\ Directory!AdminFirst
  /\ Directory!ApprovesShown /\ Directory!ImportedAsListed

-------------------------------------------------------------------------------
\* The web sessions

Stores == Session \cup {None}
Commands == [sid : Sids, to : Stores]

(* No command of w is about sid.                                           *)
Untold(w, sid) == \A i \in DOMAIN w : w[i].sid # sid

(* The last command of w about sid stores v.                               *)
LastTells(w, sid, v) ==
  \E i \in DOMAIN w : /\ w[i].sid = sid /\ w[i].to = v
                      /\ \A j \in DOMAIN w : i < j => w[j].sid # sid

(* Redis holds v for sid once it carried w out.                            *)
EndsAs(w, r, sid, v) == LastTells(w, sid, v) \/ (Untold(w, sid) /\ r[sid] = v)

(* No copy of a session says it was used later than it was: m in memory, r *)
(* in Redis, w under way, n the last use, t the time.                      *)
Bounded(sid, m, r, w, n, t) ==
  /\ n <= t
  /\ m # None => m.lastSeenAt <= n
  /\ r[sid] # None => r[sid].lastSeenAt <= n
  /\ \A i \in DOMAIN w : w[i].sid = sid /\ w[i].to # None => w[i].to.lastSeenAt <= n

(* Redis will hold nothing, or the session as it was last used.            *)
Current(sid, m, r, w, n) ==
  /\ m # None => m.lastSeenAt = n
  /\ \/ EndsAs(w, r, sid, None)
     \/ \E s \in Session : /\ EndsAs(w, r, sid, s)
                           /\ s.lastSeenAt = n
                           /\ m # None => s = m

(* What holds of one id; U, E and L are the ids used, ended and lost.      *)
Sound(sid, m, r, w, n, t, U, E, L) ==
  /\ Bounded(sid, m, r, w, n, t)
  /\ sid \notin U => /\ m = None /\ r[sid] = None /\ Untold(w, sid)
                     /\ sid \notin E /\ sid \notin L
  /\ sid \notin L => Current(sid, m, r, w, n)
  /\ sid \notin L /\ sid \in E => m = None /\ EndsAs(w, r, sid, None)

IInv ==
  /\ TypeOK
  /\ \A sid \in Sids :
       Sound(sid, sessions[sid], redis, wire, seen[sid], now, used, ended, lost)

-------------------------------------------------------------------------------
(* Sequences of commands *)

LEMMA AppendFacts ==
  ASSUME NEW w \in Seq(Commands), NEW c \in Commands
  PROVE  /\ Append(w, c) \in Seq(Commands)
         /\ Len(Append(w, c)) = Len(w) + 1 /\ Len(w) \in Nat
         /\ DOMAIN w = 1..Len(w)
         /\ DOMAIN Append(w, c) = DOMAIN w \cup {Len(w) + 1}
         /\ Append(w, c)[Len(w) + 1] = c
         /\ \A i \in DOMAIN w : Append(w, c)[i] = w[i]
  OBVIOUS

LEMMA TailFacts ==
  ASSUME NEW w \in Seq(Commands), w # <<>>
  PROVE  /\ Tail(w) \in Seq(Commands) /\ Head(w) \in Commands
         /\ Len(w) \in Nat \ {0} /\ DOMAIN w = 1..Len(w)
         /\ DOMAIN Tail(w) = 1..(Len(w) - 1) /\ Head(w) = w[1]
         /\ \A i \in DOMAIN Tail(w) : Tail(w)[i] = w[i + 1]
  OBVIOUS

LEMMA ConcatOne ==
  ASSUME NEW w \in Seq(Commands), NEW c \in Commands
  PROVE  w \o <<c>> = Append(w, c)
  OBVIOUS

(* The last command about an id decides.                                   *)
LEMMA ToldSame ==
  ASSUME NEW w \in Seq(Commands), NEW c \in Commands, NEW r
  PROVE  EndsAs(Append(w, c), r, c.sid, c.to)
<1>1. LastTells(Append(w, c), c.sid, c.to)
  <2> DEFINE q == Append(w, c)  i == Len(w) + 1
  <2>1. i \in DOMAIN q /\ q[i] = c /\ \A j \in DOMAIN q : ~(i < j)
    BY AppendFacts
  <2> HIDE DEF q, i
  <2>2. LastTells(q, c.sid, c.to) BY <2>1 DEF LastTells
  <2>3. QED BY <2>2 DEF q
<1>2. QED BY <1>1 DEF EndsAs

(* A command about another id changes nothing.                             *)
LEMMA ToldOther ==
  ASSUME NEW w \in Seq(Commands), NEW c \in Commands, NEW r, NEW sid, NEW v,
         c.sid # sid
  PROVE  /\ EndsAs(w, r, sid, v) => EndsAs(Append(w, c), r, sid, v)
         /\ Untold(w, sid) => Untold(Append(w, c), sid)
<1> DEFINE q == Append(w, c)
<1>1. /\ DOMAIN q = DOMAIN w \cup {Len(w) + 1} /\ q[Len(w) + 1] = c
      /\ \A i \in DOMAIN w : q[i] = w[i]
  BY AppendFacts
<1> HIDE DEF q
<1>2. Untold(w, sid) => Untold(q, sid) BY <1>1 DEF Untold
<1>3. LastTells(w, sid, v) => LastTells(q, sid, v) BY <1>1 DEF LastTells
<1>4. QED BY <1>2, <1>3 DEF EndsAs, q

(* Carrying out the first command changes nothing about the end.           *)
LEMMA ToldCarried ==
  ASSUME NEW w \in Seq(Commands), w # <<>>, NEW r \in [Sids -> Stores],
         NEW sid \in Sids, NEW v, EndsAs(w, r, sid, v)
  PROVE  EndsAs(Tail(w), [r EXCEPT ![Head(w).sid] = Head(w).to], sid, v)
<1> DEFINE q == Tail(w)  x == [r EXCEPT ![Head(w).sid] = Head(w).to]
<1>1. /\ Len(w) \in Nat \ {0} /\ DOMAIN w = 1..Len(w) /\ DOMAIN q = 1..(Len(w) - 1)
      /\ Head(w) = w[1] /\ w[1] \in Commands
      /\ \A i \in DOMAIN q : q[i] = w[i + 1]
  BY TailFacts
<1>2. /\ w[1].sid = sid => x[sid] = w[1].to
      /\ w[1].sid # sid => x[sid] = r[sid]
  BY <1>1 DEF Commands
<1> HIDE DEF q, x
<1>3. CASE Untold(w, sid)
  <2>1. Untold(q, sid) /\ w[1].sid # sid BY <1>1, <1>3 DEF Untold
  <2>2. r[sid] = v BY <1>3 DEF EndsAs, Untold, LastTells
  <2>3. QED BY <1>2, <2>1, <2>2 DEF EndsAs, q, x
<1>4. CASE LastTells(w, sid, v)
  <2>1. PICK i \in DOMAIN w : /\ w[i].sid = sid /\ w[i].to = v
                              /\ \A j \in DOMAIN w : i < j => w[j].sid # sid
    BY <1>4 DEF LastTells
  <2>2. CASE i = 1
    <3>1. Untold(q, sid) BY <1>1, <2>1, <2>2 DEF Untold
    <3>2. x[sid] = v BY <1>2, <2>1, <2>2
    <3>3. QED BY <3>1, <3>2 DEF EndsAs, q, x
  <2>3. CASE i # 1
    <3>1. i - 1 \in DOMAIN q /\ q[i - 1] = w[i] BY <1>1, <2>3
    <3>2. \A j \in DOMAIN q : i - 1 < j => q[j].sid # sid BY <1>1, <2>1
    <3>3. LastTells(q, sid, v) BY <2>1, <3>1, <3>2 DEF LastTells
    <3>4. QED BY <3>3 DEF EndsAs, q, x
  <2>4. QED BY <2>2, <2>3
<1>5. QED BY <1>3, <1>4 DEF EndsAs

(* Nor does the failure of a command about another id.                     *)
LEMMA ToldFailed ==
  ASSUME NEW w \in Seq(Commands), w # <<>>, NEW r \in [Sids -> Stores],
         NEW sid \in Sids, NEW v, Head(w).sid # sid, EndsAs(w, r, sid, v)
  PROVE  EndsAs(Tail(w), r, sid, v)
<1> DEFINE x == [r EXCEPT ![Head(w).sid] = Head(w).to]
<1>1. EndsAs(Tail(w), x, sid, v) BY ToldCarried
<1>2. x[sid] = r[sid] BY TailFacts DEF Commands
<1>3. QED BY <1>1, <1>2 DEF EndsAs

-------------------------------------------------------------------------------
(* What the steps do to one id *)

(* A command about another id.                                             *)
LEMMA SoundOther ==
  ASSUME NEW sid \in Sids, NEW m \in Stores, NEW r \in [Sids -> Stores],
         NEW w \in Seq(Commands), NEW n \in Nat, NEW t \in Nat, NEW U, NEW E, NEW L,
         Sound(sid, m, r, w, n, t, U, E, L), NEW c \in Commands, c.sid # sid
  PROVE  Sound(sid, m, r, Append(w, c), n, t, U, E, L)
<1>1. Bounded(sid, m, r, Append(w, c), n, t)
  BY AppendFacts DEF Sound, Bounded
<1>2. \A v : EndsAs(w, r, sid, v) => EndsAs(Append(w, c), r, sid, v)
  BY ToldOther
<1>3. Untold(w, sid) => Untold(Append(w, c), sid) BY ToldOther
<1>4. Current(sid, m, r, w, n) => Current(sid, m, r, Append(w, c), n)
  BY <1>2 DEF Current
<1>5. QED BY <1>1, <1>2, <1>3, <1>4 DEF Sound

(* It is used, or issued, and stored.                                      *)
LEMMA SoundUsed ==
  ASSUME NEW sid \in Sids, NEW m \in Stores, NEW r \in [Sids -> Stores],
         NEW w \in Seq(Commands), NEW n \in Nat, NEW t \in Nat, NEW U, NEW E, NEW L,
         Sound(sid, m, r, w, n, t, U, E, L),
         NEW v \in Session, v.lastSeenAt = t,
         NEW F, sid \in F, sid \in E => sid \in L
  PROVE  Sound(sid, v, r, Append(w, Command(sid, v)), t, t, F, E, L)
<1> DEFINE c == Command(sid, v)
<1>1. c \in Commands /\ c.sid = sid /\ c.to = v BY DEF Command, Commands, Stores
<1>2. v # None /\ v.lastSeenAt = t /\ t \in Nat BY SessionAssumption
<1> HIDE DEF c
<1>3. n <= t /\ (r[sid] # None => r[sid].lastSeenAt <= n) BY DEF Sound, Bounded
<1>4. r[sid] # None => r[sid].lastSeenAt \in Nat BY DEF Stores, Session
<1>5. \A i \in DOMAIN w : w[i].to # None => w[i].to.lastSeenAt \in Nat
  <2>1. \A d \in Commands : d.to # None => d.to.lastSeenAt \in Nat
    BY DEF Commands, Stores, Session
  <2>2. \A i \in DOMAIN w : w[i] \in Commands OBVIOUS
  <2>3. QED BY <2>1, <2>2
<1>6. Bounded(sid, v, r, Append(w, c), t, t)
  <2>1. \A i \in DOMAIN w : w[i].sid = sid /\ w[i].to # None => w[i].to.lastSeenAt <= n
    BY DEF Sound, Bounded
  <2>2. \A i \in DOMAIN w : w[i].sid = sid /\ w[i].to # None => w[i].to.lastSeenAt <= t
    BY <1>3, <1>5, <2>1
  <2>3. \A i \in DOMAIN Append(w, c) :
          Append(w, c)[i].sid = sid /\ Append(w, c)[i].to # None
            => Append(w, c)[i].to.lastSeenAt <= t
    BY <1>1, <1>2, <2>2, AppendFacts
  <2>4. QED BY <1>2, <1>3, <1>4, <2>3 DEF Bounded
<1>7. EndsAs(Append(w, c), r, sid, v) BY <1>1, ToldSame
<1>8. Current(sid, v, r, Append(w, c), t) BY <1>2, <1>7 DEF Current
<1>9. QED BY <1>6, <1>8 DEF Sound, c

(* It is deleted in memory and in Redis.                                   *)
LEMMA SoundDeleted ==
  ASSUME NEW sid \in Sids, NEW m \in Stores, NEW r \in [Sids -> Stores],
         NEW w \in Seq(Commands), NEW n \in Nat, NEW t \in Nat, NEW U, NEW E, NEW L,
         Sound(sid, m, r, w, n, t, U, E, L),
         NEW F, sid \in F, NEW G
  PROVE  Sound(sid, None, r, Append(w, Command(sid, None)), n, t, F, G, L)
<1> DEFINE c == Command(sid, None)
<1>1. c \in Commands /\ c.sid = sid /\ c.to = None BY DEF Command, Commands, Stores
<1> HIDE DEF c
<1>2. Bounded(sid, None, r, Append(w, c), n, t)
  BY <1>1, AppendFacts DEF Sound, Bounded
<1>3. EndsAs(Append(w, c), r, sid, None) BY <1>1, ToldSame
<1>4. Current(sid, None, r, Append(w, c), n) BY <1>3 DEF Current
<1>5. QED BY <1>2, <1>3, <1>4 DEF Sound, c

(* It is forgotten in memory alone.                                        *)
LEMMA SoundForgotten ==
  ASSUME NEW sid \in Sids, NEW m, NEW r, NEW w, NEW n, NEW t, NEW U, NEW E, NEW L,
         Sound(sid, m, r, w, n, t, U, E, L)
  PROVE  Sound(sid, None, r, w, n, t, U, E, L)
  BY DEF Sound, Bounded, Current

(* It is issued in memory alone.                                           *)
LEMMA SoundIssued ==
  ASSUME NEW sid \in Sids, NEW m \in Stores, NEW r \in [Sids -> Stores],
         NEW w \in Seq(Commands), NEW n \in Nat, NEW t \in Nat, NEW U, NEW E, NEW L,
         Sound(sid, m, r, w, n, t, U, E, L), sid \notin U,
         NEW v \in Session, v.lastSeenAt = t, NEW F, sid \in F
  PROVE  Sound(sid, v, r, w, t, t, F, E, L)
<1>1. r[sid] = None /\ Untold(w, sid) /\ sid \notin E BY DEF Sound
<1>2. Bounded(sid, v, r, w, t, t) BY <1>1 DEF Bounded, Untold
<1>3. Current(sid, v, r, w, t) BY <1>1 DEF Current, EndsAs
<1>4. QED BY <1>1, <1>2, <1>3 DEF Sound

(* Redis carries a command out.                                            *)
LEMMA SoundCarried ==
  ASSUME NEW sid \in Sids, NEW m \in Stores, NEW r \in [Sids -> Stores],
         NEW w \in Seq(Commands), NEW n \in Nat, NEW t \in Nat, NEW U, NEW E, NEW L,
         Sound(sid, m, r, w, n, t, U, E, L), w # <<>>
  PROVE  Sound(sid, m, [r EXCEPT ![Head(w).sid] = Head(w).to], Tail(w), n, t, U, E, L)
<1> DEFINE x == [r EXCEPT ![Head(w).sid] = Head(w).to]  q == Tail(w)
<1>1. /\ Len(w) \in Nat \ {0} /\ DOMAIN w = 1..Len(w) /\ DOMAIN q = 1..(Len(w) - 1)
      /\ Head(w) = w[1] /\ w[1] \in Commands
      /\ \A i \in DOMAIN q : q[i] = w[i + 1] /\ i + 1 \in DOMAIN w
  BY TailFacts
<1>2. /\ w[1].sid = sid => x[sid] = w[1].to
      /\ w[1].sid # sid => x[sid] = r[sid]
  BY <1>1 DEF Commands
<1>3. \A v : EndsAs(w, r, sid, v) => EndsAs(q, x, sid, v) BY ToldCarried
<1> HIDE DEF q, x
<1>4. Bounded(sid, m, x, q, n, t)
  <2>1. x[sid] # None => x[sid].lastSeenAt <= n BY <1>1, <1>2 DEF Sound, Bounded
  <2>2. \A i \in DOMAIN q : q[i].sid = sid /\ q[i].to # None => q[i].to.lastSeenAt <= n
    BY <1>1 DEF Sound, Bounded
  <2>3. QED BY <2>1, <2>2 DEF Sound, Bounded
<1>5. Current(sid, m, r, w, n) => Current(sid, m, x, q, n) BY <1>3 DEF Current
<1>6. sid \notin U => x[sid] = None /\ Untold(q, sid)
  BY <1>1, <1>2 DEF Sound, Untold
<1>7. QED BY <1>3, <1>4, <1>5, <1>6 DEF Sound, q, x

(* A command fails; its id is lost from then on.                           *)
LEMMA SoundFailed ==
  ASSUME NEW sid \in Sids, NEW m \in Stores, NEW r \in [Sids -> Stores],
         NEW w \in Seq(Commands), NEW n \in Nat, NEW t \in Nat, NEW U, NEW E, NEW L,
         Sound(sid, m, r, w, n, t, U, E, L), w # <<>>
  PROVE  Sound(sid, m, r, Tail(w), n, t, U, E, L \cup {Head(w).sid})
<1> DEFINE q == Tail(w)
<1>1. /\ Len(w) \in Nat \ {0} /\ DOMAIN w = 1..Len(w) /\ DOMAIN q = 1..(Len(w) - 1)
      /\ Head(w) = w[1] /\ w[1] \in Commands
      /\ \A i \in DOMAIN q : q[i] = w[i + 1] /\ i + 1 \in DOMAIN w
  BY TailFacts
<1>2. w[1].sid # sid => \A v : EndsAs(w, r, sid, v) => EndsAs(q, r, sid, v)
  BY <1>1, ToldFailed
<1> HIDE DEF q
<1>3. Bounded(sid, m, r, q, n, t) BY <1>1 DEF Sound, Bounded
<1>4. w[1].sid # sid => (Current(sid, m, r, w, n) => Current(sid, m, r, q, n))
  BY <1>2 DEF Current
<1>5. sid \notin U => Untold(q, sid) /\ w[1].sid # sid BY <1>1 DEF Sound, Untold
<1>6. QED BY <1>1, <1>2, <1>3, <1>4, <1>5 DEF Sound, q

(* The process restarts: v is what it takes from Redis.                    *)
LEMMA SoundRestarted ==
  ASSUME NEW sid \in Sids, NEW m \in Stores, NEW r \in [Sids -> Stores],
         NEW w \in Seq(Commands), NEW n \in Nat, NEW t \in Nat, NEW U, NEW E, NEW L,
         Sound(sid, m, r, w, n, t, U, E, L), NEW v, v = None \/ v = r[sid],
         NEW K, sid \in K <=> (sid \in L \/ ~Untold(w, sid))
  PROVE  Sound(sid, v, r, <<>>, n, t, U, E, K)
<1>1. Bounded(sid, v, r, <<>>, n, t) BY DEF Sound, Bounded
<1>2. Untold(<<>>, sid) BY DEF Untold
<1>3. sid \notin K => \A y : EndsAs(w, r, sid, y) => r[sid] = y /\ EndsAs(<<>>, r, sid, y)
  BY <1>2 DEF EndsAs, LastTells, Untold
<1>4. sid \notin K /\ Current(sid, m, r, w, n) => Current(sid, v, r, <<>>, n)
  BY <1>3 DEF Current
<1>5. QED BY <1>1, <1>2, <1>3, <1>4 DEF Sound

(* Time goes on.                                                           *)
LEMMA SoundLater ==
  ASSUME NEW sid \in Sids, NEW m, NEW r, NEW w, NEW n \in Nat, NEW t \in Nat,
         NEW U, NEW E, NEW L, Sound(sid, m, r, w, n, t, U, E, L)
  PROVE  Sound(sid, m, r, w, n, t + 1, U, E, L)
  BY DEF Sound, Bounded

(* Other ids are used and ended.                                           *)
LEMMA SoundSets ==
  ASSUME NEW sid \in Sids, NEW m, NEW r, NEW w, NEW n, NEW t, NEW U, NEW E, NEW L,
         Sound(sid, m, r, w, n, t, U, E, L),
         NEW F, sid \in F <=> sid \in U, NEW G, sid \in G <=> sid \in E
  PROVE  Sound(sid, m, r, w, n, t, F, G, L)
  BY DEF Sound

-------------------------------------------------------------------------------
(* The steps *)

Ok(sid) == Sound(sid, sessions[sid], redis, wire, seen[sid], now, used, ended, lost)

Types ==
  /\ now \in Nat /\ sessions \in [Sids -> Stores] /\ redis \in [Sids -> Stores]
  /\ wire \in Seq(Commands) /\ seen \in [Sids -> Nat]
  /\ used \subseteq Sids /\ ended \subseteq Sids /\ lost \subseteq Sids
  /\ reset \subseteq Sids

LEMMA InvSplit == IInv <=> Types /\ \A sid \in Sids : Ok(sid)
  BY DEF IInv, TypeOK, Types, Ok, Stores, Commands

LEMMA InitInv == Init => Types /\ \A sid \in Sids : Ok(sid)
<1> SUFFICES ASSUME Init PROVE Types /\ \A sid \in Sids : Ok(sid) OBVIOUS
<1>1. Types BY DEF Init, Types, Stores
<1>2. ASSUME NEW sid \in Sids PROVE Ok(sid)
  <2>1. /\ sessions[sid] = None /\ redis[sid] = None /\ wire = <<>> /\ seen[sid] = 0
        /\ now = 0 /\ used = {} /\ ended = {} /\ lost = {}
    BY DEF Init
  <2>2. Untold(<<>>, sid) BY DEF Untold
  <2>3. Bounded(sid, None, redis, <<>>, 0, 0) BY <2>1 DEF Bounded
  <2>4. Current(sid, None, redis, <<>>, 0) BY <2>1, <2>2 DEF Current, EndsAs
  <2>5. QED BY <2>1, <2>2, <2>3, <2>4 DEF Ok, Sound
<1>3. QED BY <1>1, <1>2

LEMMA FreshFacts ==
  ASSUME now \in Nat
  PROVE  Fresh \in Session /\ Fresh \in Stores /\ Fresh.lastSeenAt = now
  BY DEF Fresh, Session, Stores

LEMMA TouchedFacts ==
  ASSUME Types, NEW sid \in Sids, Valid(sid)
  PROVE  /\ Touched(sid) \in Session /\ Touched(sid) \in Stores
         /\ Touched(sid).lastSeenAt = now /\ sessions[sid] # None
<1>1. sessions[sid] \in Session /\ now \in Nat /\ sessions[sid] # None
  BY DEF Types, Valid, Stores
<1>2. Touched(sid) \in Session /\ Touched(sid).lastSeenAt = now
  BY <1>1 DEF Touched, Session
<1>3. QED BY <1>1, <1>2 DEF Stores

LEMMA CommandType ==
  ASSUME NEW sid \in Sids, NEW v \in Stores
  PROVE  Command(sid, v) \in Commands /\ Command(sid, v).sid = sid
  BY DEF Command, Commands

(* Request and FactoryReset: one id is used, and stored.                   *)
LEMMA UseSound ==
  ASSUME Types, \A x \in Sids : Ok(x), NEW sid \in Sids, Valid(sid),
         sessions' = [sessions EXCEPT ![sid] = Touched(sid)],
         wire' = Append(wire, Command(sid, Touched(sid))),
         seen' = [seen EXCEPT ![sid] = now], reset' \subseteq Sids,
         UNCHANGED <<now, redis, used, ended, lost>>
  PROVE  Types' /\ \A x \in Sids : Ok(x)'
<1>1. /\ Touched(sid) \in Session /\ Touched(sid) \in Stores
      /\ Touched(sid).lastSeenAt = now /\ sessions[sid] # None
  BY TouchedFacts
<1>2. Command(sid, Touched(sid)) \in Commands /\ Command(sid, Touched(sid)).sid = sid
  BY <1>1, CommandType
<1>3. Types' BY <1>1, <1>2, AppendFacts DEF Types
<1>4. sid \in used /\ (sid \in ended => sid \in lost) BY <1>1 DEF Ok, Sound
<1>5. ASSUME NEW x \in Sids PROVE Ok(x)'
  <2>1. CASE x = sid
    <3>1. sessions'[x] = Touched(sid) /\ seen'[x] = now BY <2>1 DEF Types
    <3>2. Sound(x, Touched(sid), redis, Append(wire, Command(sid, Touched(sid))),
                now, now, used, ended, lost)
      BY <1>1, <1>4, <2>1, SoundUsed DEF Ok, Types
    <3>3. QED BY <3>1, <3>2 DEF Ok
  <2>2. CASE x # sid
    <3>1. sessions'[x] = sessions[x] /\ seen'[x] = seen[x] BY <2>2 DEF Types
    <3>2. Sound(x, sessions[x], redis, Append(wire, Command(sid, Touched(sid))),
                seen[x], now, used, ended, lost)
      BY <1>2, <2>2, SoundOther DEF Ok, Types
    <3>3. QED BY <3>1, <3>2 DEF Ok
  <2>3. QED BY <2>1, <2>2
<1>6. QED BY <1>3, <1>5

(* An id is issued; the id before it, if any, is deleted in Redis too.     *)
LEMMA IssueLocalSound ==
  ASSUME Types, \A x \in Sids : Ok(x), NEW sid \in Sids, NEW old \in Cookies,
         IssueLocal(sid, old)
  PROVE  Types' /\ \A x \in Sids : Ok(x)'
<1>1. /\ Fresh \in Session /\ Fresh \in Stores /\ Fresh.lastSeenAt = now
      /\ None \in Stores
  BY FreshFacts DEF Types, Stores
<1>2. Command(sid, Fresh) \in Commands /\ Command(sid, Fresh).sid = sid
  BY <1>1, CommandType
<1>3. /\ sid \notin used /\ old \subseteq used /\ now' = now /\ redis' = redis
      /\ lost' = lost /\ used' = used \cup {sid} /\ ended' = ended \cup old
      /\ reset' = reset
      /\ seen' = [seen EXCEPT ![sid] = now]
      /\ sessions' = [s \in Sids |-> IF s = sid THEN Fresh
                                     ELSE IF s \in old THEN None ELSE sessions[s]]
  BY DEF IssueLocal, Cookies
<1>4. sid \notin old /\ sid \notin ended BY <1>3 DEF Ok, Sound
<1>5. /\ sessions'[sid] = Fresh /\ seen'[sid] = now
      /\ \A x \in Sids \ {sid} :
           /\ sessions'[x] = IF x \in old THEN None ELSE sessions[x]
           /\ seen'[x] = seen[x]
  BY <1>3 DEF Types
<1>6. ASSUME wire' \in Seq(Commands) PROVE Types'
  <2>1. sessions' \in [Sids -> Stores] BY <1>1, <1>3 DEF Types
  <2>2. QED BY <1>3, <1>6, <2>1 DEF Types
<1>7. CASE old = {}
  <2>1. wire' = Append(wire, Command(sid, Fresh))
    BY <1>2, <1>7, ConcatOne DEF IssueLocal, Deletions, Types
  <2>2. wire' \in Seq(Commands) BY <1>2, <2>1, AppendFacts DEF Types
  <2>3. Ok(sid)'
    BY <1>1, <1>3, <1>4, <1>5, <1>7, <2>1, SoundUsed DEF Ok, Types
  <2>4. ASSUME NEW x \in Sids, x # sid PROVE Ok(x)'
    <3>1. Sound(x, sessions[x], redis, wire', seen[x], now, used, ended, lost)
      BY <1>2, <2>1, <2>4, SoundOther DEF Ok, Types
    <3>2. x \in used' <=> x \in used BY <1>3, <2>4
    <3>3. ended' = ended BY <1>3, <1>7
    <3>4. Sound(x, sessions[x], redis, wire', seen[x], now, used', ended', lost)
      BY <3>1, <3>2, <3>3, SoundSets
    <3>5. QED BY <1>3, <1>5, <1>7, <2>4, <3>4 DEF Ok
  <2>5. QED BY <1>6, <2>2, <2>3, <2>4
<1>8. CASE old # {}
  <2>1. PICK y \in used : old = {y} BY <1>8 DEF Cookies
  <2> DEFINE w == Append(wire, Command(y, None))
  <2>2. y \in Sids /\ y # sid BY <1>4, <2>1 DEF Types
  <2>3. Command(y, None) \in Commands /\ Command(y, None).sid = y
    BY <1>1, <2>2, CommandType
  <2>4. w \in Seq(Commands) BY <2>3, AppendFacts DEF Types
  <2>5. wire' = Append(w, Command(sid, Fresh))
    <3>1. (CHOOSE s \in old : TRUE) = y BY <2>1
    <3>2. Deletions(old) = <<Command(y, None)>> BY <1>8, <3>1 DEF Deletions
    <3>3. wire' = (wire \o <<Command(y, None)>>) \o <<Command(sid, Fresh)>>
      BY <3>2 DEF IssueLocal
    <3>4. wire \o <<Command(y, None)>> = w BY <2>3, ConcatOne DEF Types
    <3>5. QED BY <1>2, <2>4, <3>3, <3>4, ConcatOne
  <2> HIDE DEF w
  <2>6. wire' \in Seq(Commands) BY <1>2, <2>4, <2>5, AppendFacts
  <2>7. \A x \in Sids : x # y =>
          Sound(x, sessions[x], redis, w, seen[x], now, used, ended, lost)
    BY <2>3, SoundOther DEF Ok, Types, w
  <2>8. Ok(sid)'
    <3>1. Sound(sid, Fresh, redis, wire', now, now, used', ended, lost)
      BY <1>1, <1>3, <1>4, <2>2, <2>4, <2>5, <2>7, SoundUsed DEF Types
    <3>2. sid \in ended' <=> sid \in ended BY <1>3, <1>4
    <3>3. Sound(sid, Fresh, redis, wire', now, now, used', ended', lost)
      BY <3>1, <3>2, SoundSets
    <3>4. QED BY <1>3, <1>5, <3>3 DEF Ok
  <2>9. Ok(y)'
    <3>1. Sound(y, None, redis, w, seen[y], now, used', ended', lost)
      BY <1>3, <2>1, <2>2, SoundDeleted DEF Ok, Types, w
    <3>2. Sound(y, None, redis, wire', seen[y], now, used', ended', lost)
      BY <1>1, <1>2, <2>2, <2>4, <2>5, <3>1, SoundOther DEF Types
    <3>3. QED BY <1>3, <1>5, <2>1, <2>2, <3>2 DEF Ok
  <2>10. ASSUME NEW x \in Sids, x # sid, x # y PROVE Ok(x)'
    <3>1. Sound(x, sessions[x], redis, wire', seen[x], now, used, ended, lost)
      BY <1>2, <2>4, <2>5, <2>7, <2>10, SoundOther DEF Types
    <3>2. (x \in used' <=> x \in used) /\ (x \in ended' <=> x \in ended)
      BY <1>3, <2>1, <2>10
    <3>3. Sound(x, sessions[x], redis, wire', seen[x], now, used', ended', lost)
      BY <3>1, <3>2, SoundSets
    <3>4. QED BY <1>3, <1>5, <2>1, <2>10, <3>3 DEF Ok
  <2>11. QED BY <1>6, <2>6, <2>8, <2>9, <2>10
<1>9. QED BY <1>7, <1>8

LEMMA IssueEntraSound ==
  ASSUME Types, \A x \in Sids : Ok(x), NEW sid \in Sids, NEW old \in Cookies,
         IssueEntra(sid, old)
  PROVE  Types' /\ \A x \in Sids : Ok(x)'
<1>1. /\ Fresh \in Session /\ Fresh \in Stores /\ Fresh.lastSeenAt = now
      /\ None \in Stores
  BY FreshFacts DEF Types, Stores
<1>2. /\ sid \notin used /\ old \subseteq used /\ now' = now /\ redis' = redis
      /\ lost' = lost /\ used' = used \cup {sid} /\ ended' = ended
      /\ reset' = reset /\ wire' = wire
      /\ seen' = [seen EXCEPT ![sid] = now]
      /\ sessions' = [s \in Sids |-> IF s = sid THEN Fresh
                                     ELSE IF s \in old THEN None ELSE sessions[s]]
  BY DEF IssueEntra, Cookies
<1>3. Types'
  <2>1. sessions' \in [Sids -> Stores] BY <1>1, <1>2 DEF Types
  <2>2. QED BY <1>2, <2>1 DEF Types
<1>4. Ok(sid)'
  <2>1. sessions'[sid] = Fresh /\ seen'[sid] = now BY <1>2 DEF Types
  <2>2. Sound(sid, Fresh, redis, wire, now, now, used', ended, lost)
    BY <1>1, <1>2, SoundIssued DEF Ok, Types
  <2>3. QED BY <1>2, <2>1, <2>2 DEF Ok
<1>5. ASSUME NEW x \in Sids, x # sid PROVE Ok(x)'
  <2>1. /\ sessions'[x] = IF x \in old THEN None ELSE sessions[x]
        /\ seen'[x] = seen[x]
    BY <1>2, <1>5 DEF Types
  <2>2. Sound(x, sessions'[x], redis, wire, seen[x], now, used, ended, lost)
    BY <2>1, SoundForgotten DEF Ok
  <2>3. x \in used' <=> x \in used BY <1>2, <1>5
  <2>4. Sound(x, sessions'[x], redis, wire, seen[x], now, used', ended, lost)
    BY <2>2, <2>3, SoundSets
  <2>5. QED BY <1>2, <2>1, <2>4 DEF Ok
<1>6. QED BY <1>3, <1>4, <1>5

LEMMA RejectedSound ==
  ASSUME Types, \A x \in Sids : Ok(x), NEW sid \in Sids, Rejected(sid)
  PROVE  Types' /\ \A x \in Sids : Ok(x)'
<1>1. /\ sessions[sid] # None /\ sessions' = [sessions EXCEPT ![sid] = None]
      /\ wire' = Append(wire, Command(sid, None))
      /\ UNCHANGED <<now, redis, used, seen, ended, lost, reset>>
  BY DEF Rejected
<1>2. None \in Stores /\ Command(sid, None) \in Commands /\ Command(sid, None).sid = sid
  BY CommandType DEF Stores
<1>3. sid \in used BY <1>1 DEF Ok, Sound
<1>4. Types' BY <1>1, <1>2, AppendFacts DEF Types
<1>5. Ok(sid)'
  <2>1. sessions'[sid] = None BY <1>1 DEF Types
  <2>2. Sound(sid, None, redis, wire', seen[sid], now, used, ended, lost)
    BY <1>1, <1>3, SoundDeleted DEF Ok, Types
  <2>3. QED BY <1>1, <2>1, <2>2 DEF Ok
<1>6. ASSUME NEW x \in Sids, x # sid PROVE Ok(x)'
  <2>1. sessions'[x] = sessions[x] BY <1>1, <1>6 DEF Types
  <2>2. Sound(x, sessions[x], redis, wire', seen[x], now, used, ended, lost)
    BY <1>1, <1>2, <1>6, SoundOther DEF Ok, Types
  <2>3. QED BY <1>1, <2>1, <2>2 DEF Ok
<1>7. QED BY <1>4, <1>5, <1>6

(* The touch of the request is sent before the deletion.                   *)
LEMMA LogoutSound ==
  ASSUME Types, \A x \in Sids : Ok(x), NEW sid \in Sids, Logout(sid)
  PROVE  Types' /\ \A x \in Sids : Ok(x)'
<1>1. /\ sid \in used /\ sessions' = [sessions EXCEPT ![sid] = None]
      /\ seen' = IF Valid(sid) THEN [seen EXCEPT ![sid] = now] ELSE seen
      /\ ended' = ended \cup {sid}
      /\ UNCHANGED <<now, redis, used, lost, reset>>
  BY DEF Logout
<1>2. None \in Stores /\ Command(sid, None) \in Commands /\ Command(sid, None).sid = sid
  BY CommandType DEF Stores
<1>3. /\ sessions'[sid] = None
      /\ \A x \in Sids \ {sid} : sessions'[x] = sessions[x] /\ seen'[x] = seen[x]
      /\ seen' \in [Sids -> Nat] /\ sessions' \in [Sids -> Stores]
  BY <1>1, <1>2 DEF Types
<1>4. \E w \in Seq(Commands) :
        /\ wire' = Append(w, Command(sid, None))
        /\ Sound(sid, IF Valid(sid) THEN Touched(sid) ELSE sessions[sid],
                 redis, w, seen'[sid], now, used, ended, lost)
        /\ \A x \in Sids \ {sid} :
             Sound(x, sessions[x], redis, w, seen[x], now, used, ended, lost)
  <2>1. CASE Valid(sid)
    <3> DEFINE w == Append(wire, Command(sid, Touched(sid)))
    <3>1. /\ Touched(sid) \in Session /\ Touched(sid) \in Stores
          /\ Touched(sid).lastSeenAt = now /\ sessions[sid] # None
      BY <2>1, TouchedFacts
    <3>2. Command(sid, Touched(sid)) \in Commands /\ Command(sid, Touched(sid)).sid = sid
      BY <3>1, CommandType
    <3>3. w \in Seq(Commands) BY <3>2, AppendFacts DEF Types
    <3>4. wire' = Append(w, Command(sid, None))
      <4>1. wire' = (wire \o <<Command(sid, Touched(sid))>>) \o <<Command(sid, None)>>
        BY <2>1 DEF Logout
      <4>2. wire \o <<Command(sid, Touched(sid))>> = w BY <3>2, ConcatOne DEF Types
      <4> HIDE DEF w
      <4>3. QED BY <1>2, <3>3, <4>1, <4>2, ConcatOne
    <3>5. seen'[sid] = now BY <1>1, <2>1 DEF Types
    <3>6. sid \in ended => sid \in lost BY <3>1 DEF Ok, Sound
    <3>7. Sound(sid, Touched(sid), redis, w, now, now, used, ended, lost)
      BY <1>1, <3>1, <3>6, SoundUsed DEF Ok, Types
    <3>8. \A x \in Sids \ {sid} :
            Sound(x, sessions[x], redis, w, seen[x], now, used, ended, lost)
      BY <3>2, SoundOther DEF Ok, Types
    <3> HIDE DEF w
    <3>9. QED BY <2>1, <3>3, <3>4, <3>5, <3>7, <3>8
  <2>2. CASE ~Valid(sid)
    <3>1. wire' = Append(wire, Command(sid, None))
      <4>1. wire' = (wire \o <<>>) \o <<Command(sid, None)>> BY <2>2 DEF Logout
      <4>2. wire \o <<>> = wire BY DEF Types
      <4>3. QED BY <1>2, <4>1, <4>2, ConcatOne DEF Types
    <3>2. QED BY <1>1, <2>2, <3>1 DEF Ok, Types
  <2>3. QED BY <2>1, <2>2
<1>5. PICK w \in Seq(Commands) :
        /\ wire' = Append(w, Command(sid, None))
        /\ Sound(sid, IF Valid(sid) THEN Touched(sid) ELSE sessions[sid],
                 redis, w, seen'[sid], now, used, ended, lost)
        /\ \A x \in Sids \ {sid} :
             Sound(x, sessions[x], redis, w, seen[x], now, used, ended, lost)
  BY <1>4
<1>6. Types' BY <1>1, <1>2, <1>3, <1>5, AppendFacts DEF Types
<1>7. Ok(sid)'
  <2>1. (IF Valid(sid) THEN Touched(sid) ELSE sessions[sid]) \in Stores
    BY TouchedFacts DEF Types
  <2>2. Sound(sid, None, redis, wire', seen'[sid], now, used, ended', lost)
    BY <1>1, <1>3, <1>5, <2>1, SoundDeleted DEF Types
  <2>3. QED BY <1>1, <1>3, <2>2 DEF Ok
<1>8. ASSUME NEW x \in Sids, x # sid PROVE Ok(x)'
  <2>1. Sound(x, sessions[x], redis, wire', seen[x], now, used, ended, lost)
    BY <1>2, <1>5, <1>8, SoundOther DEF Types
  <2>2. x \in ended' <=> x \in ended BY <1>1, <1>8
  <2>3. Sound(x, sessions[x], redis, wire', seen[x], now, used, ended', lost)
    BY <2>1, <2>2, SoundSets
  <2>4. QED BY <1>1, <1>3, <1>8, <2>3 DEF Ok
<1>9. QED BY <1>6, <1>7, <1>8

LEMMA PruneSound ==
  ASSUME Types, \A x \in Sids : Ok(x), Prune
  PROVE  Types' /\ \A x \in Sids : Ok(x)'
<1>1. /\ sessions' = [s \in Sids |-> IF Valid(s) THEN sessions[s] ELSE None]
      /\ UNCHANGED <<now, redis, wire, used, seen, ended, lost, reset>>
  BY DEF Prune
<1>2. Types'
  <2>1. sessions' \in [Sids -> Stores] BY <1>1 DEF Types, Stores
  <2>2. QED BY <1>1, <2>1 DEF Types
<1>3. ASSUME NEW x \in Sids PROVE Ok(x)'
  <2>1. Sound(x, None, redis, wire, seen[x], now, used, ended, lost)
    BY SoundForgotten DEF Ok
  <2>2. QED BY <1>1, <2>1 DEF Ok
<1>4. QED BY <1>2, <1>3

LEMMA StoredSound ==
  ASSUME Types, \A x \in Sids : Ok(x), Stored
  PROVE  Types' /\ \A x \in Sids : Ok(x)'
<1>1. /\ wire # <<>> /\ wire' = Tail(wire)
      /\ redis' = [redis EXCEPT ![Head(wire).sid] = Head(wire).to]
      /\ UNCHANGED <<now, sessions, used, seen, ended, lost, reset>>
  BY DEF Stored
<1>2. Types'
  <2>1. Head(wire) \in Commands /\ Tail(wire) \in Seq(Commands)
    BY <1>1, TailFacts DEF Types
  <2>2. Head(wire).to \in Stores BY <2>1 DEF Commands
  <2>3. QED BY <1>1, <2>1, <2>2 DEF Types
<1>3. ASSUME NEW x \in Sids PROVE Ok(x)'
  <2>1. Sound(x, sessions[x], [redis EXCEPT ![Head(wire).sid] = Head(wire).to],
              Tail(wire), seen[x], now, used, ended, lost)
    BY <1>1, SoundCarried DEF Ok, Types
  <2>2. QED BY <1>1, <2>1 DEF Ok
<1>4. QED BY <1>2, <1>3

LEMMA FailedSound ==
  ASSUME Types, \A x \in Sids : Ok(x), Failed
  PROVE  Types' /\ \A x \in Sids : Ok(x)'
<1>1. /\ wire # <<>> /\ wire' = Tail(wire) /\ lost' = lost \cup {Head(wire).sid}
      /\ UNCHANGED <<now, sessions, redis, used, seen, ended, reset>>
  BY DEF Failed
<1>2. Types'
  <2>1. Head(wire) \in Commands /\ Tail(wire) \in Seq(Commands)
    BY <1>1, TailFacts DEF Types
  <2>2. Head(wire).sid \in Sids BY <2>1 DEF Commands
  <2>3. QED BY <1>1, <2>1, <2>2 DEF Types
<1>3. ASSUME NEW x \in Sids PROVE Ok(x)'
  <2>1. Sound(x, sessions[x], redis, Tail(wire), seen[x], now, used, ended,
              lost \cup {Head(wire).sid})
    BY <1>1, SoundFailed DEF Ok, Types
  <2>2. QED BY <1>1, <2>1 DEF Ok
<1>4. QED BY <1>2, <1>3

(* What is under way is lost; what Redis holds and did not expire returns. *)
LEMMA RestartSound ==
  ASSUME Types, \A x \in Sids : Ok(x), Restart
  PROVE  Types' /\ \A x \in Sids : Ok(x)'
<1>1. /\ sessions' = [s \in Sids |-> Restored(s)]
      /\ lost' = lost \cup {wire[i].sid : i \in DOMAIN wire} /\ wire' = <<>>
      /\ UNCHANGED <<now, redis, used, seen, ended, reset>>
  BY DEF Restart
<1>2. \A x \in Sids : Restored(x) = None \/ Restored(x) = redis[x] BY DEF Restored
<1>3. Types'
  <2>1. sessions' \in [Sids -> Stores] BY <1>1, <1>2 DEF Types, Stores
  <2>2. {wire[i].sid : i \in DOMAIN wire} \subseteq Sids
    <3>1. \A i \in DOMAIN wire : wire[i] \in Commands BY DEF Types
    <3>2. QED BY <3>1 DEF Commands
  <2>3. QED BY <1>1, <2>1, <2>2 DEF Types
<1>4. ASSUME NEW x \in Sids PROVE Ok(x)'
  <2>1. x \in lost' <=> (x \in lost \/ ~Untold(wire, x)) BY <1>1 DEF Untold
  <2>2. Sound(x, sessions[x], redis, wire, seen[x], now, used, ended, lost)
    BY DEF Ok
  <2>3. /\ sessions[x] \in Stores /\ redis \in [Sids -> Stores] /\ wire \in Seq(Commands)
        /\ seen[x] \in Nat /\ now \in Nat
    BY DEF Types
  <2>4. Sound(x, Restored(x), redis, <<>>, seen[x], now, used, ended, lost')
    BY <1>2, <2>1, <2>2, <2>3, SoundRestarted
  <2>5. QED BY <1>1, <2>4 DEF Ok
<1>5. QED BY <1>3, <1>4

LEMMA NextInv ==
  Types /\ (\A x \in Sids : Ok(x)) /\ [Next]_webVars
    => (Types /\ \A x \in Sids : Ok(x))'
<1> SUFFICES ASSUME Types, \A x \in Sids : Ok(x), [Next]_webVars
             PROVE  Types' /\ \A x \in Sids : Ok(x)'
  OBVIOUS
<1>1. ASSUME NEW sid \in Sids, NEW old \in Cookies, IssueLocal(sid, old)
      PROVE  Types' /\ \A x \in Sids : Ok(x)'
  BY <1>1, IssueLocalSound
<1>2. ASSUME NEW sid \in Sids, NEW old \in Cookies, IssueEntra(sid, old)
      PROVE  Types' /\ \A x \in Sids : Ok(x)'
  BY <1>2, IssueEntraSound
<1>3. ASSUME NEW sid \in Sids, Request(sid)
      PROVE  Types' /\ \A x \in Sids : Ok(x)'
  BY <1>3, UseSound DEF Request, Types
<1>4. ASSUME NEW sid \in Sids, Rejected(sid)
      PROVE  Types' /\ \A x \in Sids : Ok(x)'
  BY <1>4, RejectedSound
<1>5. ASSUME NEW sid \in Sids, Logout(sid)
      PROVE  Types' /\ \A x \in Sids : Ok(x)'
  BY <1>5, LogoutSound
<1>6. ASSUME NEW sid \in Sids, FactoryReset(sid)
      PROVE  Types' /\ \A x \in Sids : Ok(x)'
  BY <1>6, UseSound DEF FactoryReset, Types
<1>7. CASE Prune BY <1>7, PruneSound
<1>8. CASE Stored BY <1>8, StoredSound
<1>9. CASE Failed BY <1>9, FailedSound
<1>10. CASE Restart BY <1>10, RestartSound
<1>11. CASE Tick
  <2>1. now' = now + 1 /\ UNCHANGED <<sessions, redis, wire, used, seen, ended, lost, reset>>
    BY <1>11 DEF Tick
  <2>2. Types' BY <2>1 DEF Types
  <2>3. \A x \in Sids : Ok(x)' BY <2>1, SoundLater DEF Ok, Types
  <2>4. QED BY <2>2, <2>3
<1>12. CASE UNCHANGED webVars BY <1>12 DEF webVars, Types, Ok
<1>13. QED
  BY <1>1, <1>2, <1>3, <1>4, <1>5, <1>6, <1>7, <1>8, <1>9, <1>10, <1>11, <1>12
  DEF Next

LEMMA InvHolds == Spec => []IInv
<1>1. Init => IInv BY InitInv, InvSplit
<1>2. IInv /\ [Next]_webVars => IInv'
  <2> SUFFICES ASSUME IInv, [Next]_webVars PROVE IInv' OBVIOUS
  <2>1. Types' /\ \A x \in Sids : Ok(x)' BY InvSplit, NextInv
  <2>2. QED BY <2>1 DEF IInv, TypeOK, Types, Ok, Stores, Commands
<1>3. QED BY <1>1, <1>2, PTL DEF Spec

-------------------------------------------------------------------------------
(* For every set of ids and all times to live: who signed out or signed in *)
(* again is not let in with the old session, the idle time counts from the *)
(* last use, and Redis ends up holding what memory holds, over restarts    *)
(* too and unless a command about the session was lost.                    *)
THEOREM SessionsSafe == Spec => []SessionSafety
<1>1. IInv => SessionSafety
  <2> SUFFICES ASSUME IInv PROVE SessionSafety OBVIOUS
  <2>1. Types /\ \A sid \in Sids : Ok(sid) BY InvSplit
  <2>2. SignedOutStaysOut
    BY <2>1 DEF Types, Ok, Sound, SignedOutStaysOut
  <2>3. IdleCountsFromUse
    BY <2>1 DEF Ok, Sound, Bounded, Current, Valid, IdleCountsFromUse
  <2>4. StoredAsUsed
    <3> SUFFICES ASSUME NEW sid \in Sids, wire = <<>>, sid \notin lost, Valid(sid),
                        redis[sid] # None
                 PROVE  redis[sid] = sessions[sid]
      BY DEF StoredAsUsed
    <3>1. \A v : EndsAs(wire, redis, sid, v) => redis[sid] = v
      BY DEF EndsAs, LastTells
    <3>2. QED BY <2>1, <3>1 DEF Ok, Sound, Current, Valid
  <2>5. QED BY <2>2, <2>3, <2>4 DEF IInv, SessionSafety
<1>2. QED BY <1>1, InvHolds, PTL

(* For every set of ids and all times to live: only a restart brings a     *)
(* session back, and never one that is too old or was idle too long.       *)
THEOREM ExpiredNeverBack == Spec => ExpiredStaysOut
<1> DEFINE Back(sid) ==
      sessions[sid] = None /\ sid \in used /\ sessions'[sid] # None
        => now - sessions'[sid].createdAt <= Ttl
           /\ (IdleTtl > 0 => now - seen[sid] <= IdleTtl \/ sid \in lost)
<1>1. IInv /\ [Next]_webVars => [\A sid \in Sids : Back(sid)]_webVars
  <2> SUFFICES ASSUME IInv, Next, NEW sid \in Sids,
                      sessions[sid] = None, sid \in used, sessions'[sid] # None
               PROVE  /\ now - sessions'[sid].createdAt <= Ttl
                      /\ IdleTtl > 0 => now - seen[sid] <= IdleTtl \/ sid \in lost
    OBVIOUS
  <2>1. Types /\ Ok(sid) BY InvSplit
  <2>2. CASE Restart
    <3>1. sessions'[sid] = redis[sid] /\ redis[sid] # None /\ ~Expired(redis[sid])
      BY <2>2 DEF Restart, Restored
    <3>2. redis[sid] \in Session BY <2>1, <3>1 DEF Types, Stores
    <3>3. redis[sid].lastSeenAt <= seen[sid] BY <2>1, <3>1 DEF Ok, Sound, Bounded
    <3>4. /\ redis[sid].createdAt \in Nat /\ redis[sid].lastSeenAt \in Nat
          /\ seen[sid] \in Nat /\ now \in Nat
      BY <2>1, <3>2 DEF Types, Session
    <3>5. QED BY <3>1, <3>3, <3>4, SessionAssumption DEF Expired
  <2>3. CASE ~Restart
    <3>1. sessions'[sid] = None
      <4>1. ASSUME NEW s \in Sids, NEW old \in Cookies,
                   IssueLocal(s, old) \/ IssueEntra(s, old)
            PROVE  sessions'[sid] = None
        BY <4>1 DEF IssueLocal, IssueEntra
      <4>2. ASSUME NEW s \in Sids, Request(s) \/ FactoryReset(s) \/ Rejected(s) \/ Logout(s)
            PROVE  sessions'[sid] = None
        BY <2>1, <4>2 DEF Request, FactoryReset, Rejected, Logout, Valid, Types
      <4>3. CASE Prune BY <4>3 DEF Prune
      <4>4. CASE Stored \/ Failed \/ Tick BY <4>4 DEF Stored, Failed, Tick
      <4>5. QED BY <2>3, <4>1, <4>2, <4>3, <4>4 DEF Next
    <3>2. QED BY <3>1
  <2>4. QED BY <2>2, <2>3
<1>2. QED BY <1>1, InvHolds, PTL DEF Spec, ExpiredStaysOut

-------------------------------------------------------------------------------
\* The tokens of a first login

(* What holds of a token t with the entry e, the save s under way, the     *)
(* stage b it began with, p passwords and n sessions so far, and what a    *)
(* factory reset left it as: the entry and the save exclude each other, so *)
(* each stage happens once.                                                *)
Staged(e, s, b, p, n, left) ==
  /\ p <= 1 /\ n <= 1
  /\ b = None => e = None /\ s = None /\ p = 0 /\ n = 0 /\ left = None
  /\ b = "enroll_totp" => p = 0 /\ s # "password"
  /\ b = "set_password" /\ n > 0 => p = 1
  /\ e # None => s = None /\ n = 0
  /\ e # None => IF e.stage = "set_password" THEN b = "set_password" /\ p = 0
                 ELSE b = "set_password" => p = 1
  /\ s = "password" => b = "set_password" /\ p = 0 /\ n = 0
  /\ s = "totp" => n = 0 /\ (b = "set_password" => p = 1)
  /\ left = FALSE => e = None /\ s # "password"

TokenSound(t) ==
  Staged(entry[t], setupSaving[t], began[t], passwords[t], setupSessions[t], stale[t])

SetupInv == Setup!TypeOK /\ \A t \in SetupTokens : TokenSound(t)

(* Only t is touched. *)
Rest(t) ==
  \A u \in SetupTokens \ {t} :
    /\ entry'[u] = entry[u] /\ setupSaving'[u] = setupSaving[u] /\ began'[u] = began[u]
    /\ passwords'[u] = passwords[u] /\ setupSessions'[u] = setupSessions[u] /\ stale'[u] = stale[u]

LEMMA SetupInitial == Setup!Init => SetupInv
BY SetupAssumption DEF Setup!Init, Setup!Cleared, Setup!TypeOK, SetupInv, TokenSound, Staged

LEMMA OneToken ==
  ASSUME SetupInv, NEW t \in SetupTokens, Setup!TypeOK', Rest(t), TokenSound(t)' PROVE SetupInv'
<1>1. ASSUME NEW u \in SetupTokens, u # t PROVE TokenSound(u)'
  BY <1>1 DEF SetupInv, Rest, TokenSound
<1> QED BY <1>1 DEF SetupInv

LEMMA EntryGone ==
  ASSUME SetupInv, NEW t \in SetupTokens, entry' = [entry EXCEPT ![t] = None],
         UNCHANGED <<setupNow, mfa, setupSaving, began, passwords, setupSessions, stale>>
  PROVE  SetupInv'
<1>1. Setup!TypeOK' /\ Rest(t) /\ entry'[t] = None
  BY DEF SetupInv, Setup!TypeOK, Rest
<1>2. TokenSound(t)'
  BY <1>1 DEF SetupInv, TokenSound, Staged
<1> QED BY <1>1, <1>2, OneToken

LEMMA LoginKeeps == ASSUME SetupInv, NEW t \in SetupTokens, Setup!Login(t) PROVE SetupInv'
<1> SUFFICES ASSUME NEW stage \in {"set_password", "enroll_totp"}, Setup!Create(t, stage) PROVE SetupInv'
  BY DEF Setup!Login
<1> DEFINE e == [stage |-> stage, createdAt |-> setupNow]
<1>1. /\ began[t] = None /\ entry' = [entry EXCEPT ![t] = e] /\ began' = [began EXCEPT ![t] = stage]
      /\ UNCHANGED <<setupNow, mfa, setupSaving, passwords, setupSessions, stale>>
  BY DEF Setup!Create
<1>2. e \in Setup!Entry /\ e.stage = stage /\ e # None
  BY SetupAssumption DEF Setup!Entry, SetupInv, Setup!TypeOK
<1> HIDE DEF e
<1>3. Setup!TypeOK' /\ Rest(t) /\ entry'[t] = e /\ began'[t] = stage
  BY <1>1, <1>2 DEF SetupInv, Setup!TypeOK, Rest
<1>4. TokenSound(t) /\ stale[t] # FALSE
  BY <1>1, SetupAssumption DEF SetupInv, TokenSound, Staged
<1>5. /\ setupSaving'[t] = None /\ passwords'[t] = 0 /\ setupSessions'[t] = 0 /\ stale'[t] # FALSE
      /\ stage # None /\ stage \in {"set_password", "enroll_totp"}
  BY <1>1, <1>4, SetupAssumption DEF TokenSound, Staged
<1>6. Staged(e, None, stage, 0, 0, stale'[t])
  <2>1. None # "password" /\ None # "totp"
    BY SetupAssumption
  <2>2. stage = "set_password" \/ stage = "enroll_totp"
    BY <1>5
  <2>3. CASE stage = "set_password"
    <3>1. e # None => IF e.stage = "set_password" THEN stage = "set_password" /\ 0 = 0
                 ELSE stage = "set_password" => 0 = 1
      BY <1>2, <2>3
    <3>2. stale'[t] = FALSE => e = None /\ None # "password"
      BY <1>5
    <3> QED BY <1>2, <1>5, <2>1, <2>3, <3>1, <3>2 DEF Staged
  <2>4. CASE stage = "enroll_totp"
    <3>1. e # None => IF e.stage = "set_password" THEN stage = "set_password" /\ 0 = 0
                 ELSE stage = "set_password" => 0 = 1
      BY <1>2, <2>4
    <3>2. stale'[t] = FALSE => e = None /\ None # "password"
      BY <1>5
    <3> QED BY <1>2, <1>5, <2>1, <2>4, <3>1, <3>2 DEF Staged
  <2> QED BY <2>2, <2>3, <2>4
<1>7. TokenSound(t)'
  BY <1>3, <1>5, <1>6 DEF TokenSound
<1> QED BY <1>3, <1>7, OneToken

LEMMA ConsumeKeeps ==
  ASSUME SetupInv, NEW t \in SetupTokens, Setup!SetPassword(t) \/ Setup!VerifyTotp(t) PROVE SetupInv'
<1>1. PICK s \in {"password", "totp"} :
        /\ entry[t] # None /\ entry[t].stage = IF s = "password" THEN "set_password" ELSE "enroll_totp"
        /\ entry' = [entry EXCEPT ![t] = None] /\ setupSaving' = [setupSaving EXCEPT ![t] = s]
        /\ UNCHANGED <<setupNow, mfa, began, passwords, setupSessions, stale>>
  BY DEF Setup!SetPassword, Setup!VerifyTotp, Setup!Consume, Setup!Matches
<1>2. Setup!TypeOK' /\ Rest(t) /\ entry'[t] = None /\ setupSaving'[t] = s
  BY <1>1 DEF SetupInv, Setup!TypeOK, Rest
<1>3. TokenSound(t)
  BY DEF SetupInv
<1>4. TokenSound(t)'
  BY <1>1, <1>2, <1>3, SetupAssumption DEF TokenSound, Staged
<1> QED BY <1>2, <1>4, OneToken

LEMMA SavedKeeps ==
  ASSUME SetupInv, NEW t \in SetupTokens,
         Setup!PasswordSaved(t) \/ Setup!TotpSaved(t) \/ Setup!SaveFails(t)
  PROVE  SetupInv'
<1>1. TokenSound(t) /\ passwords[t] \in Nat /\ setupSessions[t] \in Nat
  BY DEF SetupInv, Setup!TypeOK
<1>2. CASE Setup!SaveFails(t)
  <2>1. Setup!TypeOK' /\ Rest(t) /\ setupSaving'[t] = None
    BY <1>2 DEF SetupInv, Setup!TypeOK, Rest, Setup!SaveFails
  <2>2. TokenSound(t)'
    BY <1>1, <1>2, <2>1, SetupAssumption DEF TokenSound, Staged, Setup!SaveFails
  <2> QED BY <2>1, <2>2, OneToken
<1>3. CASE Setup!TotpSaved(t)
  <2>1. Setup!TypeOK' /\ Rest(t) /\ setupSaving'[t] = None
        /\ setupSessions'[t] = setupSessions[t] + 1
    BY <1>3 DEF SetupInv, Setup!TypeOK, Rest, Setup!TotpSaved, Setup!SignedIn
  <2>2. TokenSound(t)'
    BY <1>1, <1>3, <2>1, SetupAssumption DEF TokenSound, Staged, Setup!TotpSaved
  <2> QED BY <2>1, <2>2, OneToken
<1>4. CASE Setup!PasswordSaved(t)
  <2> DEFINE e == [stage |-> "enroll_totp", createdAt |-> setupNow]
  <2>1. /\ setupSaving[t] = "password" /\ passwords' = [passwords EXCEPT ![t] = passwords[t] + 1]
        /\ setupSaving' = [setupSaving EXCEPT ![t] = None]
        /\ UNCHANGED <<setupNow, mfa, began, stale>>
    BY <1>4 DEF Setup!PasswordSaved
  <2>2. e \in Setup!Entry /\ e.stage = "enroll_totp" /\ e # None
    BY SetupAssumption DEF Setup!Entry, SetupInv, Setup!TypeOK
  <2>3. \/ entry' = [entry EXCEPT ![t] = e] /\ setupSessions' = setupSessions
        \/ entry' = [entry EXCEPT ![t] = None]
           /\ setupSessions' = [setupSessions EXCEPT ![t] = setupSessions[t] + 1]
    BY <1>4 DEF Setup!PasswordSaved, Setup!SignedIn
  <2> HIDE DEF e
  <2>4. /\ Setup!TypeOK' /\ Rest(t) /\ setupSaving'[t] = None /\ passwords'[t] = passwords[t] + 1
        /\ \/ entry'[t] = e /\ setupSessions'[t] = setupSessions[t]
           \/ entry'[t] = None /\ setupSessions'[t] = setupSessions[t] + 1
    BY <2>1, <2>2, <2>3 DEF SetupInv, Setup!TypeOK, Rest
  <2>5. TokenSound(t)'
    BY <1>1, <2>1, <2>2, <2>4, SetupAssumption DEF TokenSound, Staged
  <2> QED BY <2>4, <2>5, OneToken
<1> QED BY <1>2, <1>3, <1>4

LEMMA ClearedKeeps ==
  ASSUME SetupInv, Setup!Housekeeping \/ Setup!FactoryReset \/ Setup!Restart PROVE SetupInv'
<1>1. Setup!TypeOK'
  BY SetupAssumption DEF SetupInv, Setup!TypeOK, Setup!Housekeeping, Setup!FactoryReset, Setup!Restart, Setup!Cleared
<1>2. ASSUME NEW t \in SetupTokens
      PROVE  TokenSound(t)'
  <2>0. TokenSound(t)
    BY DEF SetupInv
  <2>1. CASE Setup!Housekeeping
    BY <2>0, <2>1, SetupAssumption DEF Setup!Housekeeping, TokenSound, Staged
  <2>2. CASE Setup!FactoryReset
    BY <2>0, <2>2, SetupAssumption DEF Setup!FactoryReset, Setup!Cleared, TokenSound, Staged
  <2>3. CASE Setup!Restart
    BY <2>0, <2>3, SetupAssumption DEF Setup!Restart, Setup!Cleared, TokenSound, Staged
  <2> QED BY <2>1, <2>2, <2>3
<1> QED BY <1>1, <1>2 DEF SetupInv

LEMMA SetupStep == SetupInv /\ [Setup!Next]_(Setup!vars) => SetupInv'
<1> SUFFICES ASSUME SetupInv, [Setup!Next]_(Setup!vars) PROVE SetupInv'
  OBVIOUS
<1>1. ASSUME NEW t \in SetupTokens, Setup!Login(t) PROVE SetupInv'
  BY <1>1, LoginKeeps
<1>2. ASSUME NEW t \in SetupTokens, Setup!Expire(t) PROVE SetupInv'
  BY <1>2, EntryGone DEF Setup!Expire
<1>3. CASE UNCHANGED Setup!vars
  BY <1>3 DEF Setup!vars, SetupInv, Setup!TypeOK, TokenSound
<1>4. ASSUME NEW t \in SetupTokens, Setup!ShowQr(t) PROVE SetupInv'
  BY <1>2, <1>3, <1>4 DEF Setup!ShowQr
<1>5. ASSUME NEW t \in SetupTokens, Setup!SetPassword(t) \/ Setup!VerifyTotp(t) PROVE SetupInv'
  BY <1>5, ConsumeKeeps
<1>6. ASSUME NEW t \in SetupTokens, Setup!Refused(t) PROVE SetupInv'
  BY <1>6, EntryGone DEF Setup!Refused, Setup!Consume
<1>7. ASSUME NEW t \in SetupTokens, Setup!PasswordSaved(t) \/ Setup!TotpSaved(t) \/ Setup!SaveFails(t)
      PROVE  SetupInv'
  BY <1>7, SavedKeeps
<1>8. CASE Setup!Housekeeping \/ Setup!FactoryReset \/ Setup!Restart
  BY <1>8, ClearedKeeps
<1>9. CASE Setup!SwitchMfa \/ Setup!Tick
  <2>1. /\ setupNow' \in Nat
        /\ UNCHANGED <<entry, setupSaving, began, passwords, setupSessions, stale>>
    BY <1>9 DEF SetupInv, Setup!TypeOK, Setup!SwitchMfa, Setup!Tick
  <2>2. mfa' \in BOOLEAN
    BY <1>9, Zenon DEF SetupInv, Setup!TypeOK, Setup!SwitchMfa, Setup!Tick
  <2> QED BY <2>1, <2>2 DEF SetupInv, Setup!TypeOK, TokenSound
<1> QED BY <1>1, <1>2, <1>3, <1>4, <1>5, <1>6, <1>7, <1>8, <1>9 DEF Setup!Next

LEMMA SetupSafe == SetupInv => Setup!TypeOK /\ Setup!OncePerToken /\ Setup!StagesInOrder /\ Setup!ResetEndsSetup
BY DEF SetupInv, Setup!OncePerToken, Setup!StagesInOrder, Setup!ResetEndsSetup, TokenSound, Staged

LEMMA SetupKept == Setup!Spec => []SetupInv
BY SetupInitial, SetupStep, PTL DEF Setup!Spec

-------------------------------------------------------------------------------
\* The lockout

(* The time 2 * Threshold failures take at least.                          *)
Spread == Lockout!Least(LockFor, Window + 1)

(* The times f of failures stand in order, and none is ahead of the clock. *)
Sorted(f, t) ==
  /\ \A i \in 1..Len(f) : f[i] <= t
  /\ \A i, j \in 1..Len(f) : i <= j => f[i] <= f[j]

(* Of the failures f the Threshold last began a spread before t.           *)
Behind(f, n, t) == n >= Threshold => t - f[n - Threshold + 1] >= Spread

(* The row r counts the last of the failures f: those since its lock, or,  *)
(* before it has one, those since its window began, which came a spread    *)
(* after the Threshold failures before it.                                 *)
Counts(r, f, t) ==
  LET k == r.failures
      m == Len(f) - k IN
  /\ k <= Len(f) /\ r.windowStartedAtMs <= t
  /\ r.lockedUntilMs > t => k = 0
  /\ IF r.lockedUntilMs = 0
     THEN k > 0 /\ f[m + 1] = r.windowStartedAtMs /\ Behind(f, m, r.windowStartedAtMs)
     ELSE /\ m >= Threshold /\ f[m] + LockFor = r.lockedUntilMs
          /\ f[m - Threshold + 1] >= r.windowStartedAtMs
          /\ f[m] <= r.windowStartedAtMs + Window

Spaced(f) ==
  \A i \in 1..Len(f) : i + 2 * Threshold - 1 <= Len(f) => f[i + 2 * Threshold - 1] - f[i] >= Spread

Counted(r, f, t) ==
  /\ Sorted(f, t) /\ Spaced(f)
  /\ IF r = None THEN Behind(f, Len(f), t) ELSE Counts(r, f, t)

LockoutInv ==
  /\ Lockout!TypeOK
  /\ \A id \in Ids : Counted(lockoutRow[id], lockoutFailed[id], lockoutNow)
Counter == [failures : 0..(Threshold - 1), windowStartedAtMs : Nat, lockedUntilMs : Nat]

(* A failure at t can be counted in the row r.                             *)
Ready(r, f, t) ==
  LET k == r.failures
      m == Len(f) - k IN
  /\ k <= Len(f) /\ r.windowStartedAtMs <= t /\ t <= r.windowStartedAtMs + Window
  /\ r.lockedUntilMs <= t
  /\ IF r.lockedUntilMs = 0
     THEN /\ IF k > 0 THEN f[m + 1] = r.windowStartedAtMs ELSE t = r.windowStartedAtMs
          /\ Behind(f, m, r.windowStartedAtMs)
     ELSE /\ m >= Threshold /\ f[m] + LockFor = r.lockedUntilMs
          /\ f[m - Threshold + 1] >= r.windowStartedAtMs

LEMMA SpreadIs == Spread \in Nat /\ Spread <= LockFor /\ Spread <= Window + 1
BY LockoutAssumption DEF Spread, Lockout!Least

LEMMA CountedLater ==
  ASSUME NEW f \in Seq(Nat), NEW t \in Nat, NEW u \in Nat, t <= u, NEW r \in Counter \cup {None},
         Counted(r, f, t)
  PROVE  Counted(r, f, u)
<1> DEFINE n == Len(f)
<1>1. n \in Nat /\ Sorted(f, t) /\ Spaced(f)
  BY DEF Counted
<1>2. \A i \in 1..n : f[i] \in Nat
  OBVIOUS
<1>3. Sorted(f, u)
  BY <1>1, <1>2 DEF Sorted
<1>4. CASE r = None
  <2>1. ASSUME n >= Threshold PROVE u - f[n - Threshold + 1] >= Spread
    <3>1. n - Threshold + 1 \in 1..n
      BY <1>1, <2>1, LockoutAssumption
    <3>2. t - f[n - Threshold + 1] >= Spread
      BY <1>4, <2>1 DEF Counted, Behind
    <3> QED BY <1>2, <3>1, <3>2, SpreadIs
  <2> QED BY <1>1, <1>3, <1>4, <2>1 DEF Counted, Behind
<1>5. CASE r # None
  <2>1. r \in Counter
    BY <1>5
  <2>2. Counts(r, f, t)
    BY <1>5 DEF Counted
  <2>3. Counts(r, f, u)
    BY <2>1, <2>2 DEF Counts, Counter
  <2> QED BY <1>1, <1>3, <1>5, <2>3 DEF Counted
<1> QED BY <1>4, <1>5

(* The row of a window that is over, and whose lock is, may be dropped.    *)
LEMMA CountedDropped ==
  ASSUME NEW f \in Seq(Nat), NEW t \in Nat, NEW r \in Counter, Counted(r, f, t), r # None,
         t - r.windowStartedAtMs > Window, r.lockedUntilMs <= t
  PROVE  Behind(f, Len(f), t)
<1> DEFINE n == Len(f)
           k == r.failures
           s == r.windowStartedAtMs
<1>1. n \in Nat /\ k \in Nat /\ k <= n /\ k <= Threshold - 1 /\ s \in Nat /\ r.lockedUntilMs \in Nat
  BY LockoutAssumption DEF Counted, Counts, Counter
<1>2. \A i \in 1..n : f[i] \in Nat
  OBVIOUS
<1>3. \A i, j \in 1..n : i <= j => f[i] <= f[j]
  BY DEF Counted, Sorted
<1>4. CASE r.lockedUntilMs = 0
  <2>1. k > 0 /\ f[n - k + 1] = s
    BY <1>4 DEF Counted, Counts
  <2> HIDE DEF n, k, s
  <2>2. ASSUME n >= Threshold PROVE t - f[n - Threshold + 1] >= Spread
    <3>1. /\ n - Threshold + 1 \in 1..n /\ n - k + 1 \in 1..n
          /\ n - Threshold + 1 <= n - k + 1
      BY <1>1, <2>1, <2>2, LockoutAssumption
    <3>2. f[n - Threshold + 1] <= s /\ f[n - Threshold + 1] \in Nat
      BY <1>2, <1>3, <2>1, <3>1
    <3>3. t - s > Window
      BY DEF s
    <3>4. Window \in Nat /\ Spread \in Nat /\ Spread <= Window + 1
      BY SpreadIs, LockoutAssumption
    <3> QED BY <1>1, <3>2, <3>3, <3>4
  <2> QED BY <2>2 DEF Behind, n
<1>5. CASE r.lockedUntilMs # 0
  <2>1. n - k >= Threshold /\ f[n - k] + LockFor = r.lockedUntilMs
    BY <1>5 DEF Counted, Counts
  <2> HIDE DEF n, k, s
  <2>2. ASSUME n >= Threshold PROVE t - f[n - Threshold + 1] >= Spread
    <3>1. /\ n - Threshold + 1 \in 1..n /\ n - k \in 1..n
          /\ n - Threshold + 1 <= n - k
      BY <1>1, <2>1, <2>2, LockoutAssumption
    <3>2. f[n - Threshold + 1] <= f[n - k] /\ f[n - Threshold + 1] \in Nat /\ f[n - k] \in Nat
      BY <1>2, <1>3, <3>1
    <3>3. LockFor \in Nat /\ Spread \in Nat /\ Spread <= LockFor
      BY SpreadIs, LockoutAssumption
    <3>4. f[n - k] + LockFor <= t
      BY <2>1
    <3> QED BY <3>2, <3>3, <3>4
  <2> QED BY <2>2 DEF Behind, n
<1> QED BY <1>4, <1>5

LEMMA SortedAppended ==
  ASSUME NEW f \in Seq(Nat), NEW t \in Nat, Sorted(f, t)
  PROVE  Sorted(Append(f, t), t)
<1> DEFINE n == Len(f)
           g == Append(f, t)
<1>1. n \in Nat /\ Len(g) = n + 1
  OBVIOUS
<1>2. \A i \in 1..n : g[i] = f[i]
  OBVIOUS
<1>3. g[n + 1] = t
  OBVIOUS
<1>4. \A i \in 1..n : f[i] \in Nat /\ f[i] <= t
  BY DEF Sorted
<1>5. \A i, j \in 1..n : i <= j => f[i] <= f[j]
  BY DEF Sorted
<1> HIDE DEF n, g
<1>6. \A i \in 1..n + 1 : g[i] <= t
  BY <1>1, <1>2, <1>3, <1>4
<1>7. ASSUME NEW i \in 1..n + 1, NEW j \in 1..n + 1, i <= j PROVE g[i] <= g[j]
  <2>1. CASE j = n + 1
    BY <1>3, <1>6, <2>1
  <2>2. CASE j # n + 1
    <3>1. i \in 1..n /\ j \in 1..n
      BY <1>1, <1>7, <2>2
    <3> QED BY <1>2, <1>5, <1>7, <3>1
  <2> QED BY <2>1, <2>2
<1> QED BY <1>1, <1>6, <1>7 DEF Sorted, g

(* The last of the 2 * Threshold failures comes a spread after the first.  *)
LEMMA SpacedAppended ==
  ASSUME NEW f \in Seq(Nat), NEW t \in Nat, NEW r \in Counter, Sorted(f, t), Spaced(f), Ready(r, f, t)
  PROVE  Spaced(Append(f, t))
<1> DEFINE n == Len(f)
           k == r.failures
           s == r.windowStartedAtMs
           g == Append(f, t)
<1>1. n \in Nat /\ k \in Nat /\ k <= n /\ k <= Threshold - 1 /\ s \in Nat /\ Len(g) = n + 1
      /\ r.lockedUntilMs \in Nat
  BY LockoutAssumption DEF Ready, Counter
<1>2. \A i \in 1..n : g[i] = f[i] /\ f[i] \in Nat
  OBVIOUS
<1>3. g[n + 1] = t
  OBVIOUS
<1>4. \A i, j \in 1..n : i <= j => f[i] <= f[j]
  BY DEF Sorted
<1>5. \A i \in 1..n : i + 2 * Threshold - 1 <= n => f[i + 2 * Threshold - 1] - f[i] >= Spread
  BY DEF Spaced
<1>6. s <= t /\ r.lockedUntilMs <= t
  BY DEF Ready
<1>7. r.lockedUntilMs = 0 => Behind(f, n - k, s)
  BY DEF Ready
<1>8. r.lockedUntilMs # 0 => n - k >= Threshold /\ f[n - k] + LockFor = r.lockedUntilMs
  BY DEF Ready
<1> HIDE DEF n, k, s, g
<1>9. ASSUME NEW i \in 1..n + 1, i + 2 * Threshold - 1 <= n + 1
      PROVE  g[i + 2 * Threshold - 1] - g[i] >= Spread
  <2>1. i \in 1..n /\ i + 2 * Threshold - 1 \in 1..n + 1
    BY <1>1, <1>9, LockoutAssumption
  <2>2. CASE i + 2 * Threshold - 1 <= n
    <3>1. i + 2 * Threshold - 1 \in 1..n
      BY <1>1, <2>1, <2>2
    <3> QED BY <1>2, <1>5, <2>1, <2>2, <3>1
  <2>3. CASE i + 2 * Threshold - 1 = n + 1 /\ r.lockedUntilMs = 0
    <3>1. n - k >= Threshold /\ n - k - Threshold + 1 \in 1..n /\ i <= n - k - Threshold + 1
      BY <1>1, <2>1, <2>3, LockoutAssumption
    <3>2. s - f[n - k - Threshold + 1] >= Spread
      BY <1>7, <2>3, <3>1 DEF Behind
    <3>3. f[i] <= f[n - k - Threshold + 1] /\ f[i] \in Nat /\ f[n - k - Threshold + 1] \in Nat
      BY <1>2, <1>4, <2>1, <3>1
    <3>4. \A x, y \in Nat : y <= x /\ s - x >= Spread => t - y >= Spread
      BY <1>1, <1>6, SpreadIs
    <3>5. t - f[i] >= Spread
      BY <3>2, <3>3, <3>4
    <3> QED BY <1>2, <1>3, <2>1, <2>3, <3>5
  <2>4. CASE i + 2 * Threshold - 1 = n + 1 /\ r.lockedUntilMs # 0
    <3>1. n - k \in 1..n /\ i <= n - k
      BY <1>1, <1>8, <2>1, <2>4, LockoutAssumption
    <3>2. f[i] <= f[n - k] /\ f[i] \in Nat /\ f[n - k] \in Nat
      BY <1>2, <1>4, <2>1, <3>1
    <3>3. f[n - k] + LockFor <= t
      BY <1>6, <1>8, <2>4
    <3>4. t \in Nat /\ LockFor \in Nat /\ Spread \in Nat /\ Spread <= LockFor
      BY <1>1, SpreadIs, LockoutAssumption
    <3>5. \A x, y \in Nat : y <= x /\ x + LockFor <= t => t - y >= Spread
      BY <3>4
    <3>6. t - f[i] >= Spread
      BY <3>2, <3>3, <3>5, Zenon
    <3> QED BY <1>2, <1>3, <2>1, <2>4, <3>6
  <2> QED BY <1>1, <1>9, <2>1, <2>2, <2>3, <2>4
<1> QED BY <1>1, <1>9 DEF Spaced, g

LEMMA CountKeeps ==
  ASSUME NEW f \in Seq(Nat), NEW r \in Counter, Sorted(f, lockoutNow), Spaced(f),
         lockoutNow \in Nat, Ready(r, f, lockoutNow)
  PROVE  Lockout!Count(r) \in Counter /\ Counts(Lockout!Count(r), Append(f, lockoutNow), lockoutNow)
<1> DEFINE t == lockoutNow
           n == Len(f)
           k == r.failures
           s == r.windowStartedAtMs
           u == r.lockedUntilMs
           g == Append(f, t)
           c == Lockout!Count(r)
<1>1. /\ n \in Nat /\ k \in Nat /\ k <= n /\ k <= Threshold - 1 /\ s \in Nat /\ Len(g) = n + 1
      /\ u \in Nat /\ t \in Nat /\ s <= t /\ t <= s + Window /\ u <= t
  BY LockoutAssumption DEF Ready, Counter
<1>2. \A i \in 1..n : g[i] = f[i] /\ f[i] \in Nat
  OBVIOUS
<1>3. g[n + 1] = t
  OBVIOUS
<1>4. \A i, j \in 1..n : i <= j => f[i] <= f[j]
  BY DEF Sorted
<1>5. u = 0 => Behind(f, n - k, s) /\ IF k > 0 THEN f[n - k + 1] = s ELSE t = s
  BY DEF Ready
<1>6. u # 0 => /\ n - k >= Threshold /\ f[n - k] + LockFor = u
               /\ f[n - k - Threshold + 1] >= s
  BY DEF Ready
<1>7. CASE k + 1 >= Threshold
  <2>1. c = [failures |-> 0, windowStartedAtMs |-> s, lockedUntilMs |-> t + LockFor]
    BY <1>7 DEF Lockout!Count
  <2>2. c \in Counter /\ c.failures = 0 /\ c.windowStartedAtMs = s /\ c.lockedUntilMs = t + LockFor
    BY <1>1, <2>1, LockoutAssumption DEF Counter
  <2> HIDE DEF t, n, k, s, u, g, c
  <2>3. n + 1 - Threshold + 1 = n - k + 1 /\ n - k + 1 \in 1..n + 1 /\ n + 1 >= Threshold
    BY <1>1, <1>7, LockoutAssumption
  <2>4. g[n - k + 1] >= s
    <3>1. CASE k = 0
      BY <1>1, <1>3, <3>1
    <3>2. CASE k > 0 /\ u = 0
      <4>1. n - k + 1 \in 1..n
        BY <1>1, <3>2
      <4> QED BY <1>1, <1>2, <1>5, <3>2, <4>1
    <3>3. CASE k > 0 /\ u # 0
      <4>1. n - k + 1 \in 1..n /\ n - k - Threshold + 1 \in 1..n /\ n - k - Threshold + 1 <= n - k + 1
        BY <1>1, <1>6, <3>3, LockoutAssumption
      <4>2. f[n - k - Threshold + 1] <= f[n - k + 1] /\ f[n - k - Threshold + 1] \in Nat
            /\ f[n - k + 1] \in Nat
        BY <1>2, <1>4, <4>1
      <4>3. g[n - k + 1] = f[n - k + 1] /\ f[n - k - Threshold + 1] >= s
        BY <1>2, <1>6, <3>3, <4>1
      <4>4. s \in Nat
        BY <1>1
      <4> QED BY <4>2, <4>3, <4>4
    <3> QED BY <1>1, <3>1, <3>2, <3>3
  <2>5. Counts(c, g, t)
    BY <1>1, <1>3, <2>2, <2>3, <2>4, LockoutAssumption DEF Counts
  <2> QED BY <2>2, <2>5 DEF t, g, c
<1>8. CASE k + 1 < Threshold
  <2>1. c = [r EXCEPT !.failures = k + 1]
    BY <1>1, <1>8, LockoutAssumption DEF Lockout!Count
  <2>2. c \in Counter /\ c.failures = k + 1 /\ c.windowStartedAtMs = s /\ c.lockedUntilMs = u
    <3>1. k + 1 \in 0..(Threshold - 1)
      BY <1>1, <1>8, LockoutAssumption
    <3>2. r = [failures |-> k, windowStartedAtMs |-> s, lockedUntilMs |-> u]
      BY DEF Counter
    <3>3. c = [failures |-> k + 1, windowStartedAtMs |-> s, lockedUntilMs |-> u]
      BY <2>1, <3>2
    <3> HIDE DEF k, s, u, c
    <3> QED BY <1>1, <3>1, <3>3 DEF Counter
  <2> HIDE DEF t, n, k, s, u, g, c
  <2>3. CASE u = 0
    <3>1. g[n - k + 1] = s
      <4>1. CASE k = 0
        BY <1>1, <1>3, <1>5, <2>3, <4>1
      <4>2. CASE k > 0
        <5>1. n - k + 1 \in 1..n
          BY <1>1, <4>2
        <5> QED BY <1>2, <1>5, <2>3, <4>2, <5>1
      <4> QED BY <1>1, <4>1, <4>2
    <3>2. Behind(g, n - k, s)
      <4>1. ASSUME n - k >= Threshold PROVE s - g[n - k - Threshold + 1] >= Spread
        <5>1. n - k - Threshold + 1 \in 1..n
          BY <1>1, <4>1, LockoutAssumption
        <5> QED BY <1>2, <1>5, <2>3, <4>1, <5>1 DEF Behind
      <4> QED BY <4>1 DEF Behind
    <3>3. n + 1 - (k + 1) = n - k
      BY <1>1
    <3> QED BY <1>1, <2>2, <2>3, <3>1, <3>2, <3>3 DEF Counts, t, g, c
  <2>4. CASE u # 0
    <3>1. n - k \in 1..n /\ n - k - Threshold + 1 \in 1..n /\ n + 1 - (k + 1) = n - k
      BY <1>1, <1>6, <2>4, LockoutAssumption
    <3>2. g[n - k] + LockFor = u /\ g[n - k - Threshold + 1] >= s /\ g[n - k] <= s + Window
      <4>1. g[n - k] = f[n - k] /\ g[n - k - Threshold + 1] = f[n - k - Threshold + 1] /\ f[n - k] \in Nat
        BY <1>2, <3>1
      <4>2. f[n - k] + LockFor = u /\ f[n - k - Threshold + 1] >= s
        BY <1>6, <2>4
      <4>3. u <= t /\ t <= s + Window /\ u \in Nat /\ t \in Nat /\ s \in Nat
        BY <1>1
      <4>4. LockFor \in Nat \ {0} /\ Window \in Nat
        BY LockoutAssumption
      <4> QED BY <4>1, <4>2, <4>3, <4>4
    <3>3. c.failures <= Len(g) /\ Len(g) - c.failures = n - k
      BY <1>1, <2>2
    <3>4. c.windowStartedAtMs <= t /\ ~(c.lockedUntilMs > t) /\ c.lockedUntilMs # 0 /\ n - k >= Threshold
      BY <1>1, <1>6, <2>2, <2>4
    <3>5. Counts(c, g, t)
      BY <2>2, <3>2, <3>3, <3>4 DEF Counts
    <3> QED BY <2>2, <3>5 DEF t, g, c
  <2> QED BY <2>3, <2>4 DEF t, g, c
<1> QED BY <1>1, <1>7, <1>8, LockoutAssumption

LEMMA LockoutInitial == Lockout!Init => LockoutInv
<1> SUFFICES ASSUME Lockout!Init PROVE LockoutInv
  OBVIOUS
<1>1. <<>> \in Seq(Nat) /\ Len(<<>>) = 0
  OBVIOUS
<1>2. Lockout!TypeOK
  BY <1>1 DEF Lockout!Init, Lockout!TypeOK
<1>3. ASSUME NEW id \in Ids PROVE Counted(None, <<>>, 0)
  BY <1>1, LockoutAssumption DEF Counted, Sorted, Spaced, Behind
<1> QED BY <1>2, <1>3 DEF Lockout!Init, LockoutInv

LEMMA LockoutFacts ==
  ASSUME LockoutInv, NEW id \in Ids
  PROVE  /\ lockoutNow \in Nat /\ lockoutFailed[id] \in Seq(Nat)
         /\ lockoutRow[id] \in Counter \cup {None}
         /\ Counted(lockoutRow[id], lockoutFailed[id], lockoutNow)
BY DEF LockoutInv, Lockout!TypeOK, Lockout!Row, Counter

(* The clean-up and the question for the lock drop no row but one whose    *)
(* window and whose lock are over.                                         *)
LEMMA Thinned ==
  ASSUME LockoutInv, NEW id \in Ids, Lockout!Open(id), NEW x \in Ids
  PROVE  LET then == Lockout!Trimmed(Lockout!Asked(id)) IN
         \/ then[x] = lockoutRow[x]
         \/ /\ then[x] = None /\ lockoutRow[x] # None /\ Lockout!Over(lockoutRow[x])
            /\ lockoutRow[x].lockedUntilMs <= lockoutNow
<1>1. lockoutRow[id] # None => lockoutRow[id].lockedUntilMs <= lockoutNow
  BY LockoutFacts DEF Lockout!Open, Lockout!Locked, Counter
<1>2. DOMAIN lockoutRow = Ids
  BY DEF LockoutInv, Lockout!TypeOK
<1>3. \/ Lockout!Asked(id)[x] = lockoutRow[x]
      \/ /\ Lockout!Asked(id)[x] = None /\ x = id /\ lockoutRow[x] # None
         /\ Lockout!Over(lockoutRow[x])
  BY <1>2 DEF Lockout!Asked
<1>4. \/ Lockout!Trimmed(Lockout!Asked(id))[x] = Lockout!Asked(id)[x]
      \/ Lockout!Trimmed(Lockout!Asked(id))[x] = None /\ Lockout!Stale(Lockout!Asked(id)[x])
  BY DEF Lockout!Trimmed
<1> QED BY <1>1, <1>3, <1>4 DEF Lockout!Stale

LEMMA ThinnedKeeps ==
  ASSUME LockoutInv, NEW id \in Ids, Lockout!Open(id), NEW x \in Ids
  PROVE  LET then == Lockout!Trimmed(Lockout!Asked(id)) IN
         then[x] \in Counter \cup {None} /\ Counted(then[x], lockoutFailed[x], lockoutNow)
<1> DEFINE then == Lockout!Trimmed(Lockout!Asked(id))
<1>1. CASE then[x] = lockoutRow[x]
  BY <1>1, LockoutFacts
<1>2. CASE /\ then[x] = None /\ lockoutRow[x] # None /\ Lockout!Over(lockoutRow[x])
           /\ lockoutRow[x].lockedUntilMs <= lockoutNow
  <2>1. lockoutRow[x] \in Counter /\ lockoutNow - lockoutRow[x].windowStartedAtMs > Window
    BY <1>2, LockoutFacts DEF Lockout!Over
  <2>2. Behind(lockoutFailed[x], Len(lockoutFailed[x]), lockoutNow)
    BY <1>2, <2>1, LockoutFacts, CountedDropped
  <2> QED BY <1>2, <2>2, LockoutFacts DEF Counted
<1> QED BY <1>1, <1>2, Thinned

LEMMA BadAttemptKeeps == ASSUME LockoutInv, NEW id \in Ids, Lockout!BadAttempt(id) PROVE LockoutInv'
<1> DEFINE then == Lockout!Trimmed(Lockout!Asked(id))
           r == Lockout!Kept(then, id)
           f == lockoutFailed[id]
<1>1. /\ Lockout!Open(id) /\ UNCHANGED <<lockoutNow, lockoutSaving>>
      /\ lockoutRow' = [then EXCEPT ![id] = Lockout!Count(r)]
      /\ lockoutFailed' = [lockoutFailed EXCEPT ![id] = Append(f, lockoutNow)]
  BY DEF Lockout!BadAttempt, Lockout!Recorded
<1>2. \A x \in Ids : then[x] \in Counter \cup {None} /\ Counted(then[x], lockoutFailed[x], lockoutNow)
  BY <1>1, ThinnedKeeps
<1>3. lockoutNow \in Nat /\ f \in Seq(Nat)
  BY LockoutFacts
<1>4. DOMAIN then = Ids
  <2>1. DOMAIN lockoutRow = Ids
    BY DEF LockoutInv, Lockout!TypeOK
  <2>2. DOMAIN Lockout!Asked(id) = Ids
    BY <2>1 DEF Lockout!Asked
  <2> QED BY <2>2 DEF Lockout!Trimmed
<1>5. Sorted(f, lockoutNow) /\ Spaced(f)
  BY <1>2 DEF Counted
<1> HIDE DEF then, f
<1>6. then[id] # None => then[id].lockedUntilMs <= lockoutNow
  <2>1. then[id] = lockoutRow[id] \/ then[id] = None
    BY <1>1, Thinned DEF then
  <2> QED BY <1>1, <2>1, LockoutFacts DEF Lockout!Open, Lockout!Locked, Counter
<1>7. r \in Counter /\ Ready(r, f, lockoutNow)
  <2>1. CASE then[id] = None \/ Lockout!Over(then[id])
    <3>1. Behind(f, Len(f), lockoutNow)
      <4>1. CASE then[id] = None
        BY <1>2, <4>1 DEF Counted, f
      <4>2. CASE then[id] # None
        <5>1. lockoutNow - then[id].windowStartedAtMs > Window
          BY <2>1, <4>2 DEF Lockout!Over
        <5> QED BY <1>2, <1>3, <1>6, <4>2, <5>1, CountedDropped DEF f
      <4> QED BY <4>1, <4>2
    <3>2. r = [failures |-> 0, windowStartedAtMs |-> lockoutNow, lockedUntilMs |-> 0]
      BY <2>1 DEF Lockout!Kept
    <3>3. r \in Counter /\ r.failures = 0 /\ r.windowStartedAtMs = lockoutNow /\ r.lockedUntilMs = 0
      BY <1>3, <3>2, LockoutAssumption DEF Counter
    <3>4. Len(f) \in Nat /\ Len(f) - 0 = Len(f)
      BY <1>3
    <3> HIDE DEF r
    <3> QED BY <1>3, <3>1, <3>3, <3>4, LockoutAssumption DEF Ready
  <2>2. CASE then[id] # None /\ ~Lockout!Over(then[id])
    <3>1. r = then[id] /\ r \in Counter /\ Counts(r, f, lockoutNow)
      BY <1>2, <2>2 DEF Lockout!Kept, Counted, f
    <3>2. lockoutNow <= r.windowStartedAtMs + Window /\ r.lockedUntilMs <= lockoutNow
      BY <1>3, <1>6, <2>2, <3>1, LockoutAssumption DEF Lockout!Over, Counter
    <3> HIDE DEF r
    <3> QED BY <1>3, <3>1, <3>2, LockoutAssumption DEF Ready, Counts
  <2> QED BY <2>1, <2>2
<1> HIDE DEF r
<1> DEFINE c == Lockout!Count(r)
           g == Append(f, lockoutNow)
<1>8. c \in Counter /\ Counts(c, g, lockoutNow)
  BY <1>3, <1>5, <1>7, CountKeeps
<1>9. g \in Seq(Nat) /\ Sorted(g, lockoutNow) /\ Spaced(g)
  BY <1>3, <1>5, <1>7, SortedAppended, SpacedAppended
<1>10. c # None
  BY <1>8, LockoutAssumption DEF Counter
<1> HIDE DEF c, g
<1>11. /\ lockoutRow'[id] = c /\ lockoutFailed'[id] = g
       /\ \A x \in Ids : x # id => lockoutRow'[x] = then[x] /\ lockoutFailed'[x] = lockoutFailed[x]
  BY <1>1, <1>4 DEF LockoutInv, Lockout!TypeOK, c, g
<1>12. DOMAIN lockoutRow' = Ids /\ \A x \in Ids : lockoutRow'[x] \in Counter \cup {None}
  BY <1>1, <1>2, <1>4, <1>8, <1>11
<1>13. lockoutRow' \in [Ids -> Counter \cup {None}]
  <2>1. lockoutRow' = [x \in Ids |-> lockoutRow'[x]]
    BY <1>1, <1>4
  <2> QED BY <1>12, <2>1
<1>14. Lockout!TypeOK'
  BY <1>1, <1>9, <1>13 DEF LockoutInv, Lockout!TypeOK, Lockout!Row, Counter, g
<1>15. ASSUME NEW x \in Ids PROVE Counted(lockoutRow[x], lockoutFailed[x], lockoutNow)'
  <2>1. CASE x = id
    BY <1>1, <1>8, <1>9, <1>10, <1>11, <2>1 DEF Counted
  <2>2. CASE x # id
    BY <1>1, <1>2, <1>11, <2>2
  <2> QED BY <2>1, <2>2
<1> QED BY <1>14, <1>15 DEF LockoutInv

(* The question for the lock, whoever asks it.                             *)
LEMMA AskedKeeps ==
  ASSUME LockoutInv, NEW id \in Ids, Lockout!Open(id), lockoutRow' = Lockout!Asked(id),
         lockoutSaving' \in [Ids -> Nat], UNCHANGED <<lockoutNow, lockoutFailed>>
  PROVE  LockoutInv'
<1>1. CASE lockoutRow' = lockoutRow
  BY <1>1 DEF LockoutInv, Lockout!TypeOK
<1>2. CASE /\ lockoutRow[id] # None /\ Lockout!Over(lockoutRow[id])
           /\ lockoutRow' = [lockoutRow EXCEPT ![id] = None]
  <2>1. lockoutRow[id] \in Counter /\ lockoutRow[id].lockedUntilMs <= lockoutNow
        /\ lockoutNow - lockoutRow[id].windowStartedAtMs > Window
    BY <1>2, LockoutFacts DEF Lockout!Open, Lockout!Locked, Lockout!Over, Counter
  <2>2. Counted(None, lockoutFailed[id], lockoutNow)
    BY <1>2, <2>1, LockoutFacts, CountedDropped DEF Counted
  <2>3. Lockout!TypeOK'
    BY <1>2 DEF LockoutInv, Lockout!TypeOK
  <2>4. \A x \in Ids : lockoutRow'[x] = IF x = id THEN None ELSE lockoutRow[x]
    BY <1>2 DEF LockoutInv, Lockout!TypeOK
  <2>5. ASSUME NEW x \in Ids PROVE Counted(lockoutRow[x], lockoutFailed[x], lockoutNow)'
    <3>1. CASE x = id
      BY <2>2, <2>4, <3>1
    <3>2. CASE x # id
      BY <2>4, <3>2 DEF LockoutInv
    <3> QED BY <3>1, <3>2
  <2> QED BY <2>3, <2>5 DEF LockoutInv
<1> QED BY <1>1, <1>2 DEF Lockout!Asked

LEMMA ForgetKeeps ==
  ASSUME LockoutInv, NEW ids, Lockout!Forget(ids), lockoutSaving' \in [Ids -> Nat],
         UNCHANGED lockoutNow
  PROVE  LockoutInv'
<1>1. <<>> \in Seq(Nat) /\ Len(<<>>) = 0
  OBVIOUS
<1>2. Lockout!TypeOK'
  BY <1>1 DEF LockoutInv, Lockout!TypeOK, Lockout!Forget
<1>3. Counted(None, <<>>, lockoutNow)
  BY <1>1, LockoutAssumption DEF Counted, Sorted, Spaced, Behind
<1>4. ASSUME NEW x \in Ids PROVE Counted(lockoutRow[x], lockoutFailed[x], lockoutNow)'
  <2>1. CASE x \in ids
    BY <1>3, <2>1 DEF Lockout!Forget
  <2>2. CASE x \notin ids
    BY <2>2 DEF LockoutInv, Lockout!Forget
  <2> QED BY <2>1, <2>2
<1> QED BY <1>2, <1>4 DEF LockoutInv

LEMMA LockoutStep == LockoutInv /\ [Lockout!Next]_(Lockout!vars) => LockoutInv'
<1> SUFFICES ASSUME LockoutInv, [Lockout!Next]_(Lockout!vars) PROVE LockoutInv'
  OBVIOUS
<1>1. lockoutSaving \in [Ids -> Nat]
  BY DEF LockoutInv, Lockout!TypeOK
<1>2. ASSUME NEW id \in Ids, Lockout!BadAttempt(id) PROVE LockoutInv'
  BY <1>2, BadAttemptKeeps
<1>3. ASSUME NEW id \in Ids, Lockout!OpenAttempt(id) \/ Lockout!CodeLogin(id) PROVE LockoutInv'
  <2>1. lockoutSaving' \in [Ids -> Nat]
    BY <1>1, <1>3 DEF Lockout!OpenAttempt, Lockout!CodeLogin
  <2> QED BY <1>3, <2>1, AskedKeeps DEF Lockout!OpenAttempt, Lockout!CodeLogin
<1>4. ASSUME NEW id \in Ids, Lockout!PasswordLogin(id) \/ Lockout!Saved(id) PROVE LockoutInv'
  <2>1. lockoutSaving' \in [Ids -> Nat]
    BY <1>1, <1>4 DEF Lockout!PasswordLogin, Lockout!Saved
  <2> QED BY <1>4, <2>1, ForgetKeeps DEF Lockout!PasswordLogin, Lockout!Saved
<1>5. CASE Lockout!FactoryReset
  BY <1>1, <1>5, ForgetKeeps DEF Lockout!FactoryReset
<1>6. ASSUME NEW id \in Ids, Lockout!Setup(id) \/ Lockout!SaveFails(id) PROVE LockoutInv'
  <2>1. lockoutSaving' \in [Ids -> Nat]
    <3>1. CASE Lockout!Setup(id)
      BY <1>1, <3>1 DEF Lockout!Setup
    <3>2. CASE Lockout!SaveFails(id)
      BY <1>1, <3>2 DEF Lockout!SaveFails
    <3> QED BY <1>6, <3>1, <3>2
  <2>2. UNCHANGED <<lockoutNow, lockoutRow, lockoutFailed>>
    BY <1>6 DEF Lockout!Setup, Lockout!SaveFails
  <2> QED BY <2>1, <2>2 DEF LockoutInv, Lockout!TypeOK
<1>7. CASE Lockout!Tick
  <2>1. Lockout!TypeOK' /\ lockoutNow \in Nat /\ lockoutNow' = lockoutNow + 1
        /\ UNCHANGED <<lockoutRow, lockoutFailed>>
    BY <1>7 DEF LockoutInv, Lockout!TypeOK, Lockout!Tick
  <2>2. ASSUME NEW x \in Ids PROVE Counted(lockoutRow[x], lockoutFailed[x], lockoutNow')
    BY <2>1, LockoutFacts, CountedLater
  <2> QED BY <2>1, <2>2 DEF LockoutInv
<1>8. CASE UNCHANGED Lockout!vars
  BY <1>8 DEF Lockout!vars, LockoutInv, Lockout!TypeOK
<1> QED BY <1>2, <1>3, <1>4, <1>5, <1>6, <1>7, <1>8 DEF Lockout!Next

LEMMA LockoutSafe ==
  LockoutInv => Lockout!TypeOK /\ Lockout!FailuresSpread /\ Lockout!LockedByOwnFailures
<1> SUFFICES ASSUME LockoutInv
             PROVE  Lockout!TypeOK /\ Lockout!FailuresSpread /\ Lockout!LockedByOwnFailures
  OBVIOUS
<1>1. Lockout!FailuresSpread
  <2>1. ASSUME NEW id \in Ids
        PROVE  DOMAIN lockoutFailed[id] = 1..Len(lockoutFailed[id]) /\ Spaced(lockoutFailed[id])
    <3>1. lockoutFailed[id] \in Seq(Nat) /\ Spaced(lockoutFailed[id])
      BY LockoutFacts DEF Counted
    <3> QED BY <3>1
  <2>2. ASSUME NEW id \in Ids, NEW i \in DOMAIN lockoutFailed[id],
               i + 2 * Threshold - 1 <= Len(lockoutFailed[id])
        PROVE  lockoutFailed[id][i + 2 * Threshold - 1] - lockoutFailed[id][i] >= Spread
    BY <2>1, <2>2 DEF Spaced
  <2> QED BY <2>2 DEF Lockout!FailuresSpread, Spread
<1>2. ASSUME NEW id \in Ids, Lockout!Locked(lockoutRow[id])
      PROVE  LET f == lockoutFailed[id]
                 n == Len(f) IN
             n >= Threshold /\ f[n] + LockFor = lockoutRow[id].lockedUntilMs
             /\ f[n] - f[n - Threshold + 1] <= Window
  <2> DEFINE f == lockoutFailed[id]
             r == lockoutRow[id]
  <2>1. r \in Counter /\ r.lockedUntilMs > lockoutNow /\ Counts(r, f, lockoutNow) /\ f \in Seq(Nat)
        /\ lockoutNow \in Nat
    BY <1>2, LockoutFacts DEF Lockout!Locked, Counted
  <2> HIDE DEF f, r
  <2>2. r.failures = 0 /\ r.lockedUntilMs # 0 /\ r.windowStartedAtMs \in Nat
    BY <2>1 DEF Counts, Counter
  <2>3. Len(f) - 0 = Len(f) /\ Len(f) \in Nat
    BY <2>1
  <2>4. /\ Len(f) >= Threshold /\ f[Len(f)] + LockFor = r.lockedUntilMs
        /\ f[Len(f) - Threshold + 1] >= r.windowStartedAtMs
        /\ f[Len(f)] <= r.windowStartedAtMs + Window
    BY <2>1, <2>2, <2>3 DEF Counts
  <2>5. Len(f) \in 1..Len(f) /\ Len(f) - Threshold + 1 \in 1..Len(f)
    BY <2>3, <2>4, LockoutAssumption
  <2>6. f[Len(f)] \in Nat /\ f[Len(f) - Threshold + 1] \in Nat
    BY <2>1, <2>5
  <2>7. \A x, y \in Nat : y >= r.windowStartedAtMs /\ x <= r.windowStartedAtMs + Window => x - y <= Window
    BY <2>2, LockoutAssumption
  <2> QED BY <2>4, <2>6, <2>7 DEF f, r
<1>3. Lockout!LockedByOwnFailures
  BY <1>2 DEF Lockout!LockedByOwnFailures
<1> QED BY <1>1, <1>3 DEF LockoutInv

LEMMA LockoutKept == Lockout!Spec => []LockoutInv
BY LockoutInitial, LockoutStep, PTL DEF Lockout!Spec

-------------------------------------------------------------------------------
\* The API tokens

Positions(list) == 1..Len(list)

(* A list has the newest first: one that stands k places behind another is *)
(* at least k older.                                                       *)
NewestFirst(list) ==
  \A i, j \in Positions(list) : i < j => list[i].id >= list[j].id + (j - i)

(* A list of tokens at the time n, when m were made: those in g are over,  *)
(* and those in a are in it or older than as many as it may hold.          *)
Listed(list, m, n, g, a) ==
  /\ list \in Seq(Token!Record) /\ Len(list) <= MaxCount /\ NewestFirst(list)
  /\ \A i \in Positions(list) : list[i].id <= m /\ list[i].used <= n
  /\ \A i \in Positions(list) : list[i].id \in g => list[i].revoked \/ list[i].expires <= n
  /\ \A x \in a : (\E i \in Positions(list) : list[i].id = x) \/ m - x >= MaxCount

(* What a token was created with stays.                                    *)
Agree(list, other) ==
  \A i \in Positions(list), j \in Positions(other) :
    list[i].id = other[j].id => list[i].expires = other[j].expires

Stamped(list, last, n) ==
  \A i \in Positions(list) : LET l == last[list[i].id] IN
    l # 0 => list[i].used <= l /\ l - list[i].used < Throttle

(* The tokens that are over, and those that are kept, for good: those the  *)
(* answers said it of, and those the answers of the writes ws will.        *)
Over(g, ws) == g \cup {i \in Token!Id : \E w \in ws : w.kind \in {"revoke", "reset"} /\ i \in w.sure}
Held(a, ws) == a \cup {i \in Token!Id : \E w \in ws : w.kind = "create" /\ i \in w.sure}
Landed(ws) == {w \in ws : w.landed}
Bodies(ws) == {w.body : w \in {v \in ws : ~v.landed}}

(* The lists S, of memory and under way, and the stored one, st.           *)
ListsHold(S, st, m, n, g, a, gl, al) ==
  /\ \A x \in S : Listed(x, m, n, g, a)
  /\ Listed(st, m, n, gl, al)
  /\ \A x, y \in S \cup {st} : Agree(x, y)

TokensInv ==
  /\ tokensNow \in 1..TokensClock /\ tokensMade \in 0..MaxTokens /\ tokensFaults \in 0..MaxFaults
  /\ gone \in SUBSET (1..tokensMade) /\ answered \in SUBSET (1..tokensMade)
  /\ tokensWrites \in SUBSET Token!Write /\ \A w \in tokensWrites : w.sure \subseteq 1..tokensMade
  /\ lastUse \in [1..MaxTokens -> Nat] /\ \A i \in 1..MaxTokens : i > tokensMade => lastUse[i] = 0
  /\ ListsHold({tokens} \cup Bodies(tokensWrites), tokensStored, tokensMade, tokensNow,
               Over(gone, tokensWrites), Held(answered, tokensWrites),
               Over(gone, Landed(tokensWrites)), Held(answered, Landed(tokensWrites)))
  /\ Stamped(tokens, lastUse, tokensNow)
LEMMA TokenFields ==
  ASSUME NEW list \in Seq(Token!Record), NEW i \in Positions(list)
  PROVE  /\ Positions(list) = DOMAIN list /\ Len(list) \in Nat /\ i \in Nat
         /\ list[i].id \in 1..MaxTokens /\ list[i].id \in Nat /\ list[i].expires \in Nat
         /\ list[i].revoked \in BOOLEAN /\ list[i].used \in Nat
<1>1. Positions(list) = DOMAIN list /\ Len(list) \in Nat /\ i \in Nat
  BY DEF Positions
<1>2. list[i] \in Token!Record
  BY <1>1
<1>3. list[i].id \in 1..MaxTokens
  BY <1>2 DEF Token!Record, Token!Id
<1>5. list[i].id \in Nat
  BY <1>3, TokensAssumption
<1>4. list[i].expires \in Nat /\ list[i].revoked \in BOOLEAN /\ list[i].used \in Nat
  BY <1>2 DEF Token!Record
<1> QED BY <1>1, <1>3, <1>4, <1>5

(* A list stays as it is, while time passes, tokens are made and some end  *)
(* that are over in it.                                                    *)
LEMMA ListedLater ==
  ASSUME NEW list, NEW m \in Nat, NEW n \in Nat, NEW g, NEW a, Listed(list, m, n, g, a),
         NEW m2 \in Nat, NEW n2 \in Nat, m <= m2, n <= n2, NEW h, NEW b \in SUBSET a, a \in SUBSET Nat,
         \A i \in Positions(list) : list[i].id \in h =>
           list[i].id \in g \/ list[i].revoked \/ list[i].expires <= n2
  PROVE  Listed(list, m2, n2, h, b)
<1>1. list \in Seq(Token!Record) /\ Len(list) <= MaxCount /\ NewestFirst(list)
  BY DEF Listed
<1>2. ASSUME NEW i \in Positions(list)
      PROVE  /\ list[i].id <= m2 /\ list[i].used <= n2
             /\ list[i].id \in h => list[i].revoked \/ list[i].expires <= n2
  <2>1. /\ list[i].id <= m /\ list[i].used <= n
        /\ list[i].id \in g => list[i].revoked \/ list[i].expires <= n
    BY DEF Listed
  <2>2. list[i].id \in Nat /\ list[i].used \in Nat /\ list[i].expires \in Nat
    BY <1>1, TokenFields
  <2>3. list[i].id \in h => list[i].id \in g \/ list[i].revoked \/ list[i].expires <= n2
    OBVIOUS
  <2>4. list[i].expires <= n => list[i].expires <= n2
    BY <2>2
  <2>5. list[i].id <= m2 /\ list[i].used <= n2
    BY <2>1, <2>2
  <2> QED BY <2>1, <2>3, <2>4, <2>5
<1>3. ASSUME NEW x \in b PROVE (\E i \in Positions(list) : list[i].id = x) \/ m2 - x >= MaxCount
  <2>1. x \in a /\ x \in Nat
    OBVIOUS
  <2>2. (\E i \in Positions(list) : list[i].id = x) \/ m - x >= MaxCount
    BY <2>1 DEF Listed
  <2>3. m - x >= MaxCount => m2 - x >= MaxCount
    BY <2>1, TokensAssumption
  <2> QED BY <2>2, <2>3
<1> QED BY <1>1, <1>2, <1>3 DEF Listed

(* The same tokens, some of them revoked or stamped.                       *)
LEMMA ListedAlike ==
  ASSUME NEW list, NEW m \in Nat, NEW n \in Nat, NEW g, NEW a, Listed(list, m, n, g, a),
         NEW new \in Seq(Token!Record), Len(new) = Len(list), NEW h,
         \A i \in Positions(list) :
           /\ new[i].id = list[i].id /\ new[i].expires = list[i].expires
           /\ new[i].used <= n
           /\ list[i].id \in h => list[i].id \in g \/ new[i].revoked
           /\ list[i].revoked => new[i].revoked
  PROVE  Listed(new, m, n, h, a)
<1>1. Positions(new) = Positions(list) /\ Len(new) <= MaxCount
  BY DEF Positions, Listed
<1>2. NewestFirst(new)
  BY <1>1 DEF Listed, NewestFirst
<1>3. ASSUME NEW i \in Positions(new)
      PROVE  /\ new[i].id <= m /\ new[i].used <= n
             /\ new[i].id \in h => new[i].revoked \/ new[i].expires <= n
  BY <1>1 DEF Listed
<1>4. ASSUME NEW x \in a PROVE (\E i \in Positions(new) : new[i].id = x) \/ m - x >= MaxCount
  BY <1>1 DEF Listed
<1> QED BY <1>1, <1>2, <1>3, <1>4 DEF Listed

LEMMA AgreeAlike ==
  ASSUME NEW list, NEW other, Agree(list, other), NEW new, Len(new) = Len(list),
         \A i \in Positions(list) : new[i].id = list[i].id /\ new[i].expires = list[i].expires
  PROVE  Agree(new, other)
BY DEF Agree, Positions

(* A list agrees with itself: no two tokens of it have one id.             *)
LEMMA AgreeSelf ==
  ASSUME NEW list \in Seq(Token!Record), NewestFirst(list)
  PROVE  /\ \A i, j \in Positions(list) : list[i].id = list[j].id => i = j
         /\ Agree(list, list)
<1>1. ASSUME NEW i \in Positions(list), NEW j \in Positions(list), i < j PROVE list[i].id # list[j].id
  <2>1. list[i].id >= list[j].id + (j - i)
    BY <1>1 DEF NewestFirst
  <2>2. i \in Nat /\ j \in Nat /\ list[i].id \in Nat /\ list[j].id \in Nat
    BY TokenFields
  <2> QED BY <1>1, <2>1, <2>2
<1>2. ASSUME NEW i \in Positions(list), NEW j \in Positions(list), list[i].id = list[j].id PROVE i = j
  <2>1. i \in Nat /\ j \in Nat
    BY TokenFields
  <2> QED BY <1>1, <1>2, <2>1
<1> QED BY <1>2 DEF Agree

LEMMA CutIs ==
  ASSUME NEW list \in Seq(Token!Record)
  PROVE  LET cut == Token!Cut(list) IN
         /\ cut \in Seq(Token!Record) /\ Len(cut) <= MaxCount /\ Len(cut) <= Len(list)
         /\ Len(cut) = Len(list) \/ Len(cut) = MaxCount
         /\ \A i \in 1..Len(cut) : cut[i] = list[i]
<1> DEFINE n == Token!Min({MaxCount, Len(list)})
<1>1. Len(list) \in Nat
  OBVIOUS
<1>2. n = IF MaxCount <= Len(list) THEN MaxCount ELSE Len(list)
  BY <1>1, TokensAssumption DEF Token!Min
<1>3. n \in Nat /\ n <= Len(list) /\ n <= MaxCount /\ (n = Len(list) \/ n = MaxCount)
  BY <1>1, <1>2, TokensAssumption
<1> HIDE DEF n
<1>4. /\ SubSeq(list, 1, n) \in Seq(Token!Record) /\ Len(SubSeq(list, 1, n)) = n
      /\ \A i \in 1..n : SubSeq(list, 1, n)[i] = list[i]
  BY <1>1, <1>3
<1> QED BY <1>3, <1>4 DEF Token!Cut, n

From(cut, new, list) ==
  \A i \in Positions(cut) : cut[i] = new \/ \E j \in Positions(list) : cut[i] = list[j]

(* A new token is put in front; one that is cut off at the end is older    *)
(* than all that stay.                                                     *)
LEMMA ListedCreated ==
  ASSUME NEW list, NEW m \in Nat, NEW n \in Nat, NEW g, NEW a \in SUBSET (1..m),
         Listed(list, m, n, g, a), NEW new \in Token!Record, new.id = m + 1, new.used = 0,
         m + 1 \notin g, NEW cut, cut = Token!Cut(<<new>> \o list)
  PROVE  Listed(cut, m + 1, n, g, a \cup {m + 1}) /\ From(cut, new, list)
<1> DEFINE long == <<new>> \o list
           k == Len(cut)
<1>0. cut = Token!Cut(long)
  OBVIOUS
<1>1. list \in Seq(Token!Record) /\ Len(list) \in Nat /\ NewestFirst(list)
  BY DEF Listed
<1>2. long \in Seq(Token!Record) /\ Len(long) = Len(list) + 1 /\ long[1] = new
  BY <1>1
<1>3. \A i \in 2..Len(list) + 1 : long[i] = list[i - 1]
  BY <1>1
<1> HIDE DEF long
<1>4. /\ cut \in Seq(Token!Record) /\ k <= MaxCount /\ k <= Len(list) + 1
      /\ k = Len(list) + 1 \/ k = MaxCount
      /\ \A i \in 1..k : cut[i] = long[i]
  BY <1>0, <1>2, CutIs
<1>5. k \in Nat /\ k >= 1
  BY <1>1, <1>4, TokensAssumption
<1>6. cut[1] = new
  BY <1>2, <1>4, <1>5
<1>7. \A i \in 2..k : cut[i] = list[i - 1] /\ i - 1 \in 1..Len(list)
  <2> TAKE i \in 2..k
  <2>1. i \in 1..k /\ i \in 2..Len(list) + 1 /\ i - 1 \in 1..Len(list)
    BY <1>1, <1>4, <1>5
  <2> QED BY <1>3, <1>4, <2>1
<1> HIDE DEF k
<1>8. \A i \in 1..Len(list) : list[i].id \in Nat /\ list[i].id <= m
  BY <1>1, TokenFields DEF Listed, Positions
<1>9. \A i \in 1..Len(list) : list[i].id + (i - 1) <= m
  <2>1. TAKE i \in 1..Len(list)
  <2>2. CASE i = 1
    BY <1>8, <2>2
  <2>3. CASE i > 1
    <3>1. 1 \in Positions(list) /\ i \in Positions(list)
      BY <1>1, <2>1 DEF Positions
    <3>2. list[1].id >= list[i].id + (i - 1)
      BY <1>1, <2>3, <3>1 DEF NewestFirst
    <3> QED BY <1>8, <3>1, <3>2, <2>1 DEF Positions
  <2> QED BY <2>1, <2>2, <2>3
<1>10. NewestFirst(cut)
  <2>1. ASSUME NEW i \in 1..k, NEW j \in 1..k, i < j PROVE cut[i].id >= cut[j].id + (j - i)
    <3>1. j \in 2..k /\ cut[j] = list[j - 1] /\ j - 1 \in 1..Len(list)
      BY <1>5, <1>7, <2>1
    <3>2. CASE i = 1
      <4>1. list[j - 1].id + (j - 2) <= m /\ list[j - 1].id \in Nat
        BY <1>8, <1>9, <3>1
      <4> QED BY <1>6, <2>1, <3>1, <3>2, <4>1
    <3>3. CASE i # 1
      <4>1. i \in 2..k /\ cut[i] = list[i - 1] /\ i - 1 \in 1..Len(list)
        <5>1. i \in 2..k
          BY <1>5, <2>1, <3>3
        <5> QED BY <1>7, <5>1
      <4>2. list[i - 1].id >= list[j - 1].id + ((j - 1) - (i - 1))
        <5>1. i - 1 \in Positions(list) /\ j - 1 \in Positions(list) /\ i - 1 < j - 1
          BY <1>5, <2>1, <3>1, <4>1 DEF Positions
        <5> QED BY <1>1, <5>1 DEF NewestFirst
      <4>3. (j - 1) - (i - 1) = j - i
        BY <2>1, <1>5
      <4> QED BY <3>1, <4>1, <4>2, <4>3
    <3> QED BY <3>2, <3>3
  <2> QED BY <2>1 DEF NewestFirst, Positions, k
<1>11. ASSUME NEW i \in 1..k
       PROVE  /\ cut[i].id <= m + 1 /\ cut[i].used <= n
              /\ cut[i].id \in g => cut[i].revoked \/ cut[i].expires <= n
  <2>1. CASE i = 1
    BY <1>6, <2>1
  <2>2. CASE i # 1
    <3>1. cut[i] = list[i - 1] /\ i - 1 \in Positions(list)
      <4>1. i \in 2..k
        BY <1>5, <1>11, <2>2
      <4> QED BY <1>7, <4>1 DEF Positions
    <3>2. list[i - 1].id \in Nat /\ list[i - 1].id <= m
      BY <1>8, <3>1 DEF Positions
    <3> QED BY <3>1, <3>2 DEF Listed
  <2> QED BY <2>1, <2>2
<1>12. ASSUME NEW x \in a \cup {m + 1}
       PROVE  (\E i \in 1..k : cut[i].id = x) \/ m + 1 - x >= MaxCount
  <2>1. CASE x = m + 1
    <3>1. 1 \in 1..k /\ cut[1].id = x
      BY <1>5, <1>6, <2>1
    <3> HIDE DEF k
    <3> QED BY <3>1
  <2>2. CASE x \in a /\ m - x >= MaxCount
    <3>1. x \in Nat /\ MaxCount \in Nat
      BY <2>2, TokensAssumption
    <3>2. m + 1 - x >= MaxCount
      <4> HIDE DEF k
      <4> QED BY <2>2, <3>1
    <3> QED BY <3>2
  <2>3. ASSUME NEW i \in 1..Len(list), list[i].id = x
        PROVE  (\E j \in 1..k : cut[j].id = x) \/ m + 1 - x >= MaxCount
    <3>1. CASE i + 1 <= k
      <4>1. i + 1 \in 2..k /\ i + 1 \in 1..k /\ (i + 1) - 1 = i
        BY <1>1, <1>5, <3>1
      <4> QED BY <1>7, <2>3, <4>1
    <3>2. CASE i + 1 > k
      <4>1. i >= MaxCount
        BY <1>1, <1>4, <1>5, <3>2, TokensAssumption
      <4>2. x + (i - 1) <= m /\ x \in Nat
        BY <1>8, <1>9, <2>3
      <4> QED BY <4>1, <4>2, TokensAssumption
    <3> QED BY <1>1, <1>5, <3>1, <3>2
  <2>4. x \in a => (\E i \in 1..Len(list) : list[i].id = x) \/ m - x >= MaxCount
    BY DEF Listed, Positions
  <2> QED BY <2>1, <2>2, <2>3, <2>4
<1>13. cut \in Seq(Token!Record) /\ Len(cut) <= MaxCount /\ Positions(cut) = 1..k
  BY <1>4 DEF Positions, k
<1>14. \A i \in Positions(cut) : cut[i].id <= m + 1 /\ cut[i].used <= n
  BY <1>11, <1>13
<1>15. \A i \in Positions(cut) : cut[i].id \in g => cut[i].revoked \/ cut[i].expires <= n
  BY <1>11, <1>13
<1>16. \A x \in a \cup {m + 1} : (\E i \in Positions(cut) : cut[i].id = x) \/ m + 1 - x >= MaxCount
  BY <1>12, <1>13
<1>17. Listed(cut, m + 1, n, g, a \cup {m + 1})
  BY <1>10, <1>13, <1>14, <1>15, <1>16 DEF Listed
<1>18. ASSUME NEW i \in Positions(cut)
       PROVE  cut[i] = new \/ \E j \in Positions(list) : cut[i] = list[j]
  <2>1. CASE i = 1
    BY <1>6, <2>1
  <2>2. CASE i # 1
    <3>1. i \in 2..k
      BY <1>5, <1>13, <2>2
    <3> QED BY <1>7, <3>1 DEF Positions
  <2> QED BY <2>1, <2>2
<1> QED BY <1>17, <1>18 DEF From

LEMMA TokensInitial == Token!Init => TokensInv
<1> SUFFICES ASSUME Token!Init PROVE TokensInv
  OBVIOUS
<1>1. <<>> \in Seq(Token!Record) /\ Len(<<>>) = 0 /\ Positions(<<>>) = {}
  BY DEF Positions
<1>2. Listed(<<>>, 0, 1, {}, {}) /\ Agree(<<>>, <<>>) /\ Stamped(<<>>, lastUse, 1)
  BY <1>1, TokensAssumption DEF Listed, NewestFirst, Agree, Stamped
<1>3. lastUse \in [1..MaxTokens -> Nat] /\ \A i \in 1..MaxTokens : lastUse[i] = 0
  BY DEF Token!Init, Token!Id
<1>4. Over({}, {}) = {} /\ Held({}, {}) = {} /\ Landed({}) = {} /\ Bodies({}) = {}
  BY DEF Over, Held, Landed, Bodies
<1>5. ListsHold({<<>>} \cup Bodies({}), <<>>, 0, 1, Over({}, {}), Held({}, {}),
                Over({}, Landed({})), Held({}, Landed({})))
  BY <1>2, <1>4 DEF ListsHold
<1> QED BY <1>2, <1>3, <1>5, TokensAssumption DEF Token!Init, TokensInv

LEMMA TokensFacts ==
  ASSUME TokensInv
  PROVE  /\ tokensNow \in Nat /\ tokensMade \in Nat /\ tokensFaults \in Nat
         /\ gone \in SUBSET Nat /\ answered \in SUBSET Nat
         /\ tokens \in Seq(Token!Record) /\ tokensStored \in Seq(Token!Record)
         /\ NewestFirst(tokens)
         /\ Over(gone, tokensWrites) \in SUBSET (1..tokensMade)
         /\ Held(answered, tokensWrites) \in SUBSET (1..tokensMade)
<1>1. tokensNow \in Nat /\ tokensMade \in Nat /\ tokensFaults \in Nat /\ gone \in SUBSET Nat /\ answered \in SUBSET Nat
  BY TokensAssumption DEF TokensInv
<1>2. /\ Listed(tokens, tokensMade, tokensNow, Over(gone, tokensWrites), Held(answered, tokensWrites))
      /\ tokensStored \in Seq(Token!Record)
  BY DEF TokensInv, ListsHold, Listed
<1>3. /\ Over(gone, tokensWrites) \in SUBSET (1..tokensMade)
      /\ Held(answered, tokensWrites) \in SUBSET (1..tokensMade)
  BY DEF TokensInv, Over, Held
<1> QED BY <1>1, <1>2, <1>3 DEF Listed

LEMMA AgreeBack == ASSUME NEW x, NEW y, Agree(x, y) PROVE Agree(y, x)
BY DEF Agree

(* The same lists or fewer of them, later, with fewer promises; what is    *)
(* over now was so, or is over in the lists.                               *)
LEMMA StillHold ==
  ASSUME NEW S, NEW st, NEW m \in Nat, NEW n \in Nat, NEW g, NEW a \in SUBSET Nat, NEW gl, NEW al \in SUBSET Nat,
         ListsHold(S, st, m, n, g, a, gl, al),
         NEW S2 \in SUBSET S, NEW m2 \in Nat, NEW n2 \in Nat, m <= m2, n <= n2,
         NEW g2, NEW a2, a2 \in SUBSET a \/ S2 = {}, NEW gl2, NEW al2 \in SUBSET al,
         \A x \in S2 : \A i \in Positions(x) :
           x[i].id \in g2 => x[i].id \in g \/ x[i].revoked \/ x[i].expires <= n2,
         \A i \in Positions(st) :
           st[i].id \in gl2 => st[i].id \in gl \/ st[i].revoked \/ st[i].expires <= n2
  PROVE  ListsHold(S2, st, m2, n2, g2, a2, gl2, al2)
<1>1. ASSUME NEW x \in S2 PROVE Listed(x, m2, n2, g2, a2)
  <2>1. Listed(x, m, n, g, a)
    BY DEF ListsHold
  <2>2. a2 \in SUBSET a
    OBVIOUS
  <2>3. \A i \in Positions(x) : x[i].id \in g2 => x[i].id \in g \/ x[i].revoked \/ x[i].expires <= n2
    OBVIOUS
  <2> QED BY <2>1, <2>2, <2>3, ListedLater
<1>2. Listed(st, m2, n2, gl2, al2)
  <2>1. Listed(st, m, n, gl, al)
    BY DEF ListsHold
  <2> QED BY <2>1, ListedLater
<1> QED BY <1>1, <1>2 DEF ListsHold

(* One more list.                                                          *)
LEMMA OneMore ==
  ASSUME NEW S, NEW st, NEW m, NEW n, NEW g, NEW a, NEW gl, NEW al,
         ListsHold(S, st, m, n, g, a, gl, al),
         NEW t, Listed(t, m, n, g, a), \A x \in S \cup {st} : Agree(t, x)
  PROVE  ListsHold({t} \cup S, st, m, n, g, a, gl, al)
<1>1. Agree(t, t)
  BY AgreeSelf DEF Listed
<1>2. \A x \in S \cup {st} : Agree(x, t)
  BY AgreeBack
<1> QED BY <1>1, <1>2 DEF ListsHold

(* A write begins: one more list is under way, and its promise.            *)
LEMMA Begun ==
  ASSUME NEW kind \in {"create", "revoke", "reset", "flush", "stop"}, NEW others \in SUBSET Token!Write,
         NEW sure \in SUBSET Token!Id, tokens' \in Seq(Token!Record), Token!Begin(kind, others, sure)
  PROVE  /\ tokensWrites' \in SUBSET Token!Write
         /\ \A w \in tokensWrites' : w \in others \/ w.sure = sure
         /\ Bodies(tokensWrites') = {tokens'} \cup Bodies(others)
         /\ Landed(tokensWrites') = Landed(others)
         /\ UNCHANGED <<tokensStored, tokensFaults>>
         /\ \A g : /\ kind \in {"revoke", "reset"} => Over(g, tokensWrites') = Over(g, others) \cup sure
                   /\ kind \notin {"revoke", "reset"} => Over(g, tokensWrites') = Over(g, others)
         /\ \A a : /\ kind = "create" => Held(a, tokensWrites') = Held(a, others) \cup sure
                   /\ kind # "create" => Held(a, tokensWrites') = Held(a, others)
<1> DEFINE w == [kind |-> kind, body |-> tokens', sure |-> sure, landed |-> FALSE]
<1>1. tokensWrites' = others \cup {w} /\ UNCHANGED <<tokensStored, tokensFaults>>
  BY DEF Token!Begin
<1>2. w \in Token!Write /\ w.kind = kind /\ w.body = tokens' /\ w.sure = sure /\ w.landed = FALSE
  BY DEF Token!Write
<1> HIDE DEF w
<1>3. Bodies(tokensWrites') = {tokens'} \cup Bodies(others) /\ Landed(tokensWrites') = Landed(others)
  BY <1>1, <1>2 DEF Bodies, Landed
<1>4. ASSUME NEW g
      PROVE  /\ kind \in {"revoke", "reset"} => Over(g, tokensWrites') = Over(g, others) \cup sure
             /\ kind \notin {"revoke", "reset"} => Over(g, tokensWrites') = Over(g, others)
  BY <1>1, <1>2 DEF Over
<1>5. ASSUME NEW a
      PROVE  /\ kind = "create" => Held(a, tokensWrites') = Held(a, others) \cup sure
             /\ kind # "create" => Held(a, tokensWrites') = Held(a, others)
  BY <1>1, <1>2 DEF Held
<1> QED BY <1>1, <1>2, <1>3, <1>4, <1>5

(* What TokensInv says of the lists, apart from that of memory.            *)
LEMMA TokensLists ==
  ASSUME TokensInv
  PROVE  /\ Listed(tokens, tokensMade, tokensNow, Over(gone, tokensWrites), Held(answered, tokensWrites))
         /\ \A x \in {tokensStored} \cup Bodies(tokensWrites) :
              /\ Agree(tokens, x) /\ x \in Seq(Token!Record)
              /\ \A i \in Positions(x) : x[i].id <= tokensMade
         /\ ListsHold(Bodies(tokensWrites), tokensStored, tokensMade, tokensNow,
                      Over(gone, tokensWrites), Held(answered, tokensWrites),
                      Over(gone, Landed(tokensWrites)), Held(answered, Landed(tokensWrites)))
         /\ Held(answered, tokensWrites) \in SUBSET Nat
         /\ Held(answered, Landed(tokensWrites)) \in SUBSET Nat
<1>1. Held(answered, tokensWrites) \in SUBSET Nat
  BY TokensFacts
<1>2. Held(answered, Landed(tokensWrites)) \in SUBSET Held(answered, tokensWrites)
  BY DEF Held, Landed
<1> QED BY <1>1, <1>2 DEF TokensInv, ListsHold, Listed

LEMMA CreateKeeps == ASSUME TokensInv, NEW life \in Lives, Token!Create(life) PROVE TokensInv'
<1> DEFINE m == tokensMade
           n == tokensNow
           new == [id |-> m + 1, expires |-> n + life, revoked |-> FALSE, used |-> 0]
           sure == {i \in {m + 1} : Token!Pending = {}}
           g == Over(gone, tokensWrites)
           kept == Held(answered, tokensWrites)
<1>1. /\ m < MaxTokens /\ tokensMade' = m + 1 /\ tokens' = Token!Cut(<<new>> \o tokens)
      /\ UNCHANGED <<tokensNow, answered, gone, lastUse>> /\ Token!Begin("create", tokensWrites, sure)
  BY DEF Token!Create, Token!historyVars
<1>2. /\ m \in Nat /\ n \in Nat /\ life \in Nat /\ m + 1 \in 1..MaxTokens
      /\ g \in SUBSET (1..m) /\ kept \in SUBSET (1..m) /\ kept \in SUBSET Nat
  BY <1>1, TokensAssumption, TokensFacts DEF TokensInv
<1>3. new \in Token!Record /\ new.id = m + 1 /\ new.used = 0 /\ m + 1 \notin g
  BY <1>2 DEF Token!Record, Token!Id
<1>4. Listed(tokens, m, n, g, kept)
  BY TokensLists
<1> HIDE DEF new, m, n, g, kept
<1>5. Listed(tokens', m + 1, n, g, kept \cup {m + 1}) /\ From(tokens', new, tokens)
  <2>1. tokens' = Token!Cut(<<new>> \o tokens)
    BY <1>1 DEF new, m, n
  <2> QED BY <1>2, <1>3, <1>4, <2>1, ListedCreated
<1>6. sure \in SUBSET Token!Id /\ sure \in SUBSET {m + 1} /\ (sure = {} \/ Bodies(tokensWrites) = {})
  BY <1>2 DEF Token!Id, Token!Pending, Bodies
<1> HIDE DEF sure
<1>7. tokens' \in Seq(Token!Record)
  BY <1>5 DEF Listed
<1>8. /\ tokensWrites' \in SUBSET Token!Write
      /\ \A w \in tokensWrites' : w \in tokensWrites \/ w.sure = sure
      /\ Bodies(tokensWrites') = {tokens'} \cup Bodies(tokensWrites)
      /\ Landed(tokensWrites') = Landed(tokensWrites)
      /\ UNCHANGED <<tokensStored, tokensFaults>>
      /\ Over(gone, tokensWrites') = g /\ Held(answered, tokensWrites') = kept \cup sure
  <2>1. tokensWrites \in SUBSET Token!Write /\ Token!Begin("create", tokensWrites, sure)
    BY <1>1 DEF TokensInv
  <2>2. /\ \A h : Over(h, tokensWrites') = Over(h, tokensWrites)
        /\ \A b : Held(b, tokensWrites') = Held(b, tokensWrites) \cup sure
    BY <1>6, <1>7, <2>1, Begun
  <2>3. Over(gone, tokensWrites') = g /\ Held(answered, tokensWrites') = kept \cup sure
    BY <2>2 DEF g, kept
  <2> QED BY <1>6, <1>7, <2>1, <2>3, Begun
<1>9. Listed(tokens', m + 1, n, g, kept \cup sure)
  <2> DEFINE more == kept \cup {m + 1}
  <2>1. m + 1 \in Nat /\ m + 1 <= m + 1 /\ n <= n /\ more \in SUBSET Nat /\ kept \cup sure \in SUBSET more
    BY <1>2, <1>6
  <2>2. Listed(tokens', m + 1, n, g, more)
    BY <1>5
  <2> HIDE DEF more
  <2> QED BY <1>2, <2>1, <2>2, ListedLater
<1>10. ListsHold(Bodies(tokensWrites), tokensStored, m + 1, n, g, kept \cup sure,
                 Over(gone, Landed(tokensWrites)), Held(answered, Landed(tokensWrites)))
  <2>1. kept \cup sure \in SUBSET kept \/ Bodies(tokensWrites) = {}
    BY <1>6
  <2>2. m + 1 \in Nat /\ m <= m + 1 /\ n <= n
    BY <1>2
  <2> QED BY <1>2, <2>1, <2>2, TokensLists, StillHold DEF m, n, g, kept
<1>11. ASSUME NEW x \in Bodies(tokensWrites) \cup {tokensStored} PROVE Agree(tokens', x)
  <2>1. Agree(tokens, x) /\ x \in Seq(Token!Record) /\ \A i \in Positions(x) : x[i].id <= m
    BY TokensLists DEF m
  <2>2. ASSUME NEW i \in Positions(tokens'), NEW j \in Positions(x), tokens'[i].id = x[j].id
        PROVE  tokens'[i].expires = x[j].expires
    <3>1. x[j].id \in Nat /\ x[j].id <= m
      BY <2>1, TokenFields
    <3>2. tokens'[i] # new
      BY <1>2, <1>3, <2>2, <3>1
    <3>3. PICK k \in Positions(tokens) : tokens'[i] = tokens[k]
      BY <1>5, <3>2 DEF From
    <3> QED BY <2>1, <2>2, <3>3 DEF Agree
  <2> QED BY <2>2 DEF Agree
<1>12. ListsHold({tokens'} \cup Bodies(tokensWrites), tokensStored, m + 1, n, g, kept \cup sure,
                 Over(gone, Landed(tokensWrites)), Held(answered, Landed(tokensWrites)))
  BY <1>9, <1>10, <1>11, OneMore
<1>13. Stamped(tokens', lastUse, n)
  <2>1. lastUse[new.id] = 0
    BY <1>2, <1>3 DEF TokensInv, m
  <2>2. Stamped(tokens, lastUse, n)
    BY DEF TokensInv, n
  <2> QED BY <1>5, <2>1, <2>2 DEF Stamped, From
<1>14. ListsHold({tokens'} \cup Bodies(tokensWrites'), tokensStored', tokensMade', tokensNow',
                 Over(gone', tokensWrites'), Held(answered', tokensWrites'),
                 Over(gone', Landed(tokensWrites')), Held(answered', Landed(tokensWrites')))
  <2>1. {tokens'} \cup Bodies(tokensWrites') = {tokens'} \cup Bodies(tokensWrites)
    BY <1>8
  <2> QED BY <1>1, <1>8, <1>12, <2>1 DEF m, n
<1>15. /\ gone' \in SUBSET (1..tokensMade') /\ answered' \in SUBSET (1..tokensMade')
       /\ tokensMade' \in 0..MaxTokens /\ tokensFaults' \in 0..MaxFaults
       /\ \A i \in 1..MaxTokens : i > tokensMade' => lastUse[i] = 0
       /\ \A w \in tokensWrites' : w.sure \subseteq 1..tokensMade'
  <2>1. gone' = gone /\ answered' = answered /\ tokensMade' = m + 1 /\ tokensFaults' = tokensFaults
    BY <1>1, <1>8
  <2>2. 1..m \in SUBSET (1..(m + 1)) /\ m + 1 \in 0..MaxTokens /\ \A i \in 1..MaxTokens : i > m + 1 => i > m
    BY <1>2
  <2>3. \A w \in tokensWrites' : w.sure \subseteq 1..(m + 1)
    <3>1. \A w \in tokensWrites : w.sure \subseteq 1..m
      BY DEF TokensInv, m
    <3>2. sure \subseteq 1..(m + 1)
      BY <1>2, <1>6
    <3> QED BY <1>8, <2>2, <3>1, <3>2
  <2>4. /\ gone \in SUBSET (1..m) /\ answered \in SUBSET (1..m) /\ tokensFaults \in 0..MaxFaults
        /\ \A i \in 1..MaxTokens : i > m => lastUse[i] = 0
    BY DEF TokensInv, m
  <2> QED BY <2>1, <2>2, <2>3, <2>4
<1> QED BY <1>1, <1>8, <1>13, <1>14, <1>15 DEF TokensInv, n

LEMMA RevokeKeeps == ASSUME TokensInv, NEW x \in Token!Id, Token!Revoke(x) PROVE TokensInv'
<1> DEFINE g == Over(gone, tokensWrites)
           kept == Held(answered, tokensWrites)
           sure == {j \in {x} : ~Token!Revives(x)}
<1>1. /\ x \in {r.id : r \in {t \in Token!Range(tokens) : ~t.revoked}}
      /\ tokens' = [k \in DOMAIN tokens |->
                      IF tokens[k].id = x THEN [tokens[k] EXCEPT !.revoked = TRUE] ELSE tokens[k]]
      /\ Token!Begin("revoke", tokensWrites, {j \in {x} : ~Token!Revives(j)})
      /\ UNCHANGED <<tokensNow, tokensMade, answered, gone, lastUse>>
  BY DEF Token!Revoke, Token!historyVars
<1>2. tokens \in Seq(Token!Record) /\ Len(tokens) \in Nat
  BY TokensFacts
<1>3. ASSUME NEW i \in 1..Len(tokens)
      PROVE  /\ tokens'[i] \in Token!Record /\ tokens'[i].id = tokens[i].id
             /\ tokens'[i].expires = tokens[i].expires /\ tokens'[i].used = tokens[i].used
             /\ tokens[i].id = x => tokens'[i].revoked
             /\ tokens[i].revoked => tokens'[i].revoked
  <2>1. tokens[i] \in Token!Record /\ i \in DOMAIN tokens
    BY <1>2
  <2>2. CASE tokens[i].id = x
    <3>1. tokens'[i] = [tokens[i] EXCEPT !.revoked = TRUE]
      BY <1>1, <2>1, <2>2
    <3> QED BY <2>1, <2>2, <3>1 DEF Token!Record
  <2>3. CASE tokens[i].id # x
    BY <1>1, <2>1, <2>3
  <2> QED BY <2>2, <2>3
<1>4. tokens' \in Seq(Token!Record) /\ Len(tokens') = Len(tokens)
  <2>1. DOMAIN tokens' = 1..Len(tokens) /\ tokens' = [k \in 1..Len(tokens) |-> tokens'[k]]
    BY <1>1, <1>2
  <2> QED BY <1>2, <1>3, <2>1
<1>5. /\ sure \in SUBSET Token!Id /\ sure \in SUBSET {x} /\ sure = {j \in {x} : ~Token!Revives(j)}
      /\ sure # {} => ~Token!Revives(x)
  OBVIOUS
<1> HIDE DEF sure, g, kept
<1>6. /\ tokensWrites' \in SUBSET Token!Write
      /\ \A w \in tokensWrites' : w \in tokensWrites \/ w.sure = sure
      /\ Bodies(tokensWrites') = {tokens'} \cup Bodies(tokensWrites)
      /\ Landed(tokensWrites') = Landed(tokensWrites)
      /\ UNCHANGED <<tokensStored, tokensFaults>>
      /\ Over(gone, tokensWrites') = g \cup sure /\ Held(answered, tokensWrites') = kept
  <2>1. tokensWrites \in SUBSET Token!Write /\ Token!Begin("revoke", tokensWrites, sure)
    BY <1>1, <1>5 DEF TokensInv
  <2>2. /\ \A h : Over(h, tokensWrites') = Over(h, tokensWrites) \cup sure
        /\ \A b : Held(b, tokensWrites') = Held(b, tokensWrites)
    BY <1>4, <1>5, <2>1, Begun
  <2>3. Over(gone, tokensWrites') = g \cup sure /\ Held(answered, tokensWrites') = kept
    BY <2>2 DEF g, kept
  <2>4. tokens' \in Seq(Token!Record) /\ sure \in SUBSET Token!Id
    BY <1>4, <1>5
  <2>5. /\ tokensWrites' \in SUBSET Token!Write
        /\ \A w \in tokensWrites' : w \in tokensWrites \/ w.sure = sure
        /\ Bodies(tokensWrites') = {tokens'} \cup Bodies(tokensWrites)
        /\ Landed(tokensWrites') = Landed(tokensWrites)
        /\ UNCHANGED <<tokensStored, tokensFaults>>
    BY <2>1, <2>4, Begun
  <2> QED BY <2>3, <2>5
<1>7. Listed(tokens', tokensMade, tokensNow, g \cup sure, kept)
  <2>1. Listed(tokens, tokensMade, tokensNow, g, kept)
    BY TokensLists DEF g, kept
  <2>2. \A i \in Positions(tokens) :
           /\ tokens'[i].id = tokens[i].id /\ tokens'[i].expires = tokens[i].expires
           /\ tokens'[i].used <= tokensNow
           /\ tokens[i].id \in g \cup sure => tokens[i].id \in g \/ tokens'[i].revoked
           /\ tokens[i].revoked => tokens'[i].revoked
    BY <1>3, <1>5, <2>1 DEF Positions, Listed
  <2> QED BY <1>4, <2>1, <2>2, TokensFacts, ListedAlike
<1>8. ListsHold(Bodies(tokensWrites), tokensStored, tokensMade, tokensNow, g \cup sure, kept,
                Over(gone, Landed(tokensWrites)), Held(answered, Landed(tokensWrites)))
  <2>1. ASSUME NEW y \in Bodies(tokensWrites), NEW i \in Positions(y), y[i].id \in g \cup sure
        PROVE  y[i].id \in g \/ y[i].revoked
    <3>1. CASE y[i].id \notin g
      <4>1. y[i].id = x /\ ~Token!Revives(x)
        BY <1>5, <2>1, <3>1
      <4>2. PICK w \in Token!Pending : w.body = y
        BY DEF Bodies, Token!Pending
      <4>3. y \in Seq(Token!Record) /\ i \in DOMAIN y
        BY <2>1, TokensLists DEF Positions
      <4>4. y[i] \in Token!Range(w.body)
        BY <4>2, <4>3 DEF Token!Range
      <4> QED BY <4>1, <4>2, <4>4 DEF Token!Revives
    <3> QED BY <3>1
  <2>2. tokensMade \in Nat /\ tokensNow \in Nat /\ tokensMade <= tokensMade /\ tokensNow <= tokensNow
    BY TokensFacts
  <2>3. kept \in SUBSET Nat /\ Held(answered, Landed(tokensWrites)) \in SUBSET Nat
    BY TokensLists DEF kept
  <2>4. ListsHold(Bodies(tokensWrites), tokensStored, tokensMade, tokensNow, g, kept,
                  Over(gone, Landed(tokensWrites)), Held(answered, Landed(tokensWrites)))
    BY TokensLists DEF g, kept
  <2> QED BY <2>1, <2>2, <2>3, <2>4, StillHold
<1>9. \A y \in Bodies(tokensWrites) \cup {tokensStored} : Agree(tokens', y)
  <2>1. \A i \in Positions(tokens) : tokens'[i].id = tokens[i].id /\ tokens'[i].expires = tokens[i].expires
    BY <1>3 DEF Positions
  <2> QED BY <1>4, <2>1, TokensLists, AgreeAlike
<1>10. ListsHold({tokens'} \cup Bodies(tokensWrites), tokensStored, tokensMade, tokensNow, g \cup sure, kept,
                 Over(gone, Landed(tokensWrites)), Held(answered, Landed(tokensWrites)))
  BY <1>7, <1>8, <1>9, OneMore
<1>11. {tokens'} \cup Bodies(tokensWrites') = {tokens'} \cup Bodies(tokensWrites)
  BY <1>6
<1>12. x \in 1..tokensMade
  <2>1. PICK k \in DOMAIN tokens : tokens[k].id = x
    BY <1>1 DEF Token!Range
  <2>2. k \in Positions(tokens)
    BY <1>2, <2>1 DEF Positions
  <2>3. x \in 1..MaxTokens /\ x \in Nat /\ x <= tokensMade
    BY <1>2, <2>1, <2>2, TokenFields, TokensLists DEF Listed
  <2> QED BY <2>3, TokensFacts
<1>13. \A w \in tokensWrites' : w.sure \subseteq 1..tokensMade
  BY <1>5, <1>6, <1>12 DEF TokensInv
<1>14. Stamped(tokens', lastUse, tokensNow)
  BY <1>3, <1>4 DEF TokensInv, Stamped, Positions
<1>15. ListsHold({tokens'} \cup Bodies(tokensWrites'), tokensStored', tokensMade', tokensNow',
                 Over(gone', tokensWrites'), Held(answered', tokensWrites'),
                 Over(gone', Landed(tokensWrites')), Held(answered', Landed(tokensWrites')))
  BY <1>1, <1>6, <1>10, <1>11
<1> QED BY <1>1, <1>6, <1>13, <1>14, <1>15 DEF TokensInv

(* A flush, of the interval or of the shutdown, promises nothing.          *)
LEMMA FlushKeeps == ASSUME TokensInv, Token!Flush \/ Token!Stop PROVE TokensInv'
<1>1. PICK kind \in {"flush", "stop"} : Token!Begin(kind, tokensWrites, {})
  BY DEF Token!Flush, Token!Stop
<1>2. UNCHANGED <<tokens, tokensNow, tokensMade, answered, gone, lastUse>>
  BY DEF Token!Flush, Token!Stop, Token!historyVars
<1>3. tokens' \in Seq(Token!Record) /\ tokensWrites \in SUBSET Token!Write
  BY <1>2, TokensFacts DEF TokensInv
<1>9. /\ kind \in {"create", "revoke", "reset", "flush", "stop"} /\ {} \in SUBSET Token!Id
      /\ kind \notin {"revoke", "reset"} /\ kind # "create"
  OBVIOUS
<1>4. /\ tokensWrites' \in SUBSET Token!Write
      /\ \A w \in tokensWrites' : w \in tokensWrites \/ w.sure = {}
      /\ Bodies(tokensWrites') = {tokens'} \cup Bodies(tokensWrites)
      /\ Landed(tokensWrites') = Landed(tokensWrites)
      /\ UNCHANGED <<tokensStored, tokensFaults>>
  BY <1>1, <1>3, <1>9, Begun
<1>5. Over(gone, tokensWrites') = Over(gone, tokensWrites) /\ Held(answered, tokensWrites') = Held(answered, tokensWrites)
  <2>1. \A w \in tokensWrites' : w \in tokensWrites \/ w.sure = {}
    BY <1>4
  <2>2. tokensWrites \in SUBSET tokensWrites'
    BY <1>1 DEF Token!Begin
  <2>3. Over(gone, tokensWrites') = Over(gone, tokensWrites)
    BY <2>1, <2>2 DEF Over
  <2>4. Held(answered, tokensWrites') = Held(answered, tokensWrites)
    BY <2>1, <2>2 DEF Held
  <2> QED BY <1>2, <2>3, <2>4
<1>6. {tokens'} \cup Bodies(tokensWrites') = {tokens} \cup Bodies(tokensWrites)
  BY <1>2, <1>4
<1>7. ListsHold({tokens'} \cup Bodies(tokensWrites'), tokensStored', tokensMade', tokensNow',
                Over(gone', tokensWrites'), Held(answered', tokensWrites'),
                Over(gone', Landed(tokensWrites')), Held(answered', Landed(tokensWrites')))
  BY <1>2, <1>4, <1>5, <1>6 DEF TokensInv
<1>8. \A w \in tokensWrites' : w.sure \subseteq 1..tokensMade
  BY <1>4 DEF TokensInv
<1> QED BY <1>2, <1>4, <1>7, <1>8 DEF TokensInv

LEMMA ResetKeeps == ASSUME TokensInv, Token!FactoryReset PROVE TokensInv'
<1> DEFINE g == Over(gone, tokensWrites)
           kept == Held(answered, tokensWrites)
           plain(w) == IF w.kind = "create" THEN [w EXCEPT !.sure = {}] ELSE w
           others == {plain(w) : w \in tokensWrites}
           sure == {i \in 1..tokensMade : ~Token!Revives(i)}
<1>1. /\ tokens' = <<>> /\ answered' = {} /\ UNCHANGED <<tokensNow, tokensMade, gone, lastUse>>
      /\ Token!Begin("reset", others, sure)
  BY DEF Token!FactoryReset
<1>2. ASSUME NEW w \in tokensWrites
      PROVE  /\ plain(w) \in Token!Write /\ plain(w).kind = w.kind /\ plain(w).body = w.body
             /\ plain(w).landed = w.landed /\ w \in Token!Write
             /\ plain(w).sure = IF w.kind = "create" THEN {} ELSE w.sure
  <2>1. w \in Token!Write
    BY DEF TokensInv
  <2> QED BY <2>1 DEF Token!Write
<1> HIDE DEF plain
<1>3. others \in SUBSET Token!Write /\ Bodies(others) = Bodies(tokensWrites)
  BY <1>2 DEF Bodies
<1>4. \A w \in others : w.kind = "create" => w.sure = {}
  BY <1>2
<1>5. Over(gone, others) \in SUBSET g /\ Over(gone, Landed(others)) \in SUBSET Over(gone, Landed(tokensWrites))
  BY <1>2 DEF Over, Landed, g
<1>6. Held({}, others) = {} /\ Held({}, Landed(others)) = {}
  BY <1>4 DEF Held, Landed
<1>7. sure \in SUBSET Token!Id /\ sure \in SUBSET (1..tokensMade) /\ tokens' \in Seq(Token!Record)
  BY <1>1, TokensAssumption DEF TokensInv, Token!Id
<1>8. \A w \in others : w.sure \subseteq 1..tokensMade
  BY <1>2 DEF TokensInv
<1>9. \A i \in sure : ~Token!Revives(i)
  OBVIOUS
<1> HIDE DEF others, sure, g, kept
<1>10. /\ tokensWrites' \in SUBSET Token!Write
       /\ \A w \in tokensWrites' : w \in others \/ w.sure = sure
       /\ Bodies(tokensWrites') = {tokens'} \cup Bodies(others)
       /\ Landed(tokensWrites') = Landed(others)
       /\ UNCHANGED <<tokensStored, tokensFaults>>
  BY <1>1, <1>3, <1>7, Begun
<1>11. Over(gone, tokensWrites') = Over(gone, others) \cup sure /\ Held({}, tokensWrites') = {}
  <2>1. /\ \A h : Over(h, tokensWrites') = Over(h, others) \cup sure
        /\ \A b : Held(b, tokensWrites') = Held(b, others)
    BY <1>1, <1>3, <1>7, Begun
  <2> QED BY <1>6, <2>1
<1>12. ListsHold(Bodies(tokensWrites), tokensStored, tokensMade, tokensNow, Over(gone, others) \cup sure, {},
                 Over(gone, Landed(others)), {})
  <2>1. ASSUME NEW y \in Bodies(tokensWrites), NEW i \in Positions(y), y[i].id \in Over(gone, others) \cup sure
        PROVE  y[i].id \in g \/ y[i].revoked
    <3>1. CASE y[i].id \notin g
      <4>1. ~Token!Revives(y[i].id)
        BY <1>5, <1>9, <2>1, <3>1
      <4>2. PICK w \in Token!Pending : w.body = y
        BY DEF Bodies, Token!Pending
      <4>3. y \in Seq(Token!Record) /\ i \in DOMAIN y
        BY <2>1, TokensLists DEF Positions
      <4>4. y[i] \in Token!Range(w.body)
        BY <4>2, <4>3 DEF Token!Range
      <4> QED BY <4>1, <4>2, <4>4 DEF Token!Revives
    <3> QED BY <3>1
  <2>2. tokensMade \in Nat /\ tokensNow \in Nat /\ tokensMade <= tokensMade /\ tokensNow <= tokensNow
    BY TokensFacts
  <2>3. kept \in SUBSET Nat /\ Held(answered, Landed(tokensWrites)) \in SUBSET Nat
    BY TokensLists DEF kept
  <2>4. ListsHold(Bodies(tokensWrites), tokensStored, tokensMade, tokensNow, g, kept,
                  Over(gone, Landed(tokensWrites)), Held(answered, Landed(tokensWrites)))
    BY TokensLists DEF g, kept
  <2>5. {} \in SUBSET kept /\ {} \in SUBSET Held(answered, Landed(tokensWrites))
    OBVIOUS
  <2>6. \A i \in Positions(tokensStored) : tokensStored[i].id \in Over(gone, Landed(others)) =>
          tokensStored[i].id \in Over(gone, Landed(tokensWrites)) \/ tokensStored[i].revoked
          \/ tokensStored[i].expires <= tokensNow
    BY <1>5
  <2> QED BY <2>1, <2>2, <2>3, <2>4, <2>5, <2>6, StillHold
<1>13. /\ <<>> \in Seq(Token!Record) /\ Len(<<>>) = 0 /\ Positions(<<>>) = {}
  BY DEF Positions
<1>14. Listed(<<>>, tokensMade, tokensNow, Over(gone, others) \cup sure, {})
  BY <1>13, TokensAssumption DEF Listed, NewestFirst
<1>15. \A y : Agree(<<>>, y)
  BY <1>13 DEF Agree
<1>16. ListsHold({<<>>} \cup Bodies(tokensWrites), tokensStored, tokensMade, tokensNow,
                 Over(gone, others) \cup sure, {}, Over(gone, Landed(others)), {})
  BY <1>12, <1>14, <1>15, OneMore
<1>17. {tokens'} \cup Bodies(tokensWrites') = {<<>>} \cup Bodies(tokensWrites)
  BY <1>1, <1>3, <1>10
<1>18. ListsHold({tokens'} \cup Bodies(tokensWrites'), tokensStored', tokensMade', tokensNow',
                 Over(gone', tokensWrites'), Held(answered', tokensWrites'),
                 Over(gone', Landed(tokensWrites')), Held(answered', Landed(tokensWrites')))
  BY <1>1, <1>6, <1>10, <1>11, <1>16, <1>17
<1>19. \A w \in tokensWrites' : w.sure \subseteq 1..tokensMade
  BY <1>7, <1>8, <1>10
<1>20. Stamped(tokens', lastUse, tokensNow)
  BY <1>1, <1>13 DEF Stamped
<1> QED BY <1>1, <1>10, <1>18, <1>19, <1>20 DEF TokensInv

LEMMA UseKeeps == ASSUME TokensInv, NEW k, Token!Use(k) PROVE TokensInv'
<1> DEFINE r == tokens[k]
           stamp == Token!Stamp(r)
<1>1. /\ k \in DOMAIN tokens
      /\ tokens' = [tokens EXCEPT ![k] = [r EXCEPT !.used = stamp]]
      /\ lastUse' = [lastUse EXCEPT ![r.id] = tokensNow]
      /\ UNCHANGED <<tokensNow, tokensWrites, tokensStored, tokensMade, tokensFaults, answered, gone>>
  BY DEF Token!Use
<1>2. tokens \in Seq(Token!Record) /\ Len(tokens) \in Nat /\ k \in 1..Len(tokens) /\ r \in Token!Record
  BY <1>1, TokensFacts
<1>3. /\ r.id \in 1..tokensMade /\ r.id \in 1..MaxTokens /\ r.used \in Nat /\ r.used <= tokensNow
      /\ tokensNow \in Nat
  <2>1. r.id \in 1..MaxTokens /\ r.id \in Nat /\ r.used \in Nat
    BY <1>2, TokenFields DEF Positions
  <2>2. r.id <= tokensMade /\ r.used <= tokensNow
    BY <1>2, TokensLists DEF Listed, Positions
  <2> QED BY <2>1, <2>2, TokensFacts
<1>4. stamp \in Nat /\ stamp <= tokensNow /\ tokensNow - stamp < Throttle
  BY <1>3, TokensAssumption DEF Token!Stamp
<1> HIDE DEF stamp
<1>5. /\ [r EXCEPT !.used = stamp] \in Token!Record /\ [r EXCEPT !.used = stamp].id = r.id
      /\ [r EXCEPT !.used = stamp].expires = r.expires /\ [r EXCEPT !.used = stamp].used = stamp
      /\ [r EXCEPT !.used = stamp].revoked = r.revoked
  BY <1>2, <1>4 DEF Token!Record
<1>6. /\ tokens' \in Seq(Token!Record) /\ Len(tokens') = Len(tokens)
      /\ tokens'[k] = [r EXCEPT !.used = stamp]
      /\ \A i \in 1..Len(tokens) : i # k => tokens'[i] = tokens[i]
  BY <1>1, <1>2, <1>5
<1>7. ASSUME NEW i \in Positions(tokens)
      PROVE  /\ tokens'[i].id = tokens[i].id /\ tokens'[i].expires = tokens[i].expires
             /\ tokens'[i].used <= tokensNow /\ tokens'[i].revoked = tokens[i].revoked
  <2>1. CASE i = k
    BY <1>4, <1>5, <1>6, <2>1
  <2>2. CASE i # k
    BY <1>6, <2>2, TokensLists DEF Listed, Positions
  <2> QED BY <2>1, <2>2
<1>8. Listed(tokens', tokensMade, tokensNow, Over(gone, tokensWrites), Held(answered, tokensWrites))
  <2>1. Listed(tokens, tokensMade, tokensNow, Over(gone, tokensWrites), Held(answered, tokensWrites))
    BY TokensLists
  <2>2. \A i \in Positions(tokens) :
           /\ tokens'[i].id = tokens[i].id /\ tokens'[i].expires = tokens[i].expires
           /\ tokens'[i].used <= tokensNow
           /\ tokens[i].id \in Over(gone, tokensWrites) =>
                tokens[i].id \in Over(gone, tokensWrites) \/ tokens'[i].revoked
           /\ tokens[i].revoked => tokens'[i].revoked
    BY <1>7
  <2> QED BY <1>6, <2>1, <2>2, TokensFacts, ListedAlike
<1>9. ListsHold({tokens'} \cup Bodies(tokensWrites), tokensStored, tokensMade, tokensNow,
                Over(gone, tokensWrites), Held(answered, tokensWrites),
                Over(gone, Landed(tokensWrites)), Held(answered, Landed(tokensWrites)))
  <2>1. ASSUME NEW x \in Bodies(tokensWrites) \cup {tokensStored} PROVE Agree(tokens', x)
    <3>1. Agree(tokens, x) /\ Len(tokens') = Len(tokens)
      BY <1>6, TokensLists
    <3>2. \A i \in Positions(tokens) :
            tokens'[i].id = tokens[i].id /\ tokens'[i].expires = tokens[i].expires
      BY <1>7
    <3> QED BY <3>1, <3>2, AgreeAlike
  <2> QED BY <1>8, <2>1, OneMore, TokensLists
<1>10. lastUse' \in [1..MaxTokens -> Nat] /\ \A i \in 1..MaxTokens : i > tokensMade => lastUse'[i] = 0
  <2>1. lastUse \in [1..MaxTokens -> Nat] /\ \A i \in 1..MaxTokens : i > tokensMade => lastUse[i] = 0
    BY DEF TokensInv
  <2>2. tokensMade \in Nat
    BY TokensFacts
  <2> QED BY <1>1, <1>3, <2>1, <2>2
<1>11. Stamped(tokens', lastUse', tokensNow)
  <2>1. ASSUME NEW i \in Positions(tokens')
        PROVE  LET l == lastUse'[tokens'[i].id] IN
               l # 0 => tokens'[i].used <= l /\ l - tokens'[i].used < Throttle
    <3>1. i \in Positions(tokens)
      BY <1>6 DEF Positions
    <3>2. CASE i = k
      <4>1. lastUse'[r.id] = tokensNow
        BY <1>1, <1>3 DEF TokensInv
      <4> QED BY <1>4, <1>5, <1>6, <3>2, <4>1
    <3>3. CASE i # k
      <4>1. tokens'[i] = tokens[i] /\ tokens[i].id # r.id
        <5>1. k \in Positions(tokens)
          BY <1>2 DEF Positions
        <5>2. tokens[i].id = tokens[k].id => i = k
          BY <1>2, <3>1, <5>1, TokensFacts, AgreeSelf
        <5> QED BY <1>6, <3>1, <3>3, <5>2 DEF Positions
      <4>2. lastUse'[tokens[i].id] = lastUse[tokens[i].id]
        BY <1>1, <4>1 DEF TokensInv
      <4> QED BY <3>1, <4>1, <4>2 DEF TokensInv, Stamped
    <3> QED BY <3>2, <3>3
  <2> QED BY <2>1 DEF Stamped
<1> QED BY <1>1, <1>9, <1>10, <1>11 DEF TokensInv

(* The list of a write is stored: its promises are now those of the        *)
(* document.                                                               *)
LEMMA LandKeeps == ASSUME TokensInv, NEW w \in tokensWrites, Token!Land(w) PROVE TokensInv'
<1> DEFINE done == [w EXCEPT !.landed = TRUE]
           g == Over(gone, tokensWrites)
           kept == Held(answered, tokensWrites)
<1>1. /\ w.landed = FALSE /\ w \in Token!Write
      /\ tokensStored' = w.body /\ tokensWrites' = (tokensWrites \ {w}) \cup {done}
      /\ UNCHANGED <<tokens, tokensNow, tokensMade, tokensFaults, answered, gone, lastUse>>
  BY DEF Token!Land, Token!Pending, Token!historyVars, TokensInv, Token!Write
<1>2. /\ done \in Token!Write /\ done.kind = w.kind /\ done.sure = w.sure /\ done.landed = TRUE
  BY <1>1 DEF Token!Write
<1> HIDE DEF done
<1>3. Over(gone, tokensWrites') = g /\ Held(answered, tokensWrites') = kept
  BY <1>1, <1>2 DEF Over, Held, g, kept
<1>4. /\ Over(gone, Landed(tokensWrites')) \in SUBSET g
      /\ Held(answered, Landed(tokensWrites')) \in SUBSET kept
  BY <1>3 DEF Over, Held, Landed
<1>5. w.body \in Bodies(tokensWrites) /\ Bodies(tokensWrites') \in SUBSET Bodies(tokensWrites)
  BY <1>1, <1>2 DEF Bodies
<1> HIDE DEF g, kept
<1>6. /\ \A x \in {tokens} \cup Bodies(tokensWrites) : Listed(x, tokensMade, tokensNow, g, kept)
      /\ \A x, y \in ({tokens} \cup Bodies(tokensWrites)) \cup {tokensStored} : Agree(x, y)
  BY DEF TokensInv, ListsHold, g, kept
<1>7. Listed(w.body, tokensMade, tokensNow,
             Over(gone, Landed(tokensWrites')), Held(answered, Landed(tokensWrites')))
  <2>1. Listed(w.body, tokensMade, tokensNow, g, kept)
    BY <1>5, <1>6
  <2>2. /\ tokensMade \in Nat /\ tokensNow \in Nat /\ tokensMade <= tokensMade /\ tokensNow <= tokensNow
        /\ kept \in SUBSET Nat
    BY TokensFacts, TokensLists DEF kept
  <2>3. \A i \in Positions(w.body) : w.body[i].id \in Over(gone, Landed(tokensWrites')) =>
          w.body[i].id \in g \/ w.body[i].revoked \/ w.body[i].expires <= tokensNow
    BY <1>4
  <2> QED BY <1>4, <2>1, <2>2, <2>3, ListedLater
<1>8. ListsHold({tokens} \cup Bodies(tokensWrites'), w.body, tokensMade, tokensNow, g, kept,
                Over(gone, Landed(tokensWrites')), Held(answered, Landed(tokensWrites')))
  BY <1>5, <1>6, <1>7 DEF ListsHold
<1>9. ListsHold({tokens'} \cup Bodies(tokensWrites'), tokensStored', tokensMade', tokensNow',
                Over(gone', tokensWrites'), Held(answered', tokensWrites'),
                Over(gone', Landed(tokensWrites')), Held(answered', Landed(tokensWrites')))
  BY <1>1, <1>3, <1>8
<1>10. tokensWrites' \in SUBSET Token!Write /\ \A v \in tokensWrites' : v.sure \subseteq 1..tokensMade
  BY <1>1, <1>2 DEF TokensInv
<1> QED BY <1>1, <1>9, <1>10 DEF TokensInv

(* A write that ends leaves no more promises, and no more lists.           *)
LEMMA EndKeeps ==
  ASSUME TokensInv, UNCHANGED <<tokens, tokensStored, tokensNow, tokensMade, lastUse>>,
         tokensFaults' \in 0..MaxFaults, gone' \in SUBSET (1..tokensMade), answered' \in SUBSET (1..tokensMade),
         tokensWrites' \in SUBSET Token!Write, \A v \in tokensWrites' : v.sure \subseteq 1..tokensMade,
         Bodies(tokensWrites') \in SUBSET Bodies(tokensWrites),
         Over(gone', tokensWrites') \in SUBSET Over(gone, tokensWrites),
         Held(answered', tokensWrites') \in SUBSET Held(answered, tokensWrites),
         Over(gone', Landed(tokensWrites')) \in SUBSET Over(gone, Landed(tokensWrites)),
         Held(answered', Landed(tokensWrites')) \in SUBSET Held(answered, Landed(tokensWrites))
  PROVE  TokensInv'
<1> DEFINE S == {tokens} \cup Bodies(tokensWrites)
           S2 == {tokens} \cup Bodies(tokensWrites')
           g == Over(gone, tokensWrites)
           kept == Held(answered, tokensWrites)
           gl == Over(gone, Landed(tokensWrites))
           al == Held(answered, Landed(tokensWrites))
<1>1. ListsHold(S, tokensStored, tokensMade, tokensNow, g, kept, gl, al) /\ S2 \in SUBSET S
  BY DEF TokensInv
<1>2. /\ kept \in SUBSET Nat /\ al \in SUBSET Nat /\ tokensMade \in Nat /\ tokensNow \in Nat
      /\ tokensMade <= tokensMade /\ tokensNow <= tokensNow
  BY TokensFacts, TokensLists
<1>3. /\ Over(gone', tokensWrites') \in SUBSET g /\ Held(answered', tokensWrites') \in SUBSET kept
      /\ Over(gone', Landed(tokensWrites')) \in SUBSET gl /\ Held(answered', Landed(tokensWrites')) \in SUBSET al
  OBVIOUS
<1> HIDE DEF S, S2, g, kept, gl, al
<1>4. ListsHold(S2, tokensStored, tokensMade, tokensNow,
                Over(gone', tokensWrites'), Held(answered', tokensWrites'),
                Over(gone', Landed(tokensWrites')), Held(answered', Landed(tokensWrites')))
  <2>1. \A x \in S2 : \A i \in Positions(x) : x[i].id \in Over(gone', tokensWrites') =>
          x[i].id \in g \/ x[i].revoked \/ x[i].expires <= tokensNow
    BY <1>3
  <2>2. \A i \in Positions(tokensStored) : tokensStored[i].id \in Over(gone', Landed(tokensWrites')) =>
          tokensStored[i].id \in gl \/ tokensStored[i].revoked \/ tokensStored[i].expires <= tokensNow
    BY <1>3
  <2> QED BY <1>1, <1>2, <1>3, <2>1, <2>2, StillHold
<1> QED BY <1>4 DEF TokensInv, S2

LEMMA DoneKeeps == ASSUME TokensInv, NEW w \in tokensWrites, Token!Done(w) PROVE TokensInv'
<1>1. /\ w.landed /\ w \in Token!Write /\ w.sure \subseteq 1..tokensMade /\ w.sure \subseteq Token!Id
      /\ tokensWrites' = tokensWrites \ {w}
      /\ answered' = (IF w.kind = "create" THEN answered \cup w.sure ELSE answered)
      /\ gone' = (IF w.kind \in {"revoke", "reset"} THEN gone \cup w.sure ELSE gone)
      /\ UNCHANGED <<tokens, tokensStored, tokensNow, tokensMade, tokensFaults, lastUse>>
  BY DEF Token!Done, TokensInv, Token!Write
<1>2. /\ gone' \in SUBSET (1..tokensMade) /\ answered' \in SUBSET (1..tokensMade)
      /\ tokensWrites' \in SUBSET Token!Write /\ \A v \in tokensWrites' : v.sure \subseteq 1..tokensMade
      /\ tokensFaults' \in 0..MaxFaults
  BY <1>1 DEF TokensInv
<1>3. Bodies(tokensWrites') \in SUBSET Bodies(tokensWrites)
  BY <1>1 DEF Bodies
<1>4. /\ Over(gone', tokensWrites') \in SUBSET Over(gone, tokensWrites)
      /\ Over(gone', Landed(tokensWrites')) \in SUBSET Over(gone, Landed(tokensWrites))
  BY <1>1 DEF Over, Landed
<1>5. /\ Held(answered', tokensWrites') \in SUBSET Held(answered, tokensWrites)
      /\ Held(answered', Landed(tokensWrites')) \in SUBSET Held(answered, Landed(tokensWrites))
  BY <1>1 DEF Held, Landed
<1> QED BY <1>1, <1>2, <1>3, <1>4, <1>5, EndKeeps

LEMMA FailedKeeps == ASSUME TokensInv, NEW w \in tokensWrites, Token!Failed(w) PROVE TokensInv'
<1> DEFINE left == [w EXCEPT !.sure = {}]
<1>1. /\ w \in Token!Write /\ w.sure \subseteq 1..tokensMade
      /\ tokensWrites' \in SUBSET ((tokensWrites \ {w}) \cup {left})
      /\ UNCHANGED <<tokens, tokensStored, tokensNow, tokensMade, answered, gone, lastUse>>
  BY DEF Token!Failed, TokensInv, Token!historyVars, Token!Of
<1>2. left \in Token!Write /\ left.kind = w.kind /\ left.body = w.body /\ left.landed = w.landed /\ left.sure = {}
  BY <1>1 DEF Token!Write
<1> HIDE DEF left
<1>3. /\ gone' \in SUBSET (1..tokensMade) /\ answered' \in SUBSET (1..tokensMade)
      /\ tokensWrites' \in SUBSET Token!Write /\ \A v \in tokensWrites' : v.sure \subseteq 1..tokensMade
  BY <1>1, <1>2 DEF TokensInv
<1>4. tokensFaults' \in 0..MaxFaults
  BY TokensAssumption DEF Token!Failed, TokensInv
<1>5. Bodies(tokensWrites') \in SUBSET Bodies(tokensWrites)
  BY <1>1, <1>2 DEF Bodies
<1>6. /\ Over(gone', tokensWrites') \in SUBSET Over(gone, tokensWrites)
      /\ Over(gone', Landed(tokensWrites')) \in SUBSET Over(gone, Landed(tokensWrites))
  BY <1>1, <1>2 DEF Over, Landed
<1>7. /\ Held(answered', tokensWrites') \in SUBSET Held(answered, tokensWrites)
      /\ Held(answered', Landed(tokensWrites')) \in SUBSET Held(answered, Landed(tokensWrites))
  BY <1>1, <1>2 DEF Held, Landed
<1> QED BY <1>1, <1>3, <1>4, <1>5, <1>6, <1>7, EndKeeps

(* A start takes the stored list, and nothing is under way.                *)
LEMMA RestartKeeps ==
  ASSUME TokensInv, Token!Restart, tokensFaults' \in 0..MaxFaults PROVE TokensInv'
<1>1. /\ tokens' = tokensStored /\ tokensWrites' = {} /\ lastUse' = [i \in 1..MaxTokens |-> 0]
      /\ UNCHANGED <<tokensNow, tokensStored, tokensMade, answered, gone>>
  BY DEF Token!Restart, Token!Id
<1>2. Bodies({}) = {} /\ Landed({}) = {} /\ Over(gone, {}) = gone /\ Held(answered, {}) = answered
  BY DEF Bodies, Landed, Over, Held
<1>3. gone \in SUBSET Over(gone, Landed(tokensWrites)) /\ answered \in SUBSET Held(answered, Landed(tokensWrites))
  BY DEF Over, Held
<1>4. Listed(tokensStored, tokensMade, tokensNow, gone, answered)
  <2>1. Listed(tokensStored, tokensMade, tokensNow,
               Over(gone, Landed(tokensWrites)), Held(answered, Landed(tokensWrites)))
    BY DEF TokensInv, ListsHold
  <2>2. /\ tokensMade \in Nat /\ tokensNow \in Nat /\ tokensMade <= tokensMade /\ tokensNow <= tokensNow
        /\ Held(answered, Landed(tokensWrites)) \in SUBSET Nat
    BY TokensFacts, TokensLists
  <2>3. \A i \in Positions(tokensStored) : tokensStored[i].id \in gone =>
          tokensStored[i].id \in Over(gone, Landed(tokensWrites)) \/ tokensStored[i].revoked
          \/ tokensStored[i].expires <= tokensNow
    BY <1>3
  <2> QED BY <1>3, <2>1, <2>2, <2>3, ListedLater
<1>5. Agree(tokensStored, tokensStored)
  BY DEF TokensInv, ListsHold
<1>6. ListsHold({tokensStored} \cup {}, tokensStored, tokensMade, tokensNow, gone, answered, gone, answered)
  BY <1>4, <1>5 DEF ListsHold
<1>7. Stamped(tokensStored, lastUse', tokensNow)
  <2>1. ASSUME NEW i \in Positions(tokensStored) PROVE lastUse'[tokensStored[i].id] = 0
    <3>1. tokensStored[i].id \in 1..MaxTokens
      BY TokensFacts, TokenFields
    <3> QED BY <1>1, <3>1
  <2> QED BY <2>1 DEF Stamped
<1>8. lastUse' \in [1..MaxTokens -> Nat] /\ \A i \in 1..MaxTokens : lastUse'[i] = 0
  BY <1>1
<1>9. ListsHold({tokens'} \cup Bodies(tokensWrites'), tokensStored', tokensMade', tokensNow',
                Over(gone', tokensWrites'), Held(answered', tokensWrites'),
                Over(gone', Landed(tokensWrites')), Held(answered', Landed(tokensWrites')))
  BY <1>1, <1>2, <1>6
<1> QED BY <1>1, <1>7, <1>8, <1>9 DEF TokensInv

LEMMA TimeKeeps == ASSUME TokensInv, Token!Tick PROVE TokensInv'
<1> DEFINE over == {t \in Token!Range(tokens) : t.expires <= tokensNow'}
           S == {tokens} \cup Bodies(tokensWrites)
           g == Over(gone, tokensWrites)
           kept == Held(answered, tokensWrites)
           gl == Over(gone, Landed(tokensWrites))
           al == Held(answered, Landed(tokensWrites))
<1>1. /\ tokensNow < TokensClock /\ tokensNow' = tokensNow + 1 /\ gone' = gone \cup {r.id : r \in over}
      /\ UNCHANGED <<tokens, tokensWrites, tokensStored, tokensMade, tokensFaults, answered, lastUse>>
  BY DEF Token!Tick
<1>2. tokensNow' \in 1..TokensClock /\ tokensNow \in Nat /\ tokensNow' \in Nat
  BY <1>1, TokensAssumption DEF TokensInv
<1>3. \A x \in gone' : x \in gone \/ \E j \in Positions(tokens) : tokens[j].id = x /\ tokens[j].expires <= tokensNow'
  BY <1>1, TokensFacts DEF Token!Range, Positions
<1>4. gone' \in SUBSET (1..tokensMade)
  <2>1. ASSUME NEW j \in Positions(tokens) PROVE tokens[j].id \in 1..tokensMade
    <3>1. tokens[j].id \in 1..MaxTokens /\ tokens[j].id \in Nat /\ tokens[j].id <= tokensMade
      BY TokensFacts, TokenFields, TokensLists DEF Listed
    <3> QED BY <3>1, TokensFacts
  <2>2. gone \in SUBSET (1..tokensMade)
    BY DEF TokensInv
  <2> QED BY <1>3, <2>1, <2>2
<1>5. /\ \A x \in Over(gone', tokensWrites) : x \in g \/ x \in gone'
      /\ \A x \in Over(gone', Landed(tokensWrites)) : x \in gl \/ x \in gone'
      /\ gone \in SUBSET g /\ gone \in SUBSET gl
  BY DEF Over
<1>6. ListsHold(S, tokensStored, tokensMade, tokensNow, g, kept, gl, al)
  BY DEF TokensInv
<1>7. \A x \in S \cup {tokensStored} : Agree(tokens, x)
  BY <1>6 DEF ListsHold
<1>8. tokens \in S /\ kept \in SUBSET Nat /\ al \in SUBSET Nat
  BY TokensLists
<1> HIDE DEF over, S, g, kept, gl, al
<1>9. ASSUME NEW x \in S \cup {tokensStored}, NEW i \in Positions(x), x[i].id \in gone'
      PROVE  x[i].id \in gone \/ x[i].expires <= tokensNow'
  <2>1. CASE x[i].id \notin gone
    <3>1. PICK j \in Positions(tokens) : tokens[j].id = x[i].id /\ tokens[j].expires <= tokensNow'
      BY <1>3, <1>9, <2>1
    <3> QED BY <1>7, <3>1 DEF Agree
  <2> QED BY <2>1
<1>10. ListsHold(S, tokensStored, tokensMade, tokensNow',
                 Over(gone', tokensWrites), kept, Over(gone', Landed(tokensWrites)), al)
  <2>1. \A x \in S : \A i \in Positions(x) : x[i].id \in Over(gone', tokensWrites) =>
          x[i].id \in g \/ x[i].revoked \/ x[i].expires <= tokensNow'
    BY <1>5, <1>9
  <2>2. \A i \in Positions(tokensStored) : tokensStored[i].id \in Over(gone', Landed(tokensWrites)) =>
          tokensStored[i].id \in gl \/ tokensStored[i].revoked \/ tokensStored[i].expires <= tokensNow'
    BY <1>5, <1>9
  <2>3. tokensMade \in Nat /\ tokensMade <= tokensMade /\ tokensNow <= tokensNow'
    BY <1>1, <1>2, TokensFacts
  <2> QED BY <1>2, <1>6, <1>8, <2>1, <2>2, <2>3, StillHold
<1>11. Stamped(tokens, lastUse, tokensNow')
  BY DEF TokensInv, Stamped
<1> QED BY <1>1, <1>2, <1>4, <1>10, <1>11 DEF TokensInv, S, kept, al

LEMMA TokensStep == TokensInv /\ [Token!Next]_(Token!vars) => TokensInv'
<1> SUFFICES ASSUME TokensInv, [Token!Next]_(Token!vars) PROVE TokensInv'
  OBVIOUS
<1>1. ASSUME NEW life \in Lives, Token!Create(life) PROVE TokensInv'
  BY <1>1, CreateKeeps
<1>2. ASSUME NEW i \in Token!Id, Token!Revoke(i) PROVE TokensInv'
  BY <1>2, RevokeKeeps
<1>3. ASSUME NEW k \in 1..MaxCount, Token!Use(k) PROVE TokensInv'
  BY <1>3, UseKeeps
<1>4. CASE Token!Flush \/ Token!Stop \/ Token!FactoryReset
  BY <1>4, FlushKeeps, ResetKeeps
<1>5. ASSUME NEW w \in tokensWrites, Token!Land(w) \/ Token!Done(w) \/ Token!Failed(w) PROVE TokensInv'
  BY <1>5, LandKeeps, DoneKeeps, FailedKeeps
<1>6. CASE Token!Exit \/ Token!Crash
  <2>1. Token!Restart /\ tokensFaults' \in 0..MaxFaults
    BY <1>6, TokensAssumption DEF Token!Exit, Token!Crash, TokensInv
  <2> QED BY <2>1, RestartKeeps
<1>7. CASE Token!Tick
  BY <1>7, TimeKeeps
<1>8. CASE Token!Due \/ UNCHANGED Token!vars
  <2>1. UNCHANGED <<tokensNow, tokens, tokensWrites, tokensStored, tokensMade, tokensFaults, answered, gone, lastUse>>
    BY <1>8 DEF Token!Due, Token!vars, Token!historyVars
  <2> QED BY <2>1 DEF TokensInv
<1> QED BY <1>1, <1>2, <1>3, <1>4, <1>5, <1>6, <1>7, <1>8 DEF Token!Next

LEMMA TokensSafe ==
  TokensInv => Token!TypeOK /\ Token!GoneForGood /\ Token!KeptUnlessCrowded /\ Token!StampIsClose
<1> SUFFICES ASSUME TokensInv
             PROVE  Token!TypeOK /\ Token!GoneForGood /\ Token!KeptUnlessCrowded /\ Token!StampIsClose
  OBVIOUS
<1>1. /\ tokens \in Seq(Token!Record) /\ NewestFirst(tokens) /\ DOMAIN tokens = Positions(tokens)
      /\ Len(tokens) <= MaxCount
      /\ Listed(tokens, tokensMade, tokensNow, Over(gone, tokensWrites), Held(answered, tokensWrites))
  BY TokensLists DEF Listed, Positions
<1>2. Token!TypeOK
  <2>1. tokensStored \in Seq(Token!Record) /\ Len(tokensStored) <= MaxCount
    BY DEF TokensInv, ListsHold, Listed
  <2> QED BY <1>1, <2>1, AgreeSelf DEF TokensInv, Token!TypeOK
<1>3. Token!GoneForGood
  <2>1. ASSUME NEW i \in Positions(tokens), tokens[i].id \in gone PROVE ~Token!Active(tokens[i])
    <3>1. tokens[i].revoked \/ tokens[i].expires <= tokensNow
      BY <1>1, <2>1 DEF Listed, Over
    <3>2. tokens[i].expires \in Nat /\ tokensNow \in Nat
      BY <1>1, TokensFacts, TokenFields
    <3> QED BY <3>1, <3>2 DEF Token!Active
  <2> QED BY <1>1, <2>1 DEF Token!GoneForGood, Token!Range
<1>4. Token!KeptUnlessCrowded
  <2>1. \A x \in answered : (\E i \in Positions(tokens) : tokens[i].id = x) \/ tokensMade - x >= MaxCount
    BY <1>1 DEF Listed, Held
  <2> QED BY <1>1, <2>1 DEF Token!KeptUnlessCrowded, Token!IdsIn, Token!Range
<1>5. Token!StampIsClose
  BY <1>1 DEF TokensInv, Stamped, Token!StampIsClose, Token!Range
<1> QED BY <1>2, <1>3, <1>4, <1>5

LEMMA TokensKept == Token!Spec => []TokensInv
BY TokensInitial, TokensStep, PTL DEF Token!Spec

-------------------------------------------------------------------------------
(* For every threshold, window and lock, any identifiers and any tokens:   *)
(* the lockout spreads the failures, locks nobody for failures of others,  *)
(* and a token of a first login is used once, in order.                    *)
THEOREM LoginsKept == Lockout!Spec /\ Setup!Spec => []LoginsGuarded
<1>1. LockoutInv /\ SetupInv => LoginsGuarded
  BY LockoutSafe, SetupSafe DEF LoginsGuarded
<1> QED BY <1>1, LockoutKept, SetupKept, PTL

(* For lists of every length and any number of writes under way: a token   *)
(* that is over is never accepted again, in whatever order the lists are   *)
(* stored, fail or are lost, and an answered one is kept, but for those an *)
(* older list was under way of.                                            *)
THEOREM TokensHeld == Token!Spec => []TokensHold
<1>1. TokensInv => TokensHold
  BY TokensSafe DEF TokensHold
<1> QED BY <1>1, TokensKept, PTL

-------------------------------------------------------------------------------
\* The start

(* The rows of the migrations are the first ones, those before the one that*)
(* is being applied among them.                                            *)
Schema ==
  /\ recorded \subseteq applied /\ \E m \in 0..Migrations : recorded = 1..m
  /\ startAt \in {"apply", "record"} => startStep \in 1..Migrations /\ 1..(startStep - 1) \subseteq recorded
  /\ startAt = "record" => startStep \in applied
  /\ startAt \in {"files", "find", "pair", "seed", "up"} => recorded = 1..Migrations

(* A document that is there as a file has been stored, or the failure that *)
(* left it out is on record.                                               *)
Settled(k) == k \in files => startRow[k] # "none" \/ k \in skipped
Migrated ==
  /\ files \subseteq Start!Key /\ (SitesDoc \in files <=> DevicesDoc \in files)
  /\ startAt = "files" => \A j \in 1..(startStep - 1) : Settled(StartKeys[j])
  /\ startAt \in {"find", "pair", "seed", "up"} => \A k \in Start!Key : Settled(k)

(* What is seeded was missing, and what is not yet seeded is still found   *)
(* missing.                                                                *)
Found ==
  /\ \A k \in Start!Key \ Unseeded : startRow[k] # "none" \/ k \in missing
  /\ missing \cap files \subseteq skipped
PairFound == {SitesDoc, DevicesDoc} \cap missing # {}
Seeding ==
  /\ startAt = "pair" => /\ startStep \in {1, 2} /\ Found /\ PairFound
                         /\ startStep = 2 => startRow[SitesDoc] # "none"
  /\ startAt = "seed" => /\ startStep \in Nat \ {0} /\ Found
                         /\ startRow[SitesDoc] # "none" /\ startRow[DevicesDoc] # "none"
                         /\ \A j \in DOMAIN StartKeys : j < startStep /\ StartKeys[j] \notin Unseeded
                              => startRow[StartKeys[j]] # "none"
  /\ startAt = "up" => \A k \in Start!Key \ Unseeded : startRow[k] # "none"

(* At any time, not only once the server is up.                            *)
LeftOut(k) ==
  k \in skipped \/ (k \in {SitesDoc, DevicesDoc} /\ skipped \cap {SitesDoc, DevicesDoc} # {})
DefaultsExplained == \A k \in files : startRow[k] = "default" => LeftOut(k)

StartInv == Start!TypeOK /\ Schema /\ Migrated /\ Seeding /\ DefaultsExplained

LEMMA StartTyped ==
  ASSUME Start!TypeOK
  PROVE  /\ startRow \in [Start!Key -> Start!Content] /\ DOMAIN StartKeys = 1..Len(StartKeys)
         /\ Len(StartKeys) \in Nat \ {0}
         /\ \A j \in DOMAIN StartKeys : StartKeys[j] \in Start!Key
         /\ \A k \in Start!Key : \E j \in DOMAIN StartKeys : StartKeys[j] = k
<1>1. Len(StartKeys) \in Nat \ {0} /\ DOMAIN StartKeys = 1..Len(StartKeys)
  BY StartAssumption
<1>2. Start!Key = {StartKeys[j] : j \in DOMAIN StartKeys}
  BY DEF Start!Key, Start!Range
<1> QED BY <1>1, <1>2 DEF Start!TypeOK

LEMMA StartInitial == Start!Init => StartInv
<1> SUFFICES ASSUME Start!Init PROVE StartInv
  OBVIOUS
<1>1. startAt = "down" /\ skipped = {} /\ missing = {} /\ startFaults = 0
  BY DEF Start!Init
<1>2. PICK v \in 0..Migrations : applied = 1..v
  BY DEF Start!Init
<1>3. recorded = applied \/ recorded = {}
  BY DEF Start!Init
<1>4. startRow = [k \in Start!Key |-> IF applied = {} \/ k \in Unseeded THEN "none" ELSE "saved"]
  BY DEF Start!Init
<1>5. startRow \in [Start!Key -> Start!Content] /\ \A k \in Start!Key : startRow[k] # "default"
  BY <1>4 DEF Start!Content
<1>6. files \subseteq Start!Key /\ (SitesDoc \in files <=> DevicesDoc \in files)
  BY DEF Start!Init
<1>7. Schema
  <2>1. \E m \in 0..Migrations : recorded = 1..m
    <3>1. CASE recorded = applied
      BY <3>1, <1>2
    <3>2. CASE recorded = {}
      <4>1. 1..0 = {} /\ 0 \in 0..Migrations
        BY StartAssumption
      <4> QED BY <4>1, <3>2
    <3> QED BY <3>1, <3>2, <1>3
  <2> QED BY <2>1, <1>1, <1>3 DEF Schema
<1>8. applied \subseteq 1..Migrations /\ recorded \subseteq 1..Migrations
  BY <1>2, <1>3, StartAssumption
<1>9. Start!TypeOK
  BY <1>1, <1>5, <1>8, StartAssumption DEF Start!TypeOK
<1>10. DefaultsExplained
  BY <1>5, <1>6 DEF DefaultsExplained
<1> QED BY <1>1, <1>6, <1>7, <1>9, <1>10 DEF StartInv, Migrated, Seeding

(* The process ends, starts, or tries to connect again.                    *)
LEMMA StartsKeep ==
  ASSUME StartInv, Start!Start \/ Start!Fails \/ Start!Retry \/ Start!Connect \/ Start!Crash
  PROVE  StartInv'
<1> USE DEF StartInv, Start!Goto, Start!store
<1>1. /\ UNCHANGED <<applied, recorded, startRow, files, skipped>>
      /\ missing' \in {missing, {}} /\ startFaults' \in 0..MaxStartFaults
      /\ startAt' \in {"connect", "down", "tables"} /\ (startAt' = "connect" => startStep' \in 1..Attempts)
  BY StartAssumption DEF Start!Start, Start!Fails, Start!Retry, Start!Retried, Start!Connect, Start!Crash, Start!TypeOK
<1>2. Start!TypeOK'
  BY <1>1 DEF Start!TypeOK, Start!Steps
<1>3. Schema'
  BY <1>1 DEF Schema
<1>4. Migrated' /\ DefaultsExplained'
  BY <1>1 DEF Migrated, DefaultsExplained, LeftOut
<1> QED BY <1>1, <1>2, <1>3, <1>4 DEF Seeding

(* The rows of the migrations: the highest one tells them all.             *)
LEMMA VersionIs ==
  ASSUME Schema, NEW m \in 0..Migrations, recorded = 1..m
  PROVE  (CHOOSE v \in recorded \cup {0} : \A w \in recorded : w <= v) = m
<1>1. m \in recorded \cup {0} /\ \A w \in recorded : w <= m
  OBVIOUS
<1>2. ASSUME NEW v \in recorded \cup {0}, \A w \in recorded : w <= v PROVE v = m
  BY <1>2, <1>1
<1> QED BY <1>1, <1>2

(* The step after migration v of those that are recorded.                  *)
LEMMA AfterKeeps ==
  ASSUME StartInv, NEW v \in 0..Migrations, Start!After(v), 1..v \subseteq recorded', recorded' \subseteq applied',
         applied' \subseteq 1..Migrations, \E m \in 0..Migrations : recorded' = 1..m,
         UNCHANGED <<startRow, files, startFaults, skipped, missing>>
  PROVE  StartInv'
<1> USE DEF StartInv, Start!Goto
<1>1. \/ v = Migrations /\ startAt' = "files" /\ startStep' = 1
      \/ v < Migrations /\ startAt' = "apply" /\ startStep' = v + 1
  BY StartAssumption DEF Start!After
<1>2. recorded' \subseteq 1..Migrations
  OBVIOUS
<1>3. Start!TypeOK'
  BY <1>1, <1>2, StartTyped, StartAssumption DEF Start!TypeOK, Start!Steps
<1>4. Schema'
  <2>1. CASE v = Migrations /\ startAt' = "files" /\ startStep' = 1
    BY <2>1, <1>2 DEF Schema
  <2>2. CASE v < Migrations /\ startAt' = "apply" /\ startStep' = v + 1
    <3>1. startStep' \in 1..Migrations /\ startStep' - 1 = v
      BY <2>2, StartAssumption
    <3>2. 1..(startStep' - 1) \subseteq recorded'
      BY <3>1
    <3>3. startAt' = "apply" => startStep' \in 1..Migrations /\ 1..(startStep' - 1) \subseteq recorded'
      BY <3>1, <3>2
    <3>4. startAt' \notin {"record", "files", "find", "pair", "seed", "up"}
      BY <2>2
    <3>5. recorded' \subseteq applied' /\ \E m \in 0..Migrations : recorded' = 1..m
      OBVIOUS
    <3> HIDE DEF StartInv
    <3> QED BY <3>3, <3>4, <3>5 DEF Schema
  <2> QED BY <2>1, <2>2, <1>1
<1>5. Migrated' /\ DefaultsExplained'
  <2>1. startAt' = "files" => 1..(startStep' - 1) = {}
    BY <1>1
  <2> QED BY <2>1, <1>1 DEF Migrated, DefaultsExplained, LeftOut
<1> QED BY <1>1, <1>3, <1>4, <1>5 DEF Seeding

LEMMA SchemaKeeps ==
  ASSUME StartInv, Start!Tables \/ Start!Version \/ Start!Apply \/ Start!Record
  PROVE  StartInv'
<1>1. PICK m \in 0..Migrations : recorded = 1..m
  BY DEF StartInv, Schema
<1>2. recorded \subseteq applied /\ applied \subseteq 1..Migrations /\ Migrations \in Nat \ {0}
  BY StartAssumption DEF StartInv, Schema, Start!TypeOK
<1>3. CASE Start!Tables
  <2>1. /\ startAt' = "version" /\ applied' = applied \cup {1}
        /\ UNCHANGED <<missing, recorded, startRow, files, startFaults, skipped>>
    BY <1>3 DEF Start!Tables, Start!Goto
  <2>2. applied' \subseteq 1..Migrations
    BY <2>1, <1>2
  <2>3. Start!TypeOK'
    BY <2>1, <2>2 DEF StartInv, Start!TypeOK, Start!Steps
  <2>4. Schema' /\ Migrated' /\ DefaultsExplained'
    BY <2>1, <1>2 DEF StartInv, Schema, Migrated, DefaultsExplained, LeftOut
  <2> QED BY <2>1, <2>3, <2>4 DEF StartInv, Seeding
<1>4. CASE Start!Version
  <2>1. startVersion' = m
    BY <1>4, <1>1, VersionIs DEF Start!Version, StartInv
  <2>2. Start!After(m) /\ UNCHANGED <<missing, applied, recorded, startRow, files, startFaults, skipped>>
    BY <2>1, <1>4 DEF Start!Version, Start!store
  <2> QED BY <2>2, <1>1, <1>2, AfterKeeps
<1>5. CASE Start!Apply
  <2>1. /\ startAt = "apply" /\ startAt' = "record" /\ startStep' = startStep /\ applied' = applied \cup {startStep}
        /\ UNCHANGED <<missing, recorded, startRow, files, startFaults, skipped>>
    BY <1>5 DEF Start!Apply, Start!ApplyIt, Start!Goto
  <2>2. startStep \in 1..Migrations /\ 1..(startStep - 1) \subseteq recorded
    BY <2>1 DEF StartInv, Schema
  <2>3. Start!TypeOK'
    BY <2>1, <2>2 DEF StartInv, Start!TypeOK, Start!Steps
  <2>4. Schema' /\ Migrated' /\ DefaultsExplained'
    BY <2>1, <2>2, <1>1, <1>2 DEF StartInv, Schema, Migrated, DefaultsExplained, LeftOut
  <2> QED BY <2>1, <2>3, <2>4 DEF StartInv, Seeding
<1>6. CASE Start!Record
  <2>1. /\ startAt = "record" /\ recorded' = recorded \cup {startStep} /\ Start!After(startStep)
        /\ UNCHANGED <<missing, applied, startRow, files, startFaults, skipped>>
    BY <1>6 DEF Start!Record, Start!RecordIt
  <2>2. startStep \in 1..Migrations /\ 1..(startStep - 1) \subseteq recorded /\ startStep \in applied
    BY <2>1 DEF StartInv, Schema
  <2>3. m >= startStep - 1
    <3>1. CASE startStep = 1
      BY <3>1
    <3>2. CASE startStep > 1
      <4>1. startStep - 1 \in 1..m
        BY <3>2, <2>2, <1>1
      <4> QED BY <4>1, <2>2
    <3> QED BY <3>1, <3>2, <2>2
  <2>4. recorded' = 1..(IF m >= startStep THEN m ELSE startStep)
    BY <2>1, <2>2, <2>3, <1>1
  <2>5. \E k \in 0..Migrations : recorded' = 1..k
    BY <2>4, <2>2
  <2>6. 1..startStep \subseteq recorded' /\ recorded' \subseteq applied' /\ applied' \subseteq 1..Migrations
    BY <2>1, <2>2, <1>2
  <2>7. startStep \in 0..Migrations
    BY <2>2
  <2> QED BY <2>1, <2>5, <2>6, <2>7, AfterKeeps
<1> QED BY <1>3, <1>4, <1>5, <1>6

(* One document of the files: the next one, or all are looked through.     *)
LEMMA FileKeeps ==
  ASSUME StartInv, Start!MigrateFile \/ Start!SkipFile
  PROVE  StartInv'
<1> DEFINE k == StartKeys[startStep]
<1>1. /\ startAt = "files" /\ Start!NextFile
      /\ UNCHANGED <<missing, applied, recorded, files>>
  BY DEF Start!MigrateFile, Start!SkipFile, Start!store
<1>2. /\ startStep \in 1..Len(StartKeys) /\ startRow \in [Start!Key -> Start!Content] /\ k \in Start!Key
      /\ Len(StartKeys) \in Nat \ {0}
  BY <1>1, StartTyped DEF StartInv, Start!TypeOK
<1>3. \/ startStep = Len(StartKeys) /\ startAt' = "find" /\ startStep' = 0
      \/ startStep < Len(StartKeys) /\ startAt' = "files" /\ startStep' = startStep + 1
  BY <1>1, <1>2 DEF Start!NextFile, Start!Goto
<1>4. /\ startRow' \in [Start!Key -> Start!Content] /\ skipped \subseteq skipped' /\ skipped' \subseteq Start!Key
      /\ startFaults' \in 0..MaxStartFaults
      /\ \A d \in Start!Key : startRow'[d] = startRow[d] \/ startRow'[d] = "file"
      /\ k \in files => startRow'[k] # "none" \/ k \in skipped'
  <2>1. CASE Start!MigrateFile
    <3>1. UNCHANGED <<skipped, startFaults>> /\ startRow' = IF Start!Wanted(k) THEN [startRow EXCEPT ![k] = "file"] ELSE startRow
      BY <2>1 DEF Start!MigrateFile
    <3>2. CASE Start!Wanted(k)
      BY <3>1, <3>2, <1>2 DEF StartInv, Start!TypeOK, Start!Content
    <3>3. CASE ~Start!Wanted(k)
      BY <3>1, <3>3, <1>2 DEF StartInv, Start!TypeOK, Start!Wanted
    <3> QED BY <3>2, <3>3
  <2>2. CASE Start!SkipFile
    BY <2>2, <1>2, StartAssumption DEF Start!SkipFile, Start!store, StartInv, Start!TypeOK
  <2> QED BY <2>1, <2>2
<1> HIDE DEF k
<1>5. ASSUME NEW d \in Start!Key, Settled(d) PROVE Settled(d)'
  <2>1. files' = files /\ (startRow[d] # "none" => startRow'[d] # "none") /\ (d \in skipped => d \in skipped')
    BY <1>1, <1>4
  <2> QED BY <2>1, <1>5 DEF Settled
<1>6. k \in files' => startRow'[k] # "none" \/ k \in skipped'
  BY <1>1, <1>4
<1>7. \A j \in 1..(startStep - 1) : Settled(StartKeys[j]) /\ StartKeys[j] \in Start!Key
  BY <1>1, <1>2, StartTyped DEF StartInv, Migrated
<1>8. ASSUME NEW j \in 1..startStep PROVE Settled(StartKeys[j])'
  <2>1. CASE j = startStep
    BY <2>1, <1>6 DEF k, Settled
  <2>2. CASE j # startStep
    <3>1. j \in 1..(startStep - 1)
      BY <2>2, <1>2
    <3>2. Settled(StartKeys[j]) /\ StartKeys[j] \in Start!Key
      BY <3>1, <1>7
    <3> QED BY <3>2, <1>5
  <2> QED BY <2>1, <2>2
<1>9. Start!TypeOK'
  BY <1>1, <1>2, <1>3, <1>4 DEF StartInv, Start!TypeOK, Start!Steps
<1>10. Schema'
  BY <1>1, <1>3 DEF StartInv, Schema
<1>11. Migrated'
  <2>1. files' = files /\ files \subseteq Start!Key /\ (SitesDoc \in files <=> DevicesDoc \in files)
    BY <1>1 DEF StartInv, Migrated
  <2>2. CASE startStep = Len(StartKeys) /\ startAt' = "find" /\ startStep' = 0
    <3>1. \A d \in Start!Key : Settled(d)'
      BY <2>2, <1>8, StartTyped DEF StartInv
    <3> QED BY <3>1, <2>1, <2>2 DEF Migrated
  <2>3. CASE startStep < Len(StartKeys) /\ startAt' = "files" /\ startStep' = startStep + 1
    <3>1. 1..(startStep' - 1) = 1..startStep
      BY <2>3, <1>2
    <3>2. \A j \in 1..(startStep' - 1) : Settled(StartKeys[j])'
      BY <3>1, <1>8
    <3> QED BY <3>2, <2>1, <2>3 DEF Migrated
  <2> QED BY <2>2, <2>3, <1>3
<1>12. DefaultsExplained'
  <2> SUFFICES ASSUME NEW d \in files, startRow'[d] = "default" PROVE LeftOut(d)'
    BY <1>1 DEF DefaultsExplained
  <2>1. d \in Start!Key
    BY DEF StartInv, Migrated
  <2>2. startRow[d] = "default"
    BY <2>1, <1>4
  <2> QED BY <2>2, <1>4 DEF StartInv, DefaultsExplained, LeftOut
<1>13. Seeding'
  BY <1>3 DEF Seeding
<1> QED BY <1>9, <1>10, <1>11, <1>12, <1>13 DEF StartInv

(* A document becomes the default: it was missing, or goes with one that   *)
(* was.                                                                    *)
LEMMA DefaultKeeps ==
  ASSUME StartInv, startAt \in {"pair", "seed"}, NEW k \in Start!Key,
         k \in missing \/ (k \in {SitesDoc, DevicesDoc} /\ PairFound),
         startRow' = [startRow EXCEPT ![k] = "default"], UNCHANGED <<missing, files, skipped>>
  PROVE  /\ startRow' \in [Start!Key -> Start!Content] /\ startRow'[k] = "default"
         /\ \A d \in Start!Key : startRow[d] # "none" => startRow'[d] # "none"
         /\ Found' /\ DefaultsExplained' /\ \A d \in Start!Key : Settled(d)'
<1>1. startRow \in [Start!Key -> Start!Content]
  BY StartTyped DEF StartInv
<1>2. /\ startRow' \in [Start!Key -> Start!Content] /\ startRow'[k] = "default"
      /\ \A d \in Start!Key : d # k => startRow'[d] = startRow[d]
      /\ \A d \in Start!Key : startRow[d] # "none" => startRow'[d] # "none"
  BY <1>1 DEF Start!Content
<1>3. Found
  BY DEF StartInv, Seeding
<1>4. Found'
  BY <1>2, <1>3 DEF Found
<1>5. \A d \in Start!Key : Settled(d)'
  BY <1>2 DEF StartInv, Migrated, Settled
<1>6. k \in files => LeftOut(k)
  <2>1. CASE k \in missing
    BY <2>1, <1>3 DEF Found, LeftOut
  <2>2. CASE k \in {SitesDoc, DevicesDoc} /\ PairFound
    <3>1. PICK d \in {SitesDoc, DevicesDoc} : d \in missing
      BY <2>2 DEF PairFound
    <3>2. k \in files => d \in files
      BY <2>2, <3>1 DEF StartInv, Migrated
    <3>3. k \in files => d \in skipped
      BY <3>1, <3>2, <1>3 DEF Found
    <3> QED BY <2>2, <3>1, <3>3 DEF LeftOut
  <2> QED BY <2>1, <2>2
<1>7. DefaultsExplained'
  <2> SUFFICES ASSUME NEW d \in files, startRow'[d] = "default" PROVE LeftOut(d)
    BY DEF DefaultsExplained, LeftOut
  <2>1. d \in Start!Key
    BY DEF StartInv, Migrated
  <2> QED BY <2>1, <1>2, <1>6 DEF StartInv, DefaultsExplained
<1> QED BY <1>2, <1>4, <1>5, <1>7

LEMMA FindKeeps == ASSUME StartInv, Start!Find PROVE StartInv'
<1>1. /\ startAt = "find" /\ missing' = Start!Missing
      /\ UNCHANGED <<applied, recorded, startRow, files, startFaults, skipped>>
      /\ \/ startAt' = "pair" /\ startStep' = 1 /\ {SitesDoc, DevicesDoc} \cap missing' # {}
         \/ startAt' = "seed" /\ startStep' = 1 /\ {SitesDoc, DevicesDoc} \cap missing' = {}
  BY DEF Start!Find, Start!PairMissing, Start!Goto, Start!store
<1>2. missing' = {k \in Start!Key \ Unseeded : startRow[k] = "none"}
  BY <1>1 DEF Start!Missing
<1>3. Start!TypeOK'
  BY <1>1, <1>2 DEF StartInv, Start!TypeOK, Start!Steps
<1>4. Schema' /\ Migrated' /\ DefaultsExplained'
  BY <1>1 DEF StartInv, Schema, Migrated, DefaultsExplained, LeftOut, Settled
<1>5. Found'
  BY <1>1, <1>2 DEF StartInv, Migrated, Settled, Found
<1>6. startAt' = "seed" => startRow[SitesDoc] # "none" /\ startRow[DevicesDoc] # "none"
  BY <1>1, <1>2, StartAssumption
<1>7. startStep' = 1 /\ \A j \in DOMAIN StartKeys : ~(j < 1)
  BY <1>1, StartTyped DEF StartInv
<1> QED BY <1>1, <1>3, <1>4, <1>5, <1>6, <1>7 DEF StartInv, Seeding, PairFound

LEMMA PairKeeps == ASSUME StartInv, Start!Pair PROVE StartInv'
<1> DEFINE k == <<SitesDoc, DevicesDoc>>[startStep]
<1>1. /\ startAt = "pair" /\ startRow' = [startRow EXCEPT ![k] = "default"]
      /\ UNCHANGED <<missing, applied, recorded, files, startFaults, skipped>>
      /\ IF startStep = 1 THEN startAt' = "pair" /\ startStep' = 2 ELSE startAt' = "seed" /\ startStep' = 1
  BY DEF Start!Pair, Start!Goto
<1>2. startStep \in {1, 2} /\ PairFound /\ (startStep = 2 => startRow[SitesDoc] # "none")
  BY <1>1 DEF StartInv, Seeding
<1>3. (startStep = 1 => k = SitesDoc) /\ (startStep = 2 => k = DevicesDoc)
  OBVIOUS
<1>4. k \in {SitesDoc, DevicesDoc} /\ k \in Start!Key /\ SitesDoc \in Start!Key
  BY <1>2, <1>3, StartAssumption
<1> HIDE DEF k
<1>5. /\ startRow' \in [Start!Key -> Start!Content] /\ startRow'[k] = "default"
      /\ \A d \in Start!Key : startRow[d] # "none" => startRow'[d] # "none"
      /\ Found' /\ DefaultsExplained' /\ \A d \in Start!Key : Settled(d)'
  BY <1>1, <1>2, <1>4, DefaultKeeps
<1>6. Start!TypeOK'
  BY <1>1, <1>5 DEF StartInv, Start!TypeOK, Start!Steps
<1>7. Schema' /\ Migrated'
  BY <1>1, <1>5 DEF StartInv, Schema, Migrated
<1>8. startRow'[SitesDoc] # "none" /\ (startStep = 2 => startRow'[DevicesDoc] # "none")
  BY <1>2, <1>3, <1>4, <1>5
<1>9. startAt' = "seed" => startStep' = 1 /\ \A j \in DOMAIN StartKeys : ~(j < startStep')
  BY <1>1, <1>2, StartTyped DEF StartInv
<1>10. PairFound'
  BY <1>1, <1>2 DEF PairFound
<1>11. Seeding'
  BY <1>1, <1>2, <1>5, <1>8, <1>9, <1>10 DEF Seeding
<1> QED BY <1>5, <1>6, <1>7, <1>11 DEF StartInv

LEMMA SeedKeeps == ASSUME StartInv, Start!Seed PROVE StartInv'
<1> DEFINE k == StartKeys[startStep]
<1>1. /\ startAt = "seed" /\ startAt' = "seed" /\ startStep' = startStep + 1 /\ startStep <= Len(StartKeys)
      /\ startRow' = IF k \in missing \ {SitesDoc, DevicesDoc} THEN [startRow EXCEPT ![k] = "default"] ELSE startRow
      /\ UNCHANGED <<missing, applied, recorded, files, startFaults, skipped>>
  BY DEF Start!Seed, Start!Goto
<1>2. startStep \in Nat \ {0} /\ Found /\ startRow[SitesDoc] # "none" /\ startRow[DevicesDoc] # "none"
  BY <1>1 DEF StartInv, Seeding
<1>3. k \in Start!Key /\ startRow \in [Start!Key -> Start!Content] /\ DOMAIN StartKeys \subseteq Nat
  BY <1>1, <1>2, StartTyped DEF StartInv
<1> HIDE DEF k
<1>4. /\ startRow' \in [Start!Key -> Start!Content] /\ (k \notin Unseeded => startRow'[k] # "none")
      /\ \A d \in Start!Key : startRow[d] # "none" => startRow'[d] # "none"
      /\ Found' /\ DefaultsExplained' /\ \A d \in Start!Key : Settled(d)'
  <2>1. CASE k \in missing \ {SitesDoc, DevicesDoc}
    <3>1. startRow' = [startRow EXCEPT ![k] = "default"] /\ k \in missing
      BY <2>1, <1>1
    <3> QED BY <3>1, <1>1, <1>3, DefaultKeeps
  <2>2. CASE k \notin missing \ {SitesDoc, DevicesDoc}
    <3>1. startRow' = startRow
      BY <2>2, <1>1
    <3>2. k \notin Unseeded => startRow[k] # "none"
      BY <2>2, <1>2, <1>3 DEF Found
    <3> QED BY <3>1, <3>2, <1>1, <1>2, <1>3 DEF StartInv, Found, DefaultsExplained, LeftOut, Settled, Migrated
  <2> QED BY <2>1, <2>2
<1>5. Start!TypeOK'
  BY <1>1, <1>4 DEF StartInv, Start!TypeOK, Start!Steps
<1>6. Schema' /\ Migrated'
  BY <1>1, <1>4 DEF StartInv, Schema, Migrated
<1>7. startRow'[SitesDoc] # "none" /\ startRow'[DevicesDoc] # "none"
  BY <1>2, <1>4, StartAssumption
<1>8. \A j \in DOMAIN StartKeys : j < startStep' /\ StartKeys[j] \notin Unseeded => startRow'[StartKeys[j]] # "none"
  <2> SUFFICES ASSUME NEW j \in DOMAIN StartKeys, j < startStep', StartKeys[j] \notin Unseeded
               PROVE startRow'[StartKeys[j]] # "none"
    OBVIOUS
  <2>1. j < startStep \/ j = startStep
    BY <1>1, <1>2, <1>3
  <2>2. StartKeys[j] \in Start!Key
    BY StartTyped DEF StartInv
  <2>3. CASE j < startStep
    BY <2>2, <2>3, <1>1, <1>4 DEF StartInv, Seeding
  <2>4. CASE j = startStep
    BY <2>4, <1>4 DEF k
  <2> QED BY <2>1, <2>3, <2>4
<1>9. Seeding'
  BY <1>1, <1>2, <1>4, <1>7, <1>8 DEF Seeding
<1> QED BY <1>4, <1>5, <1>6, <1>9 DEF StartInv

LEMMA UpKeeps ==
  ASSUME StartInv, Start!Up \/ \E k \in Start!Key : Start!Save(k)
  PROVE  StartInv'
<1>1. CASE Start!Up
  <2>1. /\ startAt = "seed" /\ startStep > Len(StartKeys) /\ startAt' = "up"
        /\ UNCHANGED <<missing, applied, recorded, startRow, files, startFaults, skipped>>
    BY <1>1 DEF Start!Up, Start!Goto, Start!store
  <2>2. \A k \in Start!Key \ Unseeded : startRow[k] # "none"
    <3> SUFFICES ASSUME NEW k \in Start!Key \ Unseeded PROVE startRow[k] # "none"
      OBVIOUS
    <3>1. PICK j \in DOMAIN StartKeys : StartKeys[j] = k
      BY StartTyped DEF StartInv
    <3>2. j < startStep
      BY <2>1, <3>1, StartTyped DEF StartInv, Seeding
    <3> QED BY <2>1, <3>1, <3>2 DEF StartInv, Seeding
  <2>3. Start!TypeOK' /\ Schema' /\ Migrated' /\ DefaultsExplained'
    BY <2>1 DEF StartInv, Start!TypeOK, Schema, Migrated, DefaultsExplained, LeftOut, Settled
  <2> QED BY <2>1, <2>2, <2>3 DEF StartInv, Seeding
<1>2. ASSUME NEW k \in Start!Key, Start!Save(k) PROVE StartInv'
  <2>1. /\ startAt = "up" /\ startRow' = [startRow EXCEPT ![k] = "saved"]
        /\ UNCHANGED <<startAt, startStep, missing, applied, recorded, files, startFaults, skipped>>
    BY <1>2 DEF Start!Save
  <2>2. startRow \in [Start!Key -> Start!Content]
    BY StartTyped DEF StartInv
  <2>3. /\ startRow' \in [Start!Key -> Start!Content]
        /\ \A d \in Start!Key : startRow'[d] = startRow[d] \/ startRow'[d] = "saved"
    BY <2>1, <2>2 DEF Start!Content
  <2>4. Start!TypeOK' /\ Schema'
    BY <2>1, <2>3 DEF StartInv, Start!TypeOK, Schema
  <2>5. Migrated'
    BY <2>1, <2>3 DEF StartInv, Migrated, Settled
  <2>6. DefaultsExplained'
    <3> SUFFICES ASSUME NEW d \in files, startRow'[d] = "default" PROVE LeftOut(d)
      BY <2>1 DEF DefaultsExplained, LeftOut
    <3>1. startRow[d] = "default"
      BY <2>3 DEF StartInv, Migrated
    <3> QED BY <3>1 DEF StartInv, DefaultsExplained
  <2>7. Seeding'
    BY <2>1, <2>3 DEF StartInv, Seeding
  <2> QED BY <2>4, <2>5, <2>6, <2>7 DEF StartInv
<1> QED BY <1>1, <1>2

LEMMA StartStepKeeps == StartInv /\ [Start!Next]_(Start!vars) => StartInv'
<1> SUFFICES ASSUME StartInv, [Start!Next]_(Start!vars) PROVE StartInv'
  OBVIOUS
<1>1. CASE Start!Work
  BY <1>1, StartsKeep, SchemaKeeps, FileKeeps, FindKeeps, PairKeeps, SeedKeeps, UpKeeps DEF Start!Work
<1>2. CASE UNCHANGED Start!vars
  <2>1. UNCHANGED <<startAt, startStep, missing, applied, recorded, startVersion, startRow, files, startFaults, skipped>>
    BY <1>2 DEF Start!vars
  <2>2. Start!TypeOK' /\ Schema' /\ DefaultsExplained'
    BY <2>1 DEF StartInv, Start!TypeOK, Schema, DefaultsExplained, LeftOut
  <2> QED BY <2>1, <2>2 DEF StartInv, Migrated, Settled, Seeding, Found, PairFound
<1> QED BY <1>1, <1>2, StartsKeep, FileKeeps, UpKeeps DEF Start!Next

LEMMA StartIsSound == StartInv => StartSound
<1> SUFFICES ASSUME StartInv PROVE StartSound
  OBVIOUS
<1>1. Start!RecordedIsApplied
  BY DEF StartInv, Schema, Start!RecordedIsApplied
<1>2. Start!UpIsReady
  <2>1. startAt = "up" => recorded = applied /\ applied = 1..Migrations
    BY DEF StartInv, Schema, Start!TypeOK
  <2> QED BY <2>1 DEF StartInv, Seeding, Start!UpIsReady
<1>3. Start!FilesComeIn
  BY DEF StartInv, DefaultsExplained, LeftOut, Start!FilesComeIn
<1> QED BY <1>1, <1>2, <1>3 DEF StartInv, StartSound

(* Over any number of starts, queries that fail and crashes: what is       *)
(* recorded as a migration has been run, a server that is up has the whole *)
(* schema and every document it seeds, and none of those that were there as*)
(* files became the default but for a failure that is on record            *)
(* (runSchemaMigrations, migrateExistingFilesToPostgresStore,              *)
(* ensureDataFiles).                                                       *)
THEOREM StartKept == Start!Spec => []StartSound
<1>1. Start!Spec => []StartInv
  BY StartInitial, StartStepKeeps, PTL DEF Start!Spec
<1> QED BY <1>1, StartIsSound, PTL

-------------------------------------------------------------------------------
\* The health checks

Ufw == {"none", "denied", "inactive", "active"}
Hosts == [ufw : Ufw, rules : Seq(Health!Rule), ss : BOOLEAN, listens : SUBSET Ports]

(* While a check is under way ufw is at most switched on and off, and each *)
(* output is what its command prints of the host as it was at some time of *)
(* the check.                                                              *)
Switched(g, h) == g.ufw = h.ufw \/ {g.ufw, h.ufw} \subseteq {"inactive", "active"}
FirewallSeen ==
  /\ host \in Hosts /\ healthSeen \subseteq Hosts
  /\ healthSeen # {} => host \in healthSeen
  /\ \A g, h \in healthSeen : Switched(g, h)
  /\ DOMAIN output \subseteq Health!Command
  /\ \A c \in DOMAIN output : \E h \in healthSeen : output[c] = Health!Printed(h, c)

(* A diagnosis that has found no fault is of a complete configuration, and *)
(* comes to the probe only so.                                             *)
Examined(d) ==
  /\ d.at \in {"ping", "flow", "probe", "done"} /\ ~d.failed => d.cfg.whole /\ d.cfg.from # None
  /\ d.at = "probe" => ~d.failed
  /\ d.at = "done" /\ ~d.failed /\ d.kind = "tested" /\ d.cfg.on => d.probed
Diagnosis == [at : {"none", "ping", "flow", "probe", "done"}, cfg : Health!Configs,
              kind : {"none", "stored", "tested"}, failed : BOOLEAN, probed : BOOLEAN]
Diagnosed ==
  /\ config \in [HealthSite -> Health!Configs]
  /\ unique \in [HealthSite -> {"unknown", "shared", "unique"}]
  /\ diag \in [HealthSite -> Diagnosis]
  /\ Health!SharedSourceTold /\ \A s \in HealthSite : Examined(diag[s])

(* "alive" tells of a database that answers now, and is kept.              *)
Reported ==
  /\ world \in [db : BOOLEAN, storage : BOOLEAN, rest : BOOLEAN]
  /\ report \in [at : {"none", "db", "storage", "done"}, failed : BOOLEAN, warned : BOOLEAN, alive : BOOLEAN]
  /\ report.at = "db" /\ world.db => report.alive
  /\ report.at \in {"storage", "done"} /\ ~report.failed => report.alive

HealthInv == FirewallSeen /\ Diagnosed /\ Reported

-------------------------------------------------------------------------------
(* A sequence is a part of itself, at its beginning and at its end.        *)
LEMMA PartsOfItself ==
  ASSUME NEW p \in Seq(Nat)
  PROVE  Health!IsPrefix(p, p) /\ Health!IsSuffix(p, p) /\ Health!Within(p, p)
<1>1. Health!IsPrefix(p, p)
  BY LenProperties DEF Health!IsPrefix
<1>2. Health!IsSuffix(p, p)
  <2> DEFINE q == Health!Reverse(p)
  <2>1. q = [i \in 1..Len(p) |-> p[(Len(p) - i) + 1]]
    BY DEF Health!Reverse
  <2>2. q \in Seq(Nat)
    <3>1. Len(p) \in Nat /\ DOMAIN p = 1..Len(p)
      BY LenProperties
    <3>2. \A i \in 1..Len(p) : p[(Len(p) - i) + 1] \in Nat
      BY <3>1, ElementOfSeq
    <3> QED BY <2>1, <3>1, <3>2, IsASeq
  <2> HIDE DEF q
  <2>3. Len(q) \in Nat
    BY <2>2
  <2> QED BY <2>3 DEF Health!IsSuffix, Health!IsPrefix, q
<1>3. Health!Within(p, p)
  <2>1. Len(p) \in Nat /\ SubSeq(p, 1, Len(p)) = p
    BY SubSeqFull
  <2>2. 0 \in 0..(Len(p) - Len(p)) /\ SubSeq(p, 0 + 1, 0 + Len(p)) = p
    BY <2>1
  <2> QED BY <2>2 DEF Health!Within
<1> QED BY <1>1, <1>2, <1>3

LEMMA HealthInitial == Health!Init => HealthInv
<1> SUFFICES ASSUME Health!Init PROVE HealthInv
  OBVIOUS
<1>1. FirewallSeen
  <2>1. healthSeen = {} /\ output = Health!NoOutput
    BY DEF Health!Init
  <2>2. /\ host.ufw \in Ufw /\ host.rules \in {<<>>} \cup {<<r>> : r \in Health!Rule} /\ host.ss \in BOOLEAN
        /\ host.listens \in {{}} \cup {{p} : p \in Ports}
        /\ host = [ufw |-> host.ufw, rules |-> host.rules, ss |-> host.ss, listens |-> host.listens]
    BY DEF Health!Init, Ufw
  <2>3. host.rules \in Seq(Health!Rule) /\ host.listens \in SUBSET Ports
    <3>1. host.listens \in SUBSET Ports
      BY <2>2
    <3>2. CASE host.rules = <<>>
      BY <3>2, <3>1
    <3>3. CASE \E r \in Health!Rule : host.rules = <<r>>
      BY <3>3, <3>1
    <3> QED BY <3>2, <3>3, <2>2
  <2>4. host \in Hosts
    BY <2>2, <2>3 DEF Hosts
  <2>5. DOMAIN output = {}
    BY <2>1 DEF Health!NoOutput
  <2> QED BY <2>1, <2>4, <2>5 DEF FirewallSeen
<1>2. Diagnosed
  <2>1. /\ config = [s \in HealthSite |-> Health!Off] /\ diag = [s \in HealthSite |-> Health!NoDiag]
        /\ unique = [s \in HealthSite |-> "unknown"]
    BY DEF Health!Init
  <2>2. Health!Off \in Health!Configs /\ ~Health!Off.on
    BY DEF Health!Off, Health!Configs
  <2>3. Health!SharedSourceTold
    BY <2>1, <2>2 DEF Health!SharedSourceTold
  <2>4. Health!NoDiag \in Diagnosis /\ Health!NoDiag.at = "none"
    BY <2>2 DEF Health!NoDiag, Diagnosis
  <2>5. \A s \in HealthSite : Examined(diag[s])
    BY <2>1, <2>4 DEF Examined
  <2> QED BY <2>1, <2>2, <2>3, <2>4, <2>5 DEF Diagnosed
<1>3. Reported
  BY DEF Health!Init, Reported, Health!NoReport
<1> QED BY <1>1, <1>2, <1>3 DEF HealthInv

-------------------------------------------------------------------------------
(* The firewall check.                                                     *)
LEMMA HostTyped ==
  ASSUME NEW h \in Hosts
  PROVE  /\ h = [ufw |-> h.ufw, rules |-> h.rules, ss |-> h.ss, listens |-> h.listens]
         /\ h.ufw \in Ufw /\ h.rules \in Seq(Health!Rule) /\ h.ss \in BOOLEAN /\ h.listens \subseteq Ports
BY DEF Hosts

LEMMA HostMoves ==
  ASSUME host \in Hosts, Health!HostChanges
  PROVE  host' \in Hosts /\ Switched(host, host')
<1>1. /\ host = [ufw |-> host.ufw, rules |-> host.rules, ss |-> host.ss, listens |-> host.listens]
      /\ host.ufw \in Ufw /\ host.rules \in Seq(Health!Rule) /\ host.ss \in BOOLEAN /\ host.listens \subseteq Ports
  BY HostTyped
<1>2. CASE /\ host.ufw \in {"inactive", "active"}
           /\ \E u \in {"inactive", "active"} \ {host.ufw} : host' = [host EXCEPT !.ufw = u]
  <2>1. PICK u \in {"inactive", "active"} : host' = [host EXCEPT !.ufw = u]
    BY <1>2
  <2>2. host' = [ufw |-> u, rules |-> host.rules, ss |-> host.ss, listens |-> host.listens]
    BY <2>1, <1>1
  <2> QED BY <2>2, <1>1, <1>2 DEF Hosts, Ufw, Switched
<1>3. ASSUME NEW rules \in Seq(Health!Rule), host' = [host EXCEPT !.rules = rules]
      PROVE  host' \in Hosts /\ Switched(host, host')
  <2>1. host' = [ufw |-> host.ufw, rules |-> rules, ss |-> host.ss, listens |-> host.listens]
    BY <1>3, <1>1
  <2> QED BY <2>1, <1>1 DEF Hosts, Switched
<1>4. CASE \E i \in DOMAIN host.rules : host' = [host EXCEPT !.rules = Health!RemoveAt(@, i)]
  <2>1. PICK i \in DOMAIN host.rules : host' = [host EXCEPT !.rules = Health!RemoveAt(host.rules, i)]
    BY <1>4
  <2>2. /\ SubSeq(host.rules, 1, i - 1) \in Seq(Health!Rule)
        /\ SubSeq(host.rules, i + 1, Len(host.rules)) \in Seq(Health!Rule)
    BY <1>1
  <2>3. Health!RemoveAt(host.rules, i) \in Seq(Health!Rule)
    BY <2>2 DEF Health!RemoveAt
  <2> QED BY <2>1, <2>3, <1>3
<1>5. CASE \E r \in Health!Rule : \/ host' = [host EXCEPT !.rules = <<r>> \o @]
                                  \/ host' = [host EXCEPT !.rules = Append(@, r)]
  <2>1. PICK r \in Health!Rule : \/ host' = [host EXCEPT !.rules = <<r>> \o host.rules]
                                 \/ host' = [host EXCEPT !.rules = Append(host.rules, r)]
    BY <1>5
  <2>2. <<r>> \o host.rules \in Seq(Health!Rule) /\ Append(host.rules, r) \in Seq(Health!Rule)
    BY <1>1
  <2> QED BY <2>1, <2>2, <1>3
<1>6. CASE \E p \in Ports : host' = [host EXCEPT !.listens = IF p \in @ THEN @ \ {p} ELSE @ \cup {p}]
  <2>1. PICK p \in Ports :
          host' = [host EXCEPT !.listens = IF p \in host.listens THEN host.listens \ {p} ELSE host.listens \cup {p}]
    BY <1>6
  <2> DEFINE open == IF p \in host.listens THEN host.listens \ {p} ELSE host.listens \cup {p}
  <2>2. open \subseteq Ports
    BY <1>1
  <2>3. host' = [host EXCEPT !.listens = open]
    BY <2>1
  <2> HIDE DEF open
  <2>4. host' = [ufw |-> host.ufw, rules |-> host.rules, ss |-> host.ss, listens |-> open]
    BY <2>3, <1>1
  <2> QED BY <2>4, <2>2, <1>1 DEF Hosts, Switched
<1> QED BY <1>2, <1>4, <1>5, <1>6 DEF Health!HostChanges

LEMMA FirewallKeeps ==
  ASSUME FirewallSeen, Health!FirewallNext
  PROVE  FirewallSeen'
<1>1. CASE Health!AskFirewall
  <2>1. healthSeen = {} /\ healthSeen' = {host} /\ UNCHANGED <<host, output>>
    BY <1>1 DEF Health!AskFirewall
  <2>2. DOMAIN output = {}
    BY <2>1 DEF FirewallSeen
  <2> QED BY <2>1, <2>2 DEF FirewallSeen, Switched
<1>2. CASE \E c \in Health!Command : Health!CommandEnds(c)
  <2>1. PICK c \in Health!Command :
          /\ healthSeen # {} /\ UNCHANGED <<host, healthSeen>>
          /\ output' = [d \in DOMAIN output \cup {c} |-> IF d = c THEN Health!Printed(host, c) ELSE output[d]]
    BY <1>2 DEF Health!CommandEnds
  <2>2. DOMAIN output' = DOMAIN output \cup {c} /\ output'[c] = Health!Printed(host, c)
    BY <2>1
  <2>3. \A d \in DOMAIN output' : d # c => d \in DOMAIN output /\ output'[d] = output[d]
    BY <2>1
  <2>4. host \in healthSeen
    BY <2>1 DEF FirewallSeen
  <2>5. ASSUME NEW d \in DOMAIN output' PROVE \E h \in healthSeen : output'[d] = Health!Printed(h, d)
    <3>1. CASE d = c
      BY <3>1, <2>2, <2>4
    <3>2. CASE d # c
      BY <3>2, <2>3 DEF FirewallSeen
    <3> QED BY <3>1, <3>2
  <2>6. \A d \in DOMAIN output' : \E h \in healthSeen' : output'[d] = Health!Printed(h, d)
    BY <2>1, <2>5
  <2>7. /\ host' \in Hosts /\ healthSeen' \subseteq Hosts /\ (healthSeen' # {} => host' \in healthSeen')
        /\ (\A g, h \in healthSeen' : Switched(g, h)) /\ DOMAIN output' \subseteq Health!Command
    BY <2>1, <2>2 DEF FirewallSeen
  <2> QED BY <2>6, <2>7 DEF FirewallSeen
<1>3. CASE Health!AnswerFirewall
  <2>1. output' = Health!NoOutput /\ healthSeen' = {} /\ host' = host
    BY <1>3 DEF Health!AnswerFirewall
  <2>2. DOMAIN output' = {}
    BY <2>1 DEF Health!NoOutput
  <2> QED BY <2>1, <2>2 DEF FirewallSeen
<1>4. CASE Health!HostChanges
  <2>1. host' \in Hosts /\ Switched(host, host')
    BY <1>4, HostMoves DEF FirewallSeen
  <2>2. output' = output /\ healthSeen' = IF healthSeen = {} THEN {} ELSE healthSeen \cup {host'}
    BY <1>4 DEF Health!HostChanges
  <2>3. healthSeen' \subseteq Hosts /\ (healthSeen' # {} => host' \in healthSeen') /\ healthSeen \subseteq healthSeen'
    BY <2>1, <2>2 DEF FirewallSeen
  <2>4. ASSUME NEW g \in healthSeen', NEW h \in healthSeen' PROVE Switched(g, h)
    <3>1. healthSeen # {} /\ g \in healthSeen \cup {host'} /\ h \in healthSeen \cup {host'} /\ host \in healthSeen
      BY <2>2, <2>4 DEF FirewallSeen
    <3>2. \A d \in healthSeen : Switched(d, host) /\ Switched(host, d)
      BY <3>1 DEF FirewallSeen
    <3>3. \A d \in healthSeen : Switched(d, host') /\ Switched(host', d)
      BY <3>2, <2>1 DEF Switched
    <3>4. Switched(host', host')
      BY DEF Switched
    <3> QED BY <3>1, <3>3, <3>4 DEF FirewallSeen
  <2>5. \A c \in DOMAIN output : \E h \in healthSeen' : output[c] = Health!Printed(h, c)
    BY <2>3 DEF FirewallSeen
  <2>6. DOMAIN output \subseteq Health!Command
    BY DEF FirewallSeen
  <2> QED BY <2>1, <2>2, <2>3, <2>4, <2>5, <2>6 DEF FirewallSeen
<1> QED BY <1>1, <1>2, <1>3, <1>4 DEF Health!FirewallNext

-------------------------------------------------------------------------------
(* The diagnoses.                                                          *)
LEMMA DiagnosisTyped ==
  ASSUME NEW d \in Diagnosis
  PROVE  /\ d = [at |-> d.at, cfg |-> d.cfg, kind |-> d.kind, failed |-> d.failed, probed |-> d.probed]
         /\ d.at \in {"none", "ping", "flow", "probe", "done"} /\ d.cfg \in Health!Configs
         /\ d.kind \in {"none", "stored", "tested"} /\ d.failed \in BOOLEAN /\ d.probed \in BOOLEAN
BY DEF Diagnosis

(* A diagnosis is put in the place of another. *)
LEMMA DiagnosisSet ==
  ASSUME Diagnosed, NEW s \in HealthSite, NEW d \in Diagnosis, Examined(d),
         diag' = [diag EXCEPT ![s] = d]
  PROVE  diag' \in [HealthSite -> Diagnosis] /\ \A t \in HealthSite : Examined(diag'[t])
<1>1. diag \in [HealthSite -> Diagnosis] /\ \A t \in HealthSite : Examined(diag[t])
  BY DEF Diagnosed, Diagnosis
<1>2. \A t \in HealthSite : diag'[t] = IF t = s THEN d ELSE diag[t]
  BY <1>1
<1> QED BY <1>1, <1>2

LEMMA BegunIs ==
  ASSUME NEW c \in Health!Configs, NEW kind \in {"stored", "tested"}
  PROVE  Health!Begun(c, kind) \in Diagnosis /\ Examined(Health!Begun(c, kind))
<1>1. c.whole \in BOOLEAN /\ c.from \in Sources \cup {None}
  BY DEF Health!Configs
<1>2. Health!Begun(c, kind) \in Diagnosis
  BY <1>1 DEF Health!Begun, Diagnosis
<1>3. Examined(Health!Begun(c, kind))
  BY <1>1 DEF Health!Begun, Examined
<1> QED BY <1>2, <1>3

LEMMA DiagnosisGoesOn ==
  ASSUME Diagnosed, NEW s \in HealthSite,
         Health!Ping(s) \/ Health!Flow(s) \/ Health!Probe(s) \/ Health!DiagnosisAnswered(s)
  PROVE  \E e \in Diagnosis : Examined(e) /\ diag' = [diag EXCEPT ![s] = e]
<1>1. PICK d \in Diagnosis : d = diag[s] /\ Examined(d)
  BY DEF Diagnosed, Diagnosis
<1>2. /\ d = [at |-> d.at, cfg |-> d.cfg, kind |-> d.kind, failed |-> d.failed, probed |-> d.probed]
      /\ d.at \in {"none", "ping", "flow", "probe", "done"} /\ d.cfg \in Health!Configs
      /\ d.kind \in {"none", "stored", "tested"} /\ d.failed \in BOOLEAN /\ d.probed \in BOOLEAN
  BY DiagnosisTyped
<1>3. CASE Health!Ping(s)
  <2>1. PICK fails \in BOOLEAN :
          d.at = "ping" /\ diag' = [diag EXCEPT ![s] = [d EXCEPT !.at = "flow", !.failed = d.failed \/ fails]]
    BY <1>1, <1>3 DEF Health!Ping
  <2> DEFINE bad == d.failed \/ fails
  <2>2. bad \in BOOLEAN /\ (~bad => ~d.failed)
    OBVIOUS
  <2>3. PICK e : e = [d EXCEPT !.at = "flow", !.failed = bad] /\ diag' = [diag EXCEPT ![s] = e]
    BY <2>1
  <2> HIDE DEF bad
  <2>4. e = [at |-> "flow", cfg |-> d.cfg, kind |-> d.kind, failed |-> bad, probed |-> d.probed]
    BY <1>2, <2>2, <2>3
  <2>5. e \in Diagnosis
    BY <1>2, <2>2, <2>4 DEF Diagnosis
  <2>6. Examined(e)
    BY <2>1, <2>2, <2>4, <1>1 DEF Examined
  <2> QED BY <2>3, <2>5, <2>6
<1>4. CASE Health!Flow(s)
  <2> DEFINE next == IF d.kind = "tested" /\ ~d.failed /\ d.cfg.on THEN "probe" ELSE "done"
  <2>1. d.at = "flow" /\ diag' = [diag EXCEPT ![s] = [d EXCEPT !.at = next]]
    BY <1>4, <1>1 DEF Health!Flow
  <2>2. PICK e : e = [d EXCEPT !.at = next] /\ diag' = [diag EXCEPT ![s] = e]
    BY <2>1
  <2>3. e = [at |-> next, cfg |-> d.cfg, kind |-> d.kind, failed |-> d.failed, probed |-> d.probed]
    <3> HIDE DEF next
    <3> QED BY <1>2, <2>2
  <2>4. e \in Diagnosis
    BY <1>2, <2>3 DEF Diagnosis
  <2>5. Examined(e)
    BY <2>1, <2>3, <1>1 DEF Examined
  <2> QED BY <2>2, <2>4, <2>5
<1>5. CASE Health!Probe(s)
  <2>1. PICK fails \in BOOLEAN : d.at = "probe" /\ diag' = [diag EXCEPT ![s] = Health!Probed(d, fails)]
    BY <1>5, <1>1 DEF Health!Probe
  <2> DEFINE good == ~fails
             e == Health!Probed(d, fails)
  <2>2. good \in BOOLEAN /\ (~fails => good)
    OBVIOUS
  <2>3. e = [d EXCEPT !.at = "done", !.failed = fails, !.probed = good]
    BY DEF Health!Probed
  <2> HIDE DEF good, e
  <2>4. e = [at |-> "done", cfg |-> d.cfg, kind |-> d.kind, failed |-> fails, probed |-> good]
    BY <1>2, <2>2, <2>3
  <2>5. e \in Diagnosis
    BY <1>2, <2>2, <2>4 DEF Diagnosis
  <2>6. Examined(e)
    BY <2>1, <2>2, <2>4, <1>1 DEF Examined
  <2> QED BY <2>1, <2>5, <2>6 DEF e
<1>6. CASE Health!DiagnosisAnswered(s)
  <2>1. diag' = [diag EXCEPT ![s] = Health!NoDiag]
    BY <1>6 DEF Health!DiagnosisAnswered
  <2>2. Health!Off \in Health!Configs
    BY DEF Health!Off, Health!Configs
  <2>3. Health!NoDiag \in Diagnosis /\ Examined(Health!NoDiag)
    BY <2>2 DEF Health!NoDiag, Diagnosis, Examined
  <2> QED BY <2>1, <2>3
<1> QED BY <1>3, <1>4, <1>5, <1>6

(* Whoever changes a configuration is told of the others as they are then. *)
LEMMA PatchTells ==
  ASSUME Diagnosed, NEW s \in HealthSite, NEW c \in Health!Configs, Health!Patch(s, c)
  PROVE  /\ config' \in [HealthSite -> Health!Configs]
         /\ unique' \in [HealthSite -> {"unknown", "shared", "unique"}]
         /\ Health!SharedSourceTold'
<1> DEFINE telling == IF c.on THEN Health!Told(s, c, config) ELSE "unknown"
<1>1. config' = [config EXCEPT ![s] = c] /\ unique' = [unique EXCEPT ![s] = telling]
  BY DEF Health!Patch
<1>2. telling \in {"unknown", "shared", "unique"}
  BY DEF Health!Told
<1>3. /\ config \in [HealthSite -> Health!Configs] /\ Health!SharedSourceTold
      /\ unique \in [HealthSite -> {"unknown", "shared", "unique"}]
  BY DEF Diagnosed
<1>4. ASSUME NEW t \in HealthSite \ {s}, c.on, config[t].on, c.from = config[t].from, c.from # None
      PROVE  telling = "shared"
  BY <1>4 DEF Health!Told, Health!Conflict
<1> HIDE DEF telling
<1>5. /\ config'[s] = c /\ unique'[s] = telling
      /\ \A t \in HealthSite \ {s} : config'[t] = config[t] /\ unique'[t] = unique[t]
  BY <1>1, <1>3
<1>6. Health!SharedSourceTold'
  <2> SUFFICES ASSUME NEW t \in HealthSite, NEW u \in HealthSite, t # u, config'[t].on, config'[u].on,
                      config'[t].from = config'[u].from, config'[t].from # None
               PROVE  "shared" \in {unique'[t], unique'[u]}
    BY DEF Health!SharedSourceTold
  <2>1. CASE t = s
    BY <2>1, <1>4, <1>5
  <2>2. CASE u = s
    BY <2>2, <1>4, <1>5
  <2>3. CASE t # s /\ u # s
    BY <2>3, <1>3, <1>5 DEF Health!SharedSourceTold
  <2> QED BY <2>1, <2>2, <2>3
<1> QED BY <1>1, <1>2, <1>3, <1>6

LEMMA DiagnosisKeeps ==
  ASSUME Diagnosed, NEW s \in HealthSite,
         \/ \E c \in Health!Configs : Health!Patch(s, c) \/ Health!Test(s, c)
         \/ Health!Ping(s) \/ Health!Flow(s) \/ Health!Probe(s) \/ Health!DiagnosisAnswered(s)
  PROVE  Diagnosed'
<1>1. ASSUME NEW c \in Health!Configs, Health!Patch(s, c) PROVE Diagnosed'
  <2>1. CASE c.on
    <3>1. diag' = [diag EXCEPT ![s] = Health!Begun(c, "stored")]
      BY <1>1, <2>1 DEF Health!Patch
    <3>2. diag' \in [HealthSite -> Diagnosis] /\ \A t \in HealthSite : Examined(diag'[t])
      BY <3>1, BegunIs, DiagnosisSet
    <3> QED BY <3>2, <1>1, PatchTells DEF Diagnosed, Diagnosis
  <2>2. CASE ~c.on
    <3>1. diag' = diag
      BY <1>1, <2>2 DEF Health!Patch
    <3> QED BY <3>1, <1>1, PatchTells DEF Diagnosed
  <2> QED BY <2>1, <2>2
<1>2. ASSUME NEW d \in Diagnosis, Examined(d), diag' = [diag EXCEPT ![s] = d], UNCHANGED <<config, unique>>
      PROVE  Diagnosed'
  <2>1. diag' \in [HealthSite -> Diagnosis] /\ \A t \in HealthSite : Examined(diag'[t])
    BY <1>2, DiagnosisSet
  <2>2. Health!SharedSourceTold'
    BY <1>2 DEF Diagnosed, Health!SharedSourceTold
  <2> QED BY <2>1, <2>2, <1>2 DEF Diagnosed, Diagnosis
<1>3. ASSUME NEW c \in Health!Configs, Health!Test(s, c) PROVE Diagnosed'
  <2>1. diag' = [diag EXCEPT ![s] = Health!Begun(c, "tested")] /\ UNCHANGED <<config, unique>>
    BY <1>3 DEF Health!Test
  <2> QED BY <2>1, BegunIs, <1>2
<1>4. CASE Health!Ping(s) \/ Health!Flow(s) \/ Health!Probe(s) \/ Health!DiagnosisAnswered(s)
  <2>1. UNCHANGED <<config, unique>>
    BY <1>4 DEF Health!Ping, Health!Flow, Health!Probe, Health!DiagnosisAnswered
  <2> QED BY <2>1, <1>4, <1>2, DiagnosisGoesOn
<1> QED BY <1>1, <1>3, <1>4

-------------------------------------------------------------------------------
(* The report.                                                             *)
LEMMA ReportKeeps ==
  ASSUME Reported, Health!ReportNext
  PROVE  Reported'
<1> USE DEF Reported
<1>1. /\ world = [db |-> world.db, storage |-> world.storage, rest |-> world.rest]
      /\ world.db \in BOOLEAN /\ world.storage \in BOOLEAN /\ world.rest \in BOOLEAN
      /\ DOMAIN world = {"db", "storage", "rest"}
  OBVIOUS
<1>2. /\ report = [at |-> report.at, failed |-> report.failed, warned |-> report.warned, alive |-> report.alive]
      /\ report.at \in {"none", "db", "storage", "done"}
      /\ report.failed \in BOOLEAN /\ report.warned \in BOOLEAN /\ report.alive \in BOOLEAN
  OBVIOUS
<1>3. ASSUME NEW w \in DOMAIN world, Health!WorldChanges(w) PROVE Reported'
  <2>1. /\ world' = [world EXCEPT ![w] = ~@]
        /\ report' = [report EXCEPT !.alive = @ \/ (report.at = "db" /\ world'.db)]
    BY <1>3 DEF Health!WorldChanges
  <2>2. world' \in [db : BOOLEAN, storage : BOOLEAN, rest : BOOLEAN]
    <3>1. CASE w = "db"
      <4>1. world' = [db |-> ~world.db, storage |-> world.storage, rest |-> world.rest]
        BY <3>1, <2>1, <1>1
      <4> QED BY <4>1, <1>1
    <3>2. CASE w = "storage"
      <4>1. world' = [db |-> world.db, storage |-> ~world.storage, rest |-> world.rest]
        BY <3>2, <2>1, <1>1
      <4> QED BY <4>1, <1>1
    <3>3. CASE w = "rest"
      <4>1. world' = [db |-> world.db, storage |-> world.storage, rest |-> ~world.rest]
        BY <3>3, <2>1, <1>1
      <4> QED BY <4>1, <1>1
    <3> QED BY <3>1, <3>2, <3>3, <1>1
  <2>3. report' = [at |-> report.at, failed |-> report.failed, warned |-> report.warned,
                   alive |-> report.alive \/ (report.at = "db" /\ world'.db)]
    BY <2>1, <1>2
  <2>4. world'.db \in BOOLEAN
    BY <2>2
  <2>5. /\ report'.at = report.at /\ report'.failed = report.failed /\ report'.warned = report.warned
        /\ report'.alive = (report.alive \/ (report.at = "db" /\ world'.db))
    BY <2>3
  <2>6. report' \in [at : {"none", "db", "storage", "done"}, failed : BOOLEAN, warned : BOOLEAN, alive : BOOLEAN]
    BY <2>3, <1>2
  <2> QED BY <2>2, <2>5, <2>6
<1>4. CASE Health!AskReport
  <2>1. world' = world /\ report' = [at |-> "db", failed |-> FALSE, warned |-> FALSE, alive |-> world.db]
    BY <1>4 DEF Health!AskReport, Health!NoReport
  <2> QED BY <2>1, <1>1
<1>5. CASE Health!DatabaseAnswers
  <2>1. /\ world' = world /\ report.at = "db"
        /\ report' = [at |-> "storage", failed |-> ~world.db, warned |-> report.warned, alive |-> report.alive]
    BY <1>5, <1>2 DEF Health!DatabaseAnswers, Health!DatabaseCheck
  <2> QED BY <2>1, <1>1, <1>2
<1>6. CASE Health!StorageAnswers
  <2>1. /\ world' = world /\ report.at = "storage"
        /\ report' = [at |-> "done", failed |-> report.failed \/ ~world.storage,
                      warned |-> report.warned \/ ~world.rest, alive |-> report.alive]
    BY <1>6, <1>2 DEF Health!StorageAnswers
  <2> QED BY <2>1, <1>1, <1>2
<1>7. CASE Health!ReportAnswered
  <2>1. world' = world /\ report' = [at |-> "none", failed |-> FALSE, warned |-> FALSE, alive |-> FALSE]
    BY <1>7 DEF Health!ReportAnswered, Health!NoReport
  <2> QED BY <2>1, <1>1
<1> QED BY <1>3, <1>4, <1>5, <1>6, <1>7 DEF Health!ReportNext

LEMMA HealthStepKeeps == HealthInv /\ [Health!Next]_(Health!healthVars) => HealthInv'
<1> SUFFICES ASSUME HealthInv, [Health!Next]_(Health!healthVars) PROVE HealthInv'
  OBVIOUS
<1> USE DEF HealthInv
<1>1. ASSUME UNCHANGED <<host, output, healthSeen>> PROVE FirewallSeen'
  BY <1>1 DEF FirewallSeen
<1>2. ASSUME UNCHANGED <<config, diag, unique>> PROVE Diagnosed'
  BY <1>2 DEF Diagnosed, Health!SharedSourceTold
<1>3. ASSUME UNCHANGED <<world, report>> PROVE Reported'
  BY <1>3 DEF Reported
<1> USE DEF Health!firewallVars, Health!siteVars, Health!reportVars
<1>4. CASE Health!FirewallNext
  <2>1. UNCHANGED <<config, diag, unique, world, report>>
    BY <1>4 DEF Health!FirewallNext, Health!AskFirewall, Health!CommandEnds, Health!AnswerFirewall, Health!HostChanges
  <2> QED BY <2>1, <1>2, <1>3, <1>4, FirewallKeeps
<1>5. CASE Health!DiagnosisNext
  <2>1. UNCHANGED <<host, output, healthSeen, world, report>>
    BY <1>5 DEF Health!DiagnosisNext, Health!Patch, Health!Test, Health!Ping, Health!Flow, Health!Probe, Health!DiagnosisAnswered
  <2>2. PICK s \in HealthSite :
          \/ \E c \in Health!Configs : Health!Patch(s, c) \/ Health!Test(s, c)
          \/ Health!Ping(s) \/ Health!Flow(s) \/ Health!Probe(s) \/ Health!DiagnosisAnswered(s)
    BY <1>5 DEF Health!DiagnosisNext
  <2> QED BY <2>1, <2>2, <1>1, <1>3, DiagnosisKeeps
<1>6. CASE Health!ReportNext
  <2>1. UNCHANGED <<host, output, healthSeen, config, diag, unique>>
    BY <1>6 DEF Health!ReportNext, Health!WorldChanges, Health!AskReport, Health!DatabaseAnswers, Health!StorageAnswers, Health!ReportAnswered
  <2> QED BY <2>1, <1>1, <1>2, <1>6, ReportKeeps
<1>7. CASE UNCHANGED Health!healthVars
  BY <1>1, <1>2, <1>3, <1>7 DEF Health!healthVars
<1> QED BY <1>4, <1>5, <1>6, <1>7 DEF Health!Next

-------------------------------------------------------------------------------
(* What a rule that lets a source in says, and what such a line misreads.  *)
LEMMA AllowedIsOpen ==
  ASSUME NEW h \in Hosts, NEW p \in Ports, NEW from \in Sources \cup {None},
         h.ufw = "active", Health!AllowsSource(h.rules, p, from)
  PROVE  Health!Open(h, p, from) \/ Health!AnotherRule(h, p, from)
<1>1. PICK i \in DOMAIN h.rules :
        /\ Health!SaysAllow(h.rules[i]) /\ h.rules[i].form # "bare" /\ Health!IsSuffix(p, h.rules[i].port)
        /\ \/ from = None \/ h.rules[i].form = "anywhere"
           \/ h.rules[i].form # "net" /\ Health!Within(from, h.rules[i].from)
  BY DEF Health!AllowsSource
<1> DEFINE r == h.rules[i]
<1>2. h.rules \in Seq(Health!Rule) /\ DOMAIN h.rules = 1..Len(h.rules) /\ r \in Health!Rule
  BY HostTyped
<1>3. r.form = "anywhere" <=> r.from = None
  BY <1>2 DEF Health!Rule
<1>4. r.form \in {"allow", "out", "net", "anywhere"}
  BY <1>1 DEF Health!SaysAllow
<1> HIDE DEF r
<1>5. CASE r.form = "out" \/ r.port # p
  BY <1>1, <1>4, <1>5 DEF Health!AnotherRule, r
<1>6. CASE \E j \in 1..(i - 1) : Health!Fits(h.rules[j], p, from) /\ h.rules[j].form = "deny"
  BY <1>1, <1>4, <1>6 DEF Health!AnotherRule, r
<1>7. CASE /\ r.form # "out" /\ r.port = p
           /\ \A j \in 1..(i - 1) : ~(Health!Fits(h.rules[j], p, from) /\ h.rules[j].form = "deny")
  <2>1. CASE from = None \/ r.form = "anywhere" \/ r.from = from
    <3>1. Health!Fits(r, p, from) /\ r.form # "deny"
      BY <1>7, <2>1, <1>4 DEF Health!Fits
    <3>2. Health!Admitted(h.rules, p, from)
      BY <3>1, <1>7 DEF Health!Admitted, r
    <3> QED BY <3>2 DEF Health!Open
  <2>2. CASE from # None /\ r.form # "anywhere" /\ r.from # from
    <3>1. None \notin {from, r.from} /\ Health!Within(from, r.from)
      BY <2>2, <1>1, <1>3 DEF r
    <3> QED BY <3>1, <2>2, <1>1, <1>4 DEF Health!AnotherRule, r
  <2> QED BY <2>1, <2>2
<1> QED BY <1>5, <1>6, <1>7

LEMMA OpenIsAllowed ==
  ASSUME NEW h \in Hosts, NEW p \in Ports, NEW from \in Sources \cup {None},
         h.ufw = "active", ~Health!AllowsSource(h.rules, p, from), Health!Open(h, p, from)
  PROVE  Health!Overlooked(h, p, from)
<1>1. PICK i \in DOMAIN h.rules : Health!Fits(h.rules[i], p, from) /\ h.rules[i].form # "deny"
  BY DEF Health!Open, Health!Admitted
<1> DEFINE r == h.rules[i]
<1>2. h.rules \in Seq(Health!Rule) /\ r \in Health!Rule
  BY HostTyped
<1>3. r.form \in Forms /\ (r.form = "anywhere" <=> r.from = None)
  BY <1>2 DEF Health!Rule
<1>4. r.form # "out" /\ r.port = p /\ (from = None \/ r.form = "anywhere" \/ r.from = from)
  BY <1>1 DEF Health!Fits, r
<1>5. Health!IsSuffix(p, p) /\ (from # None => Health!Within(from, from))
  BY PartsOfItself, HealthAssumption
<1> HIDE DEF r
<1>6. CASE r.form \in {"allow", "anywhere"}
  <2>1. Health!SaysAllow(r) /\ r.form # "bare" /\ r.form # "net" /\ Health!IsSuffix(p, r.port)
    BY <1>6, <1>4, <1>5 DEF Health!SaysAllow
  <2>2. from = None \/ r.form = "anywhere" \/ Health!Within(from, r.from)
    BY <1>4, <1>5
  <2> QED BY <2>1, <2>2 DEF Health!AllowsSource, r
<1>7. CASE r.form \in {"bare", "net", "limit"}
  BY <1>7, <1>1 DEF Health!Overlooked, r
<1>8. r.form \in {"allow", "deny", "out", "bare", "net", "anywhere", "limit"}
  BY <1>3, HealthAssumption
<1> QED BY <1>1, <1>4, <1>6, <1>7, <1>8 DEF r

LEMMA VerdictFollows == FirewallSeen => Health!VerdictIsTrue
<1> SUFFICES ASSUME FirewallSeen, Health!FirewallTold, NEW p \in Ports, NEW from \in Sources \cup {None}
             PROVE  /\ Health!Verdict(p, from) = "pass" =>
                         /\ \E h \in healthSeen : Health!Listening(h, p) \/ Health!AnotherListens(h, p)
                         /\ \E h \in healthSeen : Health!Open(h, p, from) \/ Health!AnotherRule(h, p, from)
                    /\ Health!Verdict(p, from) = "fail" =>
                         \/ \E h \in healthSeen : ~Health!Listening(h, p)
                         \/ \E h \in healthSeen : ~Health!Open(h, p, from) \/ Health!Overlooked(h, p, from)
                         \/ {"active", "inactive"} \subseteq {h.ufw : h \in healthSeen}
  BY DEF Health!VerdictIsTrue
<1>1. /\ \A c \in Health!Command : \E h \in healthSeen : output[c] = Health!Printed(h, c)
      /\ healthSeen \subseteq Hosts /\ \A g, h \in healthSeen : Switched(g, h)
  BY DEF FirewallSeen, Health!FirewallTold
<1>2. PICK u \in healthSeen : output["verbose"] = u.ufw
  BY <1>1 DEF Health!Printed, Health!Command
<1>3. PICK n \in healthSeen : output["numbered"] = IF n.ufw = "active" THEN n.rules ELSE <<>>
  BY <1>1 DEF Health!Printed, Health!Command
<1>4. PICK l \in healthSeen : output["ss"] = [there |-> l.ss, listens |-> l.listens]
  BY <1>1 DEF Health!Printed, Health!Command
<1> DEFINE listening == IF l.ss THEN Health!HasListener(l.listens, p) ELSE Health!Inferred(p)
           first == IF listening THEN "pass" ELSE IF l.ss THEN "fail" ELSE "warn"
           allowed == Health!AllowsSource(output["numbered"], p, from)
<1>5. Health!Verdict(p, from) = Health!UfwOutcome(first, u.ufw, allowed)
  BY <1>2, <1>4 DEF Health!Verdict
<1>6. u.ufw \in Ufw /\ n.ufw \in Ufw /\ Switched(u, n) /\ u \in Hosts /\ n \in Hosts
  BY <1>1, HostTyped
<1>7. listening => Health!Listening(l, p) \/ Health!AnotherListens(l, p)
  BY DEF Health!HasListener, Health!Inferred, Health!Listening, Health!AnotherListens
<1>8. ~listening => ~Health!Listening(l, p)
  BY PartsOfItself, HealthAssumption DEF Health!HasListener, Health!Inferred, Health!Listening
<1>9. first \in {"pass", "fail", "warn"} /\ (first = "pass" <=> listening)
  OBVIOUS
<1> HIDE DEF listening, first
<1>10. allowed => n.ufw = "active"
  BY <1>3 DEF Health!AllowsSource
<1>11. n.ufw = "active" => output["numbered"] = n.rules
  BY <1>3
<1> HIDE DEF allowed
<1>12. ASSUME Health!Verdict(p, from) = "pass"
       PROVE  listening /\ (u.ufw \in {"none", "inactive"} \/ (u.ufw = "active" /\ allowed))
  BY <1>12, <1>5, <1>6, <1>9 DEF Health!UfwOutcome, Ufw
<1>13. ASSUME Health!Verdict(p, from) = "fail"
       PROVE  ~listening \/ (u.ufw = "active" /\ ~allowed)
  BY <1>13, <1>5, <1>6, <1>9 DEF Health!UfwOutcome, Ufw
<1>14. ASSUME Health!Verdict(p, from) = "pass"
       PROVE  \E h \in healthSeen : Health!Open(h, p, from) \/ Health!AnotherRule(h, p, from)
  <2>1. CASE u.ufw \in {"none", "inactive"}
    BY <2>1 DEF Health!Open
  <2>2. CASE allowed
    BY <2>2, <1>6, <1>10, <1>11, AllowedIsOpen DEF allowed
  <2> QED BY <2>1, <2>2, <1>12, <1>14
<1>15. ASSUME u.ufw = "active", ~allowed
       PROVE  \/ \E h \in healthSeen : ~Health!Open(h, p, from) \/ Health!Overlooked(h, p, from)
              \/ {"active", "inactive"} \subseteq {h.ufw : h \in healthSeen}
  <2>1. CASE n.ufw = "active"
    <3>1. ~Health!AllowsSource(n.rules, p, from)
      BY <2>1, <1>11, <1>15 DEF allowed
    <3> QED BY <3>1, <2>1, <1>6, OpenIsAllowed
  <2>2. CASE n.ufw = "inactive"
    BY <2>2, <1>15
  <2> QED BY <2>1, <2>2, <1>6, <1>15 DEF Switched
<1> QED BY <1>7, <1>8, <1>12, <1>13, <1>14, <1>15

LEMMA HealthIsSound == HealthInv => HealthSound
<1> SUFFICES ASSUME HealthInv PROVE HealthSound
  OBVIOUS
<1>1. Health!VerdictIsTrue /\ Health!SharedSourceTold
  BY VerdictFollows DEF HealthInv, Diagnosed
<1>2. Health!OkIsComplete
  BY DEF HealthInv, Diagnosed, Examined, Health!OkIsComplete
<1>3. Health!ServingIsAlive
  BY DEF HealthInv, Reported, Health!ServingIsAlive, Health!HealthStatus
<1> QED BY <1>1, <1>2, <1>3 DEF HealthSound

(* For any ports, addresses and sites: whatever changes between the commands*)
(* of a firewall check, its verdict is true of the host as it was since the*)
(* check began, but for lines it misreads or overlooks; of two sites that  *)
(* take the same source an administrator was told; a diagnosis is ok for a *)
(* complete configuration only; and a health report without a failure comes*)
(* from a server whose database answered (lib/health.js).                  *)
THEOREM HealthKept == Health!Spec => []HealthSound
<1>1. Health!Spec => []HealthInv
  BY HealthInitial, HealthStepKeeps, PTL DEF Health!Spec
<1> QED BY <1>1, HealthIsSound, PTL

-------------------------------------------------------------------------------
\* The import of the directory

Bases == Servers \cup {""}
Settings == [server : Servers, base : Bases, pass : Nat]
Entries == [name : Directory!Names, role : {"admin", "monitor"}]
Roles == [Directory!Names -> {"none", "admin", "monitor"}]
Replies == {"fail", "missing", "account", "cn"}
Lists == SUBSET Entries
Reads == Seq(Replies)
Copies == Settings \cup {Directory!Nothing}
Early == {"no", "ping", "bind", "discover", "admins"}
Late == {"unbound", "caching", "answered", "error", "done"}
Stages == Early \cup {"monitors"} \cup Late
TestRecord == [at : Stages, server : Servers, base : Bases, given : BOOLEAN, open : BOOLEAN,
               list : Lists, read : Reads, copy : Copies]
Working == {"sent", "writing", "imported", "failed"}

(* What is listed of the two groups when they were read in this way.       *)
AdminsRead(x) == [name : Directory!Members(Admins, x), role : {"admin"}]
BothRead(x, y) == AdminsRead(x) \cup
  [name : Directory!Members(Monitors, y) \ Directory!Members(Admins, x), role : {"monitor"}]

(* A list has no name twice and nobody by mail.                            *)
Unambiguous(l) ==
  /\ l \subseteq Entries
  /\ \A e \in l : e.name.as # "mail"
  /\ \A e, f \in l : e.name = f.name => e = f

(* What a test has listed is what it has read.                             *)
ListsRead(r) ==
  /\ r.at \in Early => r.read = <<>> /\ r.list = {}
  /\ r.at = "monitors" => \E x \in Replies : r.read = <<x>> /\ r.list = AdminsRead(x)
  /\ r.at \in Late => \/ r.read = <<>> /\ r.list = {}
                      \/ \E x, y \in Replies : r.read = <<x, y>> /\ r.list = BothRead(x, y)

TestSound(r) ==
  /\ r \in TestRecord /\ ListsRead(r)
  /\ r.open => r.at \in {"discover", "admins", "monitors"}
  /\ r.at = "caching" => r.copy \in Settings

(* Every entry of l has become a user of u, which was b before.            *)
Carried(l, b, u) ==
  \A e \in l :
    \E n \in Directory!Names :
      /\ n.who = e.name.who /\ u[n] = e.role
      /\ ~posix /\ e.name.as = "account" /\ b[e.name] = "none" /\ b[[e.name EXCEPT !.as = "mail"]] # "none"
           => n.as = "mail" /\ u[e.name] = "none"

TestsSound == /\ DOMAIN directoryTests = LdapTests
              /\ \A t \in LdapTests : TestSound(directoryTests[t])

FormSound ==
  /\ directoryConfig \in Settings
  /\ directoryForm.server \in Servers /\ directoryForm.base \in Bases
  /\ directoryKnown.server \in Servers /\ directoryKnown.base \in Bases
  /\ directoryUndo # Directory!Nothing => /\ directoryUndo.server \in Servers
                                          /\ directoryUndo.base \in Bases

PageSound ==
  /\ directoryPage \in [open : BOOLEAN, pending : SUBSET Entries, table : SUBSET Entries,
                        approve : BOOLEAN, busy : BOOLEAN]
  /\ Unambiguous(directoryPage.pending) /\ Directory!ApprovesShown

UsersSound ==
  /\ posix \in BOOLEAN /\ directoryUsers \in Roles /\ directoryRoles \in Roles
  /\ directoryImport.at \in {"no"} \cup Working
  /\ directoryPage.busy <=> directoryImport.at \in Working
  /\ directoryImport.at \in Working =>
       /\ directoryImport \in [at : Working, list : SUBSET Entries, before : Roles]
       /\ Unambiguous(directoryImport.list)
  /\ directoryImport.at = "sent" => directoryImport.before = directoryUsers
  /\ directoryImport.at \in {"writing", "imported", "failed"} =>
       Carried(directoryImport.list, directoryImport.before, directoryUsers)
  /\ directoryImport.at = "imported" => directoryRoles = directoryUsers

DirectoryInv == FormSound /\ TestsSound /\ PageSound /\ UsersSound

LEMMA DirectorySets ==
  /\ {} \in Lists /\ <<>> \in Reads /\ Directory!Nothing \in Copies
  /\ "" \in Bases /\ Servers \subseteq Bases /\ Settings \subseteq Copies
  /\ Early \subseteq Stages /\ Late \subseteq Stages /\ "monitors" \in Stages
  /\ Early \cap Late = {} /\ "monitors" \notin Early \cup Late
<1>1. <<>> \in Reads
  BY DEF Reads
<1>2. {} \in Lists
  BY DEF Lists
<1>3. Early \cap Late = {} /\ "monitors" \notin Early \cup Late
  BY DEF Early, Late
<1> QED BY <1>1, <1>2, <1>3 DEF Copies, Bases, Stages

(* A test goes on. *)
LEMMA TestKeeps ==
  ASSUME TestsSound, NEW t \in LdapTests, NEW r, TestSound(r),
         directoryTests' = [directoryTests EXCEPT ![t] = r]
  PROVE  TestsSound'
<1>1. \A u \in LdapTests : directoryTests'[u] = IF u = t THEN r ELSE directoryTests[u]
  BY DEF TestsSound
<1>2. DOMAIN directoryTests' = LdapTests
  BY DEF TestsSound
<1>3. ASSUME NEW s, TestSound(s) PROVE TestSound(s)'
  BY <1>3 DEF TestSound, ListsRead
<1> QED BY <1>1, <1>2 DEF TestsSound

(* What a test has before it reads a group. *)
LEMMA EarlySound ==
  ASSUME NEW r \in TestRecord, r.at \in Early \cup {"answered"}, r.list = {}, r.read = <<>>,
         r.open => r.at \in {"discover", "admins"}
  PROVE  TestSound(r)
<1>1. "answered" \in Late /\ r.at # "caching"
  BY DEF Early, Late
<1> QED BY <1>1, DirectorySets DEF TestSound, ListsRead

LEMMA UntestedSound == TestSound(Directory!Untested)
<1>1. "no" \in Early
  BY DEF Early
<1>2. Directory!Untested \in TestRecord
  BY <1>1, DirectorySets, DirectoryAssumption DEF Directory!Untested, TestRecord
<1>3. /\ Directory!Untested.at = "no" /\ Directory!Untested.list = {}
      /\ Directory!Untested.read = <<>> /\ Directory!Untested.open = FALSE
  BY DEF Directory!Untested
<1> QED BY <1>1, <1>2, <1>3, EarlySound

LEMMA DirectoryInitial == Directory!Init => DirectoryInv
<1> SUFFICES ASSUME Directory!Init PROVE DirectoryInv
  OBVIOUS
<1> USE DirectoryAssumption DEF Directory!Init
<1>1. FormSound
  BY DEF FormSound, Settings, Bases, Directory!Shown, Directory!Nothing
<1>2. TestsSound
  <2> QED BY UntestedSound DEF TestsSound
<1>3. PageSound
  BY DEF PageSound, Unambiguous, Directory!ApprovesShown
<1>4. UsersSound
  BY DEF UsersSound, Directory!NoImport, Working, Roles
<1> QED BY <1>1, <1>2, <1>3, <1>4 DEF DirectoryInv

-------------------------------------------------------------------------------
(* The steps of a test.                                                    *)
LEMMA PressKeeps ==
  ASSUME DirectoryInv, NEW t \in LdapTests, Directory!Press(t)
  PROVE  TestsSound'
<1>1. directoryForm.server \in Servers /\ directoryForm.base \in Bases
  BY DEF DirectoryInv, FormSound
<1> DEFINE given == directoryForm.base # ""
           r == [Directory!Untested EXCEPT !.at = "ping", !.server = directoryForm.server,
                                           !.base = directoryForm.base, !.given = given]
<1>2. directoryTests' = [directoryTests EXCEPT ![t] = r]
  BY DEF Directory!Press, Directory!Set
<1>3. Directory!Untested \in TestRecord /\ "ping" \in Stages /\ given \in BOOLEAN
  BY UntestedSound DEF TestSound, Stages, Early
<1> HIDE DEF given
<1>4. r \in TestRecord
  BY <1>1, <1>3 DEF TestRecord
<1>5. r.at = "ping" /\ r.list = {} /\ r.read = <<>> /\ r.open = FALSE
  BY DEF Directory!Untested
<1>6. TestSound(r)
  BY <1>4, <1>5, EarlySound DEF Early
<1> QED BY <1>2, <1>6, TestKeeps DEF DirectoryInv

(* A step that fails before the groups are read. *)
LEMMA TestFailed ==
  ASSUME NEW r \in TestRecord, r.read = <<>>
  PROVE  TestSound(Directory!Failed(r))
<1> DEFINE s == Directory!Failed(r)
<1>1. "answered" \in Stages /\ {} \in Lists
  BY DirectorySets DEF Late
<1>2. s \in TestRecord
  BY <1>1 DEF TestRecord, Directory!Failed
<1>3. s.at = "answered" /\ s.list = {} /\ s.read = <<>> /\ s.open = FALSE
  BY DEF TestRecord, Directory!Failed
<1> HIDE DEF s
<1>4. TestSound(s)
  BY <1>2, <1>3, EarlySound
<1> QED BY <1>4 DEF s

LEMMA EarlyKeeps ==
  ASSUME DirectoryInv, NEW t \in LdapTests,
         Directory!Ping(t) \/ Directory!Bind(t) \/ Directory!Discover(t)
  PROVE  TestsSound'
<1>0. PICK r : r = directoryTests[t] /\ TestSound(r) /\ r.at \in {"ping", "bind", "discover"}
  BY DEF DirectoryInv, TestsSound, Directory!Ping, Directory!Bind, Directory!Discover, Directory!Step
<1>1. /\ r \in TestRecord /\ r.list = {} /\ r.read = <<>>
      /\ r.server \in Bases /\ r.given \in BOOLEAN /\ (r.open => r.at = "discover")
  <2>1. r.at \in Early
    BY <1>0 DEF Early
  <2>2. r \in TestRecord /\ r.list = {} /\ r.read = <<>> /\ (r.open => r.at = "discover")
    BY <1>0, <2>1 DEF TestSound, ListsRead
  <2>3. r.server \in Servers /\ r.given \in BOOLEAN
    BY <2>2 DEF TestRecord
  <2> QED BY <2>2, <2>3, DirectorySets
<1>2. {"bind", "discover", "admins"} \subseteq Early /\ Early \subseteq Stages
  BY DirectorySets DEF Early
<1>3. CASE directoryTests' = [directoryTests EXCEPT ![t] = Directory!Failed(r)]
  BY <1>1, <1>3, TestFailed, TestKeeps DEF DirectoryInv
<1>4. CASE Directory!Ping(t)
  <2> DEFINE s == [r EXCEPT !.at = "bind"]
  <2>1. directoryTests' = [directoryTests EXCEPT ![t] = s] \/ directoryTests' = [directoryTests EXCEPT ![t] = Directory!Failed(r)]
    BY <1>0, <1>4 DEF Directory!Ping, Directory!Set
  <2>2. s \in TestRecord
    BY <1>1, <1>2 DEF TestRecord
  <2>3. s.at = "bind" /\ s.list = {} /\ s.read = <<>> /\ s.open = r.open
    BY <1>1 DEF TestRecord
  <2>4. ~r.open
    BY <1>0, <1>1, <1>4 DEF Directory!Ping, Directory!Step
  <2> HIDE DEF s
  <2>5. TestSound(s)
    BY <2>2, <2>3, <2>4, <1>2, EarlySound
  <2> QED BY <2>1, <2>5, <1>3, TestKeeps DEF DirectoryInv
<1>5. CASE Directory!Bind(t)
  <2> DEFINE q == [r EXCEPT !.open = TRUE]
             s == [q EXCEPT !.at = IF q.given THEN "admins" ELSE "discover"]
  <2>1. \/ directoryTests' = [directoryTests EXCEPT ![t] = s]
        \/ directoryTests' = [directoryTests EXCEPT ![t] = Directory!Failed(q)]
    BY <1>0, <1>5 DEF Directory!Bind, Directory!Set
  <2>2. q \in TestRecord
    BY <1>1 DEF TestRecord
  <2>3. q.list = {} /\ q.read = <<>> /\ q.open = TRUE /\ q.given \in BOOLEAN
    BY <1>1 DEF TestRecord
  <2> HIDE DEF q
  <2>4. s \in TestRecord
    BY <2>2, <1>2 DEF TestRecord
  <2>5. s.at \in {"admins", "discover"} /\ s.list = {} /\ s.read = <<>> /\ s.open = TRUE
    BY <2>2, <2>3 DEF TestRecord
  <2> HIDE DEF s
  <2>6. TestSound(s)
    BY <2>4, <2>5, <1>2, EarlySound
  <2>7. TestSound(Directory!Failed(q))
    BY <2>2, <2>3, TestFailed
  <2> QED BY <2>1, <2>6, <2>7, TestKeeps DEF DirectoryInv
<1>6. CASE Directory!Discover(t)
  <2> DEFINE s == [r EXCEPT !.at = "admins", !.base = r.server]
  <2>1. directoryTests' = [directoryTests EXCEPT ![t] = s] \/ directoryTests' = [directoryTests EXCEPT ![t] = Directory!Failed(r)]
    BY <1>0, <1>6 DEF Directory!Discover, Directory!Set, Directory!Discovered
  <2>2. s \in TestRecord
    BY <1>1, <1>2 DEF TestRecord
  <2>3. s.at = "admins" /\ s.list = {} /\ s.read = <<>>
    BY <1>1 DEF TestRecord
  <2> HIDE DEF s
  <2>4. TestSound(s)
    BY <2>2, <2>3, <1>2, EarlySound
  <2> QED BY <2>1, <2>4, <1>3, TestKeeps DEF DirectoryInv
<1> QED BY <1>4, <1>5, <1>6

(* The groups are read. *)
LEMMA MembersAre ==
  ASSUME NEW group, group \subseteq People, NEW x \in Replies
  PROVE  /\ Directory!Members(group, x) \subseteq Directory!Names
         /\ \A n \in Directory!Members(group, x) : n.as # "mail"
  BY DEF Directory!Members, Directory!Names

LEMMA ReadsAre ==
  /\ \A x \in Replies : AdminsRead(x) \in Lists
  /\ \A x, y \in Replies : BothRead(x, y) \in Lists /\ Unambiguous(BothRead(x, y))
<1> USE DirectoryAssumption
<1>1. ASSUME NEW x \in Replies PROVE AdminsRead(x) \subseteq Entries
  <2>1. Directory!Members(Admins, x) \subseteq Directory!Names
    BY MembersAre
  <2> QED BY <2>1 DEF AdminsRead, Entries
<1>2. ASSUME NEW x \in Replies, NEW y \in Replies PROVE BothRead(x, y) \subseteq Entries /\ Unambiguous(BothRead(x, y))
  <2> DEFINE A == Directory!Members(Admins, x)
             M == Directory!Members(Monitors, y)
  <2>1. A \subseteq Directory!Names /\ M \subseteq Directory!Names /\ \A n \in A \cup M : n.as # "mail"
    BY MembersAre
  <2>2. BothRead(x, y) = [name : A, role : {"admin"}] \cup [name : M \ A, role : {"monitor"}]
    BY DEF BothRead, AdminsRead
  <2> HIDE DEF A, M
  <2>3. BothRead(x, y) \subseteq Entries
    BY <2>1, <2>2 DEF Entries
  <2>4. \A e \in BothRead(x, y) : /\ e = [name |-> e.name, role |-> e.role]
                                  /\ e.name \in A \cup M /\ e.role = IF e.name \in A THEN "admin" ELSE "monitor"
    BY <2>2
  <2>5. \A e, f \in BothRead(x, y) : e.name = f.name => e = f
    BY <2>4
  <2>6. \A e \in BothRead(x, y) : e.name.as # "mail"
    BY <2>1, <2>4
  <2> QED BY <2>3, <2>5, <2>6 DEF Unambiguous
<1> QED BY <1>1, <1>2 DEF Lists

LEMMA GroupsKeep ==
  ASSUME DirectoryInv, NEW t \in LdapTests, Directory!ReadAdmins(t) \/ Directory!ReadMonitors(t)
  PROVE  TestsSound'
<1>1. PICK r : r = directoryTests[t] /\ TestSound(r)
  BY DEF DirectoryInv, TestsSound
<1>2. Directory!Results(r) \subseteq Replies
  BY DEF Directory!Results, Replies
<1>3. CASE Directory!ReadAdmins(t)
  <2>1. PICK x \in Replies :
          directoryTests' = [directoryTests EXCEPT ![t] = [r EXCEPT !.at = "monitors", !.read = <<x>>, !.list = AdminsRead(x)]]
    BY <1>1, <1>2, <1>3 DEF Directory!ReadAdmins, Directory!Set, AdminsRead
  <2> DEFINE s == [r EXCEPT !.at = "monitors", !.read = <<x>>, !.list = AdminsRead(x)]
  <2>2. <<x>> \in Reads
    BY DEF Reads
  <2>3. s \in TestRecord
    BY <1>1, <2>2, ReadsAre, DirectorySets DEF TestSound, TestRecord
  <2>4. s.at = "monitors" /\ s.read = <<x>> /\ s.list = AdminsRead(x)
    BY <1>1 DEF TestSound, TestRecord
  <2> HIDE DEF s
  <2>5. TestSound(s)
    BY <2>3, <2>4, DirectorySets DEF TestSound, ListsRead
  <2> QED BY <2>1, <2>5, TestKeeps DEF DirectoryInv, s
<1>4. CASE Directory!ReadMonitors(t)
  <2>1. PICK x \in Replies : r.read = <<x>> /\ r.list = AdminsRead(x)
    BY <1>1, <1>4 DEF TestSound, ListsRead, Directory!ReadMonitors, Directory!Step
  <2> DEFINE A == Directory!Members(Admins, x)
  <2>2. {e.name : e \in r.list} = A
    <3> DEFINE l == r.list
    <3>1. l = [name : A, role : {"admin"}]
      BY <2>1 DEF AdminsRead
    <3> HIDE DEF A, l
    <3>2. \A e \in l : e.name \in A
      BY <3>1
    <3>3. \A n \in A : \E e \in l : e.name = n
      <4> SUFFICES ASSUME NEW n \in A PROVE \E e \in l : e.name = n
        OBVIOUS
      <4>1. [name |-> n, role |-> "admin"] \in l
        BY <3>1
      <4> QED BY <4>1
    <3>4. {e.name : e \in l} = A
      BY <3>2, <3>3
    <3> QED BY <3>4 DEF l
  <2>3. PICK y \in Replies :
          directoryTests' = [directoryTests EXCEPT ![t] =
            [r EXCEPT !.at = "unbound", !.open = FALSE, !.read = Append(r.read, y),
                      !.list = r.list \cup
                        [name : Directory!Members(Monitors, y) \ {e.name : e \in r.list}, role : {"monitor"}]]]
    BY <1>1, <1>2, <1>4 DEF Directory!ReadMonitors, Directory!Set
  <2>4. /\ Append(r.read, y) = <<x, y>>
        /\ r.list \cup [name : Directory!Members(Monitors, y) \ {e.name : e \in r.list}, role : {"monitor"}] = BothRead(x, y)
    <3>1. Append(r.read, y) = <<x, y>>
      <4> DEFINE q == Append(r.read, y)
      <4>1. q \in Seq(Replies) /\ Len(q) = 2 /\ q[1] = x /\ q[2] = y
        BY <2>1
      <4> HIDE DEF q
      <4>2. q = <<x, y>>
        BY <4>1
      <4> QED BY <4>2 DEF q
    <3> QED BY <3>1, <2>1, <2>2, Zenon DEF BothRead
  <2> DEFINE s == [r EXCEPT !.at = "unbound", !.open = FALSE, !.read = <<x, y>>, !.list = BothRead(x, y)]
  <2>5. directoryTests' = [directoryTests EXCEPT ![t] = s]
    BY <2>3, <2>4
  <2>6. <<x, y>> \in Reads /\ "unbound" \in Late
    BY DEF Reads, Late
  <2>7. s \in TestRecord
    BY <1>1, <2>6, ReadsAre, DirectorySets DEF TestSound, TestRecord
  <2>8. s.at = "unbound" /\ s.open = FALSE /\ s.read = <<x, y>> /\ s.list = BothRead(x, y)
    BY <1>1 DEF TestSound, TestRecord
  <2> HIDE DEF s
  <2>9. TestSound(s)
    BY <2>6, <2>7, <2>8, DirectorySets DEF TestSound, ListsRead
  <2> QED BY <2>5, <2>9, TestKeeps DEF DirectoryInv
<1> QED BY <1>3, <1>4

(* The base DN is kept, and the page gets what was found. *)
LEMMA AnswersKeep ==
  ASSUME DirectoryInv, NEW t \in LdapTests,
         Directory!Cache(t) \/ Directory!Cached(t) \/ Directory!Answer(t) \/ Directory!AnswerError(t)
  PROVE  TestsSound'
<1>1. PICK r : r = directoryTests[t] /\ TestSound(r) /\ r.at \in Late \ {"done"}
  BY DEF DirectoryInv, TestsSound, Directory!Cache, Directory!Cached, Directory!Answer,
         Directory!AnswerError, Directory!Step, Late
<1>2. ASSUME NEW at \in Late, NEW copy \in Copies, at = "caching" => copy \in Settings,
             NEW s, s = [r EXCEPT !.at = at, !.copy = copy]
      PROVE  TestSound(s)
  <2>1. at \in Stages /\ r \in TestRecord /\ r.open = FALSE
    BY <1>1, DirectorySets DEF TestSound, TestRecord, Late
  <2>2. s \in TestRecord
    BY <1>2, <2>1 DEF TestRecord
  <2>3. s.at = at /\ s.open = FALSE /\ s.copy = copy /\ s.read = r.read /\ s.list = r.list
    BY <1>2, <2>1 DEF TestRecord
  <2>4. ListsRead(s)
    BY <1>1, <2>3, DirectorySets DEF TestSound, ListsRead
  <2> QED BY <1>2, <2>2, <2>3, <2>4 DEF TestSound
<1>3. ASSUME NEW at \in Late \ {"caching"} PROVE TestSound([r EXCEPT !.at = at])
  <2>1. r.copy \in Copies /\ [r EXCEPT !.at = at] = [r EXCEPT !.at = at, !.copy = r.copy]
    BY <1>1 DEF TestSound, TestRecord
  <2> QED BY <2>1, <1>2
<1>4. {"answered", "error", "done"} \subseteq Late \ {"caching"} /\ "caching" \in Late
  BY DEF Late
<1>5. CASE Directory!Cache(t)
  <2> DEFINE c == [directoryConfig EXCEPT !.base = r.base]
  <2>1. c \in Settings
    BY <1>1 DEF DirectoryInv, FormSound, Settings, TestSound, TestRecord
  <2>2. directoryTests' = [directoryTests EXCEPT ![t] = IF r.given THEN [r EXCEPT !.at = "answered"]
                                                         ELSE [r EXCEPT !.at = "caching", !.copy = c]]
    BY <1>1, <1>5 DEF Directory!Cache, Directory!Set
  <2> HIDE DEF c
  <2>3. TestSound([r EXCEPT !.at = "caching", !.copy = c])
    BY <1>2, <1>4, <2>1, DirectorySets
  <2> QED BY <1>3, <1>4, <2>2, <2>3, TestKeeps DEF DirectoryInv
<1>6. CASE Directory!Cached(t)
  <2>1. \/ directoryTests' = [directoryTests EXCEPT ![t] = [r EXCEPT !.at = "answered", !.copy = Directory!Nothing]]
        \/ directoryTests' = [directoryTests EXCEPT ![t] = [r EXCEPT !.at = "error", !.copy = Directory!Nothing]]
    BY <1>1, <1>6 DEF Directory!Cached, Directory!Set
  <2>2. /\ TestSound([r EXCEPT !.at = "answered", !.copy = Directory!Nothing])
        /\ TestSound([r EXCEPT !.at = "error", !.copy = Directory!Nothing])
    BY <1>2, <1>4, DirectorySets
  <2> QED BY <2>1, <2>2, TestKeeps DEF DirectoryInv
<1>7. CASE Directory!Answer(t) \/ Directory!AnswerError(t)
  <2>1. directoryTests' = [directoryTests EXCEPT ![t] = [r EXCEPT !.at = "done"]]
    BY <1>1, <1>7 DEF Directory!Answer, Directory!AnswerError, Directory!Set
  <2> QED BY <2>1, <1>3, <1>4, TestKeeps DEF DirectoryInv
<1> QED BY <1>5, <1>6, <1>7

-------------------------------------------------------------------------------
(* The form and its configuration.                                         *)
LEMMA PatchedIs ==
  ASSUME FormSound, NEW sent, sent.server \in Servers, sent.base \in Bases
  PROVE  /\ Directory!Patched(sent) \in Settings
         /\ Directory!Patched(sent).server = sent.server /\ Directory!Patched(sent).base = sent.base
<1> DEFINE pass == IF sent.pass = "typed" THEN directoryConfig.pass + 1 ELSE directoryConfig.pass
<1>1. directoryConfig \in Settings
  BY DEF FormSound
<1>2. pass \in Nat
  BY <1>1 DEF Settings
<1>3. Directory!Patched(sent) = [directoryConfig EXCEPT !.server = sent.server, !.base = sent.base, !.pass = pass]
  BY DEF Directory!Patched
<1> HIDE DEF pass
<1>4. Directory!Patched(sent) = [server |-> sent.server, base |-> sent.base, pass |-> pass]
  BY <1>1, <1>3 DEF Settings
<1> QED BY <1>2, <1>4 DEF Settings

LEMMA FormKeeps ==
  ASSUME DirectoryInv, [Directory!Next]_(Directory!ldapVars)
  PROVE  FormSound'
<1>1. FormSound
  BY DEF DirectoryInv
<1>2. ASSUME NEW c \in Settings, directoryConfig' = c, Directory!Loaded(c),
             directoryUndo' \in {directoryUndo, Directory!Nothing}
             \/ (directoryUndo'.server \in Servers /\ directoryUndo'.base \in Bases)
      PROVE  FormSound'
  BY <1>1, <1>2 DEF FormSound, Directory!Loaded, Directory!Shown, Settings
<1>3. CASE Directory!Edit
  <2>1. PICK s \in Servers, base \in Bases, p \in {"mask", "typed"} :
          /\ directoryForm' = [server |-> s, base |-> base, pass |-> p]
          /\ UNCHANGED <<directoryConfig, directoryKnown, directoryUndo>>
    BY <1>3 DEF Directory!Edit, Bases
  <2> QED BY <1>1, <2>1 DEF FormSound
<1>4. CASE Directory!Save
  <2>1. Directory!Patched(directoryForm) \in Settings
    BY <1>1, PatchedIs DEF FormSound
  <2>2. directoryUndo'.server \in Servers /\ directoryUndo'.base \in Bases
    BY <1>1, <1>4 DEF FormSound, Directory!Save
  <2>3. directoryConfig' = Directory!Patched(directoryForm) /\ Directory!Loaded(Directory!Patched(directoryForm))
    BY <1>4 DEF Directory!Save, Directory!Loaded
  <2> QED BY <1>2, <2>1, <2>2, <2>3
<1>5. CASE Directory!Undo
  <2>1. Directory!Patched(directoryUndo) \in Settings
    BY <1>1, <1>5, PatchedIs DEF FormSound, Directory!Undo
  <2>2. directoryConfig' = Directory!Patched(directoryUndo) /\ Directory!Loaded(Directory!Patched(directoryUndo))
        /\ directoryUndo' = Directory!Nothing
    BY <1>5 DEF Directory!Undo, Directory!Loaded
  <2> QED BY <1>2, <2>1, <2>2
<1>6. CASE UNCHANGED <<directoryConfig, directoryForm, directoryKnown, directoryUndo>>
  BY <1>1, <1>6 DEF FormSound
<1>7. CASE Directory!Close \/ Directory!Approve \/ Directory!Imports
  BY <1>6, <1>7 DEF Directory!Close, Directory!Approve, Directory!Imports, Directory!ServeImport,
       Directory!Written, Directory!ImportDone, Directory!formVars
<1>8. ASSUME NEW t \in LdapTests, Directory!Press(t) \/ Directory!Works(t) PROVE FormSound'
  <2>1. CASE Directory!Cached(t)
    <3>1. directoryTests[t].copy \in Settings
      BY <2>1 DEF DirectoryInv, TestsSound, TestSound, Directory!Cached
    <3>2. directoryConfig' \in {directoryConfig, directoryTests[t].copy}
          /\ UNCHANGED <<directoryForm, directoryKnown, directoryUndo>>
      BY <2>1 DEF Directory!Cached
    <3> QED BY <1>1, <3>1, <3>2 DEF FormSound
  <2>2. CASE ~Directory!Cached(t)
    BY <1>6, <1>8, <2>2 DEF Directory!Press, Directory!Works, Directory!Ping, Directory!Bind, Directory!Discover,
         Directory!ReadAdmins, Directory!ReadMonitors, Directory!Cache, Directory!Answer,
         Directory!AnswerError, Directory!Step, Directory!formVars
  <2> QED BY <2>1, <2>2
<1>9. CASE UNCHANGED Directory!ldapVars
  BY <1>6, <1>9 DEF Directory!ldapVars
<1> QED BY <1>3, <1>4, <1>5, <1>7, <1>8, <1>9 DEF Directory!Next

-------------------------------------------------------------------------------
(* What is approved.                                                       *)
LEMMA PageKeeps ==
  ASSUME DirectoryInv, [Directory!Next]_(Directory!ldapVars)
  PROVE  PageSound'
<1>1. PageSound
  BY DEF DirectoryInv
<1>2. CASE UNCHANGED directoryPage
  BY <1>1, <1>2 DEF PageSound, Directory!ApprovesShown, Unambiguous
<1>3. ASSUME NEW open \in BOOLEAN, NEW busy \in BOOLEAN, NEW approve \in BOOLEAN,
             NEW pending \in SUBSET Entries, NEW table \in SUBSET Entries,
             Unambiguous(pending), pending # {} => pending = table /\ approve,
             directoryPage' = [open |-> open, pending |-> pending, table |-> table, approve |-> approve, busy |-> busy]
      PROVE  PageSound'
  <2>1. /\ directoryPage'.pending = pending /\ directoryPage'.table = table /\ directoryPage'.approve = approve
    BY <1>3
  <2>2. directoryPage' \in [open : BOOLEAN, pending : SUBSET Entries, table : SUBSET Entries,
                            approve : BOOLEAN, busy : BOOLEAN]
    BY <1>3
  <2>3. Unambiguous(pending)'
    BY <1>3 DEF Unambiguous
  <2> QED BY <1>3, <2>1, <2>2, <2>3 DEF PageSound, Directory!ApprovesShown, Unambiguous
<1>4. /\ directoryPage = [open |-> directoryPage.open, pending |-> directoryPage.pending, table |-> directoryPage.table,
                          approve |-> directoryPage.approve, busy |-> directoryPage.busy]
      /\ directoryPage.open \in BOOLEAN /\ directoryPage.approve \in BOOLEAN /\ directoryPage.busy \in BOOLEAN
      /\ directoryPage.pending \in SUBSET Entries /\ directoryPage.table \in SUBSET Entries
      /\ Unambiguous(directoryPage.pending)
      /\ directoryPage.pending # {} => directoryPage.pending = directoryPage.table /\ directoryPage.approve
  BY <1>1 DEF PageSound, Directory!ApprovesShown
<1>5. Unambiguous({}) /\ {} \in SUBSET Entries
  BY DEF Unambiguous
<1>6. CASE Directory!Edit \/ Directory!Save \/ Directory!Undo
  BY <1>2, <1>6 DEF Directory!Edit, Directory!Save, Directory!Undo
<1>7. CASE Directory!Close
  <2>1. directoryPage' = [open |-> FALSE, pending |-> directoryPage.pending, table |-> directoryPage.table,
                          approve |-> directoryPage.approve, busy |-> directoryPage.busy]
    BY <1>4, <1>7 DEF Directory!Close
  <2> QED BY <1>3, <1>4, <2>1
<1>8. CASE Directory!Approve
  <2>1. directoryPage' = [open |-> directoryPage.open, pending |-> directoryPage.pending, table |-> directoryPage.table,
                          approve |-> directoryPage.approve, busy |-> TRUE]
    BY <1>4, <1>8 DEF Directory!Approve
  <2> QED BY <1>3, <1>4, <2>1
<1>9. CASE Directory!Imports
  <2>1. CASE Directory!ImportDone
    <3>1. CASE directoryImport.at = "failed"
      <4>1. directoryPage' = [open |-> directoryPage.open, pending |-> directoryPage.pending, table |-> directoryPage.table,
                              approve |-> directoryPage.approve, busy |-> FALSE]
        BY <1>4, <2>1, <3>1 DEF Directory!ImportDone
      <4> QED BY <1>3, <1>4, <4>1
    <3>2. CASE directoryImport.at # "failed"
      <4>1. directoryPage' = [open |-> directoryPage.open, pending |-> {}, table |-> directoryPage.table,
                              approve |-> FALSE, busy |-> FALSE]
        BY <1>4, <2>1, <3>2 DEF Directory!ImportDone
      <4> QED BY <1>3, <1>4, <1>5, <4>1
    <3> QED BY <3>1, <3>2
  <2>2. CASE Directory!ServeImport \/ Directory!Written
    BY <1>2, <2>2 DEF Directory!ServeImport, Directory!Written
  <2> QED BY <1>9, <2>1, <2>2 DEF Directory!Imports
<1>10. ASSUME NEW t \in LdapTests, Directory!Press(t) PROVE PageSound'
  <2>1. directoryPage' = [open |-> TRUE, pending |-> {}, table |-> {}, approve |-> FALSE, busy |-> directoryPage.busy]
    BY <1>4, <1>10 DEF Directory!Press
  <2> QED BY <1>3, <1>4, <1>5, <2>1
<1>11. ASSUME NEW t \in LdapTests, Directory!Answer(t) PROVE PageSound'
  <2> DEFINE list == directoryTests[t].list
             approve == directoryPage.approve \/ list # {}
  <2>1. Unambiguous(list) /\ list \in SUBSET Entries
    <3>1. TestSound(directoryTests[t]) /\ directoryTests[t].at \in Late
      BY <1>11 DEF DirectoryInv, TestsSound, Directory!Answer, Late
    <3>2. list = {} \/ \E x, y \in Replies : list = BothRead(x, y)
      BY <3>1 DEF TestSound, ListsRead
    <3>3. Unambiguous(list)
      <4> HIDE DEF list
      <4> QED BY <1>5, <3>2, ReadsAre
    <3> QED BY <3>3 DEF Unambiguous
  <2>2. directoryPage' = [open |-> directoryPage.open, pending |-> list, table |-> list,
                          approve |-> approve, busy |-> directoryPage.busy]
    BY <1>4, <1>11 DEF Directory!Answer
  <2>3. approve \in BOOLEAN /\ (list # {} => approve)
    OBVIOUS
  <2> HIDE DEF list, approve
  <2> QED BY <1>3, <1>4, <2>1, <2>2, <2>3
<1>12. ASSUME NEW t \in LdapTests, Directory!Works(t), ~Directory!Answer(t) PROVE PageSound'
  BY <1>2, <1>12 DEF Directory!Works, Directory!Ping, Directory!Bind, Directory!Discover, Directory!Cached,
     Directory!ReadAdmins, Directory!ReadMonitors, Directory!Cache, Directory!AnswerError, Directory!Step
<1>13. CASE UNCHANGED Directory!ldapVars
  BY <1>2, <1>13 DEF Directory!ldapVars
<1> QED BY <1>6, <1>7, <1>8, <1>9, <1>10, <1>11, <1>12, <1>13 DEF Directory!Next

-------------------------------------------------------------------------------
(* What is imported.                                                       *)

(* Who is known by mail alone is found by the account name as well, and    *)
(* nobody else becomes a user of that name.                                *)
LEMMA ServeKeeps ==
  ASSUME DirectoryInv, Directory!ServeImport
  PROVE  /\ directoryUsers' \in Roles
         /\ Carried(directoryImport.list, directoryUsers, directoryUsers')
<1>0. PICK first \in {"account", "mail"} :
        directoryUsers' = [n \in Directory!Names |->
          IF \E e \in directoryImport.list : Directory!UserOf(e.name, first) = n
          THEN (CHOOSE e \in directoryImport.list : Directory!UserOf(e.name, first) = n).role
          ELSE directoryUsers[n]]
  BY DEF Directory!ServeImport
<1> DEFINE l == directoryImport.list
           U(n) == Directory!UserOf(n, first)
<1>1. Unambiguous(l) /\ directoryUsers \in Roles
  BY DEF DirectoryInv, UsersSound, Directory!ServeImport, Working
<1>2. \A n \in Directory!Names :
        directoryUsers'[n] = IF \E e \in l : U(e.name) = n THEN (CHOOSE e \in l : U(e.name) = n).role
                             ELSE directoryUsers[n]
  BY <1>0
<1>3. directoryUsers' = [n \in Directory!Names |-> directoryUsers'[n]]
  BY <1>0
<1>4. \A e \in l : /\ e.name \in Directory!Names /\ e.name.as # "mail" /\ e.role \in {"admin", "monitor"}
                   /\ \A f \in l : e.name = f.name => e = f
  BY <1>1 DEF Unambiguous, Entries
<1>5. \A n \in Directory!Names : /\ n = [who |-> n.who, as |-> n.as]
                                 /\ [n EXCEPT !.as = "mail"] = [who |-> n.who, as |-> "mail"]
                                 /\ [n EXCEPT !.as = "mail"] \in Directory!Names
  BY DEF Directory!Names
<1>6. \A n \in Directory!Names :
        U(n) = IF /\ n.as = "account" /\ ~posix /\ directoryUsers[[n EXCEPT !.as = "mail"]] # "none"
                  /\ directoryUsers[n] # "none" => first = "mail"
               THEN [n EXCEPT !.as = "mail"] ELSE n
  BY DEF Directory!UserOf
<1> HIDE DEF l, U
<1>7. \A n \in Directory!Names : /\ U(n) \in Directory!Names /\ U(n).who = n.who
                                 /\ U(n).as = n.as \/ (n.as = "account" /\ U(n).as = "mail")
  BY <1>5, <1>6
<1>8. ASSUME NEW e \in l, NEW f \in l, U(e.name) = U(f.name) PROVE e = f
  <2>1. e.name.who = f.name.who
    BY <1>4, <1>7, <1>8
  <2>2. e.name.as = f.name.as
    BY <1>4, <1>7, <1>8
  <2>3. e.name = f.name
    BY <1>4, <1>5, <2>1, <2>2
  <2> QED BY <1>4, <2>3
<1>9. ASSUME NEW e \in l PROVE directoryUsers'[U(e.name)] = e.role
  <2>1. (CHOOSE f \in l : U(f.name) = U(e.name)) = e
    BY <1>8
  <2> QED BY <1>2, <1>4, <1>7, <2>1
<1>10. directoryUsers' \in Roles
  <2>1. \A n \in Directory!Names : directoryUsers'[n] \in {"none", "admin", "monitor"}
    <3> SUFFICES ASSUME NEW n \in Directory!Names PROVE directoryUsers'[n] \in {"none", "admin", "monitor"}
      OBVIOUS
    <3>1. CASE \E e \in l : U(e.name) = n
      BY <1>4, <1>9, <3>1
    <3>2. CASE ~\E e \in l : U(e.name) = n
      BY <1>1, <1>2, <3>2 DEF Roles
    <3> QED BY <3>1, <3>2
  <2> QED BY <1>3, <2>1 DEF Roles
<1>11. ASSUME NEW e \in l, ~posix, e.name.as = "account", directoryUsers[e.name] = "none",
              directoryUsers[[e.name EXCEPT !.as = "mail"]] # "none"
       PROVE  U(e.name).as = "mail" /\ directoryUsers'[e.name] = "none"
  <2>1. U(e.name) = [e.name EXCEPT !.as = "mail"]
    BY <1>4, <1>6, <1>11
  <2>2. U(e.name).as = "mail"
    BY <1>4, <1>5, <2>1
  <2>3. ASSUME NEW f \in l, U(f.name) = e.name PROVE FALSE
    <3>1. U(f.name) # [f.name EXCEPT !.as = "mail"]
      BY <1>4, <1>5, <1>11, <2>3
    <3>2. f.name = e.name
      BY <1>4, <1>6, <2>3, <3>1
    <3> QED BY <1>11, <2>2, <2>3, <3>2
  <2>4. directoryUsers'[e.name] = directoryUsers[e.name]
    BY <1>2, <1>4, <2>3
  <2> QED BY <1>11, <2>2, <2>4
<1>12. Carried(l, directoryUsers, directoryUsers')
  BY <1>4, <1>7, <1>9, <1>11 DEF Carried
<1> QED BY <1>10, <1>12 DEF l

LEMMA UsersKeep ==
  ASSUME DirectoryInv, [Directory!Next]_(Directory!ldapVars)
  PROVE  UsersSound'
<1>1. UsersSound /\ PageSound /\ posix' = posix
  BY DEF DirectoryInv, Directory!Next, Directory!ldapVars
<1>2. CASE UNCHANGED <<directoryImport, directoryUsers, directoryRoles>> /\ directoryPage'.busy = directoryPage.busy
  BY <1>1, <1>2 DEF UsersSound, Unambiguous, Carried
<1>3. CASE Directory!Edit \/ Directory!Save \/ Directory!Undo
  BY <1>2, <1>3 DEF Directory!Edit, Directory!Save, Directory!Undo, Directory!userVars
<1>4. CASE Directory!Close
  BY <1>1, <1>2, <1>4 DEF Directory!Close, Directory!userVars, PageSound
<1>5. CASE Directory!Approve
  <2>1. /\ directoryPage'.busy = TRUE
        /\ directoryImport' = [at |-> "sent", list |-> directoryPage.pending, before |-> directoryUsers]
        /\ UNCHANGED <<directoryUsers, directoryRoles>>
    BY <1>1, <1>5 DEF Directory!Approve, PageSound
  <2>2. directoryPage.pending \in SUBSET Entries /\ Unambiguous(directoryPage.pending)
    BY <1>1 DEF PageSound
  <2>3. Unambiguous(directoryImport'.list) /\ directoryImport'.at = "sent" /\ directoryImport'.before = directoryUsers
    BY <2>1, <2>2
  <2>4. directoryImport' \in [at : Working, list : SUBSET Entries, before : Roles]
    BY <1>1, <2>1, <2>2 DEF UsersSound, Working
  <2> QED BY <1>1, <2>1, <2>3, <2>4 DEF UsersSound, Working, Unambiguous
<1>6. CASE Directory!Imports
  <2>1. directoryImport.at \in Working
    BY <1>6 DEF Directory!Imports, Directory!ServeImport, Directory!Written, Directory!ImportDone, Working
  <2>2. /\ directoryImport \in [at : Working, list : SUBSET Entries, before : Roles]
        /\ Unambiguous(directoryImport.list)
        /\ directoryPage.busy
    BY <1>1, <2>1 DEF UsersSound
  <2>3. ASSUME NEW at \in {"writing", "imported", "failed"}, directoryImport' = [directoryImport EXCEPT !.at = at],
               directoryPage' = directoryPage, directoryUsers' \in Roles, directoryRoles' \in Roles,
               Carried(directoryImport.list, directoryImport.before, directoryUsers'),
               at = "imported" => directoryRoles' = directoryUsers'
        PROVE  UsersSound'
    <3>1. /\ directoryImport'.at = at /\ directoryImport'.list = directoryImport.list
          /\ directoryImport'.before = directoryImport.before
          /\ directoryImport' \in [at : Working, list : SUBSET Entries, before : Roles]
      BY <2>2, <2>3 DEF Working
    <3>2. Unambiguous(directoryImport.list)'
      BY <2>2, <3>1 DEF Unambiguous
    <3>3. Carried(directoryImport.list, directoryImport.before, directoryUsers)'
      BY <1>1, <2>3, <3>1 DEF Carried
    <3> QED BY <1>1, <2>2, <2>3, <3>1, <3>2, <3>3 DEF UsersSound, Working
  <2>4. CASE Directory!ServeImport
    <3>1. directoryImport.before = directoryUsers /\ directoryImport' = [directoryImport EXCEPT !.at = "writing"]
          /\ directoryPage' = directoryPage /\ directoryRoles' \in Roles
      BY <1>1, <2>4 DEF Directory!ServeImport, UsersSound
    <3> QED BY <2>3, <3>1, <2>4, ServeKeeps
  <2>5. CASE Directory!Written
    <3>1. /\ directoryUsers' = directoryUsers /\ directoryPage' = directoryPage
          /\ directoryUsers \in Roles /\ directoryRoles \in Roles
          /\ Carried(directoryImport.list, directoryImport.before, directoryUsers)
      BY <1>1, <2>5 DEF Directory!Written, UsersSound
    <3>2. CASE directoryImport' = [directoryImport EXCEPT !.at = "imported"] /\ directoryRoles' = directoryUsers
      BY <2>3, <3>1, <3>2
    <3>3. CASE directoryImport' = [directoryImport EXCEPT !.at = "failed"] /\ directoryRoles' = directoryRoles
      BY <2>3, <3>1, <3>3
    <3> QED BY <2>5, <3>2, <3>3 DEF Directory!Written
  <2>6. CASE Directory!ImportDone
    <3>1. directoryPage'.busy = FALSE /\ directoryImport' = Directory!NoImport
          /\ UNCHANGED <<directoryUsers, directoryRoles>>
      BY <1>1, <2>6 DEF Directory!ImportDone, PageSound
    <3> QED BY <1>1, <3>1 DEF UsersSound, Directory!NoImport, Working
  <2> QED BY <1>6, <2>4, <2>5, <2>6 DEF Directory!Imports
<1>7. ASSUME NEW t \in LdapTests, Directory!Press(t) \/ Directory!Works(t) PROVE UsersSound'
  <2>1. CASE Directory!Press(t) \/ Directory!Answer(t)
    BY <1>1, <1>2, <2>1 DEF Directory!Press, Directory!Answer, Directory!userVars, PageSound
  <2>2. CASE ~Directory!Press(t) /\ ~Directory!Answer(t)
    BY <1>2, <1>7, <2>2 DEF Directory!Works, Directory!Ping, Directory!Bind, Directory!Discover, Directory!Cached,
       Directory!ReadAdmins, Directory!ReadMonitors, Directory!Cache, Directory!AnswerError, Directory!Step,
       Directory!userVars
  <2> QED BY <2>1, <2>2
<1>8. CASE UNCHANGED Directory!ldapVars
  BY <1>2, <1>8 DEF Directory!ldapVars
<1> QED BY <1>3, <1>4, <1>5, <1>6, <1>7, <1>8 DEF Directory!Next

LEMMA DirectoryStep == DirectoryInv /\ [Directory!Next]_(Directory!ldapVars) => DirectoryInv'
<1> SUFFICES ASSUME DirectoryInv, [Directory!Next]_(Directory!ldapVars) PROVE DirectoryInv'
  OBVIOUS
<1>1. TestsSound'
  <2>1. CASE UNCHANGED directoryTests
    BY <2>1 DEF DirectoryInv, TestsSound, TestSound, ListsRead
  <2>2. CASE Directory!Edit \/ Directory!Save \/ Directory!Undo \/ Directory!Close \/ Directory!Approve \/ Directory!Imports
    BY <2>1, <2>2 DEF Directory!Edit, Directory!Save, Directory!Undo, Directory!Close, Directory!Approve,
       Directory!Imports, Directory!ServeImport, Directory!Written, Directory!ImportDone
  <2>3. ASSUME NEW t \in LdapTests, Directory!Press(t) \/ Directory!Works(t) PROVE TestsSound'
    BY <2>3, PressKeeps, EarlyKeeps, GroupsKeep, AnswersKeep DEF Directory!Works
  <2>4. CASE UNCHANGED Directory!ldapVars
    BY <2>1, <2>4 DEF Directory!ldapVars
  <2> QED BY <2>2, <2>3, <2>4 DEF Directory!Next
<1> QED BY <1>1, FormKeeps, PageKeeps, UsersKeep DEF DirectoryInv

(* Both groups read alike list an admin as admin. *)
LEMMA DirectoryIsSound == DirectoryInv => ImportSound
<1> SUFFICES ASSUME DirectoryInv PROVE ImportSound
  OBVIOUS
<1>1. Directory!TypeOK
  <2>1. directoryConfig.server \in Servers /\ directoryConfig.base \in Servers \cup {""}
    BY DEF DirectoryInv, FormSound, Settings, Bases
  <2>2. \A t \in LdapTests : directoryTests[t].open => directoryTests[t].at \in {"discover", "admins", "monitors"}
    BY DEF DirectoryInv, TestsSound, TestSound
  <2> QED BY <2>1, <2>2 DEF DirectoryInv, UsersSound, Directory!TypeOK, Roles, Working
<1>2. Directory!AdminFirst
  <2> SUFFICES ASSUME NEW t \in LdapTests, Len(directoryTests[t].read) = 2,
                      directoryTests[t].read[1] = directoryTests[t].read[2],
                      NEW e \in directoryTests[t].list, e.name.who \in Admins
               PROVE  e.role = "admin"
    BY DEF Directory!AdminFirst
  <2>1. TestSound(directoryTests[t]) /\ directoryTests[t].at \in Early \cup {"monitors"} \cup Late
    BY DEF DirectoryInv, TestsSound, TestSound, TestRecord, Stages
  <2>2. PICK x \in Replies, y \in Replies : directoryTests[t].read = <<x, y>> /\ directoryTests[t].list = BothRead(x, y)
    BY <2>1 DEF TestSound, ListsRead
  <2>3. x = y
    BY <2>2
  <2>4. CASE e \in AdminsRead(x)
    BY <2>4 DEF AdminsRead
  <2>5. CASE e \notin AdminsRead(x)
    <3>1. e.name \in Directory!Members(Monitors, x) /\ e.name \notin Directory!Members(Admins, x)
      BY <2>2, <2>3, <2>5 DEF BothRead
    <3> QED BY <3>1 DEF Directory!Members
  <2> QED BY <2>4, <2>5
<1>3. Directory!ApprovesShown
  BY DEF DirectoryInv, PageSound
<1>4. Directory!ImportedAsListed
  BY DEF DirectoryInv, UsersSound, Carried, Directory!ImportedAsListed, Directory!MailOnly
<1> QED BY <1>1, <1>2, <1>3, <1>4 DEF ImportSound

(* For any people, groups and servers, with any number of tests: what is   *)
(* approved is what the table shows, an admin of two groups that are read  *)
(* alike is listed as admin, and after an import each person of the list   *)
(* has a user of the listed role, the one with the mail if it was the only *)
(* one (lib/ldap.js, the route ldap/import of lib/routes/settings.js).     *)
THEOREM ImportKept == Directory!Spec => []ImportSound
<1>1. Directory!Spec => []DirectoryInv
  BY DirectoryInitial, DirectoryStep, PTL DEF Directory!Spec
<1> QED BY <1>1, DirectoryIsSound, PTL
===============================================================================
