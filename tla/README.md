# CAJAL: specifications, model checking and proofs

CAJAL ("Cajal ICBM") is a network monitoring server: one Node.js process that ingests
telemetry, pings sites, drives collector agents at remote sites, notifies through web hooks
and keeps its documents in Postgres; its pages and its two agents belong to it.  This
directory holds TLA+ modules for the parts whose correctness depends on the order of events,
the TLC configurations that check them on small instances, and proofs, checked by TLAPS, that
hold for every size.

    tlc -workers 2 -config MCAgents.cfg MCAgents.tla     # one run
    tlapm SiteStatus.tla                                 # one module with proofs

Paths below are relative to the repository.

## 1. The system

One process runs everything on one thread.  A handler runs without interruption up to its
next `await`; between two awaits nothing else happens.  So an *action* of the models is what
happens between two awaits, and the interleavings are those of callbacks, timers, requests,
pollers and queries.  There is one copy of the state, `state` in `server.js` plus the module
state of `lib/`; what survives a crash is what has been written to Postgres or Redis.

| Component | State | What makes it hard |
|---|---|---|
| Mutex (`lib/mutex.js`) | `_locked`, `_queue` | handing over without unlocking |
| Command channel (`lib/agent.js:495`, `lib/routes/agent.js:235`) | rows per site, waiters, timers | leases that end while an answer is on its way; late, repeated and misdirected results; timers that outlive the table |
| Agent sessions (`lib/agent.js:480`) | `agentSessions`, `agentBySite`, rows in Postgres | two tables in step; queries nobody waits for, in any order; restarts |
| Install lock (`lib/auth.js:335`) | the installation a site belongs to | ties of times that are not transitive; the lock is stored later |
| Agents (`agent/`), their package and set-up (`lib/agent.js`) | a token, a file, a service | lost requests and answers; a file written between two restarts; programs that come and go |
| Documents (`lib/sites.js:552`, `server.js:837`, routes) | memory, dirty flags, rows | flags read and cleared around awaits; two levels of mutexes; documents with none; failures, crashes |
| Event log and log files (`lib/events.js`, `lib/logging.js`) | rows, throttle windows, queues | counts that must add up; a sweep beside the queue |
| Site status (`lib/monitoring.js:714`, `lib/notifications.js:563`) | status, heartbeat, telemetry flags | a poll that awaits while sites are deleted, imported, switched off |
| Web hook (`lib/notifications.js`) | posts under way | aborted posts that arrive all the same; nobody waits, so notices overtake |
| Boards, WAN tests, public IP (`lib/monitoring.js`) | last results | polls that overlap |
| SNMP rates, NetFlow, syslog (`lib/monitoring.js`, `lib/telemetry.js`) | counters, templates, a buffer | wrap and restart of counters; templates overtaken by records; messages cut anywhere |
| Rate limit, lockout (`lib/ratelimit.js`) | buckets, failures per identifier | windows that meet; two deadlines; a save between the check and the clearing |
| Web sessions, set-up tokens, API tokens (`lib/session.js`, `lib/auth.js`, `lib/tokens.js`) | sessions here and in Redis, tokens with stages, a list with a limit | commands to Redis that fail and that a restart overtakes |
| Users, settings, factory reset (`lib/routes/settings.js`, `lib/agent.js:1228`) | one document each | writes under a mutex beside writes without one |
| Start (`server.js`, `lib/storage.js`) | schema, documents | a failure or a crash between any two statements |
| Health, firewall report (`lib/health.js`) | a report in parts | what is read before a wait is used after it |
| Pages (`public/*.js`) | forms, timers, undo stacks, dialogs | answers that come in another order than they were asked |
| App update, LDAP (`lib/routes/system.js`, `lib/ldap.js`) | cache, limit; configuration, test steps | the process is replaced under its own request; a test that stores an older copy |

How they interact: routes and pollers call `runCollectorAgentTerminalCommand`, which queues a
command and awaits its promise; agents fetch commands by polling and answer by posting, each
request first passing the session tables, each registration the install lock; a deletion of a
site, a change of role or of the agent password clears sessions, queue and waiters of the site
together (`clearCollectorAgentSiteRuntime`); everything that changes a tracked document raises
a flag, which the intervals of `persistLoop` turn into writes under `AsyncMutex`; what is said
about a site goes to the event log and, unless silenced, to the web hook.

What makes the parts correct, in a sentence each: calls of a mutex run one at a time and in
order; a caller of the channel gets one answer, from the right site, to a command that was
handed out; a token is accepted while it is the one of its site, and never after it was
revoked; a stored document never goes back, and a change whose flag is clear is stored; the
last thing said of a site is its status; who signed out stays out; who is refused had used the
limit up; what is counted was sent.

## 2. The modules

Abstract specifications: `FifoLock` (a fair lock: a line of callers whose head may be inside)
and `CommandDelivery` (what the channel promises to a caller).  `AsyncMutex` refines the first,
`AgentCommands` the second.

| Module | What it models; what stands for what |
|---|---|
| `AsyncMutex` | `locked`, `queue` are the fields; `pc` where each call of `run` is.  Between getting the lock and starting, a caller is "granted": `resolve()` continues it in a microtask |
| `AgentCommands` | `queue` is `agentCommandQueue`, `pending` with `cmdSite` is `agentPending`, `timer` the due time of each `setTimeout`.  A result may be posted for any command ever handed out, again, late, on another site's session |
| `AgentSessions`, `AgentSessionStore` | the tables in memory; the same with `cajal_agent_sessions`, the INSERTs and DELETEs under way and restarts.  `expiresAt` is always `lastSeenAt` plus the TTL, so one is kept |
| `CollectorAgent` | the loops of both agents over a network that loses and delays, composed with `AgentCommands`.  One agent per site; a registration is refused while the site does not admit the agent (gone, another role, another password, a newer installation), and the agent asks on; another status of 4xx or 5xx, as of the limit of registrations, is `GiveUp`; the platform is chosen at the start |
| `CollectorTools` | what the Linux agent's commands run, and what the server makes of the output; one command and one update job at a time |
| `AgentInstall` | the package, its postinst, the set-up program, the unit and the file they share, on one host; installations lie further apart than the tie |
| `InstallLock` | the lock, its flush, a crash, an import; an installation is an id and a time |
| `StatePersistence` | sites, events and API tokens: a document is the number of its changes; `mem`, `dirty`, `disk`; a *job* is one piece of asynchronous work, `snap` the version in the array it was given |
| `UsersDocument`, `ConfigDocuments` | the users (with `markUserLastLogin`, which takes no mutex; Postgres backend); each document of settings, whose value is the number of the request that made it |
| `EventLog`, `LogFiles` | rows with throttle, cap and age (a flush is one step); a log file with its queue, the sweep and the purge, lines of one size |
| `SiteStatus` | heartbeat, telemetry, `deriveSiteStatus`, silence, the poller's walk over the array, every route that touches it.  A site is `<<id, g>>`, an object of generation `g`; notices of every kind are on; a restart is `Init` |
| `WebhookDelivery` | payload shapes, attempts, aborts; the channel behind the hook is external |
| `ServicePolls` | the boards of public services and of monitored locations |
| `WanWatch` | the slots of the speed tests (a tick is the shortest delay of the timer; recovery and limit are two); the watch of the public address, whose answers never go back in time; one collector each |
| `InterfaceRates`, `Telemetry` | a counter per device with wrap and restart; templates and records of one exporter, a record counts one unit; the bytes of one TCP connection |
| `RateLimit`, `LoginLockout` | fixed windows; the failures of an identifier with the routes that clear them |
| `WebSessions`, `LocalSetup`, `ApiTokens` | the Map and Redis with the commands under way (`wire`; the TTL in Redis is left out because the restore filters by it anyway); the two stages of a set-up token; the list of tokens with its limit; `writes` are those under way, each with the list it was given, stored in any order (`Land`) and then answered (`Done`), by routes, flush, shutdown and reset |
| `ServerStart` | retries, migrations, files taken over, seeding; the files hold both sites and devices or neither |
| `HealthChecks` | the firewall check, a diagnosis, the report |
| `DashboardRefresh`, `LocationUndo`, `LoginPage`, `AppUpdate`, `LdapImport` | the pages with the routes behind them; limits smaller than the code's (two loads; an undo stack of one; one page and account) |
| `ToolsTerminal` | a tools terminal of the page: its lines, the history under the arrow keys, the completion under Tab, the command it waits for; a text is its words, a word its letters |
| `LocationSections` | the sections of locations, which carry ids, names and two labels of an older format; a handler is one step |
| `Monitoring` | `CollectorAgent`, `WebhookDelivery`, `ServicePolls` and `DashboardRefresh` with their constants, their properties and the proofs about them |
| `RecordsProofs` | `WebSessions`, `LocalSetup`, `LoginLockout`, `ApiTokens`, `LdapImport`, `ServerStart` and `HealthChecks` likewise |
| `ProgressProofs`, `AgentsProofs` | the proofs about `AsyncMutex` and `RateLimit`; about `AgentSessions`, `AgentSessionStore` and `AgentInstall` |
| the end of `InstallLock`, `AgentCommands`, `StatePersistence`, `SiteStatus` | the proofs about the module itself |
| `MC*` | the instances TLC checks |

A *history* variable (`issued`, `used`, `told`, `seen`, `lost`, `raced`, ...) is read by
properties, or by guards that say what an agent or a browser can know, never by a decision of
the code.

Operators marked *Faulty* are changes somebody could plausibly make to the code.  Each is
paired with a property that must fail when it takes the place of the definition beside it, so
that every checked property is known to be able to fail.

## 3. The runs

Seven runs must pass.  Each checks several components *side by side*: the variable `on` says,
from the start, which one moves, and the others stand still.  Components of a run share no
variable, so this checks exactly what a run of each would, and its behaviours are theirs; it is
a way to keep the instances that belong together in one file, and never a composition.
Components that do interact are composed in one module (`CollectorAgent` with
`AgentCommands`, `AgentSessionStore` with `AgentSessions`).

| Run | Components and bounds | Properties |
|---|---|---|
| `MCProgress` | `AsyncMutex`, 4 callers; `RateLimit`, limit 2, window 3, 9 ticks; `LoginPage`; `AppUpdate`; `ToolsTerminal`, every text of three words | `LockSafety`, `ImplementsFifoLock`, `WaiterServed`; `LimitSafety`; `GetsIn`; `BusyEnds` |
| `MCAgents` | `AgentSessionStore`, 1 site, 3 tokens, 2 DELETEs under way; `AgentSessions`, 2 sites, 3 tokens; `AgentInstall` twice: set-ups with faults, and the cached package with edited scripts | `PresenceHasSession`, `RevivedInTime`; `SessionsAgree`, `SilentSessionGoes`; `InstallSound`, `InstalledRuns` |
| `MCMonitoring` | `AgentCommands`, 2 sites, 2 commands, lease 2, time-out 4; `CollectorAgent`, 2 commands, 2 faults; `WebhookDelivery`, 2 notices; `ServicePolls` twice, 2 rows, 2 polls; `DashboardRefresh`, 2 loads; `SiteStatus`, 2 sites deleted and created under the walk | `ChannelSafety`, `ImplementsDelivery`, `SettlesOrDropped`; `RunsReported`, `KeepsServing`; `WebhookSound`; `BoardsAgree`; `DashboardSound`; `EverySitePolled` |
| `MCDocuments` | `StatePersistence` twice: intervals, PATCH, retention, purge over 3 changes of the events; interval, DELETE, import, shutdown over 2 changes of the sites | `StateSafety`, `LockedDocsAdvance`, `DirtyIsFlushed` |
| `MCRecords` | `WebSessions`, `LocalSetup`, `LoginLockout`, `ApiTokens` twice: two tokens and two writes at one time; two tokens in use, or three in a list of two, with one write, `UsersDocument`, `ConfigDocuments`, `LocationSections`, `ServerStart`, the three parts of `HealthChecks` one by one, and `LdapImport` twice: two tests of groups of users under a form that stays, and one test of posix groups under a form that changes; one of two persons may be a user known by mail, by account name or by both | `SessionSafety`, `NothingComesBack`; one property per group, each the conjunction of the named properties of the modules |
| `MCMeasures` | `WanWatch`, 2 slots of 5 ticks, 2 rows kept, 2 polls of the address that moves 3 times; `InterfaceRates`, 2 devices, 2 polls; `Telemetry`, records between 2 addresses and 2 layouts, and 2 messages of up to 5 bytes | `WanReported`, `TrafficCounted` |
| `MCPages` | `InstallLock`, 6 installations; `LocationUndo` (two pages, two new ids, symmetric); `CollectorTools`; `EventLog`, `LogFiles`; `SiteStatus` twice: one site with every kind of request, two sites under the poller's walk | `InstallSafety`, `UndoTakesOwn`, `ToolsSound`, `LogsKept`, `Words`, `VisitsSound` |

In `LocationUndo` a request is served, stored and answered in steps of their own, so that the
answer to an addition is the list of a later moment, with what the other page added and deleted
meanwhile, and a write may fail after the memory was changed.  `UndoTakesOwn` is about the
additions of a page that knew every location when it was served and whose location nobody had
deleted at the answer; the others are what `UndoneIsOwn` is refuted by (below).  `MCPages` has a
`SYMMETRY`: its two pages and its two new locations differ in nothing but their names, and it
checks no liveness.

`CHECK_DEADLOCK FALSE` is set because these instances do stop: ids, ticks, changes and
requests run out.

**Why the bounds are enough.**  In the mutex, four callers give a holder, a head, a middle and
a last in the queue.  In the channel two commands can share a queue or not, and a time-out of
two leases lets a command be handed out, expire, be handed out again and time out while the
other one overtakes it.  With three tokens a site's agent can be replaced, and replaced again
after it expired; with two DELETEs, rows of two older registrations outlive the third, and a
restart finds them all.  Two changes per document let a write of the first be overtaken by one
of the second, three let events come before and after a purge.  A limit of two in a window of
three over nine ticks gives three windows that meet.  Three installations a tie apart from
their neighbours and not from each other, one nameless between them, show that ties do not add
up.  A counter of two values wraps within two readings.  Two polls of a board overlap.  Where
section 4 proves a property, its bounds do not matter.

**Five runs must fail**, each with one property that states what the repository says:

* `agent_commands_reset`: `performFactoryResetForDeployment` (`lib/agent.js:1310`) replaces
  the table of waiters; a timer of the old table finds nothing to reject, so "Timed out
  waiting for collector agent response" (`lib/agent.js:598`) is never delivered, and a WAN
  test in progress never sets its timer again (`lib/monitoring.js:1848`).
* `agent_loss`: "Send when a collector agent disconnects or expires."
  (`lib/constants.js:383`); the housekeeping prunes without a word.
* `agent_restart`: "collector agent sessions survive server restarts" (README.md:57); a row
  keeps the expiry of its registration, two minutes, whatever polls follow.
* `agent_setup`: "Service auto-enables/starts when config is valid" (README.md:750); the
  set-up leaves a file only root may read, and the service reads it as another user.
* `state_tokens`: "Write serialization via `AsyncMutex` on persist loop prevents concurrent
  state corruption" (README.md:86); the API tokens take no mutex.

Further statements of the repository that the models refute are kept as definitions, without a
run of their own; checking one on an instance of its module reproduces its counterexample:

| Definition | What the code does |
|---|---|
| `SiteStatus!DownAlwaysMeansFailed` | an import replaces the tables under a poll, which takes a missing entry for a failed ping (`lib/routes/backup.js:146`) |
| `WebSessions!ResetSignsOut` | the factory reset clears a Map nobody uses (`lib/agent.js:1274`) |
| `UsersDocument!StepIsStored` | `persistUsers` drops `totpLastUsedStep` (`lib/auth.js:256`) |
| `CollectorAgent!NotDuplicated`, `ReceivedIsRun` | a lease only delays the next hand-out; the Windows agent reads fields the answer does not have |
| `LogFiles!PurgedStaysOut` | the sweep writes back lines that were purged meanwhile (`lib/health.js:339`) |
| `ConfigDocuments!ResetWipes` | the LDAP document survives a factory reset |
| `ServerStart!SeedsOnlyMissing` | stored sites are replaced when only the devices are missing (`server.js:677`) |
| `WanWatch!FirstIsLatest`, `EverySlotPolled` | an older test may end last; a recovery poll over a slot skips it |
| `ApiTokens!ActiveStays` | revoked rows push an active one out (`lib/tokens.js:234`) |
| `Telemetry!TopInWindow` | top talkers stay after their window while nothing arrives |
| `LocationUndo!UndoneIsOwn`, `LatestFirst` | the undo guesses which location it added, and may run out of order (`public/app.js:7810`) |
| `AppUpdate!EndsForUpdate`, `ButtonWorks`, `RefusedAfterUpdate`, `ReloadsItself` | a time-out ends the process; the button works once; the limit counts failures; the page polls only after an answer |
| `LdapImport!AdminTakesPrecedence`, `BaseFits`, `SavedStays`, `FailedImport`, `UndoRestores` | a failed group demotes admins; the base DN of another server is kept; an older copy is stored; a failed import takes effect; the undo keeps the new password |
| `LoginPage!TryAgainWorks` | a wrong code uses the token up (`lib/routes/auth.js:467`) |

**Fairness.** Only what Node, Postgres and the network give: microtasks run, due timers fire,
intervals tick, queries and requests return (`lib/storage.js:327`, `agent/`: each has a
time-out).  Three things more are assumed, where they are needed and nowhere else.
`DirtyIsFlushed`: Postgres does not refuse for ever the document an interval is there for.
`GetsIn`: somebody who is at the login page tries again, with the right password and code in
the end, and is not kept out by failures for ever.  `KeepsServing`: faults are finitely many,
and the site admits the agent from some time on: with a password it no longer has, an agent is
refused for ever.
No agent, administrator or request is ever obliged to act otherwise.

## 4. The proofs

Eight modules hold proofs: `ProgressProofs`, `AgentCommands`, `AgentsProofs`, `InstallLock`,
`StatePersistence`, `SiteStatus`, `Monitoring` and `RecordsProofs`.  For each component there
is an inductive invariant, the proof that the initial predicate implies it and that every
action keeps it, and the theorems drawn from it.  TLC has checked each invariant on an
instance before it was proved.  The values of all constants, and with them the number of
callers, sites, tokens, installations, ids, jobs, rows and notices, are arbitrary; the bounds
of clocks and changes are in guards the proofs use for typing at most.

*The mutex and the limit* (`ProgressProofs`)

* **AsyncMutex** (`MutexSafe`, `MutexImplementsFifoLock`).  `MutexInv` is the type invariant
  with `MutualExclusion`, `LockedIffHeld` and `WaitersParked`.  None is inductive alone:
  handing over keeps exclusion only because the head of the queue waits (`WaitersParked`) and
  nobody else holds (`LockedIffHeld`).  The refinement maps the holder followed by the queue to
  the abstract line.
* **RateLimit** (`LimitKept`, `EndKept`).  `Windows` says of what passed that each request fell
  into its window, that windows do not overlap, and that requests `Limit` apart are of
  different ones; `Covers` that a bucket counts exactly the last ones.  Neither is inductive
  without the other: counting one more in a bucket adds to a window that has room only because
  the bucket counts all of that window.  Three windows are then needed for twice the limit, and
  the middle one takes a whole duration.  Assumed: limit and window are positive.

*Collectors* (`AgentCommands`, `AgentsProofs`, `InstallLock`, `Monitoring`)

* **AgentCommands** (`ChannelSafe`, `ChannelImplementsDelivery`).  Per site `QueueOK` says of a
  queue: its ids are those waiting for the site, each once, what was handed out precedes what
  was not, and leases add up against the timers.  With `WaiterArmed` this is inductive.  The
  refinement needs that a row in a queue belongs to a waiting caller.  Assumed: lease and
  time-out are positive.
* **CollectorAgent** (`RunsKept`).  `AgentInv` contains the invariant of the channel, whose
  lemmas are used for the queue of the agent's site.  `Accounted` says how often a command ran
  against how many of its results were lost, and that one run more is known only while nobody
  can hand the command out again; `InOrder` which rows of the queue were run; `Budgeted` how
  many registrations the failures still owe.  The bound on registrations alone is not
  inductive, since a registration that was given up may yet take the session away.  Whether
  the site admits the agent may change at any time.
* **AgentSessions, AgentSessionStore** (`SessionsMatchPresence`, `SessionsToldOnline`,
  `SessionsRevocationFinal`; `StorePresence`, `StoreRevival`).  In memory
  `PresenceMatchesSession` and `ToldOnlineWhileLive` are inductive with the fact that a live
  token was drawn before, and the action property follows from the same invariant.
  `PresenceMatchesSession` does not survive a restart that finds several rows of a site;
  `PresenceHasSession` does.  It needs `Drawn`: tokens in sessions, in rows or on their way
  there were drawn before, or a registration could take another site's session away.
* **AgentInstall** (`InstallKept`, `ConfigurationKept`).  `HostInv` orders the installations:
  the one that runs is not newer than the file, and a set-up on its way to the file has the
  newest of all, so that the lock refuses the service only between the two.  Writing is three
  steps: `write_env_file` empties the file, fills it and then changes its mode, so a full disk
  or a reboot in between leaves a configured host without its configuration.
  `ConfigurationKept` says that nothing else does.  `PackageInv` says
  that the cached package was read after the versions it stands for, and each request under
  way has its reads in that order.
* **InstallLock** (`LockKept`, `RefusalsKept`).  The naive "the lock is the newest accepted" is
  false within the tie.  The invariant bounds an accepted complete installation that is not the
  holder by the lock's time, strictly, and by a whole tie more when the lock has no id: what a
  nameless installation let in again was newer than it by more than the tie.  So the ties do
  not add up.  Hypothesis `OneNameless` of `LockKept`: at most one installation has a time and
  no id, which the set-up program never makes; with two of them, each within the tie of the
  next, the lock can drift down and `NewestHolds` and `ReplacedStaysOut` fail.  `RefusalsKept`
  proves the other two parts of `InstallSafety` without it.  Assumed: ids are drawn once.

*What is watched and said* (`SiteStatus`, `Monitoring`)

* **SiteStatus** (`WordsKept`, `VisitsKept`).  `WordsInv` needs, besides the property, that no
  two sites of `state.sites` share an id, or a notice about one would be the last word on the
  other, and that the poller holds known objects only (`AtSite`).  `VisitInv` follows the walk:
  what the poller has seen in this visit is what the tables say, unless they were replaced
  (`SeenKept`), and what it has before it was not decided after its removal (`Ahead`), since an
  array keeps its order when a deletion splices it and has no object twice.
* **WebhookDelivery** (`WebhookKept`).  That a channel gets a notice twice only after an abort
  needs `KnownUnlessAborted`: without an abort nothing is on its way, and nothing was taken
  before the answer that ends the notice.  The order of notices needs `OverStaysOver`: what was
  over when a notice was sent is neither posted nor on its way again.  `PostsCounted` counts
  posts against the attempts up to the present payload.  Assumed: at least one payload and one
  attempt.
* **ServicePolls** (`BoardsKept`).  While a poll runs alone, what was said of a row it spoke of
  agrees with what it got, and of the others with the board as it was (`AloneSound`); as soon
  as a second poll begins the claim is given up for the rows they share, which is what `raced`
  records.
* **DashboardRefresh** (`DashboardKept`).  The timer the page knows of is the one there is,
  and without one a refresh that sets it is under way.

*Who gets in* (`RecordsProofs`)

* **WebSessions** (`SessionsSafe`, `ExpiredNeverBack`).  What a property says of Redis is
  hidden behind the commands under way, so the invariant speaks of their end: `EndsAs(w, r,
  sid, v)` says that Redis holds `v` for an id once it carried `w` out.  Lemmas on plain
  sequences say that the last command about an id decides it, that a command about another id
  does not matter, and that carrying out, or the failure of another id's command, changes
  nothing.  `IInv` then says of each id: no copy anywhere has a later use than the last one
  (`Bounded`), Redis ends up with nothing or with the session as it was last used, which is the
  one in memory if there is one (`Current`), and with nothing once it was signed out; an id not
  issued yet is nowhere.  Each is needed: an SSO session that was never stored makes "nothing"
  possible; without `Bounded` a lost command could bring a session back after its idle time.
  All of it but `Bounded` is conditional on no command about the id having been lost, as the
  properties are.  `ExpiredNeverBack` is an action property: only a restart makes a session out
  of none, by a copy in Redis that is bounded by the last use.
* **LoginLockout and LocalSetup** (`LoginsKept`).  The row of an identifier is what is left of
  its failures, so `Counts` relates it to the sequence of them: while unlocked it counts those
  since its window began, all failures before being at least a window behind or paid for by a
  lock (`Behind`); once locked, `Threshold` of them lie in the window and the last one began
  the lock.  `Ready` is the row a failure is added to, pruned of what is over.  For a set-up
  token, `Staged` says that its entry and the save under way exclude each other, which is why
  each stage happens once, and what a factory reset leaves.
* **ApiTokens** (`TokensHeld`).  Nothing orders the writes of the list, and an older one may
  be stored last (`AllDocsAdvance`): then a revoked token is accepted after the next restart,
  and a new one is unknown.  The theorem says where this ends.  A change that begins while no
  list under way knows the token otherwise is `sure`; once answered, it holds whatever is
  stored, fails, or is lost with the process from then on.  `Listed` says it of a list: it is
  ordered by age, holds the newest tokens up to the limit, and those that are over are revoked
  or expired in it.  It holds of the list in memory and of every list under way for all that
  was answered or will be (`Over`, `Held` of the writes), and of the stored list for what was
  answered or has landed; so a landing may put any list under way in its place.  All lists
  agree about when a token expires (`Agree`), or a restart could lengthen a life; the time of
  last use is less than the throttle behind (`Stamped`).
* **LdapImport** (`ImportKept`).  `ListsRead` says of a test at each of its steps that its list
  is what it has read of the groups so far, with everybody once (`Unambiguous`), and `PageSound`
  that the dialog keeps such a list from the answer of a test to its approval.  `Carried` says
  of an import from the first user it writes that each entry has become a user of the listed
  role, and that whoever was known by mail alone keeps that user.  It is the list without doubles
  that makes it inductive: a second entry for a name would undo what the first one did.
  Assumed: the groups are of people of the directory, and the first server is one of them.

*How the server starts and what it tells of itself* (`RecordsProofs`)

* **ServerStart** (`StartKept`).  `Schema` and `Migrated` say at which step how many of the
  migrations are applied and recorded: the recorded ones are always the first few, and one
  more may have been applied, whatever ended the earlier starts.  `Seeding` says what the list
  of missing documents is worth while it is worked off, and `DefaultsExplained` that a document
  with a file became the default only with a failure on record.  Assumed: both of sites and
  devices are seeded, and there is at least one document, one migration and one attempt.
* **HealthChecks** (`HealthKept`).  `FirewallSeen`: the output of each command is what it
  prints of the host as it was at some time of the check, and ufw is at most switched on and
  off meanwhile.  A verdict of three outputs taken at three times is then compared, row by row,
  with what ufw would do at each of those times; lemmas say what a row that lets a source in
  says of the rules, and what a missing one does.  `Diagnosed` keeps, for two sites that take
  one source, that the later change was told of it; `Reported` that a report without a fault
  had the database answering.

*Documents* (`StatePersistence`)

* **StatePersistence** (`StateSafe`, `StoredDocsAdvance`, ...).  `LineOK` is the heart: along
  the line of a mutex the versions held grow, from what is stored to what is in memory, only
  the head writes, and a purge holds strictly more than all before it.  `Clearing` adds that a
  job which will clear a flag has stored what it held or is on record in `raced`, `Stopping`
  what the shutdown has stored when it comes to each document, and `Loops` that an interval
  past waiting heads `persistMutex`.  Assumed: kinds of work go with their documents, and the
  shutdown runs once (`shuttingDown`).

**Only model-checked.**  Liveness (`WaiterServed`, `GetsIn`, `BusyEnds`, `SettlesOrDropped`,
`KeepsServing`, `EverySitePolled`, `DirtyIsFlushed`, `SilentSessionGoes`, `InstalledRuns`)
needs fairness and `ENABLED`, which are out of the prover's reach.  Of the safety properties:

* `LogsKept`, `TrafficCounted`: the numbers in the rows of the log, the bytes of a stream and
  the talkers of a window add up by folds over sequences, about which nothing can be proved
  without induction over data.
* `WanReported`, `ToolsSound`: a vote among probes and the slots of a history are chosen by
  recursive functions and `SelectSeq`.
* `DocumentsKept` (with the second half of `NothingComesBack`), `UndoTakesOwn`:
  nothing in them is out of reach in principle.  The documents rest on relations between the
  writes of the mutexes and those beside them that have not been worked out for every number
  of writes under way.

`SessionsAgree` instantiates what `SessionsMatchPresence`, `SessionsToldOnline` and
`SessionsRevocationFinal` prove; the proved names of the other properties are in
`PROJECT.json`.

## 5. What is not modelled

* The meter of syslog packets, SNMP traps, rendering, parsing, formatting, validation,
  cryptography, SMTP, SSO, the HTTP server and router: no protocol of their own between steps,
  or none beyond what the modules here take for granted.
* A query that fails at the client after its time-out is taken to have run or never to run.
  Postgres could in principle finish it later; `lib/storage.js:327` gives the server the same
  limit as the client.
* In `AgentSessions` the process does not restart; in `AgentSessionStore` it does, with any
  sites.  In `AgentCommands` no site is created or deleted, `ClearSite` being all a deletion
  means to the channel.
* `LastWordStands` (`SiteStatus`) has three recorded gaps: the change was silenced, the site
  came with a status of its own (creation, import), or a poller that held a removed object
  spoke for its id.
* `Telemetry` leaves out the trimming of lines and drops what matches no site; `ApiTokens`
  the scopes and addresses, and a write under way when the process ends is stored before or
  lost; `HealthChecks` the figures of the process; `CollectorTools` the
  Windows agent.
* Seen while reading and outside the models: the download of the package with `curl`
  (README.md:743) and the update of the agent (README.md:766) reach a route that asks for a
  login (`lib/routes/agent.js:51`); the Windows agent assigns `$host`, which is read-only, and
  uses `Sort-Object -Stable`, which PowerShell 5.1 does not have.

## 6. Plan

Done: the modules above, their runs, and proofs for the mutex, the rate limit, the command
channel, the agents with their sessions, installation and lock, the status of the sites, the
web hook, the boards, the dashboard, everything that lets somebody in, the import, the start, the health
checks and the persistence of state.  What would come next:

1. `UsersDocument`: that the stored users are those in memory unless writes raced, by an
   invariant over the line of its mutex like `LineOK`.
2. `WanWatch`: that a change is reported once.
3. `ConfigDocuments`: the same as 1 for two jobs that write several documents one by one.
