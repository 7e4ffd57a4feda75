------------------------------- MODULE MCPages --------------------------------
(***************************************************************************)
(* Checks the lock of a site on one installation of its agent, with three  *)
(* complete installations whose times are within a tie of their neighbours *)
(* and not of each other, one without an id between them, one without a time*)
(* and one with neither, and side by side with it what people see: the undo*)
(* of adding a location, the programs that the tools terminal runs on the  *)
(* host of a collector, and the status of the sites with its notices.  The *)
(* words are about one site with a protocol and every kind of request, the *)
(* rounds about two sites, which a deletion or an import takes away while  *)
(* they are polled; and the event log and the log files that the pages     *)
(* show.  They share no state, so a behaviour is one of one of them: "on"  *)
(* says which, from the start, and the others stand still.                 *)
(***************************************************************************)
EXTENDS InstallLock, SiteStatus

CONSTANTS p1, p2, locA, locB, a, b

VARIABLES
  on,  \* the component that moves
  sections, undoPage, keys, undone,
  installed, backend, run, tried, hits, passed, version, root, job, toolsTold,
  changes, commands,
  logNow, logRows, logThrottle, logStored, logCount, era, logMade,
  filesNow, file, waiting, writer, filesSeen, sweep, swept, filesFails, born,
  appended, filesLost, spent, purged, filesRaced

SixInstalls == {"a", "b", "c", "nameless", "undated", "bare"}
SixIds == [i \in SixInstalls |-> CASE i = "a" -> "ida" [] i = "b" -> "idb" [] i = "c" -> "idc"
                            [] i = "undated" -> "idu" [] OTHER -> "none"]
SixTimes == [i \in SixInstalls |-> CASE i = "a" -> 2 [] i = "b" -> 4 [] i = "c" -> 6
                            [] i = "nameless" -> 5 [] OTHER -> 0]

TwoSites == {a, b}
TwoSlots == <<"wan1", "gateway">>
OneProto == <<"netflow">>

\* Two programs of each kind.
Lookups == <<"nslookup", "dig">>
SpeedTests == <<"speedtest-cli", "speedtest">>
AddressProbes == <<[by |-> "curl", at |-> "web"], [by |-> "curl", at |-> "web"],
                   [by |-> "dig", at |-> "resolver"], [by |-> "nslookup", at |-> "resolver"]>>

\* Pages and new locations are told apart by nothing but their names.
Alike == Permutations({p1, p2}) \cup Permutations({locA, locB})

Undo == INSTANCE LocationUndo WITH
  Pages <- {p1, p2}, NewIds <- {locA, locB}, UndoLimit <- 1, MaxKeys <- 2,
  page <- undoPage
Tools == INSTANCE CollectorTools WITH
  Chain <- Lookups, Checked <- {"nslookup", "dig"}, Backends <- SpeedTests,
  Probes <- AddressProbes, Own <- "own", Resolver <- "resolver",
  MaxChanges <- 1, MaxCommands <- 2, told <- toolsTold

\* A throttled kind of events and the others.
Interval == [k \in {"syslog"} |-> 2]
LogCounts == [k \in {"syslog", "plain"} |-> IF k = "plain" THEN 2 ELSE 4]

Log == INSTANCE EventLog WITH
  Key <- {"syslog"}, Plain <- "plain", Interval <- Interval, Cap <- 2,
  Retention <- 2, MaxCount <- LogCounts, MaxTime <- 5, now <- logNow,
  events <- logRows, throttle <- logThrottle, count <- logCount,
  stored <- logStored, made <- logMade
Files == INSTANCE LogFiles WITH
  MaxLines <- 2, MaxSize <- 3, Retention <- 1, MaxId <- 5, MaxTime <- 3,
  MaxFails <- 1, now <- filesNow, seen <- filesSeen, fails <- filesFails,
  lost <- filesLost, raced <- filesRaced

undoVars == <<sections, undoPage, keys, undone>>
toolsVars == <<installed, backend, run, tried, hits, passed, version, root,
               job, toolsTold, changes, commands>>
logVars == <<logNow, logRows, logThrottle, logStored, logCount, era, logMade>>
filesVars == <<filesNow, file, waiting, writer, filesSeen, sweep, swept,
               filesFails, born, appended, filesLost, spent, purged, filesRaced>>
pagesVars == <<on, lockVars, undoVars, toolsVars,
               logVars, filesVars, vars>>

PagesInit ==
  /\ on \in {"lock", "undo", "tools", "words", "rounds", "log", "files"}
  /\ LockInit
  /\ Undo!Init
  /\ IF on = "tools" THEN Tools!Init
     ELSE installed = 0 /\ backend = 0 /\ run = 0 /\ tried = 0 /\ hits = 0
          /\ passed = 0 /\ version = 0 /\ root = 0 /\ job = 0 /\ toolsTold =
          0 /\ changes = 0 /\ commands = 0
  /\ IF on = "log" THEN Log!Init
     ELSE logNow = 0 /\ logRows = 0 /\ logThrottle = 0 /\ logStored = 0 /\
          logCount = 0 /\ era = 0 /\ logMade = 0
  /\ IF on = "files" THEN Files!Init
     ELSE filesNow = 0 /\ file = 0 /\ waiting = 0 /\ writer = 0 /\ filesSeen
          = 0 /\ sweep = 0 /\ swept = 0 /\ filesFails = 0 /\ born = 0 /\
          appended = 0 /\ filesLost = 0 /\ spent = 0 /\ purged = 0 /\
          filesRaced = 0
  /\ Init
  /\ on = "words" => sites \in {<<>>, <<<<a, 0>>>>}
  /\ on = "rounds" => \A o \in Obj : enabled[o] = {}
  /\ on \notin {"words", "rounds"} => sites = <<>> /\ \A o \in Obj : target[o] = NoHost

(* The words are about one site of the first generation.                   *)
WordsPart ==
  /\ Next
  /\ Range(sites') \subseteq {<<a, 0>>}

(* The rounds are about sites without a protocol, and one request that is  *)
(* not about the silence.                                                  *)
RoundsPart ==
  /\ Next
  /\ edits' <= 1 /\ fresh' = {} /\ silence' = "off"
  /\ \A o \in Obj : enabled'[o] = {}

LockMoves == /\ on = "lock" /\ LockNext
             /\ UNCHANGED <<on, undoVars, toolsVars, logVars, filesVars, vars>>
UndoMoves == /\ on = "undo" /\ Undo!Next
             /\ UNCHANGED <<on, lockVars, toolsVars, logVars, filesVars, vars>>
ToolsMoves == /\ on = "tools" /\ Tools!Next
              /\ UNCHANGED <<on, lockVars, undoVars, logVars, filesVars, vars>>
WordsMoves == /\ on = "words" /\ WordsPart
              /\ UNCHANGED <<on, lockVars, undoVars, toolsVars, logVars, filesVars>>
RoundsMoves == /\ on = "rounds" /\ RoundsPart
               /\ UNCHANGED <<on, lockVars, undoVars, toolsVars, logVars, filesVars>>
LogMoves == /\ on = "log" /\ Log!Next
            /\ UNCHANGED <<on, lockVars, undoVars, toolsVars, filesVars, vars>>
FilesMoves == /\ on = "files" /\ Files!Next
              /\ UNCHANGED <<on, lockVars, undoVars, toolsVars, logVars, vars>>

PagesNext == LockMoves \/ UndoMoves \/ ToolsMoves \/
  WordsMoves \/ RoundsMoves \/ LogMoves \/ FilesMoves

PagesSpec ==
  /\ PagesInit /\ [][PagesNext]_pagesVars

-------------------------------------------------------------------------------
(* A page that knew every location when it added one, which is still there *)
(* at the answer, takes back that one and none that was there before,      *)
(* whatever other pages add, and an undo that is under way and does not    *)
(* succeed is offered again.                                               *)
UndoTakesOwn == [](Undo!TypeOK /\ Undo!OwnWhenKnown) /\ Undo!UndoIsKept

(* One program of a lookup runs at most, and "not found" means that each was*)
(* missing, though "doctor" found none; a speed test without numbers has   *)
(* tried every backend; the public address is the own one when enough probes*)
(* found it; and an agent that can update itself is not updated by hand.   *)
ToolsSound ==
  on = "tools" => /\ Tools!LookupSound /\ Tools!SpeedtestSound
                  /\ Tools!AddressSound /\ Tools!StepsForLegacyOnly

(* The log keeps the newest rows, throttled events are all counted in some *)
(* row, and rows of one kind are an interval apart; an emptied log takes   *)
(* everything.  The lines of a log file stand in the order of their entries,*)
(* the file stays near its bound, and only what a sweep raced with is lost *)
(* of what is young.                                                       *)
LogsKept ==
  /\ on = "log" => /\ Log!TypeOK /\ Log!NewestRowsKept /\ Log!NumbersAddUp
                   /\ Log!RowsApart /\ Log!EmptyLogTakesAll
  /\ on = "files" => /\ Files!TypeOK /\ Files!LinesInOrder /\ Files!SizeBounded
                     /\ Files!KeptUnlessRaced
===============================================================================
