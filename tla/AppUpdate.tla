------------------------------ MODULE AppUpdate ------------------------------
(***************************************************************************)
(* The update of the program from its page (lib/routes/system.js and the   *)
(* version section of public/app.js): the server asks the registry for the *)
(* newest version and keeps the answer, has Watchtower pull it, and is     *)
(* replaced by it; the page waits for another version and loads itself     *)
(* anew.                                                                   *)
(*                                                                         *)
(* Outside the program, as it uses them: the registry, Watchtower, the     *)
(* container that starts again when its process ends, and Node, which      *)
(* reports an error of a request that is destroyed before its response.    *)
(***************************************************************************)
EXTENDS Naturals

CONSTANTS
  MaxVersion,  \* bound: versions
  CacheTime,   \* ticks an answer of the registry is kept
  LimitTime,   \* ticks between two updates of an admin
  PollTime     \* ticks the page waits for another version

VARIABLES
  up, version,  \* the server's process
  released,     \* the newest version in the registry
  cache,        \* _versionCheckCache: [latest, left], NoCache
  limited,      \* ticks until an update is let through again
  watchtower,   \* "idle", "pulling", or "replaced": the next start is of the new version
  page,         \* the version section of the page
  triggered,    \* history: Watchtower has been reached since the limit began
  told,         \* history: what the last request for an update was told
  asked         \* history: an update has been asked for since the page was loaded

updateVars == <<up, version, released, cache, limited, watchtower, page, triggered, told, asked>>
serverVars == <<up, version, cache, limited, watchtower>>

NoCache == [latest |-> 0, left |-> 0]
Nothing == [current |-> 0, latest |-> 0]

-------------------------------------------------------------------------------
(* check and apply: the button is there, enabled, and does something.      *)
Fresh == [view |-> "plain", result |-> Nothing, check |-> TRUE, apply |-> FALSE,
          dialog |-> FALSE, busy |-> FALSE, poll |-> 0, checking |-> "no", applying |-> "no", answer |-> Nothing]
Offers(result) == result.latest > result.current
(* renderVersionCheckSection with a result *)
Rendered(p) == [p EXCEPT !.view = "result", !.check = TRUE, !.apply = Offers(p.result) /\ ~p.busy]

Init == /\ up = TRUE /\ version = 1 /\ released = 1 /\ cache = NoCache /\ limited = 0
        /\ watchtower = "idle" /\ page = Fresh
        /\ triggered = FALSE /\ told = "nothing" /\ asked = FALSE

(* The process ends: what was asked of it fails. *)
Broken(p) == [p EXCEPT !.checking = IF @ \in {"sent", "asking"} THEN "failed" ELSE @,
                       !.applying = IF @ \in {"sent", "asking"} THEN "failed" ELSE @]
Ends == up' = FALSE /\ cache' = NoCache /\ limited' = 0 /\ triggered' = FALSE

-------------------------------------------------------------------------------
(* checkForUpdates *)
Check == /\ page.check /\ ~page.dialog
         /\ page' = [page EXCEPT !.view = "loading", !.check = FALSE, !.apply = FALSE, !.checking = "sent"]
         /\ UNCHANGED <<serverVars, released, triggered, told, asked>>
Answered(result) == page' = [page EXCEPT !.checking = "answered", !.answer = result]
ServeCheck == /\ page.checking = "sent" /\ up
              /\ IF cache # NoCache THEN Answered([current |-> version, latest |-> cache.latest])
                 ELSE page' = [page EXCEPT !.checking = "asking"]
              /\ UNCHANGED <<serverVars, released, triggered, told, asked>>
RegistryAnswers == /\ page.checking = "asking"
                   /\ cache' = [latest |-> released, left |-> CacheTime]
                   /\ Answered([current |-> version, latest |-> released])
                   /\ UNCHANGED <<up, version, limited, watchtower, released, triggered, told, asked>>
RegistryFails == /\ page.checking = "asking" /\ page' = [page EXCEPT !.checking = "failed"]
                 /\ UNCHANGED <<serverVars, released, triggered, told, asked>>
(* The timer destroys the request and answers; the error of the request is *)
(* answered too, which a response that is finished refuses with an         *)
(* exception nobody catches.                                               *)
TimesOut == /\ page.checking = "asking" \/ page.applying = "asking"
            /\ Ends /\ page' = Broken(page)
            /\ UNCHANGED <<version, released, watchtower, told, asked>>
CheckDone == /\ page.checking = "answered"
             /\ page' = Rendered([page EXCEPT !.checking = "no", !.result = page.answer])
             /\ UNCHANGED <<serverVars, released, triggered, told, asked>>
CheckFailed == /\ page.checking = "failed"
               /\ page' = [page EXCEPT !.checking = "no", !.view = "error"]
               /\ UNCHANGED <<serverVars, released, triggered, told, asked>>

-------------------------------------------------------------------------------
(* applyUpdate: the button is used up, then a question is asked. *)
Press == /\ page.apply /\ ~page.dialog
         /\ page' = [page EXCEPT !.apply = FALSE, !.dialog = TRUE]
         /\ UNCHANGED <<serverVars, released, triggered, told, asked>>
Cancel == /\ page.dialog /\ page' = [page EXCEPT !.dialog = FALSE]
          /\ UNCHANGED <<serverVars, released, triggered, told, asked>>
Confirm == /\ page.dialog
           /\ page' = Rendered([page EXCEPT !.dialog = FALSE, !.busy = TRUE, !.applying = "sent"])
           /\ UNCHANGED <<serverVars, released, triggered, told, asked>>

(* The limit is taken before Watchtower is asked, which may not be there.  *)
Refuse == /\ page.applying = "sent" /\ up /\ limited > 0
          /\ page' = [page EXCEPT !.applying = "failed"]
          /\ told' = IF triggered THEN "refused after an update" ELSE "refused after none"
          /\ UNCHANGED <<serverVars, released, triggered, asked>>
ServeApply(reached) ==
  /\ page.applying = "sent" /\ up /\ limited = 0
  /\ limited' = LimitTime /\ triggered' = reached
  /\ told' = IF reached THEN "asking" ELSE "an error"
  /\ asked' = (asked \/ reached)
  /\ watchtower' = IF reached /\ watchtower = "idle" THEN "pulling" ELSE watchtower
  /\ page' = [page EXCEPT !.applying = IF reached THEN "asking" ELSE "failed"]
  /\ UNCHANGED <<up, version, cache, released>>
WatchtowerAnswers == /\ page.applying = "asking"
                     /\ page' = [page EXCEPT !.applying = "answered"]
                     /\ cache' = NoCache
                     /\ UNCHANGED <<up, version, limited, watchtower, released, triggered, told, asked>>
(* The new image is there: the container is stopped, to start with it.     *)
Replace == /\ watchtower = "pulling"
           /\ IF released > version
              THEN Ends /\ page' = Broken(page) /\ watchtower' = "replaced"
              ELSE watchtower' = "idle" /\ UNCHANGED <<up, cache, limited, triggered, page>>
           /\ UNCHANGED <<version, released, told, asked>>
Start == /\ ~up /\ up' = TRUE
         /\ version' = IF watchtower = "replaced" THEN released ELSE version
         /\ watchtower' = IF watchtower = "replaced" THEN "idle" ELSE watchtower
         /\ UNCHANGED <<released, cache, limited, page, triggered, told, asked>>

ApplyDone == /\ page.applying = "answered"
             /\ page' = Rendered([page EXCEPT !.applying = "no", !.poll = PollTime])
             /\ UNCHANGED <<serverVars, released, triggered, told, asked>>
ApplyFailed == /\ page.applying = "failed" \/ (page.applying = "sent" /\ ~up)
               /\ page' = Rendered([page EXCEPT !.applying = "no", !.busy = FALSE])
               /\ UNCHANGED <<serverVars, released, triggered, told, asked>>
Poll == /\ page.poll > 0 /\ up /\ version # page.result.current
        /\ page' = Fresh /\ asked' = FALSE
        /\ UNCHANGED <<serverVars, released, triggered, told>>
(* The page is loaded anew by hand. *)
Reload == /\ up /\ ~page.busy /\ page' = Fresh /\ asked' = FALSE
          /\ UNCHANGED <<serverVars, released, triggered, told>>

Less(n) == IF n = 0 THEN 0 ELSE n - 1
(* Faulty: the page begins to wait anew when its time is over. *)
FaultyTick == /\ limited + page.poll > 0 \/ cache # NoCache
              /\ limited' = Less(limited)
              /\ cache' = IF cache.left <= 1 THEN NoCache ELSE [cache EXCEPT !.left = @ - 1]
              /\ page' = [page EXCEPT !.poll = IF @ = 1 THEN PollTime ELSE Less(@)]
              /\ UNCHANGED <<up, version, released, watchtower, triggered, told, asked>>
Tick == /\ limited + page.poll > 0 \/ cache # NoCache
        /\ limited' = Less(limited)
        /\ cache' = IF cache.left <= 1 THEN NoCache ELSE [cache EXCEPT !.left = @ - 1]
        /\ page' = IF page.poll = 1 THEN Rendered([page EXCEPT !.poll = 0, !.busy = FALSE])
                   ELSE [page EXCEPT !.poll = Less(@)]
        /\ UNCHANGED <<up, version, released, watchtower, triggered, told, asked>>
Release == /\ released < MaxVersion /\ watchtower # "replaced"
           /\ released' = released + 1
           /\ UNCHANGED <<serverVars, page, triggered, told, asked>>

CheckServed == ServeCheck \/ RegistryAnswers \/ RegistryFails \/ (TimesOut /\ page.checking = "asking")
ApplyServed == Refuse \/ ServeApply(TRUE) \/ ServeApply(FALSE) \/ WatchtowerAnswers
               \/ (TimesOut /\ page.applying = "asking")
Next == \/ Check \/ Press \/ Cancel \/ Confirm \/ Reload \/ Release
        \/ CheckServed \/ CheckDone \/ CheckFailed
        \/ ApplyServed \/ ApplyDone \/ ApplyFailed
        \/ Replace \/ Start \/ Poll \/ Tick

(* Every request is answered or fails, timers go off, the container starts. *)
Spec == /\ Init /\ [][Next]_updateVars
        /\ WF_updateVars(CheckServed) /\ WF_updateVars(CheckDone) /\ WF_updateVars(CheckFailed)
        /\ WF_updateVars(ApplyServed) /\ WF_updateVars(ApplyDone) /\ WF_updateVars(ApplyFailed)
        /\ WF_updateVars(Replace) /\ WF_updateVars(Start) /\ WF_updateVars(Poll) /\ WF_updateVars(Tick)

-------------------------------------------------------------------------------
TypeOK == /\ version <= released /\ cache.latest <= released /\ limited <= LimitTime
          /\ cache = NoCache <=> cache.left = 0
          /\ page.busy => page.applying # "no" \/ page.poll > 0

(* The button that says "Updating..." does not say so for ever.            *)
BusyEnds == page.busy ~> ~page.busy

(* 'GHCR API timeout', 'Watchtower timeout'                                *)
(* (src/lib/routes/system.js:87, 157): a timeout is answered with 504; the *)
(* process ends for nothing but an update.                                 *)
EndsForUpdate == [][up /\ ~up' => watchtower' = "replaced"]_updateVars

(* "one-click Update Now button" (src/README.md:124): an update that is    *)
(* offered can be started by its button.                                   *)
ButtonWorks == page.view = "result" /\ Offers(page.result) /\ ~page.busy /\ ~page.dialog => page.apply

(* 'Update already triggered.' (src/lib/routes/system.js:107)              *)
RefusedAfterUpdate == told # "refused after none"

(* "The page polls `/api/health` and reloads automatically when the new    *)
(* version is detected" (src/README.md:484).                               *)
ReloadsItself == asked /\ version > page.result.current ~> page.result = Nothing
=============================================================================
