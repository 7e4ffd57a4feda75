--------------------------- MODULE DashboardRefresh ---------------------------
(***************************************************************************)
(* The refresh of the dashboard in one page (public/app.js): a timer that  *)
(* is set again after every refresh, the buttons that refresh at once, and *)
(* the loads after a change made in the page.  Each of them runs           *)
(* loadDashboard over several requests; they overlap, and their answers    *)
(* may arrive in another order than the server gave them.                  *)
(*                                                                         *)
(* What the server has is a version number.  Every request is answered or  *)
(* fails at some time: fetch is given no time-out, and the browser has its *)
(* own.                                                                    *)
(***************************************************************************)
EXTENDS Naturals, FiniteSets

CONSTANTS
  Slots,       \* bound: loads at a time
  MaxVersion,  \* bound: changes of what the server has
  MaxFailures  \* bound: requests that fail

VARIABLES
  server,    \* external: the version the server has
  failures,  \* the bound MaxFailures counts here
  timers,    \* how many timers of scheduleAutoRefresh are pending
  current,   \* autoRefreshTimer is one of them
  manualGlobalRefreshInFlight,
  editing,   \* an editor is open, an input of a tile has the focus, or none
  load,      \* the calls of loadDashboard under way
  sites,     \* the version of the variable sites
  tiles      \* the version the tiles were rendered from

timerVars == <<timers, current>>
vars == <<server, failures, timerVars, manualGlobalRefreshInFlight, editing, load, sites, tiles>>

Idle == [kind |-> "none", at |-> "idle", rows |-> 0]
Kinds == {"timer", "clock", "sync", "edit"}
IdleSlots == {l \in Slots : load[l] = Idle}

(* initialize has ended; its own load may have failed. *)
Init ==
  /\ server \in 0..1 /\ failures = 0
  /\ timers = 1 /\ current = TRUE
  /\ manualGlobalRefreshInFlight = FALSE
  /\ editing = "none"
  /\ load = [l \in Slots |-> Idle]
  /\ sites = 0 /\ tiles = 0

-------------------------------------------------------------------------------
FaultySchedule == timers' = timers + 1 /\ current' = TRUE
FaultyScheduleNone == timers' = (IF current THEN timers - 1 ELSE timers) /\ current' = TRUE
(* scheduleAutoRefresh: the timer it knows of is cleared. *)
Schedule == /\ timers' = (IF current THEN timers - 1 ELSE timers) + 1
            /\ current' = TRUE

Begin(l, kind) == load' = [load EXCEPT ![l] = [kind |-> kind, at |-> "sent", rows |-> 0]]

(* The timer fires. *)
Fire == /\ timers > 0 /\ timers' = timers - 1
        /\ current' \in IF timers = 1 THEN {FALSE} ELSE BOOLEAN
        /\ \E l \in IdleSlots : Begin(l, "timer")
        /\ UNCHANGED <<server, failures, manualGlobalRefreshInFlight, editing, sites, tiles>>

(* The button of the clock, unless its last refresh is under way. *)
ManualRefresh == /\ ~manualGlobalRefreshInFlight /\ manualGlobalRefreshInFlight' = TRUE
                 /\ Cardinality(IdleSlots) >= 2 /\ \E l \in IdleSlots : Begin(l, "clock")
                 /\ UNCHANGED <<server, failures, timerVars, editing, sites, tiles>>
(* The button Sync, and what follows a change made in this page. *)
Refresh(kind) == /\ Cardinality(IdleSlots) >= 2 /\ \E l \in IdleSlots : Begin(l, kind)
                 /\ UNCHANGED <<server, failures, timerVars, manualGlobalRefreshInFlight, editing, sites, tiles>>

(* The settings of the page are saved or loaded: another interval. *)
NewInterval == /\ Schedule
               /\ UNCHANGED <<server, failures, manualGlobalRefreshInFlight, editing, load, sites, tiles>>

(* external: someone changes what the server has; it answers /api/sites. *)
Change == /\ server < MaxVersion /\ server' = server + 1
          /\ UNCHANGED <<failures, timerVars, manualGlobalRefreshInFlight, editing, load, sites, tiles>>
Serve(l) == /\ load[l].at = "sent" /\ load' = [load EXCEPT ![l].at = "answered", ![l].rows = server]
            /\ UNCHANGED <<server, failures, timerVars, manualGlobalRefreshInFlight, editing, sites, tiles>>

Answer(l) == /\ load[l].at = "answered" /\ load' = [load EXCEPT ![l].at = "statuses"]
             /\ sites' = load[l].rows
             /\ UNCHANGED <<server, failures, timerVars, manualGlobalRefreshInFlight, editing, tiles>>

FaultyEnds(l) == /\ load' = [load EXCEPT ![l] = Idle]
                 /\ IF load[l].kind = "edit" \/ load[l].at # "health" THEN UNCHANGED timerVars ELSE Schedule
                 /\ manualGlobalRefreshInFlight' = (manualGlobalRefreshInFlight /\ load[l].kind # "clock")
(* The callback of a load, whether it went well or not. *)
Ends(l) == /\ load' = [load EXCEPT ![l] = Idle]
           /\ IF load[l].kind = "edit" THEN UNCHANGED timerVars ELSE Schedule
           /\ manualGlobalRefreshInFlight' = (manualGlobalRefreshInFlight /\ load[l].kind # "clock")

FaultySkipTileRender(kind) == editing # "none" \/ kind = "timer"
(* A refresh of the timer or the clock leaves the tiles in which someone   *)
(* is typing.                                                              *)
SkipTileRender(kind) == kind \in {"timer", "clock"} /\ editing # "none"

(* Both lists of statuses are there, or have failed: render what is in     *)
(* sites by now.                                                           *)
Render(l) == /\ load[l].at = "statuses"
             /\ tiles' = IF SkipTileRender(load[l].kind) THEN tiles ELSE sites
             /\ IF load[l].kind = "edit" THEN Ends(l)
                ELSE /\ load' = [load EXCEPT ![l].at = "health"]
                     /\ UNCHANGED <<timerVars, manualGlobalRefreshInFlight>>
             /\ UNCHANGED <<server, failures, editing, sites>>
(* loadSystemHealth never throws. *)
Health(l) == /\ load[l].at = "health" /\ Ends(l)
             /\ UNCHANGED <<server, failures, editing, sites, tiles>>
Fails(l) == /\ load[l].at \in {"sent", "answered"}
            /\ failures < MaxFailures /\ failures' = failures + 1
            /\ Ends(l)
            /\ UNCHANGED <<server, editing, sites, tiles>>

(* An editor is opened or closed, which renders; an input gains or loses   *)
(* the focus, which does not.                                              *)
Editor == /\ editing' = (IF editing = "editor" THEN "none" ELSE "editor")
          /\ tiles' = sites
          /\ UNCHANGED <<server, failures, timerVars, manualGlobalRefreshInFlight, load, sites>>
Focus == /\ editing # "editor" /\ editing' = (IF editing = "none" THEN "focus" ELSE "none")
         /\ UNCHANGED <<server, failures, timerVars, manualGlobalRefreshInFlight, load, sites, tiles>>

Next == \/ Fire \/ ManualRefresh \/ Refresh("sync") \/ Refresh("edit") \/ NewInterval
        \/ Change \/ Editor \/ Focus
        \/ \E l \in Slots : Serve(l) \/ Answer(l) \/ Render(l) \/ Health(l) \/ Fails(l)

(* The browser fires its timers, the server answers.  Nobody need press a  *)
(* button.                                                                 *)
Fairness == /\ WF_vars(Fire)
            /\ \A l \in Slots : WF_vars(Serve(l) \/ Answer(l) \/ Render(l) \/ Health(l))

Spec == Init /\ [][Next]_vars /\ Fairness

-------------------------------------------------------------------------------
TypeOK == /\ {sites, tiles} \subseteq 0..server
          /\ timers \in Nat /\ (current => timers > 0)
          /\ \A l \in Slots : load[l] = Idle \/ load[l].kind \in Kinds

(* Whatever ends in whatever order, there is never more than one timer,    *)
(* and one is pending unless a refresh is under way that will set it.      *)
OneTimer == /\ timers <= 1
            /\ timers = 0 => \E l \in Slots : load[l].kind \in Kinds \ {"edit"}

(* The page refreshes itself for ever, whatever fails.                     *)
GoesOn == []<>(\E l \in Slots : load[l].kind = "timer")

(* Once the server no longer changes and nobody types, the tiles come to   *)
(* show what the server has and stay so, in whatever order the answers     *)
(* arrive.                                                                 *)
Settles == <>[](editing = "none") => <>[](tiles = server)
=============================================================================
