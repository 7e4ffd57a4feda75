----------------------------- MODULE MCDocuments ------------------------------
(***************************************************************************)
(* Checks the documents the server writes behind its back, with small sets *)
(* of jobs, one of which is there in a behaviour, from its start. One is   *)
(* about the events: both intervals, a flush outside persistMutex, a       *)
(* retention and a purge. Two have the shutdown: one with the routes that  *)
(* change and replace the sites, one with both intervals and a route. The  *)
(* last, for StateTokens.cfg, writes the API tokens.                       *)
(***************************************************************************)
EXTENDS StatePersistence, Integers

VARIABLE there  \* the jobs of this behaviour

Of(kind, d) == [kind |-> kind, doc |-> d, n |-> 1]
Changes(s, e, t) == [d \in Doc |-> CASE d = "sites" -> s [] d = "events" -> e [] d = "tokens" -> t]

SitesJobs == {Of("loop", "sites"), Of("remove", "sites"), Of("replace", "sites"), Of("stop", "sites")}
StopJobs == {Of("loop", "sites"), Of("loop", "events"), Of("remove", "sites"), Of("stop", "sites")}
EventsJobs == {Of("loop", "sites"), Of("loop", "events"), Of("patch", "sites"),
               Of("retain", "events"), Of("purge", "events")}
TokenJobs == {Of("loop", "tokens"), Of("mint", "tokens")}
Jobs == SitesJobs \cup StopJobs \cup EventsJobs
Most == Changes(2, 3, 2)

\* The bound of each set on the changes made to each document.
Bound == CASE there = SitesJobs -> Changes(2, 0, 0)
           [] there = StopJobs -> Changes(1, 1, 0)
           [] there = EventsJobs -> Changes(1, 3, 0)
           [] there = TokenJobs -> Changes(0, 0, 2)

DocumentsInit == Init /\ there \in {J \in {SitesJobs, StopJobs, EventsJobs, TokenJobs} : J \subseteq Job}

DocumentsNext == /\ Next /\ UNCHANGED there
                 /\ \A j \in Job \ there : phase'[j] = "idle"
                 /\ \A d \in Doc : mem'[d] <= Bound[d]

DocumentsSpec ==
  /\ DocumentsInit /\ [][DocumentsNext]_<<there, perVars>>
  /\ \A j \in Job : /\ WF_perVars(j \in there /\ StartWrite(j)) /\ WF_perVars(j \in there /\ WriteReturns(j))
                    /\ WF_perVars(j \in there /\ (RouteClears(j) \/ RouteTrailFails(j)))
  /\ \A j \in {i \in Job : i.kind = "loop"} :
       /\ WF_perVars(j \in there /\ LoopTick(j)) /\ WF_perVars(j \in there /\ LoopFlush(j))
       /\ SF_perVars(j \in there /\ doc[j] = j.doc /\ FlushWritten(j))
  /\ WF_perVars(Exit)
===============================================================================
