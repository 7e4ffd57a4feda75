----------------------------- MODULE MCMonitoring -----------------------------
(***************************************************************************)
(* Checks the command channel of two sites with two commands, and side by  *)
(* side with it the agent of one site with its failures, the delivery of two*)
(* notices in three shapes with two attempts each, of which two posts are  *)
(* aborted (an old notice can still be retried, and another copy of it on  *)
(* the wire, while the next one is sent), the boards of two public services*)
(* or of two monitored locations with two polls at a time, the dashboard   *)
(* with two loads at a time, and the polling of two sites that are created,*)
(* deleted, moved and given other targets. They share no state, so a       *)
(* behaviour is one of one of them: "on" says which, from the start, and   *)
(* the others stand still.                                                 *)
(***************************************************************************)
EXTENDS Monitoring

CONSTANTS c1, c2, a, b, p1, p2, r1, r2, NoHost

VARIABLES
  on,  \* the component that moves
  sites, status, target, enabled, tele, fresh, flow, hb, wan, walk, silence,
  told, gaps, word, wiped, seen, swapped, ghosts, known, edits

Slots == <<"wan1", "gateway">>
Both == <<r1, r2>>

Polling == INSTANCE SiteStatus WITH
  Id <- {a, b}, Slots <- Slots, Protos <- <<>>, MaxGen <- 0, MaxEdits <- 1,
  Requests <- {"create", "delete", "section", "target"}

agentVars == <<agentNow, agentQueue, agentPending, agentCmdSite, agentTimer,
               agentPromise, agentAnswer, agentIssued, platform, admits,
               doing, cmd, reply, holds, valid, late, runs, unheard, missed, sessions,
               faults>>
webhookVars == <<phase, shape, attempt, log, wire, posts, aborts, before>>
servicesVars == <<public, conf, shown, poll, serviceEdits, spoken, raced, again>>
dashboardVars == <<server, failures, timers, current,
                   manualGlobalRefreshInFlight, editing, load, dashboardSites,
                   tiles>>
pollingVars == <<sites, status, target, enabled, tele, fresh, flow, hb, wan,
                 walk, silence, told, gaps, word, wiped, seen, swapped, ghosts,
                 known, edits>>
monitoringVars == <<on, cmdVars, agentVars, webhookVars, servicesVars, dashboardVars, pollingVars>>

MonitoringInit ==
  /\ on \in {"channel", "agent", "webhook", "services", "dashboard", "polling"}
  /\ Init
  /\ Agent!Init /\ (on # "agent" => platform = "linux" /\ admits)
  /\ Webhook!Init
  /\ Services!Init /\ (on # "services" => public = TRUE /\ conf = {r1})
  /\ Dashboard!Init /\ (on # "dashboard" => server = 0)
  /\ Polling!Init /\ (on # "polling" => sites = <<>> /\ \A o \in DOMAIN target : target[o] = NoHost)

ChannelMoves == /\ on = "channel" /\ Next
                /\ UNCHANGED <<on, agentVars, webhookVars, servicesVars,
                               dashboardVars, pollingVars>>
AgentMoves == /\ on = "agent" /\ Agent!Next
              /\ UNCHANGED <<on, cmdVars, webhookVars, servicesVars,
                             dashboardVars, pollingVars>>
WebhookMoves == /\ on = "webhook" /\ Webhook!Next
                /\ UNCHANGED <<on, cmdVars, agentVars, servicesVars,
                               dashboardVars, pollingVars>>
ServicesMoves == /\ on = "services" /\ Services!Next
                 /\ UNCHANGED <<on, cmdVars, agentVars, webhookVars,
                                dashboardVars, pollingVars>>
DashboardMoves == /\ on = "dashboard" /\ Dashboard!Next
                  /\ UNCHANGED <<on, cmdVars, agentVars, webhookVars,
                                 servicesVars, pollingVars>>
PollingMoves == /\ on = "polling" /\ Polling!Next
                /\ UNCHANGED <<on, cmdVars, agentVars, webhookVars,
                               servicesVars, dashboardVars>>

MonitoringNext == ChannelMoves \/ AgentMoves \/ WebhookMoves \/ ServicesMoves \/ DashboardMoves \/ PollingMoves

MonitoringSpec ==
  /\ MonitoringInit /\ [][MonitoringNext]_monitoringVars
  /\ \A c \in Cmd : WF_cmdVars(on = "channel" /\ TimerFires(c) /\ UNCHANGED now)
  /\ WF_cmdVars(on = "channel" /\ Tick)
  /\ WF_agentVars(on = "agent" /\ Agent!Loop /\ UNCHANGED <<platform, admits>>)
  /\ WF_agentVars(on = "agent" /\ Agent!Handle /\ UNCHANGED <<platform, admits>>)
  /\ WF_pollingVars(on = "polling" /\ Polling!ApplyFlowStatus)
  /\ WF_pollingVars(on = "polling" /\ Polling!Poll)
  /\ WF_pollingVars(on = "polling" /\ Polling!Housekeeping)

-------------------------------------------------------------------------------
(* Whatever failed, an agent that the site lets in from some time on comes *)
(* back: again and again it polls with a token the server accepts.         *)
KeepsServing == on # "agent" \/ Agent!KeepsServing

(* A site that stays is polled again and again, although deletions of others*)
(* make a round skip it.                                                   *)
EverySitePolled == on # "polling" \/ Polling!EverySitePolled
===============================================================================
