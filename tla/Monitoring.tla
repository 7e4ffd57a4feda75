------------------------------ MODULE Monitoring ------------------------------
(***************************************************************************)
(* What the server does while it watches: an agent at the command channel  *)
(* of its site (CollectorAgent) and the delivery of notices by the web hook*)
(* (WebhookDelivery), for any commands, leases, notices and failures, with *)
(* the properties of both and their proofs.                                *)
(*                                                                         *)
(* The agent's invariant has the one of the channel, AgentCommands, in it: *)
(* its lemmas are used for the queue of the agent's site.  On top of that  *)
(* it says what the agent is at (Stages), how many registrations are still *)
(* owed (Budgeted), how the runs of a command and its lost results go      *)
(* together (Accounted), and which rows of the queue were run (InOrder).   *)
(***************************************************************************)
EXTENDS AgentCommands

CONSTANTS
  office,    \* the agent's site
  NoCmd,
  AgentLease, AgentTimeout, AgentTime, AgentFaults,  \* its channel and the bounds of CollectorAgent
  Notices, Shapes, Attempts, MaxAborts,
  Rows, Optional, Polls, MaxServices,  \* the boards and the bound of the requests that change them
  Loads, MaxVersion, MaxFailures       \* of the dashboard

VARIABLES
  agentNow, agentQueue, agentPending, agentCmdSite, agentTimer, agentPromise,
  agentAnswer, agentIssued, platform, admits, doing, cmd, reply, holds, valid, late,
  runs, unheard, missed, sessions, faults,
  phase, shape, attempt, log, wire, posts, aborts, before,
  public, conf, shown, poll, serviceEdits, spoken, raced, again,
  server, failures, timers, current, manualGlobalRefreshInFlight, editing,
  load, dashboardSites, tiles

Agent == INSTANCE CollectorAgent WITH
  S <- office, Lease <- AgentLease, Timeout <- AgentTimeout,
  MaxTime <- AgentTime, MaxFaults <- AgentFaults, now <- agentNow,
  queue <- agentQueue, pending <- agentPending, cmdSite <- agentCmdSite,
  timer <- agentTimer, promise <- agentPromise, answer <- agentAnswer,
  issued <- agentIssued

Webhook == INSTANCE WebhookDelivery

Services == INSTANCE ServicePolls WITH
  MaxEdits <- MaxServices, edits <- serviceEdits, told <- spoken

Dashboard == INSTANCE DashboardRefresh WITH Slots <- Loads, sites <- dashboardSites

(* A command id is drawn at random (lib/agent.js:571), a request is none.  *)
ASSUME AgentAssumption ==
  /\ office # NoSite /\ NoCmd \notin Cmd /\ Cmd \cap {"register", "poll"} = {}
  /\ AgentLease \in Nat \ {0} /\ AgentTimeout \in Nat \ {0} /\ AgentTime \in Nat
  /\ AgentFaults \in Nat

(* At least one payload and one attempt.                                   *)
ASSUME NoticesAssumption ==
  Notices \in Nat /\ Shapes \in Nat \ {0} /\ Attempts \in Nat \ {0}

ASSUME ServicesAssumption == MaxServices \in Nat

-------------------------------------------------------------------------------
(* A command is run again only after the result of a run was lost, and     *)
(* whoever waits for it gets the result of a run of it; commands start in  *)
(* the order in which they were queued, but for one whose answer was lost; *)
(* the agent registers at most twice for each failure.                     *)
RunsReported ==
  /\ Agent!TypeOK /\ Agent!RerunAfterLossOnly
  /\ Agent!ResolvedWasRun /\ Agent!StartedInOrder
  /\ Agent!SessionsBounded

(* A notice that is logged as sent was taken by its channel, and twice only*)
(* when a post of it went without an answer; one that fails was posted in  *)
(* every shape, none too often; and an offline does not come after the     *)
(* restore that was sent when it was settled.                              *)
WebhookSound == Webhook!TypeOK /\ Webhook!NoticesSafe

(* Between polls the last event about a service or a monitored location    *)
(* agrees with what its board shows, unless polls overlapped, and a poll   *)
(* that runs alone repeats nothing.                                        *)
BoardsAgree == Services!TypeOK /\ Services!LastEventStands /\ Services!NothingRepeated

(* However the loads of the dashboard end, it has one timer at most, and   *)
(* one is pending unless a refresh is under way that sets it; and the page *)
(* never shows what the server did not have.                               *)
DashboardSound == Dashboard!TypeOK /\ Dashboard!OneTimer

-------------------------------------------------------------------------------
(* What the agent is at goes with the request under way.                   *)
Stages ==
  /\ platform \in {"linux", "windows"}
  /\ doing \in {"idle", "register", "poll", "run", "post"}
  /\ reply \in {"none", "ok", "refused", "401", "empty", "given"}
  /\ cmd \in Cmd \cup {NoCmd}
  /\ cmd # NoCmd <=> doing \in {"run", "post"} \/ reply = "given"
  /\ holds \in BOOLEAN /\ valid \in BOOLEAN
  /\ late \in SUBSET (Cmd \cup {"register", "poll"}) /\ missed \in SUBSET Cmd
  /\ runs \in [Cmd -> Nat] /\ unheard \in [Cmd -> Nat]
  /\ sessions \in Nat /\ faults \in Nat
  /\ doing \in {"idle", "run"} => reply = "none"
  /\ doing = "register" => reply \in {"none", "ok", "refused"} /\ holds = FALSE
  /\ doing = "poll" => reply \notin {"ok", "refused"}
  /\ doing = "post" => reply \in {"none", "ok", "401"}
  /\ reply = "401" => valid = FALSE

(* The registrations that can come without another failure: one, unless    *)
(* the agent has a token that is good or is about to get it, and two when a*)
(* registration that was given up may still take the session away.         *)
Owed == IF valid = TRUE /\ (holds = TRUE \/ (doing = "register" /\ reply = "ok")) THEN 0 ELSE 1
OwedLate == IF "register" \in late THEN 2 ELSE 0
Budgeted == sessions + Owed + OwedLate <= 1 + 2 * faults

(* Of the command x one run more may be known than its lost results, and   *)
(* not while somebody can hand it out: it runs now, or its result is in.   *)
Accounted(x) ==
  /\ agentPromise[x] = "unused" => runs[x] = 0 /\ unheard[x] = 0 /\ cmd # x /\ x \notin late
  /\ x \in late \/ agentPromise[x] = "resolved" => runs[x] > 0
  /\ IF cmd = x /\ doing \in {"run", "post"}
     THEN runs[x] = unheard[x] + 1 /\ (reply = "ok" => x \notin agentPending)
     ELSE runs[x] = unheard[x] \/ (runs[x] = unheard[x] + 1 /\ x \notin agentPending)
  /\ cmd = x /\ reply = "given" => runs[x] = unheard[x]
  /\ platform = "windows" => runs[x] = 0

(* Of the rows q: those handed out were run or missed, or the agent p has  *)
(* one as c with the answer a, and they were run in order.                 *)
Ordered(q, ran, m, c, p, a) ==
  /\ \A i \in DOMAIN q : q[i].attempts > 0 =>
       p = "windows" \/ ran[q[i].id] > 0 \/ q[i].id \in m \/ (a = "given" /\ c = q[i].id)
  /\ \A i \in DOMAIN q : ran[q[i].id] > 0 \/ c = q[i].id => q[i].attempts > 0
  /\ \A i, j \in DOMAIN q :
       i < j /\ ran[q[j].id] > 0 => ran[q[i].id] > 0 \/ q[i].id \in m

InOrder == Ordered(agentQueue[office], runs, missed, cmd, platform, reply)

AgentInv ==
  /\ Agent!Chan!ChannelInv /\ Stages /\ admits \in BOOLEAN /\ Budgeted
  /\ \A x \in Cmd : Accounted(x)
  /\ InOrder

-------------------------------------------------------------------------------
LEMMA AgentFacts ==
  /\ NoSite \notin {office}
  /\ AgentLease \in Nat \ {0} /\ AgentTimeout \in Nat \ {0} /\ AgentTime \in Nat
BY AgentAssumption

(* Between steps: the queue of the agent's site.                           *)
LEMMA QueueFacts ==
  ASSUME Agent!Chan!ChannelInv
  PROVE  LET q == agentQueue[office] IN
         /\ q \in Seq(Agent!Chan!Row) /\ DOMAIN q = 1..Len(q) /\ Len(q) \in Nat
         /\ \A i \in DOMAIN q : q[i].id \in Cmd /\ q[i].id \in agentPending /\ q[i].attempts \in Nat
         /\ \A i, j \in DOMAIN q : q[i].id = q[j].id => i = j
         /\ \A i, j \in DOMAIN q : i < j /\ q[j].attempts > 0 => q[i].attempts > 0
         /\ Agent!Chan!QueueOK(q, Agent!Chan!Waiting(office), agentTimer)
         /\ agentQueue \in [{office} -> Seq(Agent!Chan!Row)]
         /\ \A x \in agentPending : x \in Cmd /\ agentCmdSite[x] = office
                                    /\ agentPromise[x] = "waiting" /\ x \in Agent!Chan!Waiting(office)
<1> DEFINE q == agentQueue[office]
<1>1. /\ Agent!Chan!QueueOK(q, Agent!Chan!Waiting(office), agentTimer)
      /\ agentQueue \in [{office} -> Seq(Agent!Chan!Row)]
      /\ Agent!Chan!WaiterArmed /\ agentPending \in SUBSET Cmd
      /\ \A x \in agentPending : agentCmdSite[x] \in {office}
  BY DEF Agent!Chan!ChannelInv, Agent!Chan!TypeOK
<1>2. q \in Seq(Agent!Chan!Row) /\ DOMAIN q = 1..Len(q) /\ Len(q) \in Nat
  BY <1>1
<1>3. ASSUME NEW i \in DOMAIN q PROVE q[i].id \in Cmd /\ q[i].id \in agentPending /\ q[i].attempts \in Nat
  <2>1. q[i] \in Agent!Chan!Row
    BY <1>2
  <2>2. q[i].id \in Agent!Chan!Waiting(office)
    BY <1>1 DEF Agent!Chan!QueueOK
  <2> QED BY <2>1, <2>2 DEF Agent!Chan!Row, Agent!Chan!Waiting
<1>4. /\ \A i, j \in DOMAIN q : q[i].id = q[j].id => i = j
      /\ \A i, j \in DOMAIN q : i < j /\ q[j].attempts > 0 => q[i].attempts > 0
  BY <1>1 DEF Agent!Chan!QueueOK
<1>5. \A x \in agentPending : x \in Cmd /\ agentCmdSite[x] = office
                              /\ agentPromise[x] = "waiting" /\ x \in Agent!Chan!Waiting(office)
  BY <1>1 DEF Agent!Chan!WaiterArmed, Agent!Chan!Waiting
<1> QED BY <1>1, <1>2, <1>3, <1>4, <1>5

LEMMA ChannelKept ==
  ASSUME Agent!Chan!ChannelInv, [Agent!Next]_(Agent!vars) PROVE Agent!Chan!ChannelInv'
<1> USE AgentFacts
<1>1. ASSUME NEW x \in Cmd, Agent!Queue(x) PROVE Agent!Chan!ChannelInv'
  BY <1>1, Agent!Chan!QueueCommandInv DEF Agent!Queue
<1>2. ASSUME NEW x \in Cmd, Agent!Fires(x) PROVE Agent!Chan!ChannelInv'
  BY <1>2, Agent!Chan!TimeoutRejectsInv, Agent!Chan!TimeoutFindsNothingInv
     DEF Agent!Fires, Agent!Chan!TimerFires
<1>3. ASSUME NEW x \in Cmd, Agent!Chan!Result(office, x), agentNow' = agentNow PROVE Agent!Chan!ChannelInv'
  <2>1. CASE Agent!Chan!ResolveWaiter(office, x)
    BY <1>3, <2>1, Agent!Chan!ResolveInv
  <2>2. CASE Agent!Chan!IgnoreResult(office, x)
    BY <1>3, <2>2, Agent!Chan!IdleInv DEF Agent!Chan!IgnoreResult
  <2> QED BY <1>3, <2>1, <2>2 DEF Agent!Chan!Result
<1>4. ASSUME Agent!Chan!DequeueForPoll(office), agentNow' = agentNow PROVE Agent!Chan!ChannelInv'
  <2>1. CASE Agent!Chan!IssueRow(office)
    BY <1>4, <2>1, Agent!Chan!DequeueInv
  <2>2. CASE Agent!Chan!NothingDue(office)
    BY <1>4, <2>2, Agent!Chan!IdleInv DEF Agent!Chan!NothingDue
  <2> QED BY <1>4, <2>1, <2>2 DEF Agent!Chan!DequeueForPoll
<1>5. ASSUME UNCHANGED Agent!chanVars, agentNow' = agentNow PROVE Agent!Chan!ChannelInv'
  BY <1>5, Agent!Chan!IdleInv DEF Agent!chanVars, Agent!Chan!chanVars
<1>6. CASE Agent!Tick
  BY <1>6, Agent!Chan!IdleInv DEF Agent!Tick, Agent!Chan!Tick
<1>7. CASE Agent!SessionEnds \/ Agent!SiteChanges \/ Agent!Readmitted
  <2>1. CASE Agent!SiteChanges
    BY <2>1, Agent!Chan!ClearSiteInv DEF Agent!SiteChanges
  <2> QED BY <1>5, <1>7, <2>1 DEF Agent!SessionEnds, Agent!Readmitted
<1>8. CASE Agent!HandlePoll
  BY <1>4, <1>5, <1>8 DEF Agent!HandlePoll, Agent!HandOut, Agent!Chan!DequeueForPoll
<1>9. CASE Agent!HandlePost
  <2>1. CASE UNCHANGED Agent!chanVars
    BY <1>5, <1>9, <2>1 DEF Agent!HandlePost
  <2>2. CASE Agent!Answered(cmd) /\ cmd \in Cmd
    BY <1>3, <1>9, <2>2 DEF Agent!HandlePost, Agent!Answered
  <2>3. CASE Agent!Answered(cmd) /\ cmd \notin Cmd
    <3>1. Agent!Chan!IgnoreResult(office, cmd)
      BY <2>3, QueueFacts DEF Agent!Answered, Agent!Chan!Result, Agent!Chan!ResolveWaiter
    <3> QED BY <1>9, <3>1, Agent!Chan!IdleInv DEF Agent!HandlePost, Agent!Chan!IgnoreResult
  <2> QED BY <1>9, <2>1, <2>2, <2>3 DEF Agent!HandlePost
<1>10. CASE Agent!LatePoll
  BY <1>4, <1>10 DEF Agent!LatePoll
<1>11. ASSUME NEW x \in Cmd, Agent!LatePost(x) PROVE Agent!Chan!ChannelInv'
  BY <1>3, <1>11 DEF Agent!LatePost, Agent!Answered
<1>12. CASE Agent!HandleRegister \/ Agent!LateRegister \/ Agent!Agent
  BY <1>5, <1>12 DEF Agent!HandleRegister, Agent!LateRegister, Agent!Agent, Agent!Loop,
     Agent!Wake, Agent!GotToken, Agent!Refused, Agent!Rejected, Agent!Settled, Agent!GotCommand, Agent!Unread,
     Agent!Ran, Agent!GiveUp, Agent!Restart
<1>13. CASE UNCHANGED Agent!vars
  BY <1>5, <1>13 DEF Agent!vars, Agent!setting
<1> QED BY <1>1, <1>2, <1>6, <1>7, <1>8, <1>9, <1>10, <1>11, <1>12, <1>13
        DEF Agent!Next, Agent!Server, Agent!Handle

LEMMA StagesInitial == Agent!Init => Stages
<1> SUFFICES ASSUME Agent!Init PROVE Stages
  OBVIOUS
<1>1. /\ platform \in {"linux", "windows"} /\ doing = "idle" /\ cmd = NoCmd /\ reply = "none"
      /\ holds = FALSE /\ valid = FALSE /\ late = {} /\ missed = {} /\ sessions = 0 /\ faults = 0
  BY DEF Agent!Init
<1>2. runs \in [Cmd -> Nat] /\ unheard \in [Cmd -> Nat]
  BY DEF Agent!Init
<1> QED BY <1>1, <1>2 DEF Stages

(* A step of the channel leaves what the agent is at as it was.            *)
LEMMA StagesKept ==
  ASSUME Agent!Chan!ChannelInv, Stages, [Agent!Next]_(Agent!vars) PROVE Stages'
<1> USE AgentAssumption
<1>1. ASSUME UNCHANGED <<platform, doing, cmd, reply, holds, valid, late, runs, unheard, missed, sessions, faults>>
      PROVE  Stages'
  BY <1>1 DEF Stages
<1>2. ASSUME NEW x \in Cmd, Agent!Queue(x) \/ Agent!Fires(x), UNCHANGED platform PROVE Stages'
  BY <1>1, <1>2 DEF Agent!Queue, Agent!Fires, Agent!netVars, Agent!histVars
<1>3. CASE (Agent!Tick \/ Agent!Readmitted) /\ UNCHANGED platform
  BY <1>1, <1>3 DEF Agent!Tick, Agent!Readmitted, Agent!netVars, Agent!histVars
<1>4. CASE (Agent!SessionEnds \/ Agent!SiteChanges) /\ UNCHANGED platform
  <2>1. /\ valid' = FALSE /\ late' = late \cap {"register"} /\ faults' = faults + 1
        /\ UNCHANGED <<platform, doing, cmd, reply, holds, runs, unheard, missed, sessions>>
    BY <1>4 DEF Agent!SessionEnds, Agent!SiteChanges, Agent!Fault, Agent!histVars
  <2>2. late' \in SUBSET (Cmd \cup {"register", "poll"}) /\ faults' \in Nat
    BY <2>1 DEF Stages
  <2> QED BY <2>1, <2>2 DEF Stages
<1>5. CASE Agent!HandleRegister /\ UNCHANGED platform
  <2>1. doing = "register" /\ UNCHANGED <<platform, doing, cmd, holds, runs, unheard, missed, faults>>
    BY <1>5 DEF Agent!HandleRegister
  <2>2. CASE reply' = "ok" /\ valid' = TRUE /\ late' = late \cap {"register"} /\ sessions' = sessions + 1
    BY <2>1, <2>2 DEF Stages
  <2>3. CASE reply' = "refused" /\ UNCHANGED <<valid, late, sessions>>
    BY <2>1, <2>3 DEF Stages
  <2> QED BY <1>5, <2>2, <2>3 DEF Agent!HandleRegister
<1>6. CASE Agent!HandlePoll /\ UNCHANGED platform
  <2>1. doing = "poll" /\ reply = "none" /\ UNCHANGED <<platform, doing, holds, valid, late, runs, unheard, missed, sessions, faults>>
    BY <1>6 DEF Agent!HandlePoll, Agent!histVars
  <2>2. CASE valid /\ Agent!HandOut /\ reply' = "given"
    <3> DEFINE k == Agent!Chan!First(Agent!Chan!Due(agentQueue[office]))
    <3>1. cmd' = agentQueue[office][k].id /\ k \in DOMAIN agentQueue[office]
      <4>1. PICK i \in Agent!Chan!Due(agentQueue[office]) : \A j \in Agent!Chan!Due(agentQueue[office]) : i <= j
        BY <2>2 DEF Agent!HandOut, Agent!Chan!IssueRow
      <4>2. k \in Agent!Chan!Due(agentQueue[office])
        BY <4>1 DEF Agent!Chan!First
      <4> QED BY <2>2, <4>2 DEF Agent!HandOut, Agent!Chan!Due
    <3>2. cmd' \in Cmd
      BY <3>1, QueueFacts
    <3> QED BY <2>1, <2>2, <3>2 DEF Stages
  <2>3. CASE valid /\ reply' = "empty" /\ UNCHANGED cmd
    BY <2>1, <2>3 DEF Stages
  <2>4. CASE ~valid /\ reply' = "401" /\ UNCHANGED cmd
    BY <2>1, <2>4 DEF Stages
  <2> QED BY <1>6, <2>2, <2>3, <2>4 DEF Agent!HandlePoll
<1>7. CASE Agent!HandlePost /\ UNCHANGED platform
  <2>1. /\ doing = "post" /\ reply = "none" /\ (reply' = "ok" \/ (reply' = "401" /\ ~valid))
        /\ UNCHANGED <<platform, doing, cmd, holds, valid, late, runs, unheard, missed, sessions, faults>>
    BY <1>7 DEF Agent!HandlePost, Agent!histVars
  <2> QED BY <2>1 DEF Stages
<1>8. CASE Agent!LateRegister /\ UNCHANGED platform
  <2>1. UNCHANGED <<platform, doing, cmd, reply, holds, runs, unheard, missed, faults>>
    BY <1>8 DEF Agent!LateRegister
  <2>2. CASE late' = {} /\ valid' = FALSE /\ sessions' = sessions + 1
    <3>1. late' \in SUBSET (Cmd \cup {"register", "poll"}) /\ sessions' \in Nat
      BY <2>2 DEF Stages
    <3> QED BY <2>1, <2>2, <3>1 DEF Stages
  <2>3. CASE late' = late \ {"register"} /\ UNCHANGED <<valid, sessions>>
    BY <2>1, <2>3 DEF Stages
  <2> QED BY <1>8, <2>2, <2>3 DEF Agent!LateRegister
<1>9. CASE Agent!LatePoll /\ UNCHANGED platform
  <2>1. {agentQueue[office][i].id : i \in {j \in DOMAIN agentQueue[office] : agentQueue'[office][j] # agentQueue[office][j]}} \in SUBSET Cmd
    BY QueueFacts
  <2>2. /\ missed' = missed \cup
             {agentQueue[office][i].id : i \in {j \in DOMAIN agentQueue[office] : agentQueue'[office][j] # agentQueue[office][j]}}
        /\ late' = late \ {"poll"}
        /\ UNCHANGED <<platform, doing, cmd, reply, holds, valid, runs, unheard, sessions, faults>>
    BY <1>9 DEF Agent!LatePoll
  <2>3. missed' \in SUBSET Cmd
    BY <2>1, <2>2 DEF Stages
  <2> QED BY <2>2, <2>3 DEF Stages
<1>10. ASSUME NEW x \in Cmd, Agent!LatePost(x), UNCHANGED platform PROVE Stages'
  BY <1>10 DEF Agent!LatePost, Agent!histVars, Stages
<1>11. CASE (Agent!Wake \/ Agent!GotToken \/ Agent!Refused \/ Agent!Settled \/ Agent!Unread \/ Agent!Ran) /\ UNCHANGED platform
  BY <1>11 DEF Agent!Wake, Agent!GotToken, Agent!Refused, Agent!Settled, Agent!Unread, Agent!Ran, Agent!histVars, Stages
<1>12. CASE Agent!Rejected /\ UNCHANGED platform
  <2>1. unheard' \in [Cmd -> Nat]
    BY <1>12 DEF Agent!Rejected, Stages
  <2> QED BY <1>12, <2>1 DEF Agent!Rejected, Stages
<1>13. CASE Agent!GotCommand /\ UNCHANGED platform
  <2>1. runs' \in [Cmd -> Nat]
    BY <1>13 DEF Agent!GotCommand, Stages
  <2> QED BY <1>13, <2>1 DEF Agent!GotCommand, Stages
<1>14. ASSUME Agent!Dropped, faults' = faults + 1, (holds' = holds \/ holds' = FALSE), UNCHANGED <<platform, runs, sessions>>
       PROVE  Stages'
  <2>1. unheard' \in [Cmd -> Nat] /\ missed' \in SUBSET Cmd
    BY <1>14 DEF Agent!Dropped, Stages
  <2>2. late' \in SUBSET (Cmd \cup {"register", "poll"})
    <3>1. (IF reply # "none" THEN {} ELSE IF doing = "post" THEN {cmd} ELSE {doing} \cap {"register", "poll"})
          \in SUBSET (Cmd \cup {"register", "poll"})
      BY DEF Stages
    <3> QED BY <1>14, <3>1 DEF Agent!Dropped, Stages
  <2>3. valid' \in BOOLEAN /\ doing' = "idle" /\ reply' = "none" /\ cmd' = NoCmd
    BY <1>14 DEF Agent!Dropped, Stages
  <2>0. holds \in BOOLEAN /\ faults \in Nat /\ platform \in {"linux", "windows"}
        /\ runs \in [Cmd -> Nat] /\ sessions \in Nat
    BY DEF Stages
  <2>4. holds' \in BOOLEAN
    BY <1>14, <2>0, Zenon
  <2>6. faults' \in Nat
    BY <1>14, <2>0
  <2>5. /\ platform' \in {"linux", "windows"} /\ runs' \in [Cmd -> Nat] /\ sessions' \in Nat
        /\ cmd' \in Cmd \cup {NoCmd}
    BY <1>14, <2>0, <2>3
  <2> QED BY <2>1, <2>2, <2>3, <2>4, <2>5, <2>6 DEF Stages
<1>15. CASE (Agent!GiveUp \/ Agent!Restart) /\ UNCHANGED platform
  BY <1>14, <1>15 DEF Agent!GiveUp, Agent!Restart, Agent!Fault
<1>16. CASE UNCHANGED Agent!vars
  BY <1>1, <1>16 DEF Agent!vars, Agent!setting, Agent!netVars, Agent!histVars
<1> QED BY <1>2, <1>3, <1>4, <1>5, <1>6, <1>7, <1>8, <1>9, <1>10, <1>11, <1>12, <1>13, <1>15, <1>16
        DEF Agent!Next, Agent!setting, Agent!Server, Agent!Handle, Agent!Agent, Agent!Loop

LEMMA BudgetedKept ==
  ASSUME Stages, Budgeted, [Agent!Next]_(Agent!vars) PROVE Budgeted'
<1> USE DEF Budgeted, Owed, OwedLate
<1>0. sessions \in Nat /\ faults \in Nat
  BY DEF Stages
<1>1. ASSUME UNCHANGED <<sessions, faults, holds, valid, late>>, doing' = doing, reply' = reply
      PROVE  Budgeted'
  BY <1>1
<1>2. ASSUME NEW x \in Cmd, Agent!Queue(x) \/ Agent!Fires(x) PROVE Budgeted'
  BY <1>1, <1>2 DEF Agent!Queue, Agent!Fires, Agent!netVars, Agent!histVars
<1>3. CASE Agent!Tick \/ Agent!Readmitted
  BY <1>1, <1>3 DEF Agent!Tick, Agent!Readmitted, Agent!netVars, Agent!histVars
<1>4. CASE Agent!SessionEnds \/ Agent!SiteChanges
  <2>1. valid' = FALSE /\ late' = late \cap {"register"} /\ faults' = faults + 1 /\ UNCHANGED sessions
    BY <1>4 DEF Agent!SessionEnds, Agent!SiteChanges, Agent!Fault, Agent!histVars
  <2> QED BY <1>0, <2>1
<1>5. CASE Agent!HandleRegister
  BY <1>0, <1>5 DEF Agent!HandleRegister, Stages
<1>6. CASE Agent!HandlePoll \/ Agent!HandlePost
  BY <1>0, <1>6 DEF Agent!HandlePoll, Agent!HandlePost, Agent!histVars
<1>8. CASE Agent!LateRegister
  BY <1>0, <1>8 DEF Agent!LateRegister
<1>9. CASE Agent!LatePoll
  BY <1>0, <1>9 DEF Agent!LatePoll
<1>10. ASSUME NEW x \in Cmd, Agent!LatePost(x) PROVE Budgeted'
  <2>1. "register" \in late' <=> "register" \in late
    BY <1>10, AgentAssumption DEF Agent!LatePost
  <2> QED BY <1>0, <1>10, <2>1 DEF Agent!LatePost, Agent!histVars
<1>11. CASE \/ Agent!Wake \/ Agent!GotToken \/ Agent!Refused \/ Agent!Settled \/ Agent!Unread
            \/ Agent!Ran \/ Agent!GotCommand
  BY <1>0, <1>11 DEF Agent!Wake, Agent!GotToken, Agent!Refused, Agent!Settled, Agent!Unread, Agent!Ran, Agent!GotCommand, Agent!histVars, Stages
<1>12. CASE Agent!Rejected
  BY <1>0, <1>12 DEF Agent!Rejected, Stages
<1>14. ASSUME Agent!Dropped, faults' = faults + 1, (holds' = holds \/ holds' = FALSE), UNCHANGED sessions
       PROVE  Budgeted'
  <2>1. CASE "register" \in late' /\ "register" \notin late
    <3>1. doing = "register" /\ reply = "none"
      BY <1>14, <2>1, AgentAssumption DEF Agent!Dropped, Stages
    <3> QED BY <1>0, <1>14, <3>1 DEF Agent!Dropped, Stages
  <2>2. CASE ~("register" \in late' /\ "register" \notin late)
    BY <1>0, <1>14, <2>2 DEF Agent!Dropped, Stages
  <2> QED BY <2>1, <2>2
<1>15. CASE Agent!GiveUp \/ Agent!Restart
  BY <1>14, <1>15 DEF Agent!GiveUp, Agent!Restart, Agent!Fault
<1>16. CASE UNCHANGED Agent!vars
  BY <1>1, <1>16 DEF Agent!vars, Agent!setting, Agent!netVars, Agent!histVars
<1> QED BY <1>2, <1>3, <1>4, <1>5, <1>6, <1>8, <1>9, <1>10, <1>11, <1>12, <1>15, <1>16
        DEF Agent!Next, Agent!setting, Agent!Server, Agent!Handle, Agent!Agent, Agent!Loop

-------------------------------------------------------------------------------
(* What the channel does of its own: entries of the table and rows of the  *)
(* queue go, and of the promises those of the commands R are kept.         *)
Shrunk(R) ==
  /\ agentPending' \in SUBSET agentPending
  /\ Agent!Chan!Follows(agentQueue'[office], agentQueue[office])
  /\ \A x \in Cmd : \/ agentPromise'[x] = agentPromise[x]
                    \/ agentPromise[x] # "unused" /\ agentPromise'[x] = "rejected"
                    \/ agentPromise[x] # "unused" /\ agentPromise'[x] = "resolved" /\ x \in R

LEMMA UnchangedShrinks ==
  ASSUME Agent!Chan!ChannelInv, UNCHANGED <<agentQueue, agentPending, agentPromise>>, NEW R
  PROVE  Shrunk(R)
<1>1. DOMAIN agentQueue[office] \in SUBSET Int
  BY QueueFacts
<1> QED BY <1>1 DEF Shrunk, Agent!Chan!Follows

LEMMA RemovalShrinks ==
  ASSUME Agent!Chan!ChannelInv, NEW x \in Cmd, x \in agentPending, NEW R,
         agentPending' = agentPending \ {x},
         agentQueue' = [agentQueue EXCEPT ![office] = Agent!Chan!RemoveRow(@, x)],
         \/ agentPromise' = [agentPromise EXCEPT ![x] = "rejected"]
         \/ agentPromise' = [agentPromise EXCEPT ![x] = "resolved"] /\ x \in R
  PROVE  Shrunk(R)
<1> DEFINE q == agentQueue[office]
<1>1. /\ Agent!Chan!QueueOK(q, Agent!Chan!Waiting(office), agentTimer)
      /\ agentQueue \in [{office} -> Seq(Agent!Chan!Row)]
      /\ x \in Agent!Chan!Waiting(office) /\ agentPromise[x] = "waiting"
  BY QueueFacts
<1>2. \A d \in Agent!Chan!Waiting(office) \ {x} : agentTimer[d] = agentTimer[d]
  OBVIOUS
<1>3. Agent!Chan!Follows(Agent!Chan!RemoveRow(q, x), q)
  BY <1>1, <1>2, AgentFacts, Agent!Chan!RemoveOK
<1>4. agentQueue'[office] = Agent!Chan!RemoveRow(q, x)
  BY <1>1
<1>5. agentPromise \in [Cmd -> {"unused", "waiting", "resolved", "rejected"}]
  BY DEF Agent!Chan!ChannelInv, Agent!Chan!TypeOK
<1>6. \A y \in Cmd : \/ agentPromise'[y] = agentPromise[y]
                     \/ agentPromise[y] # "unused" /\ agentPromise'[y] = "rejected"
                     \/ agentPromise[y] # "unused" /\ agentPromise'[y] = "resolved" /\ y \in R
  BY <1>1, <1>5
<1> HIDE DEF q
<1>7. agentPending' \in SUBSET agentPending
  OBVIOUS
<1>8. Agent!Chan!Follows(agentQueue'[office], agentQueue[office])
  BY <1>3, <1>4 DEF q
<1> QED BY <1>6, <1>7, <1>8 DEF Shrunk

LEMMA FiresShrinks ==
  ASSUME Agent!Chan!ChannelInv, NEW x \in Cmd, Agent!Chan!TimerFires(x) PROVE Shrunk({})
<1>1. CASE Agent!Chan!TimeoutRejects(x)
  <2>1. x \in agentPending /\ agentCmdSite[x] = office
    BY <1>1, QueueFacts DEF Agent!Chan!TimeoutRejects
  <2> QED BY <1>1, <2>1, RemovalShrinks DEF Agent!Chan!TimeoutRejects
<1>2. CASE Agent!Chan!TimeoutFindsNothing(x)
  BY <1>2, UnchangedShrinks DEF Agent!Chan!TimeoutFindsNothing
<1> QED BY <1>1, <1>2 DEF Agent!Chan!TimerFires

LEMMA ResultShrinks ==
  ASSUME Agent!Chan!ChannelInv, NEW x \in Cmd, Agent!Chan!Result(office, x)
  PROVE  Shrunk({x}) /\ x \notin agentPending'
<1>1. CASE Agent!Chan!ResolveWaiter(office, x)
  BY <1>1, RemovalShrinks DEF Agent!Chan!ResolveWaiter
<1>2. CASE Agent!Chan!IgnoreResult(office, x)
  BY <1>2, UnchangedShrinks, QueueFacts DEF Agent!Chan!IgnoreResult, Agent!Chan!chanVars
<1> QED BY <1>1, <1>2 DEF Agent!Chan!Result

LEMMA ClearShrinks ==
  ASSUME Agent!Chan!ChannelInv, Agent!Chan!ClearSite(office) PROVE Shrunk({})
<1>1. agentQueue'[office] = <<>>
  BY QueueFacts DEF Agent!Chan!ClearSite
<1>2. Agent!Chan!Follows(<<>>, agentQueue[office])
  BY DEF Agent!Chan!Follows
<1>3. \A x \in agentPending : agentPromise[x] = "waiting"
  BY QueueFacts
<1> QED BY <1>1, <1>2, <1>3 DEF Agent!Chan!ClearSite, Shrunk

(* A poll leaves the table and the promises; it hands out a row of the     *)
(* queue, whose command somebody waits for, before which all were handed   *)
(* out.                                                                    *)
LEMMA RowIssued ==
  ASSUME Agent!Chan!ChannelInv, Agent!Chan!IssueRow(office)
  PROVE  \E k \in DOMAIN agentQueue[office] :
           /\ k = Agent!Chan!First(Agent!Chan!Due(agentQueue[office]))
           /\ agentQueue[office][k].id \in agentPending
           /\ agentQueue'[office] = [agentQueue[office] EXCEPT ![k] = Agent!Chan!Leased(@, agentNow)]
           /\ \A j \in DOMAIN agentQueue[office] : j < k => agentQueue[office][j].attempts > 0
<1> DEFINE q == agentQueue[office]
           D == Agent!Chan!Due(q)
<1>1. PICK k \in D : /\ \A j \in D : k <= j
                     /\ agentQueue' = [agentQueue EXCEPT ![office][k] = Agent!Chan!Leased(@, agentNow)]
  BY DEF Agent!Chan!IssueRow
<1>2. D \in SUBSET DOMAIN q /\ DOMAIN q \in SUBSET Int
  BY QueueFacts DEF Agent!Chan!Due
<1>3. k = Agent!Chan!First(D)
  <2>1. Agent!Chan!First(D) \in D /\ \A j \in D : Agent!Chan!First(D) <= j
    <3>1. \E i \in D : \A j \in D : i <= j
      BY <1>1
    <3> QED BY <3>1 DEF Agent!Chan!First
  <2> HIDE DEF D
  <2> QED BY <1>1, <1>2, <2>1
<1>4. agentQueue'[office] = [q EXCEPT ![k] = Agent!Chan!Leased(@, agentNow)]
  BY <1>1, QueueFacts
<1>5. ASSUME NEW j \in DOMAIN q, j < k PROVE q[j].attempts > 0
  <2>1. ~(q[j].leaseUntil <= agentNow)
    BY <1>1, <1>2, <1>5 DEF Agent!Chan!Due
  <2>2. /\ q[j].attempts = 0 <=> q[j].leaseUntil = 0
        /\ q[j].attempts \in Nat /\ agentNow \in Nat
    BY <1>5, QueueFacts DEF Agent!Chan!QueueOK, Agent!Chan!ChannelInv, Agent!Chan!TypeOK
  <2> QED BY <2>1, <2>2
<1>6. k \in DOMAIN q /\ q[k].id \in agentPending
  BY <1>1, <1>2, QueueFacts
<1> QED BY <1>3, <1>4, <1>5, <1>6

-------------------------------------------------------------------------------
(* The runs of a command. *)

LEMMA AccountedCalm ==
  ASSUME NEW x \in Cmd, Accounted(x), NEW R, Shrunk(R), x \in R => runs[x] > 0,
         UNCHANGED <<platform, doing, cmd, reply, runs, unheard>>, late' \in SUBSET late
  PROVE  Accounted(x)'
  BY DEF Accounted, Shrunk

LEMMA AccountedKept ==
  ASSUME Agent!Chan!ChannelInv, Stages, NEW x \in Cmd, Accounted(x), [Agent!Next]_(Agent!vars)
  PROVE  Accounted(x)'
<1> USE AgentAssumption
<1>0. /\ runs[x] \in Nat /\ unheard[x] \in Nat /\ x # NoCmd /\ x \notin {"register", "poll"}
      /\ runs \in [Cmd -> Nat] /\ unheard \in [Cmd -> Nat]
      /\ agentPromise \in [Cmd -> {"unused", "waiting", "resolved", "rejected"}]
      /\ cmd # NoCmd => cmd \in Cmd
  BY DEF Stages, Agent!Chan!ChannelInv, Agent!Chan!TypeOK
<1>1. ASSUME UNCHANGED <<agentQueue, agentPending, agentPromise, platform, doing, cmd, reply, runs, unheard>>,
             late' \in SUBSET late
      PROVE  Accounted(x)'
  BY <1>1 DEF Accounted
<1>2. ASSUME NEW y \in Cmd, Agent!Queue(y), UNCHANGED platform PROVE Accounted(x)'
  <2>1. /\ agentPromise[y] = "unused" /\ agentPromise' = [agentPromise EXCEPT ![y] = "waiting"]
        /\ agentPending' = agentPending \cup {y}
        /\ UNCHANGED <<platform, doing, cmd, reply, runs, unheard, late>>
    BY <1>2 DEF Agent!Queue, Agent!Chan!QueueCommand, Agent!netVars, Agent!histVars
  <2> QED BY <1>0, <2>1 DEF Accounted
<1>3. ASSUME NEW y \in Cmd, Agent!Fires(y), UNCHANGED platform PROVE Accounted(x)'
  <2>1. Shrunk({}) /\ UNCHANGED <<platform, doing, cmd, reply, runs, unheard, late>>
    BY <1>3, FiresShrinks DEF Agent!Fires, Agent!netVars, Agent!histVars
  <2> QED BY <2>1, AccountedCalm
<1>4. ASSUME NEW y \in Cmd, Agent!LatePost(y), UNCHANGED platform PROVE Accounted(x)'
  <2>1. y \in late /\ Shrunk({y}) /\ UNCHANGED <<platform, doing, cmd, reply, runs, unheard>>
        /\ late' \in SUBSET late
    BY <1>4, ResultShrinks DEF Agent!LatePost, Agent!Answered, Agent!histVars
  <2>2. x \in {y} => runs[x] > 0
    BY <2>1 DEF Accounted
  <2> QED BY <2>1, <2>2, AccountedCalm
<1>5. CASE (Agent!Tick \/ Agent!Readmitted) /\ UNCHANGED platform
  BY <1>1, <1>5 DEF Agent!Tick, Agent!Chan!Tick, Agent!Chan!chanVars, Agent!Readmitted, Agent!chanVars,
     Agent!netVars, Agent!histVars
<1>6. CASE (Agent!SessionEnds \/ Agent!SiteChanges) /\ UNCHANGED platform
  <2>1. UNCHANGED <<platform, doing, cmd, reply, runs, unheard>> /\ late' \in SUBSET late
    BY <1>6 DEF Agent!SessionEnds, Agent!SiteChanges, Agent!histVars
  <2>2. Shrunk({})
    BY <1>6, ClearShrinks, UnchangedShrinks DEF Agent!SessionEnds, Agent!SiteChanges, Agent!chanVars
  <2> QED BY <2>1, <2>2, AccountedCalm
<1>7. CASE Agent!HandleRegister /\ UNCHANGED platform
  BY <1>0, <1>7 DEF Agent!HandleRegister, Agent!chanVars, Accounted, Stages
<1>8. CASE Agent!HandlePoll /\ UNCHANGED platform
  <2>0. /\ doing = "poll" /\ reply = "none" /\ cmd = NoCmd
        /\ UNCHANGED <<platform, doing, runs, unheard, late>>
    BY <1>8 DEF Agent!HandlePoll, Agent!histVars, Stages
  <2>1. CASE Agent!HandOut /\ reply' = "given"
    <3>1. cmd' \in agentPending /\ agentPromise[cmd'] = "waiting"
          /\ UNCHANGED <<agentPending, agentPromise>>
      <4>1. PICK k \in DOMAIN agentQueue[office] :
              /\ k = Agent!Chan!First(Agent!Chan!Due(agentQueue[office]))
              /\ agentQueue[office][k].id \in agentPending
        BY <2>1, RowIssued DEF Agent!HandOut
      <4>2. cmd' = agentQueue[office][k].id
        BY <2>1, <4>1 DEF Agent!HandOut
      <4> QED BY <2>1, <4>1, <4>2, QueueFacts DEF Agent!HandOut, Agent!Chan!IssueRow
    <3> QED BY <1>0, <2>0, <2>1, <3>1 DEF Accounted
  <2>2. CASE reply' \in {"empty", "401"} /\ UNCHANGED <<cmd, agentPending, agentPromise>>
    BY <1>0, <2>0, <2>2 DEF Accounted
  <2> QED BY <1>8, <2>1, <2>2 DEF Agent!HandlePoll, Agent!Chan!NothingDue, Agent!Chan!chanVars, Agent!chanVars
<1>9. CASE Agent!HandlePost /\ UNCHANGED platform
  <2>0. /\ doing = "post" /\ reply = "none" /\ cmd \in Cmd
        /\ UNCHANGED <<platform, doing, cmd, runs, unheard, late>>
    BY <1>9 DEF Agent!HandlePost, Agent!histVars, Stages
  <2>1. CASE Agent!Answered(cmd) /\ reply' = "ok"
    <3>1. Shrunk({cmd}) /\ cmd \notin agentPending'
      BY <2>0, <2>1, ResultShrinks DEF Agent!Answered
    <3> QED BY <1>0, <2>0, <2>1, <3>1 DEF Accounted, Shrunk
  <2>2. CASE UNCHANGED Agent!chanVars /\ reply' = "401"
    BY <1>0, <2>0, <2>2 DEF Accounted, Agent!chanVars
  <2> QED BY <1>9, <2>1, <2>2 DEF Agent!HandlePost
<1>10. CASE Agent!LateRegister /\ UNCHANGED platform
  BY <1>1, <1>10 DEF Agent!LateRegister, Agent!chanVars
<1>11. CASE Agent!LatePoll /\ UNCHANGED platform
  <2>1. UNCHANGED <<agentPending, agentPromise, platform, doing, cmd, reply, runs, unheard>> /\ late' \in SUBSET late
    BY <1>11 DEF Agent!LatePoll, Agent!Chan!DequeueForPoll, Agent!Chan!IssueRow, Agent!Chan!NothingDue, Agent!Chan!chanVars
  <2> QED BY <2>1 DEF Accounted
<1>12. CASE (Agent!Wake \/ Agent!GotToken \/ Agent!Refused) /\ UNCHANGED platform
  BY <1>0, <1>12 DEF Agent!Wake, Agent!GotToken, Agent!Refused, Agent!histVars, Agent!chanVars, Accounted, Stages
<1>13. CASE Agent!Rejected /\ UNCHANGED platform
  <2>1. unheard'[x] = IF doing = "post" /\ cmd = x THEN unheard[x] + 1 ELSE unheard[x]
    BY <1>0, <1>13 DEF Agent!Rejected
  <2>2. /\ doing' = "idle" /\ reply' = "none" /\ cmd' = NoCmd /\ reply = "401"
        /\ UNCHANGED <<agentPending, agentPromise, platform, late, runs>>
    BY <1>13 DEF Agent!Rejected, Agent!chanVars
  <2>3. doing # "run"
    BY <2>2 DEF Stages
  <2> QED BY <1>0, <2>1, <2>2, <2>3 DEF Accounted
<1>14. CASE Agent!Settled /\ UNCHANGED platform
  <2>1. /\ doing' = "idle" /\ reply' = "none" /\ cmd' = NoCmd
        /\ reply = "empty" \/ (doing = "post" /\ reply = "ok")
        /\ UNCHANGED <<agentPending, agentPromise, platform, late, runs, unheard>>
    BY <1>14 DEF Agent!Settled, Agent!chanVars, Agent!histVars
  <2>2. reply = "empty" => doing = "poll"
    BY DEF Stages
  <2> QED BY <1>0, <2>1, <2>2 DEF Accounted
<1>15. CASE Agent!GotCommand /\ UNCHANGED platform
  <2>1. /\ platform = "linux" /\ doing = "poll" /\ reply = "given" /\ doing' = "run" /\ reply' = "none"
        /\ runs'[x] = IF cmd = x THEN runs[x] + 1 ELSE runs[x]
        /\ UNCHANGED <<agentPending, agentPromise, platform, late, cmd, unheard>>
    BY <1>0, <1>15 DEF Agent!GotCommand, Agent!chanVars
  <2> QED BY <1>0, <2>1 DEF Accounted
<1>16. CASE (Agent!Unread \/ Agent!Ran) /\ UNCHANGED platform
  BY <1>0, <1>16 DEF Agent!Unread, Agent!Ran, Agent!histVars, Agent!chanVars, Accounted, Stages
<1>17. ASSUME Agent!Dropped, UNCHANGED <<platform, runs, agentPending, agentPromise>> PROVE Accounted(x)'
  <2>1. unheard'[x] = IF cmd = x /\ (doing = "run" \/ (doing = "post" /\ reply # "ok"))
                      THEN unheard[x] + 1 ELSE unheard[x]
    BY <1>0, <1>17 DEF Agent!Dropped
  <2>2. doing' = "idle" /\ reply' = "none" /\ cmd' = NoCmd
        /\ (x \in late' => x \in late \/ (doing = "post" /\ cmd = x))
    BY <1>0, <1>17 DEF Agent!Dropped
  <2> QED BY <1>0, <1>17, <2>1, <2>2 DEF Accounted
<1>18. CASE (Agent!GiveUp \/ Agent!Restart) /\ UNCHANGED platform
  BY <1>17, <1>18 DEF Agent!GiveUp, Agent!Restart, Agent!chanVars
<1>19. CASE UNCHANGED Agent!vars
  BY <1>1, <1>19 DEF Agent!vars, Agent!setting, Agent!netVars, Agent!histVars, Agent!chanVars
<1> QED BY <1>2, <1>3, <1>4, <1>5, <1>6, <1>7, <1>8, <1>9, <1>10, <1>11, <1>12, <1>13, <1>14, <1>15,
           <1>16, <1>18, <1>19
        DEF Agent!Next, Agent!setting, Agent!Server, Agent!Handle, Agent!Agent, Agent!Loop

-------------------------------------------------------------------------------
(* The order of the runs. *)

(* Rows go, or the agent is done with its command: it was run, missed or   *)
(* not understood.                                                         *)
LEMMA OrderCalm ==
  ASSUME NEW q, NEW r, NEW ran, NEW m, NEW m2, NEW c, NEW c2, NEW p, NEW a, NEW a2,
         Ordered(q, ran, m, c, p, a), Agent!Chan!Follows(r, q), m \in SUBSET m2,
         c2 = c \/ \A i \in DOMAIN r : r[i].id # c2,
         a = "given" => p = "windows" \/ c \in m2 \/ (a2 = "given" /\ c2 = c)
  PROVE  Ordered(r, ran, m2, c2, p, a2)
  BY DEF Ordered, Agent!Chan!Follows

LEMMA OrderPushed ==
  ASSUME NEW q \in Seq(Agent!Chan!Row), NEW x \in Cmd, NEW ran, NEW m, NEW c, NEW p, NEW a,
         Ordered(q, ran, m, c, p, a), ~(ran[x] > 0), c # x
  PROVE  Ordered(Append(q, Agent!Chan!NewRow(x)), ran, m, c, p, a)
<1> DEFINE r == Append(q, Agent!Chan!NewRow(x))
<1>1. Agent!Chan!NewRow(x).id = x /\ Agent!Chan!NewRow(x).attempts = 0
  BY DEF Agent!Chan!NewRow
<1>2. /\ DOMAIN q = 1..Len(q) /\ Len(q) \in Nat /\ DOMAIN r = 1..(Len(q) + 1)
      /\ \A i \in DOMAIN q : r[i] = q[i] /\ i \in DOMAIN r
      /\ r[Len(q) + 1] = Agent!Chan!NewRow(x)
      /\ \A i \in DOMAIN r : i \in DOMAIN q \/ i = Len(q) + 1
  OBVIOUS
<1> HIDE DEF r
<1>3. \A i \in DOMAIN r : r[i].attempts > 0 =>
         p = "windows" \/ ran[r[i].id] > 0 \/ r[i].id \in m \/ (a = "given" /\ c = r[i].id)
  BY <1>1, <1>2 DEF Ordered
<1>4. \A i \in DOMAIN r : ran[r[i].id] > 0 \/ c = r[i].id => r[i].attempts > 0
  BY <1>1, <1>2 DEF Ordered
<1>5. \A i, j \in DOMAIN r :
         i < j /\ ran[r[j].id] > 0 => ran[r[i].id] > 0 \/ r[i].id \in m
  BY <1>1, <1>2 DEF Ordered
<1> QED BY <1>3, <1>4, <1>5 DEF Ordered, r

(* The row k is handed out: to the agent, or in an answer it missed.       *)
LEMMA OrderLeased ==
  ASSUME NEW q, NEW k \in DOMAIN q, NEW t, NEW ran, NEW m, NEW m2, NEW c, NEW c2, NEW p, NEW a, NEW a2,
         Ordered(q, ran, m, c, p, a), m \in SUBSET m2, q[k].attempts \in Nat,
         \A i, j \in DOMAIN q : q[i].id = q[j].id => i = j,
         \/ q[k].id \in m2 /\ c2 = c /\ a2 = a
         \/ c2 = q[k].id /\ a2 = "given" /\ a # "given"
  PROVE  Ordered([q EXCEPT ![k] = Agent!Chan!Leased(@, t)], ran, m2, c2, p, a2)
<1> DEFINE r == [q EXCEPT ![k] = Agent!Chan!Leased(@, t)]
<1>1. /\ DOMAIN r = DOMAIN q /\ \A i \in DOMAIN q : i # k => r[i] = q[i]
      /\ r[k].id = q[k].id /\ r[k].attempts = q[k].attempts + 1
  BY DEF Agent!Chan!Leased
<1>2. \A i \in DOMAIN q : r[i].id = q[i].id
  BY <1>1
<1> HIDE DEF r
<1>3. \A i \in DOMAIN r : r[i].attempts > 0 =>
         p = "windows" \/ ran[r[i].id] > 0 \/ r[i].id \in m2 \/ (a2 = "given" /\ c2 = r[i].id)
  BY <1>1, <1>2 DEF Ordered
<1>4. \A i \in DOMAIN r : ran[r[i].id] > 0 \/ c2 = r[i].id => r[i].attempts > 0
  BY <1>1, <1>2 DEF Ordered
<1>5. \A i, j \in DOMAIN r :
         i < j /\ ran[r[j].id] > 0 => ran[r[i].id] > 0 \/ r[i].id \in m2
  BY <1>1, <1>2 DEF Ordered
<1> QED BY <1>3, <1>4, <1>5 DEF Ordered, r

(* The agent runs what it was given: all that was queued before was handed *)
(* out before, and nothing else is under way.                              *)
LEMMA OrderRun ==
  ASSUME NEW q, NEW ran \in [Cmd -> Nat], NEW m, NEW c \in Cmd,
         Ordered(q, ran, m, c, "linux", "given"), \A i \in DOMAIN q : q[i].id \in Cmd,
         \A i, j \in DOMAIN q : q[i].id = q[j].id => i = j, DOMAIN q \in SUBSET Int,
         \A i, j \in DOMAIN q : i < j /\ q[j].attempts > 0 => q[i].attempts > 0
  PROVE  Ordered(q, [ran EXCEPT ![c] = @ + 1], m, c, "linux", "none")
<1> DEFINE ran2 == [ran EXCEPT ![c] = @ + 1]
<1>1. \A i \in DOMAIN q : ran2[q[i].id] > 0 <=> ran[q[i].id] > 0 \/ q[i].id = c
  OBVIOUS
<1> HIDE DEF ran2
<1>2. ASSUME NEW i \in DOMAIN q, NEW j \in DOMAIN q, i < j, ran2[q[j].id] > 0
      PROVE  ran2[q[i].id] > 0 \/ q[i].id \in m
  <2>1. q[j].attempts > 0
    BY <1>1, <1>2 DEF Ordered
  <2>2. q[i].attempts > 0
    BY <1>2, <2>1
  <2> QED BY <1>1, <1>2, <2>2 DEF Ordered
<1>3. \A i \in DOMAIN q : q[i].attempts > 0 => ran2[q[i].id] > 0 \/ q[i].id \in m
  BY <1>1 DEF Ordered
<1>4. \A i \in DOMAIN q : ran2[q[i].id] > 0 \/ c = q[i].id => q[i].attempts > 0
  BY <1>1 DEF Ordered
<1> QED BY <1>2, <1>3, <1>4 DEF Ordered, ran2

LEMMA InOrderKept ==
  ASSUME Agent!Chan!ChannelInv, Agent!Chan!ChannelInv', Stages, InOrder, \A x \in Cmd : Accounted(x),
         [Agent!Next]_(Agent!vars)
  PROVE  InOrder'
<1> USE AgentAssumption
<1> DEFINE q == agentQueue[office]
           q2 == agentQueue'[office]
<1>0. /\ Ordered(q, runs, missed, cmd, platform, reply)
      /\ \A i \in DOMAIN q : q[i].id \in Cmd /\ q[i].id # NoCmd /\ q[i].attempts \in Nat
      /\ \A i, j \in DOMAIN q : q[i].id = q[j].id => i = j
      /\ DOMAIN q \in SUBSET Int /\ q \in Seq(Agent!Chan!Row)
  BY QueueFacts DEF InOrder
<1>1. ASSUME NEW R, Shrunk(R), UNCHANGED <<platform, runs>>, missed \in SUBSET missed', cmd' \in {cmd, NoCmd},
             reply = "given" => platform = "windows" \/ cmd \in missed' \/ (reply' = "given" /\ cmd' = cmd)
      PROVE  InOrder'
  <2>1. Agent!Chan!Follows(q2, q)
    BY <1>1 DEF Shrunk
  <2>2. \A i \in DOMAIN q2 : q2[i].id # NoCmd
    BY <1>0, <2>1 DEF Agent!Chan!Follows
  <2>3. cmd' = cmd \/ \A i \in DOMAIN q2 : q2[i].id # cmd'
    BY <1>1, <2>2
  <2> HIDE DEF q, q2
  <2>4. Ordered(q2, runs, missed', cmd', platform, reply')
    BY <1>0, <1>1, <2>1, <2>3, OrderCalm
  <2> QED BY <1>1, <2>4 DEF InOrder, q2
<1>2. ASSUME UNCHANGED <<agentQueue, agentPending, agentPromise>>, UNCHANGED <<platform, runs>>,
             missed \in SUBSET missed', cmd' \in {cmd, NoCmd},
             reply = "given" => platform = "windows" \/ cmd \in missed' \/ (reply' = "given" /\ cmd' = cmd)
      PROVE  InOrder'
  <2>1. Shrunk({})
    BY <1>2, UnchangedShrinks
  <2> QED BY <1>1, <1>2, <2>1
<1>3. ASSUME NEW y \in Cmd, Agent!Queue(y), UNCHANGED platform PROVE InOrder'
  <2>1. /\ agentPromise[y] = "unused" /\ q2 = Append(q, Agent!Chan!NewRow(y))
        /\ UNCHANGED <<platform, cmd, reply, runs, missed>>
    BY <1>3, QueueFacts DEF Agent!Queue, Agent!Chan!QueueCommand, Agent!netVars, Agent!histVars
  <2>2. cmd # y /\ ~(runs[y] > 0)
    BY <2>1 DEF Accounted
  <2> HIDE DEF q, q2
  <2>3. Ordered(q2, runs, missed, cmd, platform, reply)
    BY <1>0, <2>1, <2>2, OrderPushed
  <2> QED BY <2>1, <2>3 DEF InOrder, q2
<1>4. ASSUME NEW y \in Cmd, Agent!Fires(y) \/ Agent!LatePost(y), UNCHANGED platform PROVE InOrder'
  <2>1. Shrunk({}) \/ Shrunk({y})
    BY <1>4, FiresShrinks, ResultShrinks DEF Agent!Fires, Agent!LatePost, Agent!Answered
  <2>2. UNCHANGED <<platform, cmd, reply, runs, missed>>
    BY <1>4 DEF Agent!Fires, Agent!LatePost, Agent!netVars, Agent!histVars
  <2> QED BY <1>1, <2>1, <2>2
<1>5. CASE (Agent!SessionEnds \/ Agent!SiteChanges) /\ UNCHANGED platform
  <2>1. UNCHANGED <<platform, cmd, reply, runs, missed>>
    BY <1>5 DEF Agent!SessionEnds, Agent!SiteChanges, Agent!histVars
  <2>2. Shrunk({})
    BY <1>5, ClearShrinks, UnchangedShrinks DEF Agent!SessionEnds, Agent!SiteChanges, Agent!chanVars
  <2> QED BY <1>1, <2>1, <2>2
<1>6. CASE Agent!HandlePost /\ UNCHANGED platform
  <2>1. /\ reply = "none" /\ cmd \in Cmd /\ UNCHANGED <<platform, cmd, runs, missed>>
    BY <1>6 DEF Agent!HandlePost, Agent!histVars, Stages
  <2>2. Shrunk({cmd})
    BY <1>6, <2>1, ResultShrinks, UnchangedShrinks DEF Agent!HandlePost, Agent!Answered, Agent!chanVars
  <2> QED BY <1>1, <2>1, <2>2
<1>7. CASE Agent!HandlePoll /\ UNCHANGED platform
  <2>0. reply = "none" /\ UNCHANGED <<platform, runs, missed>>
    BY <1>7 DEF Agent!HandlePoll, Agent!histVars
  <2>1. CASE Agent!HandOut /\ reply' = "given"
    <3>1. PICK k \in DOMAIN q : /\ k = Agent!Chan!First(Agent!Chan!Due(q))
                                /\ q2 = [q EXCEPT ![k] = Agent!Chan!Leased(@, agentNow)]
      BY <2>1, RowIssued DEF Agent!HandOut
    <3>2. cmd' = q[k].id
      BY <2>1, <3>1 DEF Agent!HandOut
    <3> HIDE DEF q, q2
    <3>3. Ordered(q2, runs, missed, cmd', platform, reply')
      BY <1>0, <2>0, <2>1, <3>1, <3>2, OrderLeased
    <3> QED BY <2>0, <3>3 DEF InOrder, q2
  <2>2. CASE reply' \in {"empty", "401"} /\ UNCHANGED <<cmd, agentQueue, agentPending, agentPromise>>
    BY <1>2, <2>0, <2>2
  <2> QED BY <1>7, <2>1, <2>2 DEF Agent!HandlePoll, Agent!Chan!NothingDue, Agent!Chan!chanVars, Agent!chanVars
<1>8. CASE Agent!LatePoll /\ UNCHANGED platform
  <2>0. UNCHANGED <<platform, cmd, reply, runs>>
    BY <1>8 DEF Agent!LatePoll
  <2>1. missed' = missed \cup {q[i].id : i \in {j \in DOMAIN q : q2[j] # q[j]}}
    BY <1>8 DEF Agent!LatePoll
  <2>2. CASE Agent!Chan!IssueRow(office)
    <3>1. PICK k \in DOMAIN q : q2 = [q EXCEPT ![k] = Agent!Chan!Leased(@, agentNow)]
      BY <2>2, RowIssued
    <3>2. q2[k] # q[k]
      <4>1. q2[k].attempts = q[k].attempts + 1
        BY <3>1 DEF Agent!Chan!Leased
      <4> QED BY <1>0, <4>1
    <3> HIDE DEF q, q2
    <3>3. q[k].id \in missed' /\ missed \in SUBSET missed'
      BY <2>1, <3>2
    <3>4. Ordered(q2, runs, missed', cmd, platform, reply)
      BY <1>0, <3>1, <3>3, OrderLeased
    <3> QED BY <2>0, <3>4 DEF InOrder, q2
  <2>3. CASE Agent!Chan!NothingDue(office)
    BY <1>2, <2>0, <2>1, <2>3 DEF Agent!Chan!NothingDue, Agent!Chan!chanVars
  <2> QED BY <1>8, <2>2, <2>3 DEF Agent!LatePoll, Agent!Chan!DequeueForPoll
<1>9. CASE Agent!GotCommand /\ UNCHANGED platform
  <2>1. /\ platform = "linux" /\ reply = "given" /\ reply' = "none" /\ runs' = [runs EXCEPT ![cmd] = @ + 1]
        /\ UNCHANGED <<agentQueue, platform, cmd, missed>>
    BY <1>9 DEF Agent!GotCommand, Agent!chanVars
  <2>2. cmd \in Cmd /\ runs \in [Cmd -> Nat]
    BY <2>1 DEF Stages
  <2>3. \A i, j \in DOMAIN q : i < j /\ q[j].attempts > 0 => q[i].attempts > 0
    BY QueueFacts
  <2> HIDE DEF q, q2
  <2>4. Ordered(q, [runs EXCEPT ![cmd] = @ + 1], missed, cmd, "linux", "none")
    BY <1>0, <2>1, <2>2, <2>3, OrderRun
  <2> QED BY <2>1, <2>4 DEF InOrder, q
<1>10. CASE (Agent!Tick \/ Agent!Readmitted \/ Agent!HandleRegister \/ Agent!LateRegister) /\ UNCHANGED platform
  BY <1>2, <1>10 DEF Agent!Tick, Agent!Chan!Tick, Agent!Chan!chanVars, Agent!Readmitted, Agent!HandleRegister, Agent!LateRegister,
     Agent!chanVars, Agent!netVars, Agent!histVars
<1>11. CASE (Agent!Wake \/ Agent!Ran \/ Agent!GotToken \/ Agent!Refused \/ Agent!Settled \/ Agent!Rejected \/ Agent!Unread) /\ UNCHANGED platform
  <2>1. (Agent!Settled \/ Agent!Rejected) => reply # "given"
    BY DEF Agent!Settled, Agent!Rejected, Stages
  <2> QED BY <1>2, <1>11, <2>1 DEF Agent!Wake, Agent!Ran, Agent!GotToken, Agent!Refused, Agent!Settled, Agent!Rejected, Agent!Unread,
     Agent!chanVars, Agent!histVars
<1>12. CASE (Agent!GiveUp \/ Agent!Restart) /\ UNCHANGED platform
  <2>1. Agent!Dropped /\ UNCHANGED <<agentQueue, agentPending, agentPromise, platform, runs>>
    BY <1>12 DEF Agent!GiveUp, Agent!Restart, Agent!chanVars
  <2>2. cmd' = NoCmd /\ missed \in SUBSET missed' /\ (reply = "given" => cmd \in missed')
    BY <2>1 DEF Agent!Dropped
  <2> QED BY <1>2, <2>1, <2>2
<1>13. CASE UNCHANGED Agent!vars
  BY <1>2, <1>13 DEF Agent!vars, Agent!setting, Agent!chanVars, Agent!netVars, Agent!histVars
<1> QED BY <1>3, <1>4, <1>5, <1>6, <1>7, <1>8, <1>9, <1>10, <1>11, <1>12, <1>13
        DEF Agent!Next, Agent!setting, Agent!Server, Agent!Handle, Agent!Agent, Agent!Loop

-------------------------------------------------------------------------------
(* Together. *)

LEMMA AgentInitial == Agent!Init => AgentInv
<1> SUFFICES ASSUME Agent!Init PROVE AgentInv
  OBVIOUS
<1>1. Agent!Chan!ChannelInv
  BY Agent!Chan!InitInv, AgentFacts DEF Agent!Init
<1>2. Stages
  BY StagesInitial
<1>3. /\ doing = "idle" /\ cmd = NoCmd /\ late = {} /\ sessions = 0 /\ faults = 0
      /\ runs = [x \in Cmd |-> 0] /\ unheard = [x \in Cmd |-> 0] /\ reply = "none"
      /\ agentPromise = [x \in Cmd |-> "unused"] /\ agentQueue[office] = <<>>
  BY DEF Agent!Init, Agent!Chan!Init
<1>4. Budgeted
  BY <1>3 DEF Budgeted, Owed, OwedLate
<1>5. \A x \in Cmd : Accounted(x)
  BY <1>3, AgentAssumption DEF Accounted
<1>6. InOrder
  BY <1>3 DEF InOrder, Ordered
<1> QED BY <1>1, <1>2, <1>4, <1>5, <1>6 DEF AgentInv, Agent!Init

LEMMA AgentStep == AgentInv /\ [Agent!Next]_(Agent!vars) => AgentInv'
<1> SUFFICES ASSUME AgentInv, [Agent!Next]_(Agent!vars) PROVE AgentInv'
  OBVIOUS
<1>1. Agent!Chan!ChannelInv /\ Stages /\ Budgeted /\ (\A x \in Cmd : Accounted(x)) /\ InOrder
  BY DEF AgentInv
<1>2. Agent!Chan!ChannelInv'
  BY <1>1, ChannelKept
<1>3. Stages'
  BY <1>1, StagesKept
<1>4. Budgeted'
  BY <1>1, BudgetedKept
<1>5. ASSUME NEW x \in Cmd PROVE Accounted(x)'
  BY <1>1, AccountedKept
<1>6. InOrder'
  BY <1>1, <1>2, InOrderKept
<1>7. (admits \in BOOLEAN)'
  <2>1. admits \in BOOLEAN
    BY DEF AgentInv
  <2> QED BY <2>1 DEF Agent!Next, Agent!setting, Agent!vars, Agent!SessionEnds, Agent!SiteChanges, Agent!Readmitted
<1> QED BY <1>2, <1>3, <1>4, <1>5, <1>6, <1>7 DEF AgentInv

LEMMA AgentSafe == AgentInv => RunsReported
<1> SUFFICES ASSUME AgentInv PROVE RunsReported
  OBVIOUS
<1>1. /\ Agent!Chan!ChannelInv /\ Stages /\ admits \in BOOLEAN /\ Budgeted
      /\ (\A x \in Cmd : Accounted(x)) /\ InOrder
  BY DEF AgentInv
<1>2. Agent!TypeOK
  <2>1. Agent!Chan!TypeOK
    BY <1>1 DEF Agent!Chan!ChannelInv
  <2> QED BY <1>1, <2>1 DEF Stages, Agent!TypeOK
<1>3. Agent!RerunAfterLossOnly /\ Agent!ResolvedWasRun
  <2>1. \A x \in Cmd : runs[x] \in Nat /\ unheard[x] \in Nat
    BY <1>1 DEF Stages
  <2> QED BY <1>1, <2>1 DEF Accounted, Agent!RerunAfterLossOnly, Agent!ResolvedWasRun
<1>4. Agent!StartedInOrder
  BY <1>1 DEF InOrder, Ordered, Agent!StartedInOrder
<1>5. Agent!SessionsBounded
  BY <1>1 DEF Stages, Budgeted, Owed, OwedLate, Agent!SessionsBounded
<1> QED BY <1>2, <1>3, <1>4, <1>5 DEF RunsReported

(* Whatever the network loses, delays or answers into the void, however    *)
(* often the agent is restarted or its session taken away, and for any     *)
(* commands, leases and time-outs: a command is run again only after the   *)
(* result of a run was lost, a caller gets the result of a run, commands   *)
(* start in order, and registrations are bounded by the failures (the loops*)
(* of the agents against lib/agent.js:486-620).                            *)
THEOREM RunsKept == Agent!Spec => []RunsReported
  BY AgentInitial, AgentStep, AgentSafe, PTL DEF Agent!Spec

-------------------------------------------------------------------------------
(* The web hook: any number of notices, payloads and attempts.              *)

(* The posts that bring a notice to attempt a with payload k.              *)
Budget(k, a) == (k - 1) * Attempts + a

(* A notice that was not sent, or failed for want of a web hook, was not   *)
(* posted.                                                                 *)
NewIsFresh ==
  \A n \in Webhook!Note : phase[n] \in {"new", "unset"} =>
    posts[n] = 0 /\ wire[n] = 0 /\ Webhook!Copies(n) = {} /\ before[n] = {}

(* Every post was one of the attempts with the payloads so far, and there  *)
(* was one with each of them.                                              *)
PostsCounted ==
  \A n \in Webhook!Note : phase[n] \notin {"new", "unset"} =>
    /\ shape[n] <= posts[n] /\ posts[n] <= Budget(shape[n], attempt[n])
    /\ phase[n] = "sleeping" => attempt[n] < Attempts
    /\ phase[n] = "failed" => shape[n] = Shapes

(* A post that was not aborted is answered before the next one, so without *)
(* an abort nothing was taken unless it is known.                          *)
KnownUnlessAborted ==
  \A n \in Webhook!Note : aborts[n] = 0 =>
    wire[n] = 0 /\ (phase[n] # "sent" => Webhook!Copies(n) = {})

(* What was over when a notice was sent stays over.                        *)
OverStaysOver ==
  \A n \in Webhook!Note : \A m \in before[n] : phase[m] \in {"sent", "failed"} /\ wire[m] = 0

WebhookInv == /\ Webhook!TypeOK /\ NewIsFresh /\ PostsCounted /\ KnownUnlessAborted /\ OverStaysOver
              /\ Webhook!SentWasTaken /\ Webhook!DoubledByAborts /\ Webhook!OvertakesOnlyInFlight

LEMMA BudgetSteps ==
  ASSUME NEW k \in 1..Shapes
  PROVE  /\ \A a \in 1..Attempts : Budget(k, a) \in Nat /\ Budget(k, a) <= Shapes * Attempts
         /\ \A a \in 1..Attempts : Budget(k, a) + 1 <= Budget(k + 1, 1)
         /\ \A a \in 1..Attempts : Budget(k, a + 1) = Budget(k, a) + 1
<1> USE NoticesAssumption
<1> DEFINE base == (k - 1) * Attempts
<1>1. base \in Nat /\ (k + 1 - 1) * Attempts = base + Attempts OBVIOUS
<1>2. k * Attempts <= Shapes * Attempts OBVIOUS
<1>3. k * Attempts = base + Attempts OBVIOUS
<1>4. \A a \in Int : Budget(k, a) = base + a BY DEF Budget
<1>5. Budget(k + 1, 1) = base + Attempts + 1 BY <1>1 DEF Budget
<1>6. Shapes * Attempts \in Nat OBVIOUS
<1> HIDE DEF base
<1>7. QED BY <1>1, <1>2, <1>3, <1>4, <1>5, <1>6

(* A post that continues a notice, or begins one.                          *)
LEMMA PostCounts ==
  ASSUME Webhook!TypeOK, PostsCounted, NEW n \in Webhook!Note, NEW k \in 1..Shapes, NEW a \in 1..Attempts,
         Webhook!Post(n, k, a), k <= posts[n] + 1, posts[n] + 1 <= Budget(k, a)
  PROVE  /\ PostsCounted'
         /\ phase' \in [Webhook!Note -> {"new", "posting", "sleeping", "sent", "failed", "unset"}]
         /\ shape' \in [Webhook!Note -> 1..Shapes] /\ attempt' \in [Webhook!Note -> 1..Attempts]
         /\ posts' \in [Webhook!Note -> Nat]
         /\ phase'[n] = "posting" /\ \A m \in Webhook!Note \ {n} : phase'[m] = phase[m]
<1> USE DEF Webhook!TypeOK, Webhook!Post
<1>1. /\ phase'[n] = "posting" /\ shape'[n] = k /\ attempt'[n] = a /\ posts'[n] = posts[n] + 1
      /\ \A m \in Webhook!Note \ {n} : /\ phase'[m] = phase[m] /\ shape'[m] = shape[m]
                                       /\ attempt'[m] = attempt[m] /\ posts'[m] = posts[m]
  OBVIOUS
<1>2. ASSUME NEW m \in Webhook!Note, phase'[m] \notin {"new", "unset"}
      PROVE  /\ shape'[m] <= posts'[m] /\ posts'[m] <= Budget(shape'[m], attempt'[m])
             /\ phase'[m] = "sleeping" => attempt'[m] < Attempts
             /\ phase'[m] = "failed" => shape'[m] = Shapes
  <2>1. CASE m = n BY <1>1, <2>1
  <2>2. CASE m # n BY <1>1, <1>2, <2>2 DEF PostsCounted
  <2>3. QED BY <2>1, <2>2
<1>3. PostsCounted' BY <1>2 DEF PostsCounted, Budget
<1>4. QED BY <1>1, <1>3

(* A post that is not answered well, or a pause that ends: the next attempt*)
(* with the payload, the next payload, or the end.                         *)
LEMMA GoesOn ==
  ASSUME Webhook!TypeOK, PostsCounted, NEW n \in Webhook!Note,
         \/ phase[n] = "posting" /\ (Webhook!Retry(n) \/ Webhook!NextShape(n))
         \/ phase[n] = "sleeping" /\ Webhook!Post(n, shape[n], attempt[n] + 1)
  PROVE  /\ PostsCounted'
         /\ phase' \in [Webhook!Note -> {"new", "posting", "sleeping", "sent", "failed", "unset"}]
         /\ shape' \in [Webhook!Note -> 1..Shapes] /\ attempt' \in [Webhook!Note -> 1..Attempts]
         /\ posts' \in [Webhook!Note -> Nat]
         /\ phase'[n] \in {"posting", "sleeping", "failed"}
         /\ \A m \in Webhook!Note \ {n} : phase'[m] = phase[m]
         /\ \A m \in Webhook!Note : phase'[m] \in {"new", "unset"} => posts'[m] = posts[m]
<1> USE DEF Webhook!TypeOK
<1>0. /\ shape[n] \in 1..Shapes /\ attempt[n] \in 1..Attempts /\ posts[n] \in Nat
      /\ shape[n] <= posts[n] /\ posts[n] <= Budget(shape[n], attempt[n])
  BY DEF PostsCounted
<1>1. CASE phase[n] = "sleeping" /\ Webhook!Post(n, shape[n], attempt[n] + 1)
  <2>0. attempt[n] < Attempts BY <1>1 DEF PostsCounted
  <2>1. attempt[n] + 1 \in 1..Attempts BY <1>0, <2>0, NoticesAssumption
  <2>2. Budget(shape[n], attempt[n] + 1) = Budget(shape[n], attempt[n]) + 1
        /\ Budget(shape[n], attempt[n]) \in Nat
    BY <1>0, BudgetSteps
  <2>3. shape[n] <= posts[n] + 1 /\ posts[n] + 1 <= Budget(shape[n], attempt[n] + 1)
    BY <1>0, <2>2
  <2>4. QED BY <1>0, <1>1, <2>1, <2>3, PostCounts DEF Webhook!Post
<1>2. CASE phase[n] = "posting" /\ Webhook!NextShape(n)
  <2>1. CASE shape[n] < Shapes
    <3>1. Webhook!Post(n, shape[n] + 1, 1) BY <1>2, <2>1 DEF Webhook!NextShape
    <3>2. shape[n] + 1 \in 1..Shapes /\ 1 \in 1..Attempts BY <1>0, <2>1, NoticesAssumption
    <3>3. Budget(shape[n], attempt[n]) + 1 <= Budget(shape[n] + 1, 1)
          /\ Budget(shape[n], attempt[n]) \in Nat /\ Budget(shape[n] + 1, 1) \in Nat
      BY <1>0, <3>2, BudgetSteps
    <3>4. shape[n] + 1 <= posts[n] + 1 /\ posts[n] + 1 <= Budget(shape[n] + 1, 1)
      BY <1>0, <3>3
    <3>5. QED BY <3>1, <3>2, <3>4, PostCounts DEF Webhook!Post
  <2>2. CASE ~(shape[n] < Shapes)
    <3>1. shape[n] = Shapes BY <1>0, <2>2, NoticesAssumption
    <3>2. phase' = [phase EXCEPT ![n] = "failed"] /\ UNCHANGED <<shape, attempt, posts>>
      BY <1>2, <2>2 DEF Webhook!NextShape
    <3>3. phase'[n] = "failed" /\ \A m \in Webhook!Note \ {n} : phase'[m] = phase[m] BY <3>2
    <3>4. PostsCounted' BY <1>2, <3>1, <3>2, <3>3 DEF PostsCounted, Budget
    <3>5. QED BY <3>2, <3>3, <3>4
  <2>3. QED BY <2>1, <2>2
<1>3. CASE phase[n] = "posting" /\ Webhook!Retry(n) /\ attempt[n] < Attempts
  BY <1>0, <1>3 DEF Webhook!Retry, PostsCounted, Budget
<1>4. QED BY <1>1, <1>2, <1>3 DEF Webhook!Retry

(* Such a step, with a post that may be aborted, leaves the channel and    *)
(* what was over as they are.                                              *)
LEMMA GoesOnKeeps ==
  ASSUME WebhookInv, NEW n \in Webhook!Note,
         \/ phase[n] = "posting" /\ (Webhook!Retry(n) \/ Webhook!NextShape(n))
         \/ phase[n] = "sleeping" /\ Webhook!Post(n, shape[n], attempt[n] + 1),
         UNCHANGED <<log, before>>,
         \/ UNCHANGED <<wire, aborts>>
         \/ /\ aborts' = [aborts EXCEPT ![n] = @ + 1]
            /\ wire' = [wire EXCEPT ![n] = @ + 1]
  PROVE  WebhookInv'
<1>1. Webhook!TypeOK BY DEF WebhookInv
<1>2. /\ PostsCounted'
      /\ phase' \in [Webhook!Note -> {"new", "posting", "sleeping", "sent", "failed", "unset"}]
      /\ shape' \in [Webhook!Note -> 1..Shapes] /\ attempt' \in [Webhook!Note -> 1..Attempts]
      /\ posts' \in [Webhook!Note -> Nat]
      /\ phase'[n] \in {"posting", "sleeping", "failed"}
      /\ \A m \in Webhook!Note \ {n} : phase'[m] = phase[m]
      /\ \A m \in Webhook!Note : phase'[m] \in {"new", "unset"} => posts'[m] = posts[m]
  BY GoesOn DEF WebhookInv
<1>3. phase[n] \in {"posting", "sleeping"} OBVIOUS
<1>4. \A m \in Webhook!Note : /\ aborts'[m] \in Nat /\ wire'[m] \in Nat
                              /\ aborts'[m] = 0 => aborts[m] = 0 /\ wire'[m] = wire[m]
                              /\ m # n => wire'[m] = wire[m] /\ aborts'[m] = aborts[m]
                              /\ aborts[m] <= aborts'[m]
  BY <1>1 DEF Webhook!TypeOK
<1>5. Webhook!TypeOK'
  <2>0. wire \in [Webhook!Note -> Nat] /\ aborts \in [Webhook!Note -> Nat] BY <1>1 DEF Webhook!TypeOK
  <2>1. wire' \in [Webhook!Note -> Nat] /\ aborts' \in [Webhook!Note -> Nat]
    <3>1. CASE UNCHANGED <<wire, aborts>> BY <2>0, <3>1
    <3>2. CASE /\ aborts' = [aborts EXCEPT ![n] = @ + 1]
               /\ wire' = [wire EXCEPT ![n] = @ + 1]
      BY <2>0, <3>2
    <3>3. QED BY <3>1, <3>2
  <2>2. log' \in Seq(Webhook!Note) /\ before' \in [Webhook!Note -> SUBSET Webhook!Note] BY <1>1 DEF Webhook!TypeOK
  <2>3. QED BY <1>2, <2>1, <2>2 DEF Webhook!TypeOK
<1>6. \A m \in Webhook!Note : Webhook!Copies(m)' = Webhook!Copies(m) BY DEF Webhook!Copies
<1>7. NewIsFresh' BY <1>2, <1>3, <1>4, <1>6 DEF WebhookInv, NewIsFresh
<1>8. KnownUnlessAborted' BY <1>2, <1>3, <1>4, <1>6 DEF WebhookInv, KnownUnlessAborted
<1>9. OverStaysOver' BY <1>1, <1>2, <1>3, <1>4, ZenonT(60) DEF WebhookInv, OverStaysOver, Webhook!TypeOK
<1>10. Webhook!SentWasTaken' BY <1>2, <1>6 DEF WebhookInv, Webhook!SentWasTaken
<1>11. Webhook!DoubledByAborts'
  <2>1. \A m \in Webhook!Note : aborts[m] > 0 => aborts'[m] > 0 BY <1>1, <1>4, SMTT(30) DEF Webhook!TypeOK
  <2>2. QED BY <2>1 DEF WebhookInv, Webhook!DoubledByAborts
<1>12. Webhook!OvertakesOnlyInFlight' BY DEF WebhookInv, Webhook!OvertakesOnlyInFlight
<1>13. QED BY <1>2, <1>5, <1>7, <1>8, <1>9, <1>10, <1>11, <1>12 DEF WebhookInv

LEMMA SendKeeps == ASSUME WebhookInv, NEW n \in Webhook!Note, Webhook!Send(n) PROVE WebhookInv'
<1>1. Webhook!TypeOK /\ phase[n] = "new" BY DEF WebhookInv, Webhook!Send
<1>2. posts[n] = 0 /\ wire[n] = 0 /\ Webhook!Copies(n) = {} BY <1>1 DEF WebhookInv, NewIsFresh
<1>3. 1 \in 1..Shapes /\ 1 \in 1..Attempts /\ Budget(1, 1) = 1 BY NoticesAssumption DEF Budget
<1>4. /\ PostsCounted'
      /\ phase' \in [Webhook!Note -> {"new", "posting", "sleeping", "sent", "failed", "unset"}]
      /\ shape' \in [Webhook!Note -> 1..Shapes] /\ attempt' \in [Webhook!Note -> 1..Attempts]
      /\ posts' \in [Webhook!Note -> Nat]
      /\ phase'[n] = "posting" /\ \A m \in Webhook!Note \ {n} : phase'[m] = phase[m]
  <2>1. Webhook!Post(n, 1, 1) /\ 1 <= posts[n] + 1 /\ posts[n] + 1 <= Budget(1, 1)
    BY <1>2, <1>3 DEF Webhook!Send
  <2>2. QED BY <1>1, <1>3, <2>1, PostCounts DEF WebhookInv
<1>5. UNCHANGED <<log, wire, aborts>> BY DEF Webhook!Send
<1>6. \A m \in Webhook!Note \ {n} : posts'[m] = posts[m] /\ before'[m] = before[m]
  BY <1>1 DEF Webhook!Send, Webhook!Post, Webhook!TypeOK
<1>7. before'[n] = {m \in Webhook!Note : phase[m] \in {"sent", "failed"} /\ wire[m] = 0}
      /\ before' \in [Webhook!Note -> SUBSET Webhook!Note]
  BY <1>1 DEF Webhook!Send, Webhook!TypeOK
<1>8. Webhook!TypeOK' BY <1>1, <1>4, <1>5, <1>7 DEF Webhook!TypeOK
<1>9. \A m \in Webhook!Note : Webhook!Copies(m)' = Webhook!Copies(m) BY <1>5 DEF Webhook!Copies
<1>10. NewIsFresh' BY <1>4, <1>5, <1>6, <1>9 DEF WebhookInv, NewIsFresh
<1>11. KnownUnlessAborted' BY <1>1, <1>2, <1>4, <1>5, <1>9 DEF WebhookInv, KnownUnlessAborted
<1>12. OverStaysOver'
  <2>1. ASSUME NEW k \in Webhook!Note, NEW m \in before'[k]
        PROVE  phase'[m] \in {"sent", "failed"} /\ wire'[m] = 0
    <3>1. phase[m] \in {"sent", "failed"} /\ wire[m] = 0 /\ m \in Webhook!Note
      BY <1>1, <1>6, <1>7, <2>1 DEF WebhookInv, OverStaysOver, Webhook!TypeOK
    <3>2. m # n BY <1>1, <3>1
    <3>3. QED BY <1>4, <1>5, <3>1, <3>2
  <2>2. QED BY <2>1 DEF OverStaysOver
<1>13. Webhook!SentWasTaken' BY <1>4, <1>9 DEF WebhookInv, Webhook!SentWasTaken
<1>14. Webhook!DoubledByAborts' BY <1>5 DEF WebhookInv, Webhook!DoubledByAborts
<1>15. Webhook!OvertakesOnlyInFlight'
  <2>1. \A i \in DOMAIN log : log[i] \in Webhook!Note /\ log[i] # n
    BY <1>1, <1>2 DEF Webhook!TypeOK, Webhook!Copies
  <2>2. QED BY <1>5, <1>6, <2>1 DEF WebhookInv, Webhook!OvertakesOnlyInFlight
<1>16. QED BY <1>4, <1>8, <1>10, <1>11, <1>12, <1>13, <1>14, <1>15 DEF WebhookInv

LEMMA UnsetKeeps == ASSUME WebhookInv, NEW n \in Webhook!Note, Webhook!Unset(n) PROVE WebhookInv'
<1>1. Webhook!TypeOK /\ phase[n] = "new" BY DEF WebhookInv, Webhook!Unset
<1>2. UNCHANGED <<shape, attempt, log, wire, posts, aborts, before>> BY DEF Webhook!Unset
<1>3. /\ phase' \in [Webhook!Note -> {"new", "posting", "sleeping", "sent", "failed", "unset"}]
      /\ phase'[n] = "unset" /\ \A m \in Webhook!Note \ {n} : phase'[m] = phase[m]
  BY <1>1 DEF Webhook!Unset, Webhook!TypeOK
<1>4. Webhook!TypeOK' BY <1>1, <1>2, <1>3 DEF Webhook!TypeOK
<1>5. \A m \in Webhook!Note : Webhook!Copies(m)' = Webhook!Copies(m) BY <1>2 DEF Webhook!Copies
<1>6. NewIsFresh' BY <1>1, <1>2, <1>3, <1>5 DEF WebhookInv, NewIsFresh
<1>7. PostsCounted' BY <1>2, <1>3 DEF WebhookInv, PostsCounted, Budget
<1>8. KnownUnlessAborted' BY <1>1, <1>2, <1>3, <1>5 DEF WebhookInv, KnownUnlessAborted
<1>9. OverStaysOver' BY <1>1, <1>2, <1>3 DEF WebhookInv, OverStaysOver, Webhook!TypeOK
<1>10. Webhook!SentWasTaken' BY <1>2, <1>3, <1>5 DEF WebhookInv, Webhook!SentWasTaken
<1>11. Webhook!DoubledByAborts' BY <1>2 DEF WebhookInv, Webhook!DoubledByAborts
<1>12. Webhook!OvertakesOnlyInFlight' BY <1>2 DEF WebhookInv, Webhook!OvertakesOnlyInFlight
<1>13. QED BY <1>4, <1>6, <1>7, <1>8, <1>9, <1>10, <1>11, <1>12 DEF WebhookInv

(* The channel takes a post of a notice that is not over.                  *)
LEMMA TakenKeeps ==
  ASSUME WebhookInv, NEW n \in Webhook!Note, Webhook!Accepted(n) \/ Webhook!TakenLate(n) PROVE WebhookInv'
<1>1. Webhook!TypeOK BY DEF WebhookInv
<1>2. log' = Append(log, n) /\ UNCHANGED <<shape, attempt, posts, aborts, before>>
  BY DEF Webhook!Accepted, Webhook!TakenLate
<1>3. phase[n] = "posting" \/ wire[n] > 0 BY DEF Webhook!Accepted, Webhook!TakenLate
<1>4. \A m \in Webhook!Note : /\ phase'[m] = phase[m] \/ (m = n /\ phase[m] = "posting" /\ phase'[m] = "sent")
                              /\ wire'[m] = wire[m] \/ (m = n /\ wire[m] > 0)
                              /\ m # n => wire'[m] = wire[m]
  BY <1>1 DEF Webhook!Accepted, Webhook!TakenLate, Webhook!TypeOK
<1>5. Webhook!TypeOK'
  <2>1. log' \in Seq(Webhook!Note) BY <1>1, <1>2 DEF Webhook!TypeOK
  <2>2. CASE Webhook!Accepted(n) BY <1>1, <2>1, <2>2 DEF Webhook!Accepted, Webhook!TypeOK
  <2>3. CASE Webhook!TakenLate(n) BY <1>1, <2>1, <2>3 DEF Webhook!TakenLate, Webhook!TypeOK
  <2>4. QED BY <2>2, <2>3
<1>6. /\ DOMAIN log = 1..Len(log) /\ DOMAIN log' = 1..(Len(log) + 1) /\ Len(log) \in Nat
      /\ log'[Len(log) + 1] = n /\ \A i \in 1..Len(log) : log'[i] = log[i]
  BY <1>1, <1>2 DEF Webhook!TypeOK
<1>7. Webhook!Copies(n)' # {} BY <1>6 DEF Webhook!Copies
<1>8. \A m \in Webhook!Note \ {n} : Webhook!Copies(m)' = Webhook!Copies(m) BY <1>6 DEF Webhook!Copies
<1>9. phase[n] \notin {"new", "unset"} BY <1>1, <1>3 DEF WebhookInv, NewIsFresh, Webhook!TypeOK
<1>10. \A m \in Webhook!Note : n \notin before[m] BY <1>3 DEF WebhookInv, OverStaysOver
<1>11. PostsCounted' BY <1>1, <1>2, <1>4 DEF WebhookInv, PostsCounted, Webhook!TypeOK, Budget
<1>12. NewIsFresh' BY <1>2, <1>4, <1>8, <1>9 DEF WebhookInv, NewIsFresh
<1>13. aborts[n] = 0 => phase[n] = "posting" /\ phase'[n] = "sent" /\ wire'[n] = 0 /\ Webhook!Copies(n) = {}
  BY <1>1, <1>3 DEF WebhookInv, KnownUnlessAborted, Webhook!Accepted, Webhook!TakenLate, Webhook!TypeOK
<1>14. KnownUnlessAborted'
  BY <1>2, <1>4, <1>8, <1>13 DEF WebhookInv, KnownUnlessAborted
<1>15. OverStaysOver' BY <1>1, <1>2, <1>4, <1>10 DEF WebhookInv, OverStaysOver, Webhook!TypeOK
<1>16. Webhook!SentWasTaken' BY <1>4, <1>7, <1>8 DEF WebhookInv, Webhook!SentWasTaken
<1>17. Webhook!DoubledByAborts'
  <2> SUFFICES ASSUME NEW m \in Webhook!Note, NEW i \in DOMAIN log', NEW j \in DOMAIN log',
                      log'[i] = m, log'[j] = m, i # j
               PROVE  aborts'[m] > 0
    BY DEF Webhook!DoubledByAborts
  <2>1. CASE i \in 1..Len(log) /\ j \in 1..Len(log)
    BY <1>2, <1>6, <2>1 DEF WebhookInv, Webhook!DoubledByAborts
  <2>2. CASE ~(i \in 1..Len(log) /\ j \in 1..Len(log))
    <3>1. m = n /\ Webhook!Copies(n) # {} BY <1>6, <2>2 DEF Webhook!Copies
    <3>2. QED BY <1>1, <1>2, <1>13, <3>1 DEF Webhook!TypeOK
  <2>3. QED BY <2>1, <2>2
<1>18. Webhook!OvertakesOnlyInFlight'
  <2>1. ASSUME NEW i \in DOMAIN log', NEW j \in DOMAIN log', i < j,
               log'[i] \in Webhook!Note, log'[j] \in before'[log'[i]]
        PROVE  FALSE
    <3>1. i \in DOMAIN log /\ log'[i] = log[i] BY <1>6, <2>1
    <3>2. log'[j] # n BY <1>2, <1>10, <2>1
    <3>3. j \in DOMAIN log /\ log'[j] = log[j] BY <1>6, <2>1, <3>2
    <3>4. QED BY <1>2, <2>1, <3>1, <3>3 DEF WebhookInv, Webhook!OvertakesOnlyInFlight
  <2>2. QED BY <2>1 DEF Webhook!OvertakesOnlyInFlight
<1>19. QED
  BY <1>5, <1>11, <1>12, <1>14, <1>15, <1>16, <1>17, <1>18 DEF WebhookInv

LEMMA VanishesKeeps == ASSUME WebhookInv, NEW n \in Webhook!Note, Webhook!Vanishes(n) PROVE WebhookInv'
<1>1. Webhook!TypeOK BY DEF WebhookInv
<1>2. /\ UNCHANGED <<phase, shape, attempt, log, posts, aborts, before>>
      /\ \A m \in Webhook!Note : wire'[m] \in Nat /\ wire'[m] <= wire[m]
  BY <1>1 DEF Webhook!Vanishes, Webhook!TypeOK
<1>3. \A m \in Webhook!Note : wire[m] = 0 => wire'[m] = 0 BY <1>1, <1>2 DEF Webhook!TypeOK
<1>4. Webhook!TypeOK' BY <1>1 DEF Webhook!Vanishes, Webhook!TypeOK
<1>5. \A m \in Webhook!Note : Webhook!Copies(m)' = Webhook!Copies(m) BY <1>2 DEF Webhook!Copies
<1>6. NewIsFresh' BY <1>2, <1>3, <1>5 DEF WebhookInv, NewIsFresh
<1>7. PostsCounted' BY <1>2 DEF WebhookInv, PostsCounted, Budget
<1>8. KnownUnlessAborted' BY <1>2, <1>3, <1>5 DEF WebhookInv, KnownUnlessAborted
<1>9. OverStaysOver' BY <1>1, <1>2, <1>3 DEF WebhookInv, Webhook!TypeOK, OverStaysOver
<1>10. Webhook!SentWasTaken' BY <1>2, <1>5 DEF WebhookInv, Webhook!SentWasTaken
<1>11. Webhook!DoubledByAborts' BY <1>2 DEF WebhookInv, Webhook!DoubledByAborts
<1>12. Webhook!OvertakesOnlyInFlight' BY <1>2 DEF WebhookInv, Webhook!OvertakesOnlyInFlight
<1>13. QED BY <1>4, <1>6, <1>7, <1>8, <1>9, <1>10, <1>11, <1>12 DEF WebhookInv

LEMMA WebhookInitial == Webhook!Init => WebhookInv
  BY NoticesAssumption DEF Webhook!Init, WebhookInv, Webhook!TypeOK, NewIsFresh, PostsCounted, KnownUnlessAborted, OverStaysOver,
         Webhook!SentWasTaken, Webhook!DoubledByAborts, Webhook!OvertakesOnlyInFlight, Webhook!Copies

LEMMA WebhookStep == ASSUME WebhookInv, [Webhook!Next]_(Webhook!vars) PROVE WebhookInv'
<1>1. ASSUME NEW n \in Webhook!Note, NEW r \in BOOLEAN, Webhook!Refused(n, r) PROVE WebhookInv'
  <2>1. /\ phase[n] = "posting" /\ (Webhook!Retry(n) \/ Webhook!NextShape(n))
        /\ UNCHANGED <<log, wire, aborts, before>>
    BY <1>1 DEF Webhook!Refused
  <2>2. QED BY <2>1, GoesOnKeeps
<1>2. ASSUME NEW n \in Webhook!Note, NEW r \in BOOLEAN, Webhook!Aborted(n, r) PROVE WebhookInv'
  BY <1>2, GoesOnKeeps DEF Webhook!Aborted
<1>3. ASSUME NEW n \in Webhook!Note, Webhook!Wake(n) PROVE WebhookInv' BY <1>3, GoesOnKeeps DEF Webhook!Wake
<1>4. CASE UNCHANGED Webhook!vars
  BY <1>4 DEF Webhook!vars, WebhookInv, Webhook!TypeOK, NewIsFresh, PostsCounted, Budget, KnownUnlessAborted,
              OverStaysOver, Webhook!SentWasTaken, Webhook!DoubledByAborts, Webhook!OvertakesOnlyInFlight, Webhook!Copies
<1>5. QED BY <1>1, <1>2, <1>3, <1>4, SendKeeps, UnsetKeeps, TakenKeeps, VanishesKeeps DEF Webhook!Next, Webhook!Answer

LEMMA WebhookSafe == ASSUME WebhookInv PROVE Webhook!NoticesSafe
<1>1. Webhook!PostsBounded
  <2>1. ASSUME NEW n \in Webhook!Note
        PROVE  /\ posts[n] <= Shapes * Attempts
               /\ phase[n] = "failed" => posts[n] >= Shapes /\ shape[n] = Shapes
    <3>1. shape[n] \in 1..Shapes /\ attempt[n] \in 1..Attempts /\ posts[n] \in Nat
      BY DEF WebhookInv, Webhook!TypeOK
    <3>2. /\ Budget(shape[n], attempt[n]) \in Nat
          /\ Budget(shape[n], attempt[n]) <= Shapes * Attempts /\ Shapes * Attempts \in Nat
      BY <3>1, BudgetSteps, NoticesAssumption
    <3>3. CASE phase[n] \in {"new", "unset"} BY <3>2, <3>3 DEF WebhookInv, NewIsFresh
    <3>4. CASE phase[n] \notin {"new", "unset"} BY <3>1, <3>2, <3>4, NoticesAssumption DEF WebhookInv, PostsCounted
    <3>5. QED BY <3>3, <3>4
  <2>2. QED BY <2>1 DEF Webhook!PostsBounded
<1>2. QED BY <1>1 DEF WebhookInv, Webhook!NoticesSafe

(* Whatever the channel refuses, leaves without an answer or takes late,   *)
(* for any number of notices, payloads and attempts: what is logged as sent*)
(* was taken, posts are bounded, a channel gets a notice twice only after  *)
(* an abort, and a notice comes before no other that was over when it was  *)
(* sent (sendTeamsNotification, postTeamsWebhookWithRetry).                *)
THEOREM WebhookKept == Webhook!Spec => []WebhookSound
<1>1. WebhookInv => WebhookSound
  BY WebhookSafe DEF WebhookInv, WebhookSound
<1> QED BY <1>1, WebhookInitial, WebhookStep, PTL DEF Webhook!Spec

-------------------------------------------------------------------------------
\* The boards

(* A table of rows and their statuses.                                     *)
Shows(t) == DOMAIN t \subseteq Services!Row /\ t \in [DOMAIN t -> Services!Status]

PollFields == {"prev", "todo", "got", "said", "alone"}

(* A poll under way.                                                       *)
PollUnderway(p) ==
  /\ p.todo # {} /\ p.todo \subseteq DOMAIN p.got /\ p.said \subseteq DOMAIN p.prev \ p.todo
  /\ Shows(p.prev) /\ Shows(p.got) /\ p.alone \in BOOLEAN
  /\ DOMAIN p = PollFields

(* Of a row that no poll spoke of since, the last event gives the status of*)
(* the table t, unless polls raced about it; of any other row there is none.*)
Agrees(tab, t, aside) ==
  \A r \in Services!Row :
    IF r \in DOMAIN t THEN r \in raced \/ r \in aside \/ tab[r] \in {"none", t[r]}
                      ELSE tab[r] = "none"

(* A poll that runs alone: the rows it spoke of, those it pinged and that  *)
(* were as before, and those it has still to ping.                         *)
AloneSound(tab, p) ==
  /\ Agrees(tab, p.prev, p.said)
  /\ \A r \in p.said : r \in DOMAIN p.got /\ tab[r] \in {"none", p.got[r]}
  /\ \A r \in (DOMAIN p.got \cap DOMAIN p.prev) \ (p.todo \cup p.said) :
       p.got[r] \in {"unknown", p.prev[r]}

ServicesInv ==
  /\ public \in BOOLEAN /\ conf \in SUBSET Services!Row
  /\ Shows(shown)
  /\ DOMAIN poll \subseteq Polls /\ \A k \in DOMAIN poll : PollUnderway(poll[k])
  /\ spoken \in [Services!Row -> Services!Status \cup {"none"}]
  /\ raced \subseteq Services!Row /\ again = {}
  /\ serviceEdits \in 0..MaxServices
  /\ \A k \in DOMAIN poll : poll[k].alone = TRUE => DOMAIN poll = {k} /\ AloneSound(spoken, poll[k])
  /\ DOMAIN poll = {} => Agrees(spoken, shown, {})

LEMMA ServicesInitial == Services!Init => ServicesInv
<1> SUFFICES ASSUME Services!Init PROVE ServicesInv
  OBVIOUS
<1>1. Shows(shown) /\ conf \in SUBSET Services!Row
  BY DEF Services!Init, Services!Initially, Services!Board, Shows, Services!Status
<1>2. DOMAIN poll = {}
  BY DEF Services!Init
<1>3. Agrees(spoken, shown, {})
  BY DEF Services!Init, Agrees
<1> QED BY <1>1, <1>2, <1>3, ServicesAssumption DEF Services!Init, ServicesInv

(* A poll when it starts.                                                  *)
LEMMA NewPollSound ==
  ASSUME ServicesInv, conf # {}
  PROVE  /\ PollUnderway(Services!NewPoll)
         /\ Services!NewPoll.alone = TRUE <=> DOMAIN poll = {}
         /\ DOMAIN poll = {} => AloneSound(spoken, Services!NewPoll)
<1> DEFINE p == Services!NewPoll
<1>1. /\ p.prev = shown /\ p.todo = conf /\ p.said = {} /\ p.alone = (DOMAIN poll = {})
      /\ p.got = [r \in Services!Board(conf) |-> "unknown"]
      /\ DOMAIN p = PollFields
  BY DEF Services!NewPoll, Services!Definitions, Services!Initially, PollFields
<1> HIDE DEF p
<1>2. conf \subseteq Services!Board(conf) /\ Services!Board(conf) \subseteq Services!Row
  BY DEF ServicesInv, Services!Board
<1>3. Shows(p.got) /\ Shows(p.prev) /\ p.alone \in BOOLEAN
  BY <1>1, <1>2 DEF Shows, Services!Status, ServicesInv
<1>4. PollUnderway(p)
  BY <1>1, <1>2, <1>3 DEF PollUnderway
<1>5. DOMAIN poll = {} => AloneSound(spoken, p)
  BY <1>1, <1>2 DEF ServicesInv, AloneSound
<1>6. p.alone = TRUE <=> DOMAIN poll = {}
  BY <1>1
<1> QED BY <1>4, <1>5, <1>6 DEF p

LEMMA PollKeeps ==
  ASSUME ServicesInv, NEW k \in Polls, Services!Poll(k)
  PROVE  ServicesInv'
<1>1. k \notin DOMAIN poll /\ UNCHANGED <<public, conf, serviceEdits, raced, again>>
  BY DEF Services!Poll
<1>2. CASE conf = {}
  <2>1. /\ shown' = [r \in Services!Board({}) |-> "unknown"] /\ UNCHANGED poll
        /\ spoken' = [r \in Services!Row |-> "none"]
    BY <1>2 DEF Services!Poll, Services!Definitions, Services!Stored, Services!NewPoll, Services!Initially
  <2>2. Services!Board({}) \subseteq Services!Row
    BY DEF Services!Board
  <2>3. Shows(shown')
    BY <2>1, <2>2 DEF Shows, Services!Status
  <2>4. \A t, said : Agrees(spoken, t, said)'
    BY <2>1 DEF Agrees
  <2>5. (\A j \in DOMAIN poll : poll[j].alone = TRUE => DOMAIN poll = {j} /\ AloneSound(spoken, poll[j]))'
    <3> SUFFICES ASSUME NEW j \in DOMAIN poll, poll[j].alone = TRUE
                 PROVE  DOMAIN poll = {j} /\ AloneSound(spoken, poll[j])'
      BY <2>1
    <3>1. DOMAIN poll = {j} /\ AloneSound(spoken, poll[j]) /\ PollUnderway(poll[j])
      BY DEF ServicesInv
    <3>2. \A r \in poll[j].said : r \in Services!Row /\ r \in DOMAIN poll[j].got
      BY <3>1 DEF AloneSound, PollUnderway, Shows
    <3> QED BY <3>1, <3>2, <2>1, <2>4 DEF AloneSound
  <2>6. spoken' \in [Services!Row -> Services!Status \cup {"none"}]
    BY <2>1
  <2> QED BY <1>1, <2>1, <2>3, <2>4, <2>5, <2>6 DEF ServicesInv
<1>3. CASE conf # {}
  <2>1. /\ poll' = [j \in DOMAIN poll \cup {k} |->
                     IF j = k THEN Services!NewPoll ELSE [poll[j] EXCEPT !.alone = FALSE]]
        /\ UNCHANGED <<shown, spoken>>
    BY <1>3 DEF Services!Poll, Services!Definitions
  <2>2. \A j \in DOMAIN poll : PollUnderway(poll'[j]) /\ poll'[j].alone = FALSE
    <3> SUFFICES ASSUME NEW j \in DOMAIN poll PROVE PollUnderway(poll'[j]) /\ poll'[j].alone = FALSE
      OBVIOUS
    <3>1. poll'[j] = [poll[j] EXCEPT !.alone = FALSE] /\ PollUnderway(poll[j])
      BY <2>1, <1>1 DEF ServicesInv
    <3>2. DOMAIN poll[j] = PollFields
      BY <3>1 DEF PollUnderway
    <3>3. /\ poll'[j].prev = poll[j].prev /\ poll'[j].todo = poll[j].todo /\ poll'[j].got = poll[j].got
          /\ poll'[j].said = poll[j].said /\ DOMAIN poll'[j] = PollFields
      BY <3>1, <3>2 DEF PollFields
    <3>4. poll'[j].alone = FALSE
      BY <3>1, <3>2 DEF PollFields
    <3>5. poll'[j].alone \in BOOLEAN
      BY <3>4, Zenon
    <3> QED BY <3>1, <3>3, <3>4, <3>5 DEF PollUnderway
  <2>3. PollUnderway(poll'[k]) /\ (poll'[k].alone = TRUE <=> DOMAIN poll = {}) /\ (DOMAIN poll = {} => AloneSound(spoken, poll'[k]))
    BY <2>1, <1>3, NewPollSound
  <2>4. DOMAIN poll' = DOMAIN poll \cup {k}
    BY <2>1
  <2>5. ASSUME NEW j \in DOMAIN poll' PROVE (poll[j].alone = TRUE => DOMAIN poll = {j} /\ AloneSound(spoken, poll[j]))'
    <3>1. CASE j = k
      BY <3>1, <2>1, <2>3, <2>4, <1>1 DEF AloneSound, Agrees
    <3>2. CASE j # k
      <4>1. poll'[j].alone = FALSE
        BY <3>2, <2>2, <2>4
      <4> QED BY <4>1
    <3> QED BY <3>1, <3>2
  <2> QED BY <1>1, <2>1, <2>2, <2>3, <2>4, <2>5 DEF ServicesInv
<1> QED BY <1>2, <1>3

(* A ping ends: the poll with it, and the last events with what it says.   *)
Pings(k, r, s, p, tab) ==
  /\ k \in DOMAIN poll /\ s \in {"up", "down"} /\ r \in poll[k].todo
  /\ p.prev = poll[k].prev /\ p.todo = poll[k].todo \ {r} /\ p.got = [poll[k].got EXCEPT ![r] = s]
  /\ p.said = IF Services!Says(p, r) THEN poll[k].said \cup {r} ELSE poll[k].said
  /\ p.alone = poll[k].alone /\ DOMAIN p = PollFields
  /\ Services!Says(p, r) <=> r \in DOMAIN poll[k].prev /\ poll[k].prev[r] # s
  /\ tab[r] = IF Services!Says(p, r) THEN s ELSE spoken[r]
  /\ \A x \in Services!Row \ {r} : tab[x] = spoken[x]

LEMMA PingKeeps ==
  ASSUME ServicesInv, NEW k, NEW r, NEW s, NEW p, NEW tab, Pings(k, r, s, p, tab)
  PROVE  /\ p.todo # {} => PollUnderway(p)
         /\ Shows(p.got) /\ r \in Services!Row
         /\ p.alone = TRUE => AloneSound(tab, p)
<1> DEFINE u == poll[k]
<1>1. PollUnderway(u) /\ (u.alone = TRUE => AloneSound(spoken, u))
  BY DEF ServicesInv, Pings
<1>0. /\ s \in {"up", "down"} /\ r \in u.todo
      /\ p.prev = u.prev /\ p.todo = u.todo \ {r} /\ p.got = [u.got EXCEPT ![r] = s]
      /\ p.said = IF Services!Says(p, r) THEN u.said \cup {r} ELSE u.said
      /\ p.alone = u.alone /\ DOMAIN p = PollFields
      /\ Services!Says(p, r) <=> r \in DOMAIN u.prev /\ u.prev[r] # s
      /\ tab[r] = IF Services!Says(p, r) THEN s ELSE spoken[r]
      /\ \A x \in Services!Row \ {r} : tab[x] = spoken[x]
  BY DEF Pings
<1> HIDE DEF u
<1> USE <1>0
<1>2. r \in u.todo /\ r \in DOMAIN u.got /\ r \in Services!Row /\ r \notin u.said /\ DOMAIN p.got = DOMAIN u.got
  BY <1>1 DEF PollUnderway, Shows
<1>3. Shows(p.got)
  BY <1>1, <1>2 DEF PollUnderway, Shows, Services!Status
<1>4. p.todo # {} => PollUnderway(p)
  BY <1>1, <1>2, <1>3 DEF PollUnderway
<1>5. ASSUME u.alone = TRUE PROVE AloneSound(tab, p)
  <2>1. AloneSound(spoken, u)
    BY <1>1, <1>5
  <2>2. Agrees(tab, p.prev, p.said)
    <3> SUFFICES ASSUME NEW x \in Services!Row
                 PROVE  IF x \in DOMAIN p.prev THEN x \in raced \/ x \in p.said \/ tab[x] \in {"none", p.prev[x]}
                                               ELSE tab[x] = "none"
      BY DEF Agrees
    <3>1. IF x \in DOMAIN u.prev THEN x \in raced \/ x \in u.said \/ spoken[x] \in {"none", u.prev[x]}
                                 ELSE spoken[x] = "none"
      BY <2>1 DEF AloneSound, Agrees
    <3>2. p.prev = u.prev /\ u.said \subseteq p.said /\ (Services!Says(p, r) => r \in p.said /\ r \in DOMAIN p.prev)
      OBVIOUS
    <3>3. x # r \/ ~Services!Says(p, r) => tab[x] = spoken[x]
      OBVIOUS
    <3> QED BY <3>1, <3>2, <3>3
  <2>3. ASSUME NEW x \in p.said PROVE x \in DOMAIN p.got /\ tab[x] \in {"none", p.got[x]}
    <3>1. CASE x = r
      <4>1. Services!Says(p, r) /\ p.got[r] = s
        BY <2>3, <3>1, <1>2
      <4> QED BY <4>1, <3>1, <1>2
    <3>2. CASE x # r
      <4>1. x \in u.said /\ x \in Services!Row
        BY <2>3, <3>2, <1>1 DEF PollUnderway, Shows
      <4>2. x \in DOMAIN u.got /\ spoken[x] \in {"none", u.got[x]}
        BY <4>1, <2>1 DEF AloneSound
      <4>3. p.got[x] = u.got[x]
        BY <4>2, <3>2
      <4> QED BY <4>1, <4>2, <4>3, <3>2, <1>2
    <3> QED BY <3>1, <3>2
  <2>4. ASSUME NEW x \in (DOMAIN p.got \cap DOMAIN p.prev) \ (p.todo \cup p.said)
        PROVE  p.got[x] \in {"unknown", p.prev[x]}
    <3>1. CASE x = r
      BY <2>4, <3>1, <1>2
    <3>2. CASE x # r
      <4>1. x \in (DOMAIN u.got \cap DOMAIN u.prev) \ (u.todo \cup u.said)
        BY <2>4, <3>2, <1>2
      <4>2. u.got[x] \in {"unknown", u.prev[x]}
        BY <4>1, <2>1 DEF AloneSound
      <4> QED BY <4>1, <4>2, <3>2
    <3> QED BY <3>1, <3>2
  <2> QED BY <2>2, <2>3, <2>4 DEF AloneSound
<1> QED BY <1>2, <1>3, <1>4, <1>5

(* The last ping of a poll: what the poll found is shown.                  *)
Stores(k, p, tab) ==
  /\ k \in DOMAIN poll /\ Services!Store(k, p)
  /\ Shows(p.got) /\ p.todo = {} /\ p.alone = poll[k].alone /\ (p.alone = TRUE => AloneSound(tab, p))
  /\ \A x \in Services!Row : spoken'[x] = IF x \notin DOMAIN p.got THEN "none"
                                        ELSE IF p.got[x] = "unknown" THEN "unknown" ELSE tab[x]
  /\ spoken' \in [Services!Row -> Services!Status \cup {"none"}]
  /\ UNCHANGED <<public, conf, serviceEdits, again>>

LEMMA StoreKeeps ==
  ASSUME ServicesInv, NEW k, NEW p, NEW tab, Stores(k, p, tab)
  PROVE  ServicesInv'
<1> DEFINE S == p.said \cup {r \in DOMAIN p.got : p.got[r] = "unknown" /\ Services!Says(p, r)}
<1>1. /\ shown' = p.got /\ poll' = [j \in DOMAIN poll \ {k} |-> poll[j]]
      /\ raced' = (IF p.alone THEN raced \ S ELSE Services!Row) \cap DOMAIN p.got
  BY DEF Stores, Services!Store, Services!Stored
<1>0. /\ k \in DOMAIN poll /\ Shows(p.got) /\ p.todo = {} /\ p.alone = poll[k].alone /\ (p.alone = TRUE => AloneSound(tab, p))
      /\ \A x \in Services!Row : spoken'[x] = IF x \notin DOMAIN p.got THEN "none"
                                            ELSE IF p.got[x] = "unknown" THEN "unknown" ELSE tab[x]
      /\ spoken' \in [Services!Row -> Services!Status \cup {"none"}]
      /\ UNCHANGED <<public, conf, serviceEdits, again>>
  BY DEF Stores
<1> USE <1>0
<1>2. DOMAIN p.got \subseteq Services!Row
  BY DEF Shows
<1>3. p.alone \in BOOLEAN /\ (p.alone = TRUE => DOMAIN poll = {k})
  BY DEF ServicesInv, PollUnderway
<1>4. raced' \subseteq Services!Row
  BY <1>1, <1>2
<1>5. ASSUME NEW j \in DOMAIN poll' PROVE PollUnderway(poll'[j]) /\ j \in Polls /\ poll'[j].alone # TRUE
  <2>1. j \in DOMAIN poll /\ j # k /\ poll'[j] = poll[j]
    BY <1>1, <1>5
  <2> QED BY <2>1 DEF ServicesInv
<1>6. ASSUME NEW x \in Services!Row
      PROVE  IF x \in DOMAIN p.got THEN x \in raced' \/ spoken'[x] \in {"none", p.got[x]} ELSE spoken'[x] = "none"
  <2>1. CASE x \notin DOMAIN p.got
    BY <2>1
  <2>2. CASE x \in DOMAIN p.got /\ p.alone # TRUE
    BY <2>2, <1>1, <1>3
  <2>3. CASE x \in DOMAIN p.got /\ p.alone = TRUE
    <3>1. AloneSound(tab, p) /\ raced' = (raced \ S) \cap DOMAIN p.got
      BY <2>3, <1>1
    <3>2. CASE p.got[x] = "unknown"
      BY <2>3, <3>2
    <3>3. CASE p.got[x] # "unknown" /\ x \in p.said
      BY <2>3, <3>1, <3>3 DEF AloneSound
    <3>4. CASE p.got[x] # "unknown" /\ x \notin p.said
      <4>1. x \notin S
        BY <3>4
      <4>2. x \in DOMAIN p.prev => p.got[x] = p.prev[x]
        BY <3>1, <3>4, <2>3 DEF AloneSound
      <4>3. IF x \in DOMAIN p.prev THEN x \in raced \/ tab[x] \in {"none", p.prev[x]} ELSE tab[x] = "none"
        BY <3>1, <3>4 DEF AloneSound, Agrees
      <4> HIDE DEF S
      <4> QED BY <4>1, <4>2, <4>3, <3>1, <3>4, <2>3
    <3> QED BY <3>2, <3>3, <3>4
  <2> QED BY <2>1, <2>2, <2>3
<1>7. Agrees(spoken, shown, {})'
  BY <1>1, <1>6 DEF Agrees
<1>8. /\ (public \in BOOLEAN /\ conf \in SUBSET Services!Row)' /\ again' = {}
      /\ serviceEdits' \in 0..MaxServices
  BY DEF ServicesInv
<1>9. Shows(shown')
  BY <1>1
<1> QED BY <1>4, <1>5, <1>7, <1>8, <1>9 DEF ServicesInv

LEMMA PingEndsKeeps ==
  ASSUME ServicesInv, NEW k \in DOMAIN poll, NEW s \in {"up", "down"}, NEW r, Services!PingEnds(k, r, s)
  PROVE  ServicesInv'
<1> DEFINE u == poll[k]
           q == [u EXCEPT !.todo = @ \ {r}, !.got[r] = s]
           p == [q EXCEPT !.said = IF Services!Says(q, r) THEN @ \cup {r} ELSE @]
           tab == [spoken EXCEPT ![r] = IF Services!Says(p, r) THEN s ELSE spoken[r]]
<1>1. /\ r \in u.todo /\ UNCHANGED <<public, conf, serviceEdits>>
      /\ IF p.todo = {} THEN Services!Store(k, p) ELSE poll' = [poll EXCEPT ![k] = p] /\ UNCHANGED <<shown, raced>>
      /\ spoken' = [x \in Services!Row |->
                    IF x = r /\ Services!Says(p, r) THEN s
                    ELSE IF p.todo = {} /\ x \notin DOMAIN p.got THEN "none"
                    ELSE IF p.todo = {} /\ p.got[x] = "unknown" THEN "unknown"
                    ELSE spoken[x]]
      /\ again' = IF Services!Says(p, r) /\ p.alone /\ r \notin raced /\ spoken[r] = s
                    THEN again \cup {r} ELSE again
  BY DEF Services!PingEnds, Services!Pinged
<1>2. PollUnderway(u) /\ (u.alone = TRUE => AloneSound(spoken, u))
  BY DEF ServicesInv
<1>3. /\ p.prev = u.prev /\ p.todo = u.todo \ {r} /\ p.got = [u.got EXCEPT ![r] = s]
      /\ p.said = IF Services!Says(p, r) THEN u.said \cup {r} ELSE u.said
      /\ p.alone = u.alone
      /\ Services!Says(p, r) <=> r \in DOMAIN u.prev /\ u.prev[r] # s
      /\ DOMAIN p = PollFields
  <2>1. /\ q.prev = u.prev /\ q.todo = u.todo \ {r} /\ q.got = [u.got EXCEPT ![r] = s]
        /\ q.said = u.said /\ q.alone = u.alone /\ DOMAIN q = PollFields
    BY <1>2 DEF PollUnderway, PollFields
  <2>2. q.got[r] = s
    BY <1>1, <1>2, <2>1 DEF PollUnderway
  <2> HIDE DEF q
  <2>3. /\ p.prev = q.prev /\ p.todo = q.todo /\ p.got = q.got /\ p.alone = q.alone
        /\ p.said = IF Services!Says(q, r) THEN q.said \cup {r} ELSE q.said
        /\ DOMAIN p = PollFields
    BY <2>1 DEF PollFields
  <2> HIDE DEF p
  <2>4. Services!Says(q, r) <=> r \in DOMAIN u.prev /\ u.prev[r] # s
    BY <2>1, <2>2 DEF Services!Says
  <2>5. Services!Says(p, r) <=> r \in DOMAIN u.prev /\ u.prev[r] # s
    BY <2>1, <2>2, <2>3 DEF Services!Says
  <2> QED BY <2>1, <2>3, <2>4, <2>5
<1>4. r \in Services!Row /\ spoken \in [Services!Row -> Services!Status \cup {"none"}] /\ r \in DOMAIN u.got /\ r \notin u.said
  BY <1>1, <1>2 DEF PollUnderway, Shows, ServicesInv
<1>5. tab[r] = (IF Services!Says(p, r) THEN s ELSE spoken[r]) /\ \A x \in Services!Row \ {r} : tab[x] = spoken[x]
  BY <1>4
<1> HIDE DEF q, p, tab
<1>6. (p.todo # {} => PollUnderway(p)) /\ Shows(p.got) /\ (p.alone = TRUE => AloneSound(tab, p))
  <2>1. Pings(k, r, s, p, tab)
    BY <1>1, <1>3, <1>5 DEF Pings
  <2> QED BY <2>1, PingKeeps
<1>7. again' = {}
  <2>1. ~(Services!Says(p, r) /\ p.alone /\ r \notin raced /\ spoken[r] = s)
    <3> SUFFICES ASSUME Services!Says(p, r), u.alone = TRUE, r \notin raced PROVE spoken[r] # s
      BY <1>2, <1>3 DEF PollUnderway
    <3>1. r \in DOMAIN u.prev /\ u.prev[r] # s
      BY <1>3
    <3>2. spoken[r] \in {"none", u.prev[r]}
      BY <1>2, <1>4, <3>1 DEF AloneSound, Agrees
    <3> QED BY <3>1, <3>2
  <2> QED BY <2>1, <1>1 DEF ServicesInv
<1>8. spoken' \in [Services!Row -> Services!Status \cup {"none"}]
  BY <1>1, <1>4 DEF Services!Status
<1>9. CASE p.todo = {}
  <2>1. \A x \in Services!Row : spoken'[x] = IF x \notin DOMAIN p.got THEN "none"
                                            ELSE IF p.got[x] = "unknown" THEN "unknown" ELSE tab[x]
    BY <1>9, <1>1, <1>3, <1>4, <1>5
  <2>2. Services!Store(k, p) /\ UNCHANGED again
    BY <1>9, <1>1, <1>7 DEF ServicesInv
  <2>3. Stores(k, p, tab)
    BY <1>1, <1>3, <1>6, <1>8, <1>9, <2>1, <2>2 DEF Stores
  <2> QED BY <2>3, StoreKeeps
<1>10. CASE p.todo # {}
  <2>1. poll' = [poll EXCEPT ![k] = p] /\ UNCHANGED <<shown, raced>>
    BY <1>1, <1>10
  <2>2. spoken' = tab
    BY <1>1, <1>4, <1>5, <1>8, <1>10 DEF tab
  <2>3. ASSUME NEW j \in DOMAIN poll' PROVE PollUnderway(poll'[j]) /\ (poll[j].alone = TRUE => DOMAIN poll = {j} /\ AloneSound(spoken, poll[j]))'
    <3>1. CASE j = k
      <4>1. poll'[k] = p /\ DOMAIN poll' = DOMAIN poll
        BY <2>1
      <4>2. p.alone = TRUE => DOMAIN poll = {k}
        BY <1>3 DEF ServicesInv
      <4> QED BY <3>1, <4>1, <4>2, <2>1, <2>2, <1>6, <1>10 DEF AloneSound, Agrees
    <3>2. CASE j # k
      <4>1. poll'[j] = poll[j] /\ j \in DOMAIN poll
        BY <3>2, <2>1
      <4>2. poll[j].alone # TRUE /\ PollUnderway(poll[j])
        BY <3>2, <4>1 DEF ServicesInv
      <4> QED BY <4>1, <4>2
    <3> QED BY <3>1, <3>2
  <2>4. DOMAIN poll' = DOMAIN poll /\ DOMAIN poll # {}
    BY <2>1
  <2> QED BY <1>1, <1>7, <1>8, <2>1, <2>3, <2>4 DEF ServicesInv
<1> QED BY <1>9, <1>10

LEMMA ServicesStep == ServicesInv /\ [Services!Next]_(Services!vars) => ServicesInv'
<1> SUFFICES ASSUME ServicesInv, [Services!Next]_(Services!vars) PROVE ServicesInv'
  OBVIOUS
<1>1. ASSUME NEW c \in SUBSET Services!Row, Services!Edit(c) PROVE ServicesInv'
  <2>1. UNCHANGED <<public, shown, poll, spoken, raced, again>> /\ conf' = c /\ serviceEdits' \in 0..MaxServices
    BY <1>1, ServicesAssumption DEF Services!Edit, ServicesInv
  <2> QED BY <2>1, ZenonT(60) DEF ServicesInv, AloneSound, Agrees
<1>2. CASE Services!FactoryReset
  <2>1. /\ shown' = [r \in Services!Board(Services!Baseline) |-> "unknown"]
        /\ spoken' = [r \in Services!Row |-> "none"]
        /\ conf' = Services!Baseline /\ UNCHANGED <<public, poll, raced, again>>
    BY <1>2 DEF Services!FactoryReset, Services!Initially
  <2>0. serviceEdits' \in 0..MaxServices
    BY <1>2, ServicesAssumption DEF Services!FactoryReset, ServicesInv
  <2>2. Services!Baseline \subseteq Services!Row /\ Services!Board(Services!Baseline) \subseteq Services!Row
    BY DEF Services!Board, Services!Baseline
  <2>3. Shows(shown')
    BY <2>1, <2>2 DEF Shows, Services!Status
  <2>4. \A t, said : Agrees(spoken, t, said)'
    BY <2>1 DEF Agrees
  <2>5. ASSUME NEW j \in DOMAIN poll', poll'[j].alone = TRUE PROVE (DOMAIN poll = {j} /\ AloneSound(spoken, poll[j]))'
    <3>1. DOMAIN poll = {j} /\ AloneSound(spoken, poll[j]) /\ PollUnderway(poll[j])
      BY <2>1, <2>5 DEF ServicesInv
    <3>2. \A r \in poll[j].said : r \in Services!Row /\ r \in DOMAIN poll[j].got
      BY <3>1 DEF AloneSound, PollUnderway, Shows
    <3> QED BY <3>1, <3>2, <2>1, <2>4 DEF AloneSound
  <2>6. spoken' \in [Services!Row -> Services!Status \cup {"none"}]
    BY <2>1
  <2> QED BY <2>0, <2>1, <2>2, <2>3, <2>4, <2>5, <2>6 DEF ServicesInv
<1>3. CASE UNCHANGED Services!vars
  BY <1>3, ZenonT(60) DEF ServicesInv, Services!vars, AloneSound, Agrees
<1> QED BY <1>1, <1>2, <1>3, PollKeeps, PingEndsKeeps DEF Services!Next

LEMMA ServicesSafe == ServicesInv => BoardsAgree
<1> SUFFICES ASSUME ServicesInv PROVE BoardsAgree
  OBVIOUS
<1>1. shown \in UNION {[d -> Services!Status] : d \in SUBSET Services!Row}
  <2>1. shown \in [DOMAIN shown -> Services!Status]
    BY DEF ServicesInv, Shows
  <2> QED BY <2>1 DEF ServicesInv, Shows
<1>2. ASSUME NEW k \in DOMAIN poll
      PROVE  /\ poll[k].todo # {} /\ poll[k].todo \subseteq DOMAIN poll[k].got
             /\ poll[k].said \subseteq DOMAIN poll[k].prev
             /\ poll[k].got \in [DOMAIN poll[k].got -> Services!Status]
  BY DEF ServicesInv, PollUnderway, Shows
<1>3. Services!TypeOK
  BY <1>1, <1>2 DEF Services!TypeOK, ServicesInv
<1>4. Services!LastEventStands
  BY DEF Services!LastEventStands, ServicesInv, Agrees, Shows
<1>5. Services!NothingRepeated
  BY DEF Services!NothingRepeated, ServicesInv
<1> QED BY <1>3, <1>4, <1>5 DEF BoardsAgree

THEOREM BoardsKept == Services!Spec => []BoardsAgree
<1> QED BY ServicesInitial, ServicesStep, ServicesSafe, PTL DEF Services!Spec

-------------------------------------------------------------------------------
\* The dashboard

(* A load that is under way has a kind, and no newer rows than the server. *)
LoadUnderway == [kind : Dashboard!Kinds, at : {"sent", "answered", "statuses", "health"}, rows : Nat]

(* The timer that autoRefreshTimer knows of is the one there is.           *)
DashboardInv ==
  /\ server \in Nat /\ dashboardSites \in 0..server /\ tiles \in 0..server
  /\ timers \in 0..1 /\ current \in BOOLEAN /\ (timers = 1 <=> current = TRUE)
  /\ load \in [Loads -> LoadUnderway \cup {Dashboard!Idle}]
  /\ \A l \in Loads : load[l].rows <= server
  /\ timers = 0 => \E l \in Loads : load[l].kind \in Dashboard!Kinds \ {"edit"}

LEMMA Scheduled ==
  ASSUME DashboardInv, Dashboard!Schedule
  PROVE  timers' = 1 /\ current' = TRUE
BY DEF DashboardInv, Dashboard!Schedule

(* A load begins, goes on or ends.                                         *)
LEMMA LoadKeeps ==
  ASSUME DashboardInv, NEW l \in Loads, NEW r \in LoadUnderway \cup {Dashboard!Idle},
         load' = [load EXCEPT ![l] = r], r.rows <= server,
         UNCHANGED server, dashboardSites' \in 0..server, tiles' \in 0..server,
         \/ timers' = 1 /\ current' = TRUE
         \/ r.kind \in Dashboard!Kinds \ {"edit"} /\ timers' = 0 /\ current' = FALSE
         \/ UNCHANGED <<timers, current>> /\ (load[l].kind \in Dashboard!Kinds \ {"edit"} => r.kind = load[l].kind)
  PROVE  DashboardInv'
<1>1. load' \in [Loads -> LoadUnderway \cup {Dashboard!Idle}] /\ load'[l] = r
      /\ \A k \in Loads : k # l => load'[k] = load[k]
  BY DEF DashboardInv
<1>2. \A k \in Loads : load'[k].rows <= server'
  BY <1>1 DEF DashboardInv
<1>3. timers' \in 0..1 /\ current' \in BOOLEAN /\ (timers' = 1 <=> current' = TRUE)
  <2>1. timers \in 0..1 /\ current \in BOOLEAN /\ (timers = 1 <=> current = TRUE)
    BY DEF DashboardInv
  <2>2. CASE timers' = 1 /\ current' = TRUE
    BY <2>2
  <2>3. CASE timers' = 0 /\ current' = FALSE
    <3>1. timers' \in 0..1 /\ timers' # 1
      BY <2>3
    <3>2. current' \in BOOLEAN /\ ~(current' = TRUE)
      BY <2>3, Zenon
    <3> QED BY <3>1, <3>2, Zenon
  <2>4. CASE UNCHANGED <<timers, current>>
    BY <2>1, <2>4
  <2> QED BY <2>2, <2>3, <2>4
<1>4. timers' = 0 => \E k \in Loads : load'[k].kind \in Dashboard!Kinds \ {"edit"}
  <2>1. CASE r.kind \in Dashboard!Kinds \ {"edit"}
    BY <2>1, <1>1
  <2>2. CASE UNCHANGED timers /\ r.kind \notin Dashboard!Kinds \ {"edit"}
    <3> SUFFICES ASSUME timers' = 0
                 PROVE  \E k \in Loads : load'[k].kind \in Dashboard!Kinds \ {"edit"}
      OBVIOUS
    <3>1. PICK k \in Loads : load[k].kind \in Dashboard!Kinds \ {"edit"}
      BY <2>2 DEF DashboardInv
    <3>2. k # l
      BY <3>1, <2>2
    <3> QED BY <3>1, <3>2, <1>1
  <2> QED BY <2>1, <2>2
<1> QED BY <1>1, <1>2, <1>3, <1>4 DEF DashboardInv

(* The callback of a load sets the timer, unless it came after a change of *)
(* the page's own, which leaves it alone.                                  *)
LEMMA EndsKeeps ==
  ASSUME DashboardInv, NEW l \in Loads, Dashboard!Ends(l), load[l] # Dashboard!Idle,
         UNCHANGED server, dashboardSites' \in 0..server, tiles' \in 0..server
  PROVE  DashboardInv'
<1>1. load' = [load EXCEPT ![l] = Dashboard!Idle] /\ Dashboard!Idle.rows = 0 /\ server \in Nat
      /\ Dashboard!Idle \in LoadUnderway \cup {Dashboard!Idle}
  BY DEF Dashboard!Ends, Dashboard!Idle, DashboardInv
<1>2. Dashboard!Idle.rows <= server
  BY <1>1
<1>3. CASE load[l].kind = "edit"
  <2>1. UNCHANGED <<timers, current>>
    BY <1>3 DEF Dashboard!Ends, Dashboard!timerVars
  <2> QED BY <2>1, <1>1, <1>2, <1>3, LoadKeeps
<1>4. CASE load[l].kind # "edit"
  <2>1. timers' = 1 /\ current' = TRUE
    BY <1>4, Scheduled DEF Dashboard!Ends
  <2> QED BY <2>1, <1>1, <1>2, LoadKeeps
<1> QED BY <1>3, <1>4

LEMMA BeginKeeps ==
  ASSUME DashboardInv, NEW l \in Dashboard!IdleSlots, NEW kind \in Dashboard!Kinds, Dashboard!Begin(l, kind),
         UNCHANGED <<server, dashboardSites, tiles>>,
         \/ UNCHANGED <<timers, current>>
         \/ timers = 1 /\ timers' = 0 /\ current' = FALSE /\ kind = "timer"
  PROVE  DashboardInv'
<1> DEFINE r == [kind |-> kind, at |-> "sent", rows |-> 0]
<1>1. l \in Loads /\ load[l] = Dashboard!Idle /\ load' = [load EXCEPT ![l] = r]
  BY DEF Dashboard!IdleSlots, Dashboard!Begin
<1>2. r \in LoadUnderway \cup {Dashboard!Idle} /\ r.rows <= server /\ dashboardSites' \in 0..server /\ tiles' \in 0..server
  BY DEF LoadUnderway, DashboardInv
<1>3. load[l].kind \notin Dashboard!Kinds \ {"edit"} /\ "timer" \in Dashboard!Kinds \ {"edit"}
  BY <1>1 DEF Dashboard!Idle, Dashboard!Kinds
<1>4. r.kind = kind
  OBVIOUS
<1> HIDE DEF r
<1> QED BY <1>1, <1>2, <1>3, <1>4, LoadKeeps

LEMMA DashboardInitial == Dashboard!Init => DashboardInv
BY DEF Dashboard!Init, DashboardInv, Dashboard!Idle

LEMMA DashboardStep == DashboardInv /\ [Dashboard!Next]_(Dashboard!vars) => DashboardInv'
<1> SUFFICES ASSUME DashboardInv, [Dashboard!Next]_(Dashboard!vars) PROVE DashboardInv'
  OBVIOUS
<1>1. /\ server \in Nat /\ dashboardSites \in 0..server /\ tiles \in 0..server
      /\ load \in [Loads -> LoadUnderway \cup {Dashboard!Idle}] /\ \A l \in Loads : load[l].rows <= server
  BY DEF DashboardInv
<1>2. CASE Dashboard!Fire
  <2>1. PICK l \in Dashboard!IdleSlots : Dashboard!Begin(l, "timer")
    BY <1>2 DEF Dashboard!Fire
  <2>2. timers = 1 /\ timers' = 0
    BY <1>2 DEF Dashboard!Fire, DashboardInv
  <2>3. current' = FALSE /\ UNCHANGED <<server, dashboardSites, tiles>>
    BY <1>2, <2>2 DEF Dashboard!Fire
  <2> QED BY <2>1, <2>2, <2>3, BeginKeeps DEF Dashboard!Kinds
<1>3. ASSUME NEW kind \in {"sync", "edit"}, Dashboard!Refresh(kind) PROVE DashboardInv'
  BY <1>3, BeginKeeps DEF Dashboard!Refresh, Dashboard!Kinds, Dashboard!timerVars
<1>4. CASE Dashboard!ManualRefresh
  BY <1>4, BeginKeeps DEF Dashboard!ManualRefresh, Dashboard!Kinds, Dashboard!timerVars
<1>5. CASE Dashboard!NewInterval
  <2>1. timers' = 1 /\ current' = TRUE /\ UNCHANGED <<server, load, dashboardSites, tiles>>
    BY <1>5, Scheduled DEF Dashboard!NewInterval
  <2> QED BY <2>1 DEF DashboardInv
<1>6. CASE Dashboard!Change
  BY <1>6 DEF Dashboard!Change, DashboardInv, Dashboard!timerVars, LoadUnderway, Dashboard!Idle
<1>7. CASE Dashboard!Editor
  BY <1>7 DEF Dashboard!Editor, DashboardInv, Dashboard!timerVars
<1>8. CASE Dashboard!Focus
  BY <1>8 DEF Dashboard!Focus, DashboardInv, Dashboard!timerVars
<1>9. ASSUME NEW l \in Loads, Dashboard!Serve(l) PROVE DashboardInv'
  <2> DEFINE r == [load[l] EXCEPT !.at = "answered", !.rows = server]
  <2>1. load[l] \in LoadUnderway /\ UNCHANGED <<server, timers, current, dashboardSites, tiles>>
    BY <1>9, <1>1 DEF Dashboard!Serve, Dashboard!Idle, Dashboard!timerVars
  <2>2. load' = [load EXCEPT ![l] = r]
    BY <1>9, <1>1, <2>1 DEF Dashboard!Serve, LoadUnderway
  <2>3. r.kind = load[l].kind /\ r.at = "answered" /\ r.rows = server /\ DOMAIN r = {"kind", "at", "rows"}
    BY <2>1 DEF LoadUnderway
  <2>4. r \in LoadUnderway \cup {Dashboard!Idle} /\ r.kind = load[l].kind
    BY <2>1, <2>3, <1>1 DEF LoadUnderway
  <2>5. r.rows <= server
    BY <2>3, <1>1
  <2> HIDE DEF r
  <2> QED BY <1>1, <2>1, <2>2, <2>4, <2>5, LoadKeeps
<1>10. ASSUME NEW l \in Loads, NEW s \in {"statuses", "health"}, load[l] \in LoadUnderway,
              load' = [load EXCEPT ![l].at = s],
              UNCHANGED <<server, timers, current>>, dashboardSites' \in 0..server, tiles' \in 0..server
       PROVE  DashboardInv'
  <2> DEFINE r == [load[l] EXCEPT !.at = s]
  <2>1. load' = [load EXCEPT ![l] = r]
    BY <1>10, <1>1
  <2>2. r \in LoadUnderway \cup {Dashboard!Idle} /\ r.rows <= server /\ r.kind = load[l].kind
    BY <1>10, <1>1 DEF LoadUnderway
  <2> HIDE DEF r
  <2> QED BY <1>10, <2>1, <2>2, LoadKeeps
<1>11. ASSUME NEW l \in Loads, Dashboard!Answer(l) PROVE DashboardInv'
  <2>1. load[l] \in LoadUnderway /\ load[l].rows \in Nat
    BY <1>11, <1>1 DEF Dashboard!Answer, Dashboard!Idle, LoadUnderway
  <2>2. dashboardSites' \in 0..server /\ tiles' \in 0..server
    BY <2>1, <1>11, <1>1 DEF Dashboard!Answer
  <2> QED BY <2>1, <2>2, <1>10, <1>11 DEF Dashboard!Answer, Dashboard!timerVars
<1>12. ASSUME NEW l \in Loads, Dashboard!Render(l) PROVE DashboardInv'
  <2>1. load[l] \in LoadUnderway /\ load[l] # Dashboard!Idle
    BY <1>12, <1>1 DEF Dashboard!Render, Dashboard!Idle, LoadUnderway
  <2>2. dashboardSites' \in 0..server /\ tiles' \in 0..server /\ UNCHANGED server
    BY <1>12, <1>1 DEF Dashboard!Render
  <2>3. CASE load[l].kind = "edit"
    BY <2>1, <2>2, <2>3, <1>12, EndsKeeps DEF Dashboard!Render
  <2>4. CASE load[l].kind # "edit"
    BY <2>1, <2>2, <2>4, <1>10, <1>12 DEF Dashboard!Render, Dashboard!timerVars
  <2> QED BY <2>3, <2>4
<1>13. ASSUME NEW l \in Loads, Dashboard!Health(l) \/ Dashboard!Fails(l) PROVE DashboardInv'
  <2>1. load[l] # Dashboard!Idle
    BY <1>13 DEF Dashboard!Health, Dashboard!Fails, Dashboard!Idle
  <2>2. Dashboard!Ends(l) /\ UNCHANGED <<server, dashboardSites, tiles>>
    BY <1>13 DEF Dashboard!Health, Dashboard!Fails
  <2> QED BY <1>1, <2>1, <2>2, EndsKeeps
<1>14. CASE UNCHANGED Dashboard!vars
  BY <1>14 DEF Dashboard!vars, Dashboard!timerVars, DashboardInv
<1> QED BY <1>2, <1>3, <1>4, <1>5, <1>6, <1>7, <1>8, <1>9, <1>11, <1>12, <1>13, <1>14 DEF Dashboard!Next

LEMMA DashboardSafe == DashboardInv => DashboardSound
<1> SUFFICES ASSUME DashboardInv PROVE DashboardSound
  OBVIOUS
<1>1. Dashboard!TypeOK
  BY DEF DashboardInv, Dashboard!TypeOK, LoadUnderway
<1>2. Dashboard!OneTimer
  BY DEF DashboardInv, Dashboard!OneTimer
<1> QED BY <1>1, <1>2 DEF DashboardSound

(* Whatever loads overlap, fail and end in whatever order: one timer at    *)
(* most, and the refresh never stops for want of one (scheduleAutoRefresh, *)
(* loadDashboard).                                                         *)
THEOREM DashboardKept == Dashboard!Spec => []DashboardSound
<1> QED BY DashboardInitial, DashboardStep, DashboardSafe, PTL DEF Dashboard!Spec
===============================================================================
