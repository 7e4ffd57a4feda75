----------------------------- MODULE CollectorAgent -----------------------------
(***************************************************************************)
(* One collector agent (the loops at the end of cajal-linux-agent.py and   *)
(* cajal-windows-agent.ps1) at the command channel of its site: it         *)
(* registers, polls, runs what it is handed and posts the result, one      *)
(* thing at a time.  The channel is AgentCommands with a single site; of   *)
(* the sessions it matters whether the server still knows the token the    *)
(* agent holds.                                                            *)
(*                                                                         *)
(* Every request may fail: lost, answered into the void, or handled long   *)
(* after the agent has given it up.  The agent may be restarted at any     *)
(* time, as its own `update` command does.  It has the password and the    *)
(* identity of its file, and the site may cease to let it in with them.    *)
(***************************************************************************)
EXTENDS Integers, Sequences

CONSTANTS
  Cmd, NoCmd, S, NoSite, Lease, Timeout, MaxTime,
  MaxFaults      \* bound of the failures, of the network and of the agent

VARIABLES
  now, queue, pending, cmdSite, timer, promise, answer, issued,  \* AgentCommands
  platform,  \* which of the two agents it is
  admits,    \* the site is there, a collector, with the agent's password, and no
             \* newer installation has it
  doing,     \* what the agent is at
  cmd,       \* the command it was handed, NoCmd when it has none
  reply,     \* the answer to the request under way, "none" before it is handled
  holds,     \* the agent has a token
  valid,     \* the server accepts the token the agent has or is about to get
  late,      \* requests the agent gave up that may still be handled
  runs,      \* history: how often each command was run
  unheard,   \* history: of these runs, those whose result was not posted
  missed,    \* history: commands handed out in an answer that never arrived
  sessions,  \* history: the registrations the server accepted
  faults     \* failures so far

chanVars == <<queue, pending, cmdSite, timer, promise, answer, issued>>
netVars == <<doing, cmd, reply, holds, valid, late>>
histVars == <<runs, unheard, missed, sessions>>
setting == <<platform, admits>>
vars == <<now, setting, chanVars, netVars, histVars, faults>>

Chan == INSTANCE AgentCommands WITH Site <- {S}

Init ==
  /\ Chan!Init
  /\ platform \in {"linux", "windows"} /\ admits \in BOOLEAN
  /\ doing = "idle" /\ cmd = NoCmd /\ reply = "none"
  /\ holds = FALSE /\ valid = FALSE /\ late = {}
  /\ runs = [c \in Cmd |-> 0] /\ unheard = [c \in Cmd |-> 0]
  /\ missed = {} /\ sessions = 0 /\ faults = 0

Fault == faults < MaxFaults /\ faults' = faults + 1

-------------------------------------------------------------------------------
(* The server. *)

Queue(c) == Chan!QueueCommand(S, c) /\ UNCHANGED <<now, netVars, histVars, faults>>
Fires(c) == Chan!TimerFires(c) /\ UNCHANGED <<now, netVars, histVars, faults>>
Tick == Chan!Tick /\ UNCHANGED <<netVars, histVars, faults>>

(* The session goes: its time is over, or an installation of the site takes*)
(* it, which may be a newer one.                                           *)
SessionEnds ==
  /\ Fault /\ valid
  /\ valid' = FALSE /\ admits' \in {admits, FALSE}
  /\ late' = late \cap {"register"}
  /\ UNCHANGED <<now, chanVars, doing, cmd, reply, holds, histVars>>

(* A password, another role or no such site any more: the site's runtime is*)
(* taken out, and the agent may have the password that is asked for or not.*)
SiteChanges ==
  /\ Fault
  /\ Chan!ClearSite(S)
  /\ valid' = FALSE /\ admits' \in BOOLEAN
  /\ late' = late \cap {"register"}
  /\ UNCHANGED <<now, doing, cmd, reply, holds, histVars>>

(* The role is put right, or the file of the agent.                        *)
Readmitted ==
  /\ ~admits /\ admits' = TRUE
  /\ UNCHANGED <<now, chanVars, netVars, histVars, faults>>

(* POST /api/agent/register: 401, 404 or 409 for who is not let in; else   *)
(* requests with an older token are refused from now on.                   *)
HandleRegister ==
  /\ doing = "register" /\ reply = "none"
  /\ \/ /\ admits
        /\ reply' = "ok" /\ valid' = TRUE
        /\ sessions' = sessions + 1
        /\ late' = late \cap {"register"}
     \/ ~admits /\ reply' = "refused" /\ UNCHANGED <<valid, sessions, late>>
  /\ UNCHANGED <<now, chanVars, doing, cmd, holds, runs, unheard, missed, faults>>

(* Faulty: the poll takes any row that is due. *)
HandOutAny ==
  \E i \in Chan!Due(queue[S]) :
    /\ queue' = [queue EXCEPT ![S][i] = Chan!Leased(@, now)]
    /\ issued' = issued \cup {queue[S][i].id}
    /\ cmd' = queue[S][i].id
    /\ UNCHANGED <<pending, cmdSite, timer, promise, answer>>

HandOut ==
  /\ Chan!IssueRow(S)
  /\ cmd' = queue[S][Chan!First(Chan!Due(queue[S]))].id

HandlePoll ==
  /\ doing = "poll" /\ reply = "none"
  /\ \/ valid /\ HandOut /\ reply' = "given"
     \/ valid /\ Chan!NothingDue(S) /\ reply' = "empty" /\ UNCHANGED cmd
     \/ ~valid /\ reply' = "401" /\ UNCHANGED <<chanVars, cmd>>
  /\ UNCHANGED <<now, doing, holds, valid, late, histVars, faults>>

(* Faulty: the result is taken for the oldest command that waits. *)
AnsweredOldest(c) ==
  IF pending = {} THEN UNCHANGED chanVars ELSE Chan!Result(S, queue[S][1].id)

Answered(c) == Chan!Result(S, c)

HandlePost ==
  /\ doing = "post" /\ reply = "none"
  /\ \/ valid /\ Answered(cmd) /\ reply' = "ok"
     \/ ~valid /\ UNCHANGED chanVars /\ reply' = "401"
  /\ UNCHANGED <<now, doing, cmd, holds, valid, late, histVars, faults>>

(* A request that was given up is handled.  A poll leases a row for        *)
(* nobody; a registration makes the token of the agent an old one.         *)
LateRegister ==
  /\ "register" \in late
  /\ \/ admits /\ late' = {} /\ valid' = FALSE /\ sessions' = sessions + 1
     \/ ~admits /\ late' = late \ {"register"} /\ UNCHANGED <<valid, sessions>>
  /\ UNCHANGED <<now, chanVars, doing, cmd, reply, holds, runs, unheard, missed, faults>>

LatePoll ==
  /\ "poll" \in late
  /\ late' = late \ {"poll"}
  /\ Chan!DequeueForPoll(S)
  /\ missed' = missed \cup
       {queue[S][i].id : i \in {j \in DOMAIN queue[S] : queue'[S][j] # queue[S][j]}}
  /\ UNCHANGED <<now, doing, cmd, reply, holds, valid, runs, unheard, sessions, faults>>

LatePost(c) ==
  /\ c \in late
  /\ late' = late \ {c}
  /\ Answered(c)
  /\ UNCHANGED <<now, doing, cmd, reply, holds, valid, histVars, faults>>

-------------------------------------------------------------------------------
(* The agent. *)

Wake ==
  /\ doing = "idle"
  /\ doing' = IF holds THEN "poll" ELSE "register"
  /\ UNCHANGED <<now, chanVars, cmd, reply, holds, valid, late, histVars, faults>>

GotToken ==
  /\ doing = "register" /\ reply = "ok"
  /\ doing' = "poll" /\ reply' = "none" /\ holds' = TRUE
  /\ UNCHANGED <<now, chanVars, cmd, valid, late, histVars, faults>>

(* "register failed", printed; it sleeps and asks again, for ever.         *)
Refused ==
  /\ doing = "register" /\ reply = "refused"
  /\ doing' = "idle" /\ reply' = "none"
  /\ UNCHANGED <<now, chanVars, cmd, holds, valid, late, histVars, faults>>

(* Faulty: the agent keeps the token it has. *)
RejectedKeeps ==
  /\ reply = "401"
  /\ doing' = "idle" /\ reply' = "none" /\ cmd' = NoCmd
  /\ unheard' = IF doing = "post" THEN [unheard EXCEPT ![cmd] = @ + 1] ELSE unheard
  /\ UNCHANGED <<now, chanVars, holds, valid, late, runs, missed, sessions, faults>>

(* 401: the agent drops its token, and the result it was posting.          *)
Rejected ==
  /\ reply = "401"
  /\ doing' = "idle" /\ reply' = "none" /\ cmd' = NoCmd
  /\ holds' = FALSE
  /\ unheard' = IF doing = "post" THEN [unheard EXCEPT ![cmd] = @ + 1] ELSE unheard
  /\ UNCHANGED <<now, chanVars, valid, late, runs, missed, sessions, faults>>

(* Faulty: whatever the server answers, the agent registers again. *)
SettledAnew ==
  /\ reply = "empty" \/ (doing = "post" /\ reply = "ok")
  /\ doing' = "idle" /\ reply' = "none" /\ cmd' = NoCmd
  /\ holds' = FALSE
  /\ UNCHANGED <<now, chanVars, valid, late, histVars, faults>>

(* Nothing to do, or the result is posted; 404 for a command that nobody   *)
(* waits for is printed and forgotten.                                     *)
Settled ==
  /\ reply = "empty" \/ (doing = "post" /\ reply = "ok")
  /\ doing' = "idle" /\ reply' = "none" /\ cmd' = NoCmd
  /\ UNCHANGED <<now, chanVars, holds, valid, late, histVars, faults>>

GotCommand ==
  /\ platform = "linux"
  /\ doing = "poll" /\ reply = "given"
  /\ doing' = "run" /\ reply' = "none"
  /\ runs' = [runs EXCEPT ![cmd] = @ + 1]
  /\ UNCHANGED <<now, chanVars, cmd, holds, valid, late, unheard, missed, sessions, faults>>

(* The Windows agent looks for commandId and command at the top of the     *)
(* answer, where the server puts an object with id and command: it finds   *)
(* no command to run.                                                      *)
Unread ==
  /\ platform = "windows"
  /\ doing = "poll" /\ reply = "given"
  /\ doing' = "idle" /\ reply' = "none" /\ cmd' = NoCmd
  /\ UNCHANGED <<now, chanVars, holds, valid, late, histVars, faults>>

(* Faulty: only the result of a run that went well is posted. *)
RanWell ==
  /\ doing = "run"
  /\ \/ doing' = "post" /\ UNCHANGED cmd
     \/ doing' = "idle" /\ UNCHANGED cmd
  /\ UNCHANGED <<now, chanVars, reply, holds, valid, late, histVars, faults>>

(* execute_remote_command returns, after any time and with any result.     *)
Ran ==
  /\ doing = "run"
  /\ doing' = "post"
  /\ UNCHANGED <<now, chanVars, cmd, reply, holds, valid, late, histVars, faults>>

(* What is lost with the request or the run under way: the request may     *)
(* still be handled when the server has not seen it yet, and a token that  *)
(* was on its way is unknown to the agent.                                 *)
Dropped ==
  /\ late' \in {late, late \cup
       (IF reply # "none" THEN {}
        ELSE IF doing = "post" THEN {cmd} ELSE {doing} \cap {"register", "poll"})}
  /\ missed' = IF reply = "given" THEN missed \cup {cmd} ELSE missed
  /\ unheard' = IF doing = "run" \/ (doing = "post" /\ reply # "ok")
                THEN [unheard EXCEPT ![cmd] = @ + 1] ELSE unheard
  /\ valid' = (valid /\ doing # "register")
  /\ doing' = "idle" /\ reply' = "none" /\ cmd' = NoCmd

(* Time-out, connection error or an error status: printed, then on as before. *)
GiveUp ==
  /\ Fault /\ doing \in {"register", "poll", "post"}
  /\ Dropped
  /\ UNCHANGED <<now, chanVars, holds, runs, sessions>>

(* The process is killed and started again.                                *)
Restart ==
  /\ Fault
  /\ Dropped /\ holds' = FALSE
  /\ UNCHANGED <<now, chanVars, runs, sessions>>

Loop == Wake \/ GotToken \/ Refused \/ Rejected \/ Settled \/ GotCommand \/ Unread \/ Ran

Agent == Loop \/ GiveUp \/ Restart

Handle == HandleRegister \/ HandlePoll \/ HandlePost

Server ==
  \/ \E c \in Cmd : Queue(c) \/ Fires(c) \/ LatePost(c)
  \/ Handle \/ LateRegister \/ LatePoll \/ Tick

Next ==
  \/ (Server \/ Agent) /\ UNCHANGED setting
  \/ (SessionEnds \/ SiteChanges \/ Readmitted) /\ UNCHANGED platform

Spec == Init /\ [][Next]_vars

(* The agent's loop goes on, a command ends (every program it calls has a  *)
(* time-out), and the server handles a request that it got.                *)
Fairness ==
  /\ WF_vars(Loop /\ UNCHANGED setting)
  /\ WF_vars(Handle /\ UNCHANGED setting)

FairSpec == Spec /\ Fairness

-------------------------------------------------------------------------------
(* Properties *)

TypeOK ==
  /\ Chan!TypeOK
  /\ platform \in {"linux", "windows"} /\ admits \in BOOLEAN
  /\ doing \in {"idle", "register", "poll", "run", "post"}
  /\ reply \in {"none", "ok", "refused", "401", "empty", "given"}
  /\ cmd \in Cmd \cup {NoCmd}
  /\ (cmd # NoCmd) = (doing \in {"run", "post"} \/ reply = "given")
  /\ holds \in BOOLEAN /\ valid \in BOOLEAN
  /\ late \in SUBSET (Cmd \cup {"register", "poll"})

(* A command is run again only after the result of a run was lost, once    *)
(* for each result that was: no lease that ends, no poll that is handled   *)
(* late and no new session makes the agent repeat what it reported.        *)
RerunAfterLossOnly == \A c \in Cmd : runs[c] <= 1 + unheard[c]

(* Who waits for a command gets the result of a run of that very command,  *)
(* however late the post that carried it is handled.                       *)
ResolvedWasRun == \A c \in Cmd : promise[c] = "resolved" => runs[c] > 0

(* Commands start in the order in which they were queued, but for one      *)
(* whose answer was lost: it waits for the end of its lease while others   *)
(* go ahead.                                                               *)
StartedInOrder ==
  \A i, j \in DOMAIN queue[S] :
    i < j /\ runs[queue[S][j].id] > 0
      => runs[queue[S][i].id] > 0 \/ queue[S][i].id \in missed

(* Every registration tells the people that the agent is online: there are *)
(* at most two for each failure, also when a registration that was given   *)
(* up is handled after the next one and takes its session away.            *)
SessionsBounded == sessions <= 1 + 2 * faults

(* Whatever failed, an agent that the site lets in from some time on comes *)
(* back: again and again it polls with a token the server accepts.         *)
KeepsServing ==
  <>[]admits => []<>(doing = "poll" /\ valid /\ holds /\ reply \in {"empty", "given"})

(* README.md:734: "Execution runs on the remote collector agent host       *)
(* (Linux or Windows), not on Cajal server".                               *)
ReceivedIsRun ==
  [][(reply = "given" /\ reply' = "none" /\ UNCHANGED faults) => runs'[cmd] > runs[cmd]]_vars

(* docs/architecture.md:45: "Server uses per-site FIFO command queues and  *)
(* lease windows so commands are not duplicated."                          *)
NotDuplicated == \A c \in Cmd : runs[c] <= 1
===============================================================================
