---------------------------- MODULE WebhookDelivery ----------------------------
(***************************************************************************)
(* sendTeamsNotification and postTeamsWebhookWithRetry,                    *)
(* lib/notifications.js: a notice is posted to the web hook in up to three *)
(* shapes of payload, each with a number of attempts, and nobody waits for *)
(* the end of one notice before the next is sent.                          *)
(*                                                                         *)
(* The channel behind the web hook is external: it may take a post and     *)
(* answer, refuse it with a status that is retried or one that is not, or  *)
(* leave it without an answer until the abort timer fires.  A post that    *)
(* was aborted may still be taken, at once or later.                       *)
(***************************************************************************)
EXTENDS Integers, Sequences

CONSTANTS
  Notices,     \* how many notices are sent
  Shapes,      \* payloads of sendTeamsNotification: 3
  Attempts,    \* TEAMS_WEBHOOK_MAX_ATTEMPTS
  MaxAborts    \* bound: posts that get no answer

Note == 1..Notices

VARIABLES
  phase,     \* of a notice: "new", "posting", "sleeping", "sent", "failed", or
             \* "unset": failed because no web hook was configured
  shape,     \* the payload it is posted in
  attempt,   \* the attempt with that payload
  log,       \* external: the notices the channel took, in order
  wire,      \* external: aborted posts of a notice the channel may yet take
  posts,     \* history: the posts of a notice
  aborts,    \* history: the posts that got no answer
  before     \* history: the notices that were over when a notice was sent

vars == <<phase, shape, attempt, log, wire, posts, aborts, before>>

Sum(f) == LET s[n \in 0..Notices] == IF n = 0 THEN 0 ELSE f[n] + s[n - 1] IN s[Notices]

Copies(n) == {i \in DOMAIN log : log[i] = n}

Post(n, k, a) ==
  /\ phase' = [phase EXCEPT ![n] = "posting"]
  /\ shape' = [shape EXCEPT ![n] = k]
  /\ attempt' = [attempt EXCEPT ![n] = a]
  /\ posts' = [posts EXCEPT ![n] = @ + 1]

-------------------------------------------------------------------------------
(* "Faulty" marks a change somebody could make to the code; the checks put *)
(* it in the place of the definition that follows it and expect a property *)
(* below to fail.                                                          *)

(* Notices are sent in the order of their numbers, whatever the state of   *)
(* the earlier ones.                                                       *)
Send(n) ==
  /\ phase[n] = "new" /\ \A m \in 1..(n - 1) : phase[m] # "new"
  /\ Post(n, 1, 1)
  /\ before' = [before EXCEPT ![n] =
                 {m \in Note : phase[m] \in {"sent", "failed"} /\ wire[m] = 0}]
  /\ UNCHANGED <<log, wire, aborts>>

(* No web hook is configured when the notice is sent: nothing is posted.   *)
Unset(n) ==
  /\ phase[n] = "new" /\ \A m \in 1..(n - 1) : phase[m] # "new"
  /\ phase' = [phase EXCEPT ![n] = "unset"]
  /\ UNCHANGED <<shape, attempt, log, wire, posts, aborts, before>>

(* Faulty: the loop over the payloads goes on after a success. *)
AcceptedGoesOn(n) ==
  /\ phase[n] = "posting"
  /\ log' = Append(log, n)
  /\ IF shape[n] < Shapes THEN Post(n, shape[n] + 1, 1)
     ELSE phase' = [phase EXCEPT ![n] = "sent"] /\ UNCHANGED <<shape, attempt, posts>>
  /\ UNCHANGED <<wire, aborts, before>>

(* response.ok *)
Accepted(n) ==
  /\ phase[n] = "posting"
  /\ log' = Append(log, n)
  /\ phase' = [phase EXCEPT ![n] = "sent"]
  /\ UNCHANGED <<shape, attempt, wire, posts, aborts, before>>

(* Faulty: a shape that is given up is the end of the notice. *)
NextShapeNever(n) ==
  /\ phase' = [phase EXCEPT ![n] = "failed"]
  /\ UNCHANGED <<shape, attempt, posts>>

(* postTeamsWebhookWithRetry throws: the next payload, or none is left. *)
NextShape(n) ==
  IF shape[n] < Shapes
  THEN Post(n, shape[n] + 1, 1)
  ELSE phase' = [phase EXCEPT ![n] = "failed"] /\ UNCHANGED <<shape, attempt, posts>>

(* Faulty: the number of attempts is not looked at. *)
RetryForEver(n) ==
  phase' = [phase EXCEPT ![n] = "sleeping"] /\ UNCHANGED <<shape, attempt, posts>>

(* A failure that is retried while attempts are left. *)
Retry(n) ==
  IF attempt[n] < Attempts
  THEN phase' = [phase EXCEPT ![n] = "sleeping"] /\ UNCHANGED <<shape, attempt, posts>>
  ELSE NextShape(n)

(* Faulty: an answer that cannot be retried is taken for success. *)
RefusedIgnored(n, retryable) ==
  /\ phase[n] = "posting"
  /\ IF retryable THEN Retry(n)
                  ELSE phase' = [phase EXCEPT ![n] = "sent"] /\ UNCHANGED <<shape, attempt, posts>>
  /\ UNCHANGED <<log, wire, aborts, before>>

(* The channel refuses, or cannot be reached. *)
Refused(n, retryable) ==
  /\ phase[n] = "posting"
  /\ IF retryable THEN Retry(n) ELSE NextShape(n)
  /\ UNCHANGED <<log, wire, aborts, before>>

(* No answer within timeoutMs, or the connection breaks: AbortError and    *)
(* ECONNRESET are retried, a socket the other side closed (UND_ERR_SOCKET) *)
(* is the end of the payload.                                              *)
Aborted(n, retryable) ==
  /\ phase[n] = "posting"
  /\ Sum(aborts) < MaxAborts
  /\ aborts' = [aborts EXCEPT ![n] = @ + 1]
  /\ wire' = [wire EXCEPT ![n] = @ + 1]
  /\ IF retryable THEN Retry(n) ELSE NextShape(n)
  /\ UNCHANGED <<log, before>>

(* Faulty: a notice that failed is tried again later. *)
WakeFailed(n) ==
  /\ phase[n] \in {"sleeping", "failed"}
  /\ Post(n, shape[n], IF attempt[n] < Attempts THEN attempt[n] + 1 ELSE 1)
  /\ UNCHANGED <<log, wire, aborts, before>>

(* Faulty: off by one against the number of attempts. *)
WakeBeforeLast(n) ==
  /\ phase[n] = "sleeping" /\ attempt[n] + 1 < Attempts
  /\ Post(n, shape[n], attempt[n] + 1)
  /\ UNCHANGED <<log, wire, aborts, before>>

(* The timer of sleepMs. *)
Wake(n) ==
  /\ phase[n] = "sleeping"
  /\ Post(n, shape[n], attempt[n] + 1)
  /\ UNCHANGED <<log, wire, aborts, before>>

TakenLate(n) ==
  /\ wire[n] > 0
  /\ wire' = [wire EXCEPT ![n] = @ - 1]
  /\ log' = Append(log, n)
  /\ UNCHANGED <<phase, shape, attempt, posts, aborts, before>>

Vanishes(n) ==
  /\ wire[n] > 0
  /\ wire' = [wire EXCEPT ![n] = @ - 1]
  /\ UNCHANGED <<phase, shape, attempt, log, posts, aborts, before>>

-------------------------------------------------------------------------------
Init ==
  /\ phase = [n \in Note |-> "new"]
  /\ shape = [n \in Note |-> 1]
  /\ attempt = [n \in Note |-> 1]
  /\ log = <<>>
  /\ wire = [n \in Note |-> 0]
  /\ posts = [n \in Note |-> 0]
  /\ aborts = [n \in Note |-> 0]
  /\ before = [n \in Note |-> {}]

Answer(n) == Accepted(n) \/ \E r \in BOOLEAN : Refused(n, r) \/ Aborted(n, r)

Next ==
  \E n \in Note :
    Send(n) \/ Unset(n) \/ Answer(n) \/ Wake(n) \/ TakenLate(n) \/ Vanishes(n)

(* The abort timer bounds every post and sleepMs is a timer.               *)
Fairness == \A n \in Note : WF_vars(Answer(n)) /\ WF_vars(Wake(n))

Spec == Init /\ [][Next]_vars /\ Fairness

-------------------------------------------------------------------------------
(* Properties *)

TypeOK ==
  /\ phase \in [Note -> {"new", "posting", "sleeping", "sent", "failed", "unset"}]
  /\ shape \in [Note -> 1..Shapes]
  /\ attempt \in [Note -> 1..Attempts]
  /\ log \in Seq(Note)
  /\ wire \in [Note -> Nat] /\ posts \in [Note -> Nat] /\ aborts \in [Note -> Nat]
  /\ before \in [Note -> SUBSET Note]

(* A notice that is logged as sent (status_notify_sent) was taken by the   *)
(* channel.                                                                *)
SentWasTaken == \A n \in Note : phase[n] = "sent" => Copies(n) # {}

(* A notice fails only after it was posted in every shape, and no notice   *)
(* is posted more often than shapes times attempts, however its posts end. *)
PostsBounded ==
  \A n \in Note : /\ posts[n] <= Shapes * Attempts
                  /\ phase[n] = "failed" => posts[n] >= Shapes /\ shape[n] = Shapes

(* A channel gets a notice twice only when a post of it went without an    *)
(* answer.                                                                 *)
DoubledByAborts ==
  \A n \in Note, i, j \in DOMAIN log : log[i] = n /\ log[j] = n /\ i # j => aborts[n] > 0

(* A later notice overtakes an earlier one only when it was sent while     *)
(* that one was still under way: an offline cannot come after the restore  *)
(* that was sent when the offline was settled.                             *)
OvertakesOnlyInFlight ==
  \A i, j \in DOMAIN log : i < j => log[i] \notin {m \in Note : log[j] \in before[m]}

(* The four together: what a channel gets of a notice, how often, and in   *)
(* what order.                                                             *)
NoticesSafe == SentWasTaken /\ PostsBounded /\ DoubledByAborts /\ OvertakesOnlyInFlight

(* Every notice that is sent is over some time. *)
EveryNoticeSettles ==
  \A n \in Note : phase[n] = "posting" ~> phase[n] \in {"sent", "failed"}
===============================================================================
