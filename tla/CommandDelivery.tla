---------------------------- MODULE CommandDelivery ----------------------------
(***************************************************************************)
(* What the collector command channel promises to the route or poller that *)
(* queues a command for a site: the promise it gets is settled at most     *)
(* once, and it is resolved only with an answer of an agent of that very   *)
(* site, to which the server had offered the command while it was waiting. *)
(*                                                                         *)
(* A factory reset replaces the channel's tables: the commands that wait   *)
(* at that moment are "lost", neither answered nor refused.                *)
(***************************************************************************)
CONSTANTS Cmd, Site, NoSite

VARIABLES outcome,   \* what became of each command
          target,    \* the site a command was queued for
          offered,   \* the commands handed to an agent at least once
          answer     \* the site whose agent gave the answer

deliveryVars == <<outcome, target, offered, answer>>

Outcome == {"unused", "waiting", "resolved", "rejected", "lost"}

Init == /\ outcome = [c \in Cmd |-> "unused"]
        /\ target = [c \in Cmd |-> NoSite]
        /\ offered = {}
        /\ answer = [c \in Cmd |-> NoSite]

Submit(c, s) == /\ outcome[c] = "unused"
                /\ outcome' = [outcome EXCEPT ![c] = "waiting"]
                /\ target' = [target EXCEPT ![c] = s]
                /\ UNCHANGED <<offered, answer>>

Offer(c) == /\ outcome[c] = "waiting"
            /\ offered' = offered \cup {c}
            /\ UNCHANGED <<outcome, target, answer>>

Resolve(c) == /\ outcome[c] = "waiting"
              /\ c \in offered
              /\ outcome' = [outcome EXCEPT ![c] = "resolved"]
              /\ answer' = [answer EXCEPT ![c] = target[c]]
              /\ UNCHANGED <<target, offered>>

\* One command times out, or all that wait for one site are refused together.
Reject(C) == /\ \A c \in C : outcome[c] = "waiting"
             /\ outcome' = [c \in Cmd |-> IF c \in C THEN "rejected" ELSE outcome[c]]
             /\ UNCHANGED <<target, offered, answer>>

Lose == /\ outcome' = [c \in Cmd |-> IF outcome[c] = "waiting" THEN "lost" ELSE outcome[c]]
        /\ UNCHANGED <<target, offered, answer>>

Next == \/ \E c \in Cmd, s \in Site : Submit(c, s)
        \/ \E c \in Cmd : Offer(c) \/ Resolve(c)
        \/ \E C \in SUBSET Cmd : Reject(C)
        \/ Lose

Spec == Init /\ [][Next]_deliveryVars
===============================================================================
