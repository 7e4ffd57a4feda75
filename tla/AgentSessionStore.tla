--------------------------- MODULE AgentSessionStore ---------------------------
(***************************************************************************)
(* The sessions of AgentSessions with their rows in cajal_agent_sessions,  *)
(* and the restart of the server that reads them back (lib/storage.js      *)
(* "Agent session persistence").                                           *)
(*                                                                         *)
(* Nobody waits for the INSERT of a new session or for the DELETE of a     *)
(* revoked one, and each takes a connection of its own from the pool: they *)
(* take effect in any order, or fail.  A row is written once and never     *)
(* again, so it keeps the expiry its session was issued with.              *)
(***************************************************************************)
EXTENDS AgentSessions

CONSTANT MaxDeletes   \* bound on the DELETEs under way for a site

ASSUME MaxDeletesAssumption == MaxDeletes \in Nat

VARIABLES
  rowSite,      \* the site_id that the row of a token has, or would have
  rowExpires,   \* its expires_at
  rows,         \* the tokens with a row
  inserting,    \* the tokens whose INSERT is under way
  deleting      \* how many DELETEs are under way for each site

rowVars == <<rowSite, rowExpires, rows, inserting, deleting>>
storeVars == <<sessVars, rowVars>>

\* Faulty variant of Kept: a SELECT without its WHERE.
KeptOfAnyAge(s) == {t \in rows : rowSite[t] = s}

\* The tokens of site s whose rows the SELECT of restoreAgentSessions finds.
Kept(s) == {t \in rows : rowSite[t] = s /\ rowExpires[t] > now}

-------------------------------------------------------------------------------
StoreInit == /\ Init
             /\ rowSite = [t \in Token |-> NoSite]
             /\ rowExpires = [t \in Token |-> 0]
             /\ rows = {}
             /\ inserting = {}
             /\ deleting = [s \in Site |-> 0]

\* deleteAgentSessionsBySite is called, and not waited for.
SendDelete(s) == /\ deleting[s] < MaxDeletes
                 /\ deleting' = [deleting EXCEPT ![s] = @ + 1]

\* issueCollectorAgentSession: revoke, and so delete, then insert.
RegisterStored(s, t) ==
  /\ Register(s, t)
  /\ SendDelete(s)
  /\ rowSite' = [rowSite EXCEPT ![t] = s]
  /\ rowExpires' = [rowExpires EXCEPT ![t] = now + Ttl]
  /\ inserting' = inserting \cup {t}
  /\ UNCHANGED rows

\* What an administrator does that revokes the sessions of a site.
RevokeStored(s) ==
  /\ \/ DeleteSite(s)
     \/ ChangePassword(s)
     \/ \E r \in Role \ {"collector"} : ChangeRole(s, r)
  /\ SendDelete(s)
  /\ UNCHANGED <<rowSite, rowExpires, rows, inserting>>

\* The steps that send no query: polls, expiry, pruning, the routes that replace the
\* sites, and the factory reset, which forgets the sessions and leaves their rows.
Unstored ==
  /\ \/ \E t \in Token : Touch(t) \/ UseExpired(t)
     \/ Prune
     \/ \E s \in Site : ChangeRole(s, "collector")
     \/ \E r \in [Site -> Role] : ReplaceSites(r)
     \/ ResetSessions
     \/ Tick
  /\ UNCHANGED rowVars

\* getCollectorAgentPresence, called by whoever shows a site or is about to use its
\* agent, drops a presence whose session is gone.
ForgetPresence(s) ==
  /\ presence[s] # NoToken /\ ~Live(presence[s])
  /\ presence' = [presence EXCEPT ![s] = NoToken]
  /\ UNCHANGED <<now, role, siteOf, expires, told, used, rowVars>>

\* Faulty variant of InsertEnds: the columns of the row mixed up.
InsertEndsMixedUp(t) ==
  /\ t \in inserting
  /\ inserting' = inserting \ {t}
  /\ rows' = rows \cup {rowSite[t]}
  /\ UNCHANGED <<sessVars, rowSite, rowExpires, deleting>>

\* A query ends: it ran, or it failed, which is logged and forgotten.
InsertEnds(t) ==
  /\ t \in inserting
  /\ inserting' = inserting \ {t}
  /\ \E done \in BOOLEAN : rows' = IF done THEN rows \cup {t} ELSE rows
  /\ UNCHANGED <<sessVars, rowSite, rowExpires, deleting>>

DeleteEnds(s) ==
  /\ deleting[s] > 0
  /\ deleting' = [deleting EXCEPT ![s] = @ - 1]
  /\ \E done \in BOOLEAN : rows' = IF done THEN {t \in rows : rowSite[t] # s} ELSE rows
  /\ UNCHANGED <<sessVars, rowSite, rowExpires, inserting>>

\* The process ends, however it does, and another one starts; of the queries under
\* way those that took effect have ended before.  The sites are those stored, which
\* may be older than those in memory.
StartsAnew ==
  /\ \E r \in [Site -> Role] : role' = r
  /\ inserting' = {}
  /\ deleting' = [s \in Site |-> 0]
  /\ UNCHANGED <<now, told, used, rowSite, rowExpires>>

\* restoreAgentSessions: every row that has not expired is a session again, and of
\* several at a site the last one read is present.  The rest are deleted, or stay.
Restart ==
  /\ StartsAnew
  /\ siteOf' = [t \in Token |-> IF t \in Kept(rowSite[t]) THEN rowSite[t] ELSE NoSite]
  /\ expires' = [t \in Token |-> IF t \in Kept(rowSite[t]) THEN rowExpires[t] ELSE 0]
  /\ \E p \in [Site -> Token \cup {NoToken}] :
       /\ \A s \in Site : p[s] \in IF Kept(s) = {} THEN {NoToken} ELSE Kept(s)
       /\ presence' = p
  /\ rows' \in {rows, {t \in rows : rowExpires[t] > now}}

\* The rows cannot be read: the server starts without sessions.
RestartBare ==
  /\ StartsAnew
  /\ siteOf' = [t \in Token |-> NoSite]
  /\ expires' = [t \in Token |-> 0]
  /\ presence' = [s \in Site |-> NoToken]
  /\ UNCHANGED rows

StoreNext ==
  \/ \E s \in Site, t \in Token : RegisterStored(s, t)
  \/ \E s \in Site : RevokeStored(s) \/ ForgetPresence(s) \/ DeleteEnds(s)
  \/ \E t \in Token : InsertEnds(t)
  \/ Unstored \/ Restart \/ RestartBare

StoreSpec == StoreInit /\ [][StoreNext]_storeVars

\* The housekeeping of the process that runs, time, and queries that end.
StoreFairness ==
  /\ WF_storeVars(Prune /\ UNCHANGED rowVars)
  /\ WF_storeVars(Tick /\ UNCHANGED rowVars)
  /\ \A t \in Token : WF_storeVars(InsertEnds(t))
  /\ \A s \in Site : WF_storeVars(DeleteEnds(s))

StoreFairSpec == StoreSpec /\ StoreFairness

-------------------------------------------------------------------------------
StoreTypeOK == /\ TypeOK
               /\ rowSite \in [Token -> Site \cup {NoSite}]
               /\ rowExpires \in [Token -> Nat]
               /\ rows \in SUBSET Token
               /\ inserting \in SUBSET Token
               /\ deleting \in [Site -> 0..MaxDeletes]

\* A site shown as having an agent has a session, even when a restart read back
\* several for it, though the agent shown may then be another one.  Pruning, late
\* uses and revocations work on both tables and all have to see to that
\* (lib/agent.js:480, lib/storage.js:563).
PresenceHasSession == \A s \in Site : presence[s] # NoToken => \E t \in Token : siteOf[t] = s

\* A session that was revoked or replaced comes back only by a restart that finds its
\* row, at its own site, and before the expiry it was issued with: a lost DELETE is
\* harmless after that (lib/storage.js:528, 543).
RevivedInTime ==
  [][\A t \in used : siteOf[t] = NoSite /\ siteOf'[t] # NoSite
       => Restart /\ siteOf'[t] = rowSite[t] /\ now < rowExpires[t]]_storeVars

\* "collector agent sessions survive server restarts (persisted to Postgres)"
\* (README.md:57), said only of sessions whose row is there and can be read.
SessionsSurviveRestart ==
  [][Restart => \A t \in rows : Live(t) /\ ~Expired(t) => siteOf'[t] = siteOf[t]]_storeVars
===============================================================================
