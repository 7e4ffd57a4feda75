----------------------------- MODULE AgentSessions -----------------------------
(***************************************************************************)
(* The sessions of the collector agents as the server keeps them in        *)
(* memory: the tokens it accepts, the presence of an agent per site, and   *)
(* the online and offline notifications that go out (lib/agent.js          *)
(* "Collector agent session", lib/routes/agent.js).                        *)
(*                                                                         *)
(* expiresAt is always lastSeenAt + the TTL, so one of the two is kept.    *)
(* Of a presence only its token matters.  A webhook is abstracted to the   *)
(* last signal sent for a site; its delivery is not modelled here.         *)
(***************************************************************************)
EXTENDS Integers

CONSTANTS
  Site, Token,
  NoSite, NoToken,
  Ttl,         \* COLLECTOR_AGENT_SESSION_TTL_MS
  MaxTime      \* bound of the clock

ASSUME SiteAssumption == NoSite \notin Site
ASSUME TokenAssumption == NoToken \notin Token
ASSUME TtlAssumption == Ttl \in Nat \ {0} /\ MaxTime \in Nat

VARIABLES
  now,        \* Date.now()
  role,       \* state.sites: the role of each site, "absent" when it is not there
  siteOf,     \* state.agentSessions: the site of each live token
  expires,    \* expiresAt of each live token, 0 for the others
  presence,   \* state.agentBySite: the token of the agent present at a site
  told,       \* the last collector_agent_* notification sent for a site
  used        \* history: the tokens drawn so far

sessVars == <<now, role, siteOf, expires, presence, told, used>>

Role == {"absent", "collector", "other"}

Live(t) == siteOf[t] # NoSite
Expired(t) == Live(t) /\ expires[t] <= now

\* The functions siteOf and expires without the tokens T.
Without(f, T, none) == [t \in Token |-> IF t \in T THEN none ELSE f[t]]

TokensOf(s) == {t \in Token : siteOf[t] = s}

-------------------------------------------------------------------------------
(* Faulty variants.  Each is a change somebody could make to lib/agent.js; the *)
(* checks replace the definition it varies by it and expect a property below   *)
(* to fail.                                                                    *)

\* issueCollectorAgentSession without revokeCollectorAgentSiteSessions.
RegisterKeepsOld(s, t) ==
  /\ role[s] = "collector" /\ t \notin used
  /\ siteOf' = [siteOf EXCEPT ![t] = s]
  /\ expires' = [expires EXCEPT ![t] = now + Ttl]
  /\ presence' = [presence EXCEPT ![s] = t]
  /\ told' = [told EXCEPT ![s] = "online"]
  /\ used' = used \cup {t}
  /\ UNCHANGED <<now, role>>

\* The register route answering before it notifies.
RegisterUntold(s, t) ==
  /\ role[s] = "collector" /\ t \notin used
  /\ siteOf' = [Without(siteOf, TokensOf(s), NoSite) EXCEPT ![t] = s]
  /\ expires' = [Without(expires, TokensOf(s), 0) EXCEPT ![t] = now + Ttl]
  /\ presence' = [presence EXCEPT ![s] = t]
  /\ used' = used \cup {t}
  /\ UNCHANGED <<now, role, told>>

\* A token that is not drawn anew for each registration.
RegisterSameToken(s, t) ==
  /\ role[s] = "collector"
  /\ siteOf' = [Without(siteOf, TokensOf(s), NoSite) EXCEPT ![t] = s]
  /\ expires' = [Without(expires, TokensOf(s), 0) EXCEPT ![t] = now + Ttl]
  /\ presence' = [presence EXCEPT ![s] = t]
  /\ told' = [told EXCEPT ![s] = "online"]
  /\ used' = used \cup {t}
  /\ UNCHANGED <<now, role>>

\* setCollectorAgentPresence recording the site itself in the place of the token.
TouchRecordsSite(t) ==
  /\ Live(t) /\ ~Expired(t)
  /\ expires' = [expires EXCEPT ![t] = now + Ttl]
  /\ presence' = [presence EXCEPT ![siteOf[t]] = siteOf[t]]
  /\ UNCHANGED <<now, role, siteOf, told, used>>

\* A prune that looks after the presences only.
PrunePresenceOnly ==
  /\ presence' = [s \in Site |-> IF \E t \in TokensOf(s) : ~Expired(t) THEN presence[s] ELSE NoToken]
  /\ UNCHANGED <<now, role, siteOf, expires, told, used>>

\* A prune that looks after the sessions only.
PruneSessionsOnly ==
  /\ siteOf' = Without(siteOf, {t \in Token : Expired(t)}, NoSite)
  /\ expires' = Without(expires, {t \in Token : Expired(t)}, 0)
  /\ UNCHANGED <<now, role, presence, told, used>>

-------------------------------------------------------------------------------
Init == /\ now = 1
        /\ role \in [Site -> Role]
        /\ siteOf = [t \in Token |-> NoSite]
        /\ expires = [t \in Token |-> 0]
        /\ presence = [s \in Site |-> NoToken]
        /\ told = [s \in Site |-> "none"]
        /\ used = {}

\* revokeCollectorAgentSiteSessions: every token of the site goes.
Revoke(s) == /\ siteOf' = Without(siteOf, TokensOf(s), NoSite)
             /\ expires' = Without(expires, TokensOf(s), 0)
             /\ presence' = [presence EXCEPT ![s] = NoToken]

\* POST /api/agent/register that passes its checks: issueCollectorAgentSession
\* revokes, then sets session and presence, and the route notifies.
Register(s, t) ==
  /\ role[s] = "collector" /\ t \notin used
  /\ siteOf' = [Without(siteOf, TokensOf(s), NoSite) EXCEPT ![t] = s]
  /\ expires' = [Without(expires, TokensOf(s), 0) EXCEPT ![t] = now + Ttl]
  /\ presence' = [presence EXCEPT ![s] = t]
  /\ told' = [told EXCEPT ![s] = "online"]
  /\ used' = used \cup {t}
  /\ UNCHANGED <<now, role>>

\* A poll or a result with a token that is good: touchCollectorAgentSession.
Touch(t) ==
  /\ Live(t) /\ ~Expired(t)
  /\ expires' = [expires EXCEPT ![t] = now + Ttl]
  /\ presence' = [presence EXCEPT ![siteOf[t]] = t]
  /\ UNCHANGED <<now, role, siteOf, told, used>>

\* A poll or a result with a token that has expired: getCollectorAgentSession
\* drops it and tells, provided the site still exists.  The answer is 401.
UseExpired(t) ==
  /\ Expired(t)
  /\ siteOf' = Without(siteOf, {t}, NoSite)
  /\ expires' = Without(expires, {t}, 0)
  /\ presence' = [presence EXCEPT ![siteOf[t]] = NoToken]
  /\ told' = IF role[siteOf[t]] = "absent" THEN told ELSE [told EXCEPT ![siteOf[t]] = "offline"]
  /\ UNCHANGED <<now, role, used>>

\* pruneCollectorAgentSessions, every minute: all expired tokens go, and the
\* presence of each site without an unexpired one.
Prune ==
  /\ siteOf' = Without(siteOf, {t \in Token : Expired(t)}, NoSite)
  /\ expires' = Without(expires, {t \in Token : Expired(t)}, 0)
  /\ presence' = [s \in Site |-> IF \E t \in TokensOf(s) : ~Expired(t) THEN presence[s] ELSE NoToken]
  /\ UNCHANGED <<now, role, told, used>>

\* DELETE /api/sites/:id.
DeleteSite(s) ==
  /\ role[s] # "absent"
  /\ role' = [role EXCEPT ![s] = "absent"]
  /\ Revoke(s)
  /\ UNCHANGED <<now, told, used>>

\* PATCH /api/sites/:id/meta with a role: the runtime is cleared when the site
\* stops being a collector.
ChangeRole(s, r) ==
  /\ role[s] # "absent" /\ r \in Role \ {"absent", role[s]}
  /\ role' = [role EXCEPT ![s] = r]
  /\ IF r # "collector" THEN Revoke(s) ELSE UNCHANGED <<siteOf, expires, presence>>
  /\ UNCHANGED <<now, told, used>>

\* POST /api/sites/:id/collector/agent/password.  The route finds its site, a
\* collector, before it reads the body, so by now the site may be gone or be another
\* object of the same id; so may that of ChangeRole, which then only revokes.
ChangePassword(s) ==
  /\ Revoke(s)
  /\ UNCHANGED <<now, role, told, used>>

\* POST /api/backup/import replaces the sites, and DELETE of a location section
\* drops some; neither touches the agents' sessions.
ReplaceSites(r) ==
  /\ role' = r
  /\ UNCHANGED <<now, siteOf, expires, presence, told, used>>

\* performFactoryResetForDeployment: no sites, and empty tables.
ResetSessions ==
  /\ role' = [s \in Site |-> "absent"]
  /\ siteOf' = [t \in Token |-> NoSite]
  /\ expires' = [t \in Token |-> 0]
  /\ presence' = [s \in Site |-> NoToken]
  /\ UNCHANGED <<now, told, used>>

Tick == /\ now < MaxTime
        /\ now' = now + 1
        /\ UNCHANGED <<role, siteOf, expires, presence, told, used>>

AgentStep ==
  \/ \E s \in Site, t \in Token : Register(s, t)
  \/ \E t \in Token : Touch(t) \/ UseExpired(t)

AdminStep ==
  \/ \E s \in Site : DeleteSite(s) \/ ChangePassword(s)
  \/ \E s \in Site, r \in Role : ChangeRole(s, r)
  \/ \E r \in [Site -> Role] : ReplaceSites(r)
  \/ ResetSessions

Next == AgentStep \/ AdminStep \/ Prune \/ Tick

Spec == Init /\ [][Next]_sessVars

\* The housekeeping interval of server.js keeps firing; time passes.
Fairness == WF_sessVars(Prune) /\ WF_sessVars(Tick)

FairSpec == Spec /\ Fairness

\* The same without administrators: what happens to agents left alone.
UnattendedSpec == Init /\ [][AgentStep \/ Prune \/ Tick]_sessVars /\ Fairness

-------------------------------------------------------------------------------
TypeOK == /\ now \in Nat
          /\ role \in [Site -> Role]
          /\ siteOf \in [Token -> Site \cup {NoSite}]
          /\ expires \in [Token -> Nat]
          /\ presence \in [Site -> Token \cup {NoToken}]
          /\ told \in [Site -> {"none", "online", "offline"}]
          /\ used \in SUBSET Token

\* The two tables agree, and so a site has one agent: a token is accepted for a
\* site exactly when it is the one shown as present there.  Registering, expiry,
\* pruning and every revocation have to keep both in step (lib/agent.js:480-696).
PresenceMatchesSession ==
  \A s \in Site, t \in Token : siteOf[t] = s <=> presence[s] = t

\* While a site's agent has a session, the last word sent about it is "online": no
\* late use of an older token reports the new agent as gone (lib/agent.js:668).
ToldOnlineWhileLive == \A s \in Site : presence[s] # NoToken => told[s] = "online"

\* A token that was revoked or dropped is never accepted again: polls and results
\* that race with a revocation cannot bring a session back (touch re-inserts the
\* session it was given, lib/agent.js:616).
RevocationIsFinal ==
  [][\A t \in used : siteOf[t] = NoSite => siteOf'[t] = NoSite]_sessVars

\* The session of an agent that fell silent goes, though nobody uses its token.
ExpiredSessionGoes == \A t \in Token : Expired(t) ~> ~Live(t)

\* What the catalogue of notifications says of collector_agent_offline: "Send when
\* a collector agent disconnects or expires." (lib/constants.js:383)
AgentLossNotified ==
  \A s \in Site : told[s] = "online" /\ presence[s] = NoToken
                  ~> told[s] = "offline" \/ presence[s] # NoToken
===============================================================================
