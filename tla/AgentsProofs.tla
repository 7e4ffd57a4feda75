----------------------------- MODULE AgentsProofs -----------------------------
(***************************************************************************)
(* Proofs about the agents' sessions, for any sites, any tokens and any    *)
(* TTL: first the tables in memory of a server that does not restart       *)
(* (AgentSessions), then what survives of their bookkeeping when restarts  *)
(* read back rows that may be too many or too old (AgentSessionStore); and *)
(* about the installation of an agent and the package it comes in          *)
(* (AgentInstall), for any number of setups, scripts and requests.         *)
(*                                                                         *)
(* PresenceMatchesSession is what makes the other two invariants of the    *)
(* tables inductive: a late request with an expired token clears the       *)
(* presence of its site and may report it offline, and that is right only  *)
(* because that token is the one present there.                            *)
(***************************************************************************)
EXTENDS MCAgents, TLAPS

(* The tables in memory. *)

IInv == /\ TypeOK
        /\ PresenceMatchesSession
        /\ ToldOnlineWhileLive
        /\ \A t \in Token : Live(t) => t \in used

LEMMA InitInv == Init => IInv
  BY SiteAssumption, TokenAssumption
     DEF Init, IInv, TypeOK, PresenceMatchesSession, ToldOnlineWhileLive, Live

LEMMA RegisterInv ==
  ASSUME IInv, NEW s \in Site, NEW t \in Token, Register(s, t) PROVE IInv'
<1> USE SiteAssumption, TokenAssumption, TtlAssumption DEF IInv, TypeOK, Register
<1>1. TypeOK' BY DEF Without
<1>2. \A u \in Token : siteOf'[u] = IF u = t THEN s ELSE IF siteOf[u] = s THEN NoSite ELSE siteOf[u]
  BY DEF Without, TokensOf
<1>3. siteOf[t] = NoSite BY DEF Live
<1>4. PresenceMatchesSession' BY <1>2, <1>3 DEF PresenceMatchesSession
<1>5. ToldOnlineWhileLive' BY DEF ToldOnlineWhileLive
<1>6. (\A u \in Token : Live(u) => u \in used)' BY <1>2 DEF Live
<1>7. QED BY <1>1, <1>4, <1>5, <1>6

LEMMA TouchInv == ASSUME IInv, NEW t \in Token, Touch(t) PROVE IInv'
<1> USE SiteAssumption, TokenAssumption, TtlAssumption DEF IInv, TypeOK, Touch
<1>1. siteOf[t] \in Site BY DEF Live
<1>2. presence[siteOf[t]] = t BY <1>1 DEF PresenceMatchesSession
<1>3. presence' = presence BY <1>1, <1>2
<1>4. QED BY <1>3 DEF PresenceMatchesSession, ToldOnlineWhileLive, Live

LEMMA UseExpiredInv == ASSUME IInv, NEW t \in Token, UseExpired(t) PROVE IInv'
<1> USE SiteAssumption, TokenAssumption DEF IInv, TypeOK, UseExpired
<1>1. siteOf[t] \in Site BY DEF Expired, Live
<1>2. presence[siteOf[t]] = t BY <1>1 DEF PresenceMatchesSession
<1>3. \A u \in Token : siteOf'[u] = IF u = t THEN NoSite ELSE siteOf[u] BY DEF Without
<1>4. TypeOK' BY <1>1 DEF Without
<1>5. PresenceMatchesSession' BY <1>1, <1>2, <1>3 DEF PresenceMatchesSession
<1>6. ToldOnlineWhileLive' BY <1>1 DEF ToldOnlineWhileLive
<1>7. (\A u \in Token : Live(u) => u \in used)' BY <1>3 DEF Live
<1>8. QED BY <1>4, <1>5, <1>6, <1>7

LEMMA PruneInv == ASSUME IInv, Prune PROVE IInv'
<1> USE SiteAssumption, TokenAssumption DEF IInv, TypeOK, Prune
<1>1. \A u \in Token : siteOf'[u] = IF Expired(u) THEN NoSite ELSE siteOf[u] BY DEF Without
<1>2. \A s \in Site : presence'[s] = IF \E u \in TokensOf(s) : ~Expired(u) THEN presence[s] ELSE NoToken
  OBVIOUS
<1>3. TypeOK' BY DEF Without
<1>4. PresenceMatchesSession'
  <2>1. ASSUME NEW s \in Site, NEW u \in Token PROVE siteOf'[u] = s <=> presence'[s] = u
    <3>1. CASE presence[s] = u
      <4>1. siteOf[u] = s /\ \A v \in TokensOf(s) : v = u
        BY <3>1 DEF PresenceMatchesSession, TokensOf
      <4>2. QED BY <1>1, <1>2, <3>1, <4>1 DEF TokensOf
    <3>2. CASE presence[s] # u BY <1>1, <1>2, <3>2 DEF PresenceMatchesSession
    <3>3. QED BY <3>1, <3>2
  <2>2. QED BY <2>1 DEF PresenceMatchesSession
<1>5. ToldOnlineWhileLive' BY <1>2 DEF ToldOnlineWhileLive
<1>6. (\A u \in Token : Live(u) => u \in used)' BY <1>1 DEF Live
<1>7. QED BY <1>3, <1>4, <1>5, <1>6

\* What every administrator's step that revokes has in common.
LEMMA RevokeInv ==
  ASSUME IInv, NEW s \in Site, Revoke(s), role' \in [Site -> Role], UNCHANGED <<now, told, used>>
  PROVE  IInv'
<1> USE SiteAssumption, TokenAssumption DEF IInv, TypeOK, Revoke
<1>1. \A u \in Token : siteOf'[u] = IF siteOf[u] = s THEN NoSite ELSE siteOf[u]
  BY DEF Without, TokensOf
<1>2. TypeOK' BY DEF Without
<1>3. PresenceMatchesSession' BY <1>1 DEF PresenceMatchesSession
<1>4. ToldOnlineWhileLive' BY DEF ToldOnlineWhileLive
<1>5. (\A u \in Token : Live(u) => u \in used)' BY <1>1 DEF Live
<1>6. QED BY <1>2, <1>3, <1>4, <1>5

LEMMA RolesInv ==
  ASSUME IInv, role' \in [Site -> Role],
         UNCHANGED <<now, siteOf, expires, presence, told, used>>
  PROVE  IInv'
  BY DEF IInv, TypeOK, PresenceMatchesSession, ToldOnlineWhileLive, Live

LEMMA AdminInv == ASSUME IInv, AdminStep PROVE IInv'
<1>1. ASSUME NEW s \in Site, DeleteSite(s) PROVE IInv'
  <2>1. role' \in [Site -> Role] BY <1>1 DEF DeleteSite, IInv, TypeOK, Role
  <2>2. QED BY <1>1, <2>1, RevokeInv DEF DeleteSite
<1>2. ASSUME NEW s \in Site, ChangePassword(s) PROVE IInv'
  <2>1. role' \in [Site -> Role] BY <1>2 DEF ChangePassword, IInv, TypeOK
  <2>2. QED BY <1>2, <2>1, RevokeInv DEF ChangePassword
<1>3. ASSUME NEW s \in Site, NEW r \in Role, ChangeRole(s, r) PROVE IInv'
  <2>1. role' \in [Site -> Role] BY <1>3 DEF ChangeRole, IInv, TypeOK
  <2>2. QED BY <1>3, <2>1, RevokeInv, RolesInv DEF ChangeRole
<1>4. ASSUME NEW r \in [Site -> Role], ReplaceSites(r) PROVE IInv'
  BY <1>4, RolesInv DEF ReplaceSites
<1>5. ASSUME ResetSessions PROVE IInv'
  BY <1>5, SiteAssumption, TokenAssumption
     DEF ResetSessions, IInv, TypeOK, Role, PresenceMatchesSession, ToldOnlineWhileLive, Live
<1>6. QED BY <1>1, <1>2, <1>3, <1>4, <1>5 DEF AdminStep

LEMMA NextInv == IInv /\ [Next]_sessVars => IInv'
<1>1. ASSUME IInv, UNCHANGED sessVars PROVE IInv'
  BY <1>1 DEF sessVars, IInv, TypeOK, PresenceMatchesSession, ToldOnlineWhileLive, Live
<1>2. ASSUME IInv, Tick PROVE IInv'
  BY <1>2 DEF Tick, IInv, TypeOK, PresenceMatchesSession, ToldOnlineWhileLive, Live
<1>3. QED
  BY <1>1, <1>2, RegisterInv, TouchInv, UseExpiredInv, PruneInv, AdminInv DEF Next, AgentStep

\* The inductive invariant of the session tables (lib/agent.js:480-696) holds in
\* every state.
THEOREM InvHolds == Spec => []IInv
  BY InitInv, NextInv, PTL DEF Spec

\* The table of sessions and the table of presences agree, so that a site has at
\* most one agent.
THEOREM SessionsMatchPresence == Spec => []PresenceMatchesSession
<1>1. IInv => PresenceMatchesSession BY DEF IInv
<1>2. QED BY <1>1, InvHolds, PTL

\* No late request with an old token reports the agent that replaced it as gone.
THEOREM SessionsToldOnline == Spec => []ToldOnlineWhileLive
<1>1. IInv => ToldOnlineWhileLive BY DEF IInv
<1>2. QED BY <1>1, InvHolds, PTL

\* A token that was once dropped is never accepted again.
THEOREM SessionsRevocationFinal == Spec => RevocationIsFinal
<1> DEFINE Final == \A t \in used : siteOf[t] = NoSite => siteOf'[t] = NoSite
<1>1. IInv /\ [Next]_sessVars => [Final]_sessVars
  <2> SUFFICES ASSUME IInv, Next PROVE Final OBVIOUS
  <2>1. used \subseteq Token BY DEF IInv, TypeOK
  <2>2. ASSUME NEW s \in Site, NEW t \in Token, Register(s, t) PROVE Final
    <3>1. \A u \in Token : u # t /\ siteOf[u] = NoSite => siteOf'[u] = NoSite
      BY <2>2 DEF Register, Without, IInv, TypeOK
    <3>2. QED BY <2>1, <2>2, <3>1 DEF Register
  <2>3. ASSUME NEW t \in Token, Touch(t) PROVE Final BY <2>3 DEF Touch
  <2>4. ASSUME NEW t \in Token, UseExpired(t) PROVE Final
    BY <2>1, <2>4 DEF UseExpired, Without
  <2>5. ASSUME Prune PROVE Final BY <2>1, <2>5 DEF Prune, Without
  <2>6. ASSUME AdminStep PROVE Final
    BY <2>1, <2>6 DEF AdminStep, DeleteSite, ChangePassword, ChangeRole, ReplaceSites,
                      ResetSessions, Revoke, Without
  <2>7. ASSUME Tick PROVE Final BY <2>7 DEF Tick
  <2>8. QED BY <2>2, <2>3, <2>4, <2>5, <2>6, <2>7 DEF Next, AgentStep
<1>2. QED BY <1>1, InvHolds, PTL DEF Spec, RevocationIsFinal

-------------------------------------------------------------------------------
(* With rows and restarts. *)

SInv == StoreTypeOK /\ PresenceHasSession

\* A token in a session, in a row or on its way to one was drawn before: without this
\* a registration could move a live session to another site.
Drawn == (\A t \in Token : Live(t) => t \in used) /\ rows \subseteq used /\ inserting \subseteq used

LEMMA StoreInitInv == StoreInit => SInv /\ Drawn
BY SiteAssumption, TtlAssumption, MaxDeletesAssumption
   DEF StoreInit, Init, SInv, StoreTypeOK, TypeOK, PresenceHasSession, Role, Drawn, Live

\* Revoking leaves nothing at the site, in either table.
LEMMA RevokeKeeps ==
  ASSUME TypeOK, PresenceHasSession, NEW s \in Site, Revoke(s)
  PROVE  /\ siteOf' \in [Token -> Site \cup {NoSite}] /\ expires' \in [Token -> Nat]
         /\ presence' \in [Site -> Token \cup {NoToken}]
         /\ PresenceHasSession'
<1>1. \A r \in Site \ {s}, t \in Token : siteOf[t] = r => siteOf'[t] = r
  BY DEF Revoke, Without, TokensOf
<1>2. presence'[s] = NoToken /\ \A r \in Site \ {s} : presence'[r] = presence[r]
  BY DEF TypeOK, Revoke
<1>3. PresenceHasSession'
  BY <1>1, <1>2 DEF PresenceHasSession
<1> QED BY <1>3 DEF TypeOK, Revoke, Without

LEMMA RegisterKeeps ==
  ASSUME SInv, Drawn, NEW s \in Site, NEW t \in Token, RegisterStored(s, t) PROVE SInv'
<1> USE DEF SInv, StoreTypeOK
<1>1. Register(s, t) /\ SendDelete(s)
  BY DEF RegisterStored
<1>2. TypeOK'
  BY <1>1, TtlAssumption DEF TypeOK, Register, Without
<1>3. PresenceHasSession'
  <2> SUFFICES ASSUME NEW r \in Site, presence'[r] # NoToken
               PROVE  \E u \in Token : siteOf'[u] = r
    BY DEF PresenceHasSession
  <2>1. CASE r = s
    BY <1>1, <2>1 DEF Register, Without, TypeOK
  <2>2. CASE r # s
    <3>0. presence'[r] = presence[r]
      BY <1>1, <2>2 DEF Register, TypeOK
    <3>1. PICK u \in Token : siteOf[u] = r
      BY <3>0 DEF PresenceHasSession
    <3>2. u # t
      BY <1>1, <3>1, SiteAssumption DEF Register, Drawn, Live
    <3> QED BY <1>1, <2>2, <3>1, <3>2 DEF Register, Without, TokensOf
  <2> QED BY <2>1, <2>2
<1>4. /\ rowSite' \in [Token -> Site \cup {NoSite}] /\ rowExpires' \in [Token -> Nat]
      /\ rows' \in SUBSET Token /\ inserting' \in SUBSET Token
  BY TtlAssumption DEF RegisterStored, TypeOK
<1>5. deleting' \in [Site -> 0..MaxDeletes]
  BY <1>1, MaxDeletesAssumption DEF SendDelete
<1> QED BY <1>2, <1>3, <1>4, <1>5

LEMMA RevokeStoredKeeps ==
  ASSUME SInv, NEW s \in Site, RevokeStored(s) PROVE SInv'
<1>1. Revoke(s) /\ role' \in [Site -> Role] /\ UNCHANGED <<now, told, used>>
  BY DEF RevokeStored, DeleteSite, ChangePassword, ChangeRole, SInv, StoreTypeOK, TypeOK, Role
<1>2. TypeOK' /\ PresenceHasSession'
  BY <1>1, RevokeKeeps DEF SInv, StoreTypeOK, TypeOK
<1>3. deleting' \in [Site -> 0..MaxDeletes]
  BY MaxDeletesAssumption DEF RevokeStored, SendDelete, SInv, StoreTypeOK
<1> QED BY <1>2, <1>3 DEF RevokeStored, SInv, StoreTypeOK

\* The steps that send no query.
LEMMA UnstoredKeeps == ASSUME SInv, Unstored PROVE SInv'
<1> SUFFICES TypeOK' /\ PresenceHasSession'
  BY DEF SInv, StoreTypeOK, Unstored, rowVars
<1>0. TypeOK /\ PresenceHasSession BY DEF SInv, StoreTypeOK
<1>1. ASSUME NEW t \in Token, Touch(t) PROVE TypeOK' /\ PresenceHasSession'
  <2>1. siteOf[t] \in Site BY <1>0, <1>1 DEF Touch, Live, TypeOK
  <2>2. \A r \in Site : presence'[r] # NoToken => r = siteOf[t] \/ presence'[r] = presence[r]
    BY <1>0, <1>1, <2>1 DEF Touch, TypeOK
  <2>3. now + Ttl \in Nat BY <1>0, TtlAssumption DEF TypeOK
  <2>4. TypeOK' BY <1>0, <1>1, <2>1, <2>3 DEF Touch, TypeOK
  <2> QED BY <1>0, <1>1, <2>1, <2>2, <2>4 DEF Touch, PresenceHasSession
<1>2. ASSUME NEW t \in Token, UseExpired(t) PROVE TypeOK' /\ PresenceHasSession'
  <2>1. siteOf[t] \in Site BY <1>0, <1>2 DEF UseExpired, Expired, Live, TypeOK
  <2>2. \A r \in Site : presence'[r] # NoToken => r # siteOf[t] /\ presence'[r] = presence[r]
    BY <1>0, <1>2, <2>1 DEF UseExpired, TypeOK
  <2>3. \A u \in Token : u # t => siteOf'[u] = siteOf[u] BY <1>2 DEF UseExpired, Without
  <2>4. PresenceHasSession' BY <1>0, <2>2, <2>3 DEF PresenceHasSession
  <2>5. TypeOK' BY <1>0, <1>2, <2>1 DEF UseExpired, TypeOK, Without
  <2> QED BY <2>4, <2>5
<1>3. ASSUME Prune PROVE TypeOK' /\ PresenceHasSession'
  <2>1. \A u \in Token : ~Expired(u) => siteOf'[u] = siteOf[u] BY <1>3 DEF Prune, Without
  <2>2. \A r \in Site : presence'[r] # NoToken => \E u \in TokensOf(r) : ~Expired(u)
    BY <1>3 DEF Prune
  <2>3. PresenceHasSession' BY <2>1, <2>2 DEF PresenceHasSession, TokensOf
  <2>4. TypeOK' BY <1>0, <1>3 DEF Prune, TypeOK, Without
  <2> QED BY <2>3, <2>4
<1>4. ASSUME NEW s \in Site, ChangeRole(s, "collector") PROVE TypeOK' /\ PresenceHasSession'
  BY <1>0, <1>4 DEF ChangeRole, TypeOK, PresenceHasSession
<1>5. ASSUME NEW r \in [Site -> Role], ReplaceSites(r) PROVE TypeOK' /\ PresenceHasSession'
  BY <1>0, <1>5 DEF ReplaceSites, TypeOK, PresenceHasSession
<1>6. ASSUME ResetSessions PROVE TypeOK' /\ PresenceHasSession'
  BY <1>0, <1>6 DEF ResetSessions, TypeOK, PresenceHasSession, Role
<1>7. ASSUME Tick PROVE TypeOK' /\ PresenceHasSession'
  BY <1>0, <1>7 DEF Tick, TypeOK, PresenceHasSession
<1> QED BY <1>1, <1>2, <1>3, <1>4, <1>5, <1>6, <1>7 DEF Unstored

\* The ends of queries, and a presence forgotten.
LEMMA QueriesKeep ==
  ASSUME SInv,
         \/ \E s \in Site : ForgetPresence(s) \/ DeleteEnds(s)
         \/ \E t \in Token : InsertEnds(t)
  PROVE  SInv'
<1> USE DEF SInv, StoreTypeOK
<1>1. ASSUME NEW s \in Site, ForgetPresence(s) PROVE SInv'
  <2>1. \A r \in Site : presence'[r] # NoToken => presence'[r] = presence[r]
    BY <1>1 DEF ForgetPresence, TypeOK
  <2> QED BY <1>1, <2>1 DEF ForgetPresence, TypeOK, rowVars, PresenceHasSession
<1>2. ASSUME NEW s \in Site, DeleteEnds(s) PROVE SInv'
  BY <1>2, MaxDeletesAssumption DEF DeleteEnds, sessVars, TypeOK, PresenceHasSession
<1>3. ASSUME NEW t \in Token, InsertEnds(t) PROVE SInv'
  BY <1>3 DEF InsertEnds, sessVars, TypeOK, PresenceHasSession
<1> QED BY <1>1, <1>2, <1>3

\* A restart makes what is in memory of what is in the rows.
LEMMA RestartKeeps == ASSUME SInv, Restart \/ RestartBare PROVE SInv'
<1>0. /\ role' \in [Site -> Role] /\ inserting' = {}
      /\ deleting' \in [Site -> 0..MaxDeletes]
      /\ UNCHANGED <<now, told, used, rowSite, rowExpires>>
  BY MaxDeletesAssumption DEF Restart, RestartBare, StartsAnew
<1>1. CASE Restart
  <2>1. /\ siteOf' \in [Token -> Site \cup {NoSite}] /\ expires' \in [Token -> Nat]
        /\ rows' \in SUBSET Token
    BY <1>1 DEF Restart, SInv, StoreTypeOK
  <2>2. /\ presence' \in [Site -> Token \cup {NoToken}]
        /\ \A s \in Site : presence'[s] # NoToken => presence'[s] \in Kept(s)
    BY <1>1 DEF Restart
  <2>3. \A s \in Site : \A t \in Kept(s) : t \in Token /\ siteOf'[t] = s
    BY <1>1 DEF Restart, Kept, SInv, StoreTypeOK
  <2>4. PresenceHasSession' BY <2>2, <2>3 DEF PresenceHasSession
  <2> QED BY <1>0, <2>1, <2>2, <2>4 DEF SInv, StoreTypeOK, TypeOK
<1>2. CASE RestartBare
  BY <1>0, <1>2 DEF RestartBare, SInv, StoreTypeOK, TypeOK, PresenceHasSession
<1> QED BY <1>1, <1>2

LEMMA DrawnKept == ASSUME SInv, Drawn, StoreNext PROVE Drawn'
<1>0. rows \subseteq used /\ inserting \subseteq used /\ SiteAssumption
  BY SiteAssumption DEF Drawn
<1>1. ASSUME NEW s \in Site, NEW t \in Token, RegisterStored(s, t) PROVE Drawn'
  <2>1. \A u \in Token : u # t /\ siteOf[u] = NoSite => siteOf'[u] = NoSite
    BY <1>1 DEF RegisterStored, Register, Without
  <2> QED BY <1>0, <1>1, <2>1 DEF RegisterStored, Register, Drawn, Live
<1>2. ASSUME NEW s \in Site, RevokeStored(s) PROVE Drawn'
  <2>1. \A u \in Token : siteOf[u] = NoSite => siteOf'[u] = NoSite
    BY <1>2 DEF RevokeStored, DeleteSite, ChangePassword, ChangeRole, Revoke, Without
  <2>2. UNCHANGED <<used, rows, inserting>>
    BY <1>2 DEF RevokeStored, DeleteSite, ChangePassword, ChangeRole
  <2> QED BY <2>1, <2>2 DEF Drawn, Live
<1>3. ASSUME Unstored PROVE Drawn'
  <2>1. \A u \in Token : siteOf[u] = NoSite => siteOf'[u] = NoSite
    BY <1>3 DEF Unstored, Touch, UseExpired, Prune, ChangeRole, ReplaceSites,
                ResetSessions, Tick, Without
  <2>2. UNCHANGED <<used, rows, inserting>>
    BY <1>3 DEF Unstored, Touch, UseExpired, Prune, ChangeRole, ReplaceSites,
                ResetSessions, Tick, rowVars
  <2> QED BY <2>1, <2>2 DEF Drawn, Live
<1>4. ASSUME \/ \E s \in Site : ForgetPresence(s) \/ DeleteEnds(s)
             \/ \E t \in Token : InsertEnds(t)
      PROVE  Drawn'
  <2>1. UNCHANGED <<siteOf, used>> /\ rows' \subseteq used /\ inserting' \subseteq used
    BY <1>0, <1>4 DEF ForgetPresence, DeleteEnds, InsertEnds, sessVars, rowVars
  <2> QED BY <2>1 DEF Drawn, Live
<1>5. ASSUME Restart \/ RestartBare PROVE Drawn'
  <2>1. /\ used' = used /\ inserting' = {} /\ rows' \subseteq used
        /\ \A u \in Token : siteOf'[u] # NoSite => u \in rows
    BY <1>0, <1>5 DEF Restart, RestartBare, StartsAnew, Kept
  <2> QED BY <2>1 DEF Drawn, Live
<1> QED BY <1>1, <1>2, <1>3, <1>4, <1>5 DEF StoreNext

LEMMA StoreNextInv == SInv /\ Drawn /\ [StoreNext]_storeVars => SInv' /\ Drawn'
<1>1. ASSUME SInv, Drawn, UNCHANGED storeVars PROVE SInv' /\ Drawn'
  BY <1>1 DEF storeVars, sessVars, rowVars, SInv, StoreTypeOK, TypeOK, PresenceHasSession, Drawn, Live
<1> QED
  BY <1>1, RegisterKeeps, RevokeStoredKeeps, UnstoredKeeps, QueriesKeep, RestartKeeps, DrawnKept
     DEF StoreNext

\* The types of both tables, and with them that a site shown as having an agent has a
\* session (lib/agent.js:429-696), through every order in which the queries nobody waits
\* for take effect, and through restarts.
THEOREM StoreInv == StoreSpec => [](SInv /\ Drawn)
BY StoreInitInv, StoreNextInv, PTL DEF StoreSpec

\* Sessions and rows keep their types (lib/agent.js:17, lib/storage.js:495).
THEOREM StoreTypes == StoreSpec => []StoreTypeOK
<1>1. SInv /\ Drawn => StoreTypeOK BY DEF SInv
<1> QED BY <1>1, StoreInv, PTL

\* No agent is shown at a site without a session (lib/agent.js:429).
THEOREM StorePresence == StoreSpec => []PresenceHasSession
<1>1. SInv /\ Drawn => PresenceHasSession BY DEF SInv
<1> QED BY <1>1, StoreInv, PTL

\* The only way back for a session that ended is a restart that finds its row, before
\* the expiry it was issued with (lib/storage.js:540).
THEOREM StoreRevival == StoreSpec => RevivedInTime
<1> DEFINE Ends == \A t \in used : siteOf[t] = NoSite => siteOf'[t] = NoSite
           InTime == \A t \in used : siteOf[t] = NoSite /\ siteOf'[t] # NoSite
                       => Restart /\ siteOf'[t] = rowSite[t] /\ now < rowExpires[t]
<1>1. ASSUME SInv, StoreNext PROVE InTime
  <2>0. TypeOK /\ used \subseteq Token BY <1>1 DEF SInv, StoreTypeOK, TypeOK
  <2>1. ASSUME NEW s \in Site, NEW t \in Token, RegisterStored(s, t) PROVE Ends
    <3>1. \A u \in Token : u # t /\ siteOf[u] = NoSite => siteOf'[u] = NoSite
      BY <2>0, <2>1 DEF RegisterStored, Register, Without, TypeOK
    <3> QED BY <2>0, <2>1, <3>1 DEF RegisterStored, Register
  <2>2. ASSUME NEW s \in Site, RevokeStored(s) PROVE Ends
    BY <2>0, <2>2 DEF RevokeStored, DeleteSite, ChangePassword, ChangeRole, Revoke, Without
  <2>3. ASSUME Unstored PROVE Ends
    BY <2>0, <2>3 DEF Unstored, Touch, UseExpired, Prune, ChangeRole, ReplaceSites,
                      ResetSessions, Tick, Without
  <2>4. ASSUME \/ \E s \in Site : ForgetPresence(s) \/ DeleteEnds(s)
               \/ \E t \in Token : InsertEnds(t)
        PROVE  Ends
    BY <2>4 DEF ForgetPresence, DeleteEnds, InsertEnds, sessVars
  <2>5. ASSUME Restart PROVE InTime
    BY <2>0, <2>5 DEF Restart, Kept
  <2>6. ASSUME RestartBare PROVE Ends
    BY <2>0, <2>6 DEF RestartBare
  <2>7. Ends => InTime OBVIOUS
  <2> HIDE DEF Ends, InTime
  <2> QED BY <1>1, <2>1, <2>2, <2>3, <2>4, <2>5, <2>6, <2>7 DEF StoreNext
<1>2. ASSUME UNCHANGED storeVars PROVE InTime
  BY <1>2 DEF storeVars, sessVars
<1>3. SInv /\ [StoreNext]_storeVars => [InTime]_storeVars
  BY <1>1, <1>2
<1> QED BY <1>3, StoreInv, PTL DEF StoreSpec, RevivedInTime
-------------------------------------------------------------------------------
(* The installation of the agent. *)

(* What holds of the host between two steps: the installation in the file  *)
(* and the one the site is locked on are among those that were made, the   *)
(* one that runs is not newer than the file unless that one is empty, and a*)
(* setup on its way to the file has the newest of all.                     *)
HostSound ==
  /\ setupMade \in Nat /\ setupConf \in -1..setupMade /\ setupLock \in 0..setupMade
  /\ setupProc \in Nat /\ setupWritten \in 0..setupMade
  /\ setupUnit \in {"off", "starting", "up"}
  /\ (setupUnit = "up" => setupProc <= IF setupConf > 0 THEN setupConf ELSE setupMade)
  /\ setupSetup \in [by : {"nobody", "root", "user", "window", "prompts", "package"},
                     at : {"none", "ask", "verify", "poll", "write", "fill", "close", "finish"},
                     id : 0..setupMade]
  /\ (setupSetup.at \in {"verify", "poll", "write", "fill"} => setupSetup.id = setupMade)
  /\ (setupSetup.at = "fill" => setupConf = 0)

HostInv == HostSound /\ Setup!RefusedAfterFailureOnly /\ Setup!LastWritten

(* What a step makes of it; no older installation is written after a newer.*)
HostHeld == HostInv' /\ (setupWritten' # 0 => setupWritten' >= setupWritten)

LEMMA HostInitial == Setup!Init => HostInv
BY DEF Setup!Init, Setup!Nobody, HostInv, HostSound, Setup!RefusedAfterFailureOnly, Setup!LastWritten

LEMMA WhoLeaves ==
  ASSUME NEW by
  PROVE  /\ Setup!Left(by) \in [by : {"nobody", "root", "user", "window", "prompts", "package"},
                                at : {"none", "ask", "finish"}, id : {0}]
BY DEF Setup!Left, Setup!Nobody

LEMMA Ends ==
  /\ Setup!Nobody \in [by : {"nobody"}, at : {"none"}, id : {0}]
  /\ Setup!Written \in [by : {"nobody", "root", "user", "window", "prompts", "package"},
                        at : {"none", "ask", "finish"}, id : {0}]
BY WhoLeaves DEF Setup!Written, Setup!Nobody

(* A setup that ends where it is leaves what it did to the file, and to the*)
(* site, on record.                                                        *)
LEMMA AbandonedKeeps ==
  ASSUME HostInv, Setup!Abandoned,
         setupSetup' \in [by : {"nobody", "root", "user", "window", "prompts", "package"},
                          at : {"none", "ask", "finish"}, id : {0}],
         UNCHANGED <<setupConf, setupMade, setupLock>>,
         \/ UNCHANGED <<setupUnit, setupProc>>
         \/ setupUnit' \in {"off", "starting"} /\ setupProc' = 0
  PROVE  HostHeld
<1> USE DEF HostInv, HostSound
<1>1. HostSound'
  BY DEF Setup!Abandoned
<1>2. Setup!RefusedAfterFailureOnly'
  BY DEF Setup!Abandoned, Setup!RefusedAfterFailureOnly
<1>3. Setup!LastWritten' /\ (setupWritten' # 0 => setupWritten' >= setupWritten)
  BY DEF Setup!Abandoned, Setup!LastWritten
<1> QED BY <1>1, <1>2, <1>3 DEF HostHeld

(* The steps of systemd and of the agent, which change no file and make no *)
(* installation: only a registration moves the lock, to the installation   *)
(* that runs.                                                              *)
LEMMA AgentKeeps == HostInv /\ Setup!Agent => HostHeld
<1> SUFFICES ASSUME HostInv, Setup!Agent PROVE HostHeld
  OBVIOUS
<1>1. CASE Setup!Reboot
  <2>1. setupUnit' \in {"off", "starting"} /\ setupProc' = 0 /\ setupSetup' = Setup!Nobody
        /\ Setup!Abandoned /\ UNCHANGED <<setupConf, setupMade, setupLock>>
    BY <1>1 DEF Setup!Reboot, Setup!siteVars
  <2> QED BY <2>1, Ends, AbandonedKeeps
<1> USE DEF HostHeld, HostInv, HostSound, Setup!RefusedAfterFailureOnly, Setup!LastWritten, Setup!history
<1>2. CASE Setup!Launch
  BY <1>2 DEF Setup!Launch, Setup!siteVars
<1>3. CASE Setup!Register
  BY <1>3 DEF Setup!Register, Setup!Registered, Setup!Admits
<1>4. CASE Setup!Unknown \/ Setup!SessionEnds
  BY <1>4 DEF Setup!Unknown, Setup!SessionEnds, Setup!hostVars, Setup!siteVars
<1>5. CASE Setup!Crash
  BY <1>5 DEF Setup!Crash, Setup!siteVars
<1> QED BY <1>1, <1>2, <1>3, <1>4, <1>5 DEF Setup!Agent

(* The steps of the setup program and of the installation: a registration  *)
(* may put the lock ahead of the file, and the failures after it are on    *)
(* record, with those that leave the file empty; what is written is the    *)
(* newest installation.                                                    *)
LEMMA AdminKeeps == HostInv /\ Setup!Admin => HostHeld
<1> SUFFICES ASSUME HostInv, Setup!Admin PROVE HostHeld
  OBVIOUS
<1>1. CASE Setup!VerifyFails
  <2>1. setupSetup' = Setup!Left(setupSetup.by) /\ Setup!Abandoned
        /\ UNCHANGED <<setupConf, setupMade, setupLock, setupUnit, setupProc>>
    BY <1>1 DEF Setup!VerifyFails, Setup!hostVars, Setup!siteVars
  <2> QED BY <2>1, WhoLeaves, AbandonedKeeps
<1>2. CASE Setup!WriteFails
  <2>1. setupSetup' = Setup!Written /\ Setup!Abandoned
        /\ UNCHANGED <<setupConf, setupMade, setupLock, setupUnit, setupProc>>
    BY <1>2 DEF Setup!WriteFails, Setup!hostVars, Setup!siteVars
  <2> QED BY <2>1, Ends, AbandonedKeeps
<1> USE DEF HostHeld, HostInv, HostSound, Setup!RefusedAfterFailureOnly, Setup!LastWritten, Setup!history
<1>3. ASSUME NEW by \in {"root", "user"}, Setup!Begin(by) PROVE HostHeld
  BY <1>3 DEF Setup!Begin, Setup!Nobody, Setup!hostVars, Setup!siteVars
<1>4. CASE Setup!Quit \/ Setup!Unverified
  BY <1>4, WhoLeaves DEF Setup!Quit, Setup!Unverified, Setup!hostVars, Setup!siteVars
<1>5. CASE Setup!Collected
  <2>1. PICK to \in {"verify", "write"} : setupSetup' = [by |-> setupSetup.by, at |-> to, id |-> setupMade + 1]
    BY <1>5 DEF Setup!Collected
  <2>2. setupMade' = setupMade + 1 /\ setupSetup.at = "ask"
        /\ UNCHANGED <<setupConf, setupUnit, setupProc, setupLock, setupLost, setupWritten>>
    BY <1>5 DEF Setup!Collected, Setup!hostVars, Setup!siteVars
  <2> QED BY <2>1, <2>2
<1>6. CASE Setup!Verified
  BY <1>6 DEF Setup!Verified, Setup!Registered, Setup!Admits, Setup!hostVars
<1>7. CASE Setup!Polled
  BY <1>7 DEF Setup!Polled, Setup!hostVars, Setup!siteVars
<1>8. CASE Setup!Empty
  BY <1>8 DEF Setup!Empty, Setup!siteVars
<1>9. CASE Setup!Fill
  BY <1>9 DEF Setup!Fill, Setup!siteVars
<1>10. CASE Setup!Close
  BY <1>10, Ends DEF Setup!Close, Setup!siteVars
<1>11. CASE Setup!EnableNow
  BY <1>11 DEF Setup!EnableNow, Setup!Started, Setup!siteVars
<1>12. CASE Setup!Install
  BY <1>12, WhoLeaves DEF Setup!Install, Setup!Placed, Setup!Nobody, Setup!siteVars
<1>13. CASE Setup!Finish
  BY <1>13 DEF Setup!Finish, Setup!Started, Setup!Nobody, Setup!siteVars
<1> QED
  BY <1>1, <1>2, <1>3, <1>4, <1>5, <1>6, <1>7, <1>8, <1>9, <1>10, <1>11, <1>12, <1>13 DEF Setup!Admin

LEMMA HostStep == HostInv /\ [Setup!Next]_(Setup!installVars) => HostHeld
<1> SUFFICES ASSUME HostInv, [Setup!Next]_(Setup!installVars) PROVE HostHeld
  OBVIOUS
<1>1. CASE Setup!Agent \/ Setup!Admin
  BY <1>1, AgentKeeps, AdminKeeps
<1>2. CASE UNCHANGED Setup!installVars
  BY <1>2 DEF Setup!installVars, Setup!hostVars, Setup!siteVars, Setup!history, HostHeld, HostInv, HostSound,
              Setup!RefusedAfterFailureOnly, Setup!LastWritten
<1> QED BY <1>1, <1>2 DEF Setup!Next, Setup!Package

-------------------------------------------------------------------------------
(* The package. *)

Loads == [at : {"none", "stat", "read", "pack", "served"}, seen : Seq(Nat), body : Seq(Nat),
          since : Seq(Nat)]

(* A request has looked at the scripts, and read them, after it came, in   *)
(* this order: no version in it is older than the one before.              *)
Ordered(at, seen, body, since, script) ==
  /\ since \in [1..Files -> Nat]
  /\ Len(seen) <= Files /\ Len(body) <= Files
  /\ \A i \in 1..Files : since[i] <= script[i]
  /\ \A i \in 1..Len(seen) : since[i] <= seen[i] /\ seen[i] <= script[i]
  /\ at = "stat" => Len(seen) < Files /\ body = <<>>
  /\ at \in {"read", "pack"} => Len(seen) = Files /\ \A i \in 1..Len(body) : seen[i] <= body[i]
  /\ at = "read" => Len(body) < Files
  /\ at = "pack" => Len(body) = Files
  /\ at = "served" => \A i \in 1..Files : since[i] <= body[i]

InOrder(d, script) ==
  \/ packageLoad[d].at = "none"
  \/ Ordered(packageLoad[d].at, packageLoad[d].seen, packageLoad[d].body, packageLoad[d].since, script)

PackageTypeOK ==
  /\ packageScript \in [1..Files -> Nat]
  /\ packageCache \in [seen : Seq(Nat), body : Seq(Nat)]
  /\ packageLoad \in [Download -> Loads]

(* The package that is kept was read after the versions it stands for.     *)
PackageInv ==
  /\ PackageTypeOK
  /\ Len(packageCache.seen) = Len(packageCache.body)
  /\ \A i \in 1..Len(packageCache.seen) : packageCache.seen[i] <= packageCache.body[i]
  /\ \A d \in Download : InOrder(d, packageScript)

LEMMA PackageInitial == Package!Init => PackageInv
<1> SUFFICES ASSUME Package!Init PROVE PackageInv
  OBVIOUS
<1>1. packageScript = [i \in 1..Files |-> 0] /\ Files \in Nat
  BY PackageAssumption DEF Package!Init
<1>2. packageCache = [seen |-> <<>>, body |-> <<>>]
      /\ packageLoad = [d \in Download |-> [at |-> "none", seen |-> <<>>, body |-> <<>>, since |-> <<>>]]
  BY DEF Package!Init, Package!Idle
<1>3. <<>> \in Seq(Nat) /\ Len(<<>>) = 0
  OBVIOUS
<1> QED BY <1>1, <1>2, <1>3 DEF PackageInv, PackageTypeOK, Loads, InOrder

(* A step that changes one request and nothing else keeps the invariant    *)
(* when it keeps the order of that request.                                *)
LEMMA OneLoad ==
  ASSUME PackageInv, NEW d \in Download,
         NEW at \in {"none", "stat", "read", "pack", "served"}, NEW seen \in Seq(Nat),
         NEW body \in Seq(Nat), NEW since \in Seq(Nat),
         at = "none" \/ Ordered(at, seen, body, since, packageScript),
         packageLoad' = [packageLoad EXCEPT ![d] = [at |-> at, seen |-> seen, body |-> body,
                                                    since |-> since]],
         UNCHANGED <<packageScript, packageCache>>
  PROVE  PackageInv'
<1> DEFINE l == [at |-> at, seen |-> seen, body |-> body, since |-> since]
<1>1. l \in Loads /\ l.at = at /\ l.seen = seen /\ l.body = body /\ l.since = since
  BY DEF Loads
<1>2. \A e \in Download : packageLoad'[e] = IF e = d THEN l ELSE packageLoad[e]
  BY DEF PackageInv, PackageTypeOK
<1> HIDE DEF l
<1>3. PackageTypeOK'
  BY <1>1, <1>2 DEF PackageInv, PackageTypeOK, l
<1>4. ASSUME NEW e \in Download PROVE InOrder(e, packageScript)'
  <2>1. CASE e = d
    BY <1>1, <1>2, <2>1 DEF InOrder
  <2>2. CASE e # d
    BY <1>2, <2>2 DEF PackageInv, InOrder
  <2> QED BY <2>1, <2>2
<1> QED BY <1>3, <1>4 DEF PackageInv

(* What is known of a request in any of its steps.                         *)
LEMMA LoadFacts ==
  ASSUME PackageInv, NEW d \in Download
  PROVE  /\ Files \in Nat \ {0} /\ packageScript \in [1..Files -> Nat]
         /\ packageLoad[d].seen \in Seq(Nat) /\ packageLoad[d].body \in Seq(Nat)
         /\ packageLoad[d].since \in Seq(Nat) /\ InOrder(d, packageScript)
BY PackageAssumption DEF PackageInv, PackageTypeOK, Loads

LEMMA EditKeeps == ASSUME PackageInv, NEW i \in 1..Files, Package!Edit(i) PROVE PackageInv'
<1>1. packageScript \in [1..Files -> Nat] /\ packageScript' = [packageScript EXCEPT ![i] = packageScript[i] + 1]
  BY DEF Package!Edit, PackageInv, PackageTypeOK
<1>2. packageScript' \in [1..Files -> Nat] /\ \A j \in 1..Files : packageScript[j] <= packageScript'[j]
  BY <1>1
<1>3. UNCHANGED <<packageCache, packageLoad>>
  BY DEF Package!Edit
<1>4. ASSUME NEW d \in Download, InOrder(d, packageScript), packageLoad[d].at # "none"
      PROVE  InOrder(d, packageScript')
  <2> DEFINE seen == packageLoad[d].seen
             since == packageLoad[d].since
  <2>1. Ordered(packageLoad[d].at, seen, packageLoad[d].body, since, packageScript)
    BY <1>4 DEF InOrder
  <2>2. seen \in Seq(Nat) /\ Len(seen) \in Nat /\ Len(seen) <= Files
        /\ since \in [1..Files -> Nat] /\ Files \in Nat
    <3>1. seen \in Seq(Nat) /\ Files \in Nat
      BY LoadFacts
    <3> QED BY <2>1, <3>1 DEF Ordered
  <2>3. \A j \in 1..Files : since[j] <= packageScript[j]
    BY <2>1 DEF Ordered
  <2>4. \A j \in 1..Len(seen) : since[j] <= seen[j] /\ seen[j] <= packageScript[j]
    BY <2>1 DEF Ordered
  <2> HIDE DEF seen, since
  <2>5. \A j \in 1..Files : packageScript[j] \in Nat /\ packageScript'[j] \in Nat /\ since[j] \in Nat
    BY <1>1, <1>2, <2>2
  <2>6. \A j \in 1..Files : since[j] <= packageScript'[j]
    BY <1>2, <2>3, <2>5
  <2>7. ASSUME NEW j \in 1..Len(seen) PROVE seen[j] <= packageScript'[j]
    <3>1. j \in 1..Files /\ seen[j] \in Nat
      BY <2>2
    <3> QED BY <1>2, <2>4, <2>5, <3>1
  <2> QED BY <2>1, <2>4, <2>6, <2>7 DEF Ordered, InOrder, seen, since
<1> QED BY <1>2, <1>3, <1>4 DEF PackageInv, PackageTypeOK, InOrder

LEMMA AskKeeps == ASSUME PackageInv, NEW d \in Download, Package!Ask(d) PROVE PackageInv'
<1>1. packageScript \in [1..Files -> Nat] /\ Files \in Nat \ {0}
  BY LoadFacts
<1>2. packageScript \in Seq(Nat) /\ <<>> \in Seq(Nat)
  BY <1>1
<1>3. Ordered("stat", <<>>, <<>>, packageScript, packageScript)
  BY <1>1 DEF Ordered
<1> QED BY <1>2, <1>3, OneLoad DEF Package!Ask

(* The next script is looked at, or read: it is not older than when the    *)
(* request came, nor, when it is read, than when it was looked at.         *)
LEMMA LookedAt ==
  ASSUME NEW script \in [1..Files -> Nat], NEW old \in Seq(Nat), Files \in Nat,
         NEW f \in [1..Files -> Nat], Len(old) < Files,
         \A i \in 1..Len(old) : f[i] <= old[i] /\ old[i] <= script[i],
         \A i \in 1..Files : f[i] <= script[i]
  PROVE  LET new == Append(old, script[Len(old) + 1]) IN
         /\ new \in Seq(Nat) /\ Len(new) = Len(old) + 1
         /\ \A i \in 1..Len(new) : f[i] <= new[i] /\ new[i] <= script[i]
<1> DEFINE n == Len(old)
           new == Append(old, script[n + 1])
<1>1. n \in Nat /\ n + 1 \in 1..Files
  OBVIOUS
<1>2. script[n + 1] \in Nat
  BY <1>1
<1>3. new \in Seq(Nat) /\ Len(new) = n + 1
  BY <1>2
<1>4. \A i \in 1..n : new[i] = old[i]
  BY <1>2
<1>5. new[n + 1] = script[n + 1]
  BY <1>2
<1>6. \A i \in 1..n : f[i] <= old[i] /\ old[i] <= script[i]
  OBVIOUS
<1> HIDE DEF n, new
<1>7. f[n + 1] <= script[n + 1] /\ script[n + 1] <= script[n + 1]
  BY <1>1, <1>2
<1>8. ASSUME NEW i \in 1..n + 1 PROVE f[i] <= new[i] /\ new[i] <= script[i]
  <2>1. CASE i = n + 1
    BY <1>5, <1>7, <2>1
  <2>2. CASE i \in 1..n
    BY <1>4, <1>6, <2>2
  <2> QED BY <1>1, <2>1, <2>2
<1> QED BY <1>3, <1>8 DEF n, new

LEMMA StatKeeps == ASSUME PackageInv, NEW d \in Download, Package!Stat(d) PROVE PackageInv'
<1> DEFINE old == packageLoad[d].seen
           since == packageLoad[d].since
           seen == Append(old, packageScript[Len(old) + 1])
           Goes(at, body) == packageLoad' = [packageLoad EXCEPT ![d] =
             [at |-> at, seen |-> seen, body |-> body, since |-> since]]
<1>1. UNCHANGED <<packageScript, packageCache>> /\ packageLoad[d].at = "stat"
  BY DEF Package!Stat
<1>2. Files \in Nat \ {0} /\ packageScript \in [1..Files -> Nat] /\ old \in Seq(Nat) /\ since \in Seq(Nat)
  BY LoadFacts
<1>3. Ordered("stat", old, packageLoad[d].body, since, packageScript)
  BY <1>1, LoadFacts DEF InOrder
<1>4. since \in [1..Files -> Nat] /\ Len(old) < Files
  BY <1>3 DEF Ordered
<1>5. \A i \in 1..Files : since[i] <= packageScript[i]
  BY <1>3 DEF Ordered
<1>6. \A i \in 1..Len(old) : since[i] <= old[i] /\ old[i] <= packageScript[i]
  BY <1>3 DEF Ordered
<1>7. \/ Len(seen) < Files /\ Goes("stat", <<>>)
      \/ Len(seen) = Files /\ packageCache.seen = seen /\ Goes("served", packageCache.body)
      \/ Len(seen) = Files /\ Goes("read", <<>>)
  BY DEF Package!Stat, Package!Goes
<1> HIDE DEF old, since
<1>8. /\ seen \in Seq(Nat) /\ Len(seen) = Len(old) + 1
      /\ \A i \in 1..Len(seen) : since[i] <= seen[i] /\ seen[i] <= packageScript[i]
  BY <1>2, <1>4, <1>5, <1>6, LookedAt
<1> HIDE DEF seen
<1>9. <<>> \in Seq(Nat) /\ Len(<<>>) = 0
  OBVIOUS
<1>10. CASE Len(seen) < Files /\ Goes("stat", <<>>)
  <2>1. Ordered("stat", seen, <<>>, since, packageScript)
    BY <1>2, <1>4, <1>5, <1>8, <1>9, <1>10 DEF Ordered
  <2> QED BY <1>1, <1>2, <1>8, <1>9, <1>10, <2>1, OneLoad
<1>11. CASE Len(seen) = Files /\ Goes("read", <<>>)
  <2>1. Ordered("read", seen, <<>>, since, packageScript)
    BY <1>2, <1>4, <1>5, <1>8, <1>9, <1>11, SMTT(30) DEF Ordered
  <2> QED BY <1>1, <1>2, <1>8, <1>9, <1>11, <2>1, OneLoad
<1>12. CASE Len(seen) = Files /\ packageCache.seen = seen /\ Goes("served", packageCache.body)
  <2> DEFINE body == packageCache.body
  <2>1. body \in Seq(Nat) /\ Len(body) = Files
    BY <1>12 DEF PackageInv, PackageTypeOK
  <2>2. \A i \in 1..Files : seen[i] <= body[i]
    BY <1>12 DEF PackageInv
  <2>3. Goes("served", body)
    BY <1>12
  <2> HIDE DEF body
  <2>4. ASSUME NEW i \in 1..Files PROVE seen[i] \in Nat /\ body[i] \in Nat /\ since[i] \in Nat
    <3>1. seen[i] \in Nat
      BY <1>8, <1>12
    <3>2. body[i] \in Nat
      BY <2>1
    <3> QED BY <1>4, <3>1, <3>2
  <2>5. \A i \in 1..Files : since[i] <= seen[i]
    BY <1>8, <1>12
  <2>6. \A i \in 1..Files : since[i] <= body[i]
    BY <2>2, <2>4, <2>5
  <2>7. Ordered("served", seen, body, since, packageScript)
    <3>1. Len(seen) <= Files /\ Len(body) <= Files
      BY <1>2, <1>12, <2>1
    <3> QED BY <1>4, <1>5, <1>8, <2>6, <3>1 DEF Ordered
  <2> QED BY <1>1, <1>2, <1>8, <2>1, <2>3, <2>7, OneLoad
<1> QED BY <1>7, <1>10, <1>11, <1>12

LEMMA ReadKeeps == ASSUME PackageInv, NEW d \in Download, Package!Read(d) PROVE PackageInv'
<1> DEFINE seen == packageLoad[d].seen
           old == packageLoad[d].body
           since == packageLoad[d].since
           n == Len(old)
           body == Append(old, packageScript[n + 1])
           at == IF Len(body) < Files THEN "read" ELSE "pack"
<1>1. /\ UNCHANGED <<packageScript, packageCache>> /\ packageLoad[d].at = "read"
      /\ packageLoad' = [packageLoad EXCEPT ![d] = [at |-> at, seen |-> seen, body |-> body,
                                                    since |-> since]]
  BY DEF Package!Read, Package!Goes
<1>2. /\ Files \in Nat \ {0} /\ packageScript \in [1..Files -> Nat]
      /\ seen \in Seq(Nat) /\ old \in Seq(Nat) /\ since \in Seq(Nat)
  BY LoadFacts
<1>3. Ordered("read", seen, old, since, packageScript)
  BY <1>1, LoadFacts DEF InOrder
<1>4. since \in [1..Files -> Nat] /\ Len(seen) = Files /\ n < Files
  BY <1>3 DEF Ordered
<1>5. \A i \in 1..Files : since[i] <= packageScript[i]
  BY <1>3 DEF Ordered
<1>6. \A i \in 1..Files : since[i] <= seen[i] /\ seen[i] <= packageScript[i]
  BY <1>3, <1>4 DEF Ordered
<1>7. \A i \in 1..n : seen[i] <= old[i]
  BY <1>3 DEF Ordered
<1> HIDE DEF seen, old, since
<1>8. n \in Nat /\ n + 1 \in 1..Files
  BY <1>2, <1>4
<1>9. packageScript[n + 1] \in Nat
  BY <1>2, <1>8
<1>10. body \in Seq(Nat) /\ Len(body) = n + 1
  BY <1>2, <1>9
<1>11. \A i \in 1..n : body[i] = old[i]
  BY <1>2, <1>9
<1>12. body[n + 1] = packageScript[n + 1]
  BY <1>2, <1>9
<1> HIDE DEF n, body
<1>13. seen[n + 1] <= packageScript[n + 1]
  BY <1>6, <1>8
<1>14. ASSUME NEW i \in 1..n + 1 PROVE seen[i] <= body[i]
  <2>1. CASE i = n + 1
    BY <1>12, <1>13, <2>1
  <2>2. CASE i \in 1..n
    BY <1>7, <1>11, <2>2
  <2> QED BY <1>8, <2>1, <2>2
<1>15. /\ at \in {"none", "stat", "read", "pack", "served"} /\ at \in {"read", "pack"}
       /\ (at = "read" => Len(body) < Files) /\ (at = "pack" => Len(body) = Files)
       /\ Len(body) <= Files /\ Len(seen) <= Files
  BY <1>2, <1>4, <1>8, <1>10
<1>16. \A i \in 1..Len(body) : seen[i] <= body[i]
  BY <1>10, <1>14
<1>17. \A i \in 1..Len(seen) : since[i] <= seen[i] /\ seen[i] <= packageScript[i]
  BY <1>4, <1>6
<1> HIDE DEF at
<1>18. Ordered(at, seen, body, since, packageScript)
  BY <1>4, <1>5, <1>15, <1>16, <1>17 DEF Ordered
<1>19. packageLoad' = [packageLoad EXCEPT ![d] = [at |-> at, seen |-> seen, body |-> body,
                                                  since |-> since]]
  BY <1>1
<1> QED BY <1>1, <1>2, <1>10, <1>15, <1>18, <1>19, OneLoad

LEMMA PackKeeps == ASSUME PackageInv, NEW d \in Download, Package!Pack(d) PROVE PackageInv'
<1> DEFINE seen == packageLoad[d].seen
           body == packageLoad[d].body
           since == packageLoad[d].since
           l == [at |-> "served", seen |-> seen, body |-> body, since |-> since]
<1>1. /\ packageCache' = [seen |-> seen, body |-> body] /\ packageScript' = packageScript
      /\ packageLoad' = [packageLoad EXCEPT ![d] = l] /\ packageLoad[d].at = "pack"
  BY DEF Package!Pack, Package!StandsFor, Package!Goes
<1>2. /\ Files \in Nat \ {0} /\ packageScript \in [1..Files -> Nat]
      /\ seen \in Seq(Nat) /\ body \in Seq(Nat) /\ since \in Seq(Nat)
  BY LoadFacts
<1>3. Ordered("pack", seen, body, since, packageScript)
  BY <1>1, LoadFacts DEF InOrder
<1>4. since \in [1..Files -> Nat] /\ Len(seen) = Files /\ Len(body) = Files
  BY <1>3 DEF Ordered
<1>5. \A i \in 1..Files : since[i] <= packageScript[i]
  BY <1>3 DEF Ordered
<1>6. \A i \in 1..Files : since[i] <= seen[i] /\ seen[i] <= packageScript[i]
  BY <1>3, <1>4 DEF Ordered
<1>7. \A i \in 1..Files : seen[i] <= body[i]
  BY <1>3, <1>4 DEF Ordered
<1> HIDE DEF seen, body, since
<1>8. \A i \in 1..Files : since[i] \in Nat /\ seen[i] \in Nat /\ body[i] \in Nat
  BY <1>2, <1>4
<1>9. \A i \in 1..Files : since[i] <= body[i]
  BY <1>6, <1>7, <1>8
<1>10. Ordered("served", seen, body, since, packageScript)
  BY <1>2, <1>4, <1>5, <1>6, <1>9 DEF Ordered
<1>11. l \in Loads /\ l.at = "served" /\ l.seen = seen /\ l.body = body /\ l.since = since
  BY <1>2 DEF Loads
<1> HIDE DEF l
<1>12. \A e \in Download : packageLoad'[e] = IF e = d THEN l ELSE packageLoad[e]
  BY <1>1 DEF PackageInv, PackageTypeOK
<1>13. PackageTypeOK'
  BY <1>1, <1>2, <1>11 DEF PackageInv, PackageTypeOK
<1>14. ASSUME NEW e \in Download PROVE InOrder(e, packageScript)'
  <2>1. CASE e = d
    BY <1>1, <1>10, <1>11, <1>12, <2>1 DEF InOrder
  <2>2. CASE e # d
    BY <1>1, <1>12, <2>2 DEF PackageInv, InOrder
  <2> QED BY <2>1, <2>2
<1>15. packageCache'.seen = seen /\ packageCache'.body = body
  BY <1>1
<1> QED BY <1>4, <1>7, <1>13, <1>14, <1>15 DEF PackageInv

LEMMA AnswerKeeps == ASSUME PackageInv, NEW d \in Download, Package!Answer(d) PROVE PackageInv'
<1>1. <<>> \in Seq(Nat)
  OBVIOUS
<1> QED BY <1>1, OneLoad DEF Package!Answer, Package!Idle

LEMMA PackageStep == PackageInv /\ [Package!Next]_(Package!installVars) => PackageInv'
<1> SUFFICES ASSUME PackageInv, [Package!Next]_(Package!installVars) PROVE PackageInv'
  OBVIOUS
<1>1. CASE Package!Package
  BY <1>1, EditKeeps, AskKeeps, StatKeeps, ReadKeeps, PackKeeps, AnswerKeeps DEF Package!Package
<1>2. CASE UNCHANGED Package!installVars
  BY <1>2 DEF Package!installVars, Package!packageVars, PackageInv, PackageTypeOK, InOrder
<1> QED BY <1>1, <1>2 DEF Package!Next

-------------------------------------------------------------------------------
(* For any number of setups, failures, changed scripts and requests for the*)
(* package: an agent started from its file is refused only while a setup is*)
(* between its registration and its file, or after one that failed there   *)
(* (verify_registration before write_env_file), and no package has a script*)
(* older than its request (buildLinuxAgentDebPackage).                     *)
THEOREM InstallKept == Setup!Spec /\ Package!Spec => []InstallSound
<1>1. Setup!Spec => []HostInv
  <2>1. HostInv /\ [Setup!Next]_(Setup!installVars) => HostInv'
    BY HostStep DEF HostHeld
  <2> QED BY <2>1, HostInitial, PTL DEF Setup!Spec
<1>2. Package!Spec => []PackageInv
  BY PackageInitial, PackageStep, PTL DEF Package!Spec
<1>3. HostInv /\ PackageInv => InstallSound
  BY DEF HostInv, InstallSound, PackageInv, InOrder, Ordered, Package!ServedFresh
<1> QED BY <1>1, <1>2, <1>3, PTL

(* Whatever packages are installed, whatever setups end before they write *)
(* and whenever the host starts again, agent.env has the installation that *)
(* was written last (postinst, write_env_file); it can be without one only *)
(* while a setup writes it or after one that failed there, and no older one*)
(* takes the place of a newer.                                             *)
THEOREM ConfigurationKept == Setup!Spec => Setup!ConfigurationStays
<1>1. Setup!Spec => []HostInv
  <2>1. HostInv /\ [Setup!Next]_(Setup!installVars) => HostInv'
    BY HostStep DEF HostHeld
  <2> QED BY <2>1, HostInitial, PTL DEF Setup!Spec
<1>2. HostInv /\ [Setup!Next]_(Setup!installVars)
        => [Setup!LastWritten' /\ (setupWritten' # 0 => setupWritten' >= setupWritten)]_(Setup!installVars)
  BY HostStep DEF HostHeld, HostInv
<1> QED BY <1>1, <1>2, PTL DEF Setup!Spec, Setup!ConfigurationStays
===============================================================================
