------------------------------ MODULE WebSessions ------------------------------
(***************************************************************************)
(* The browser sessions: the Map of lib/session.js, issued, touched and    *)
(* ended by lib/auth.js, lib/routes/auth.js and lib/router.js, and their   *)
(* copies in Redis (lib/storage.js), which the next start reads.           *)
(*                                                                         *)
(* Nobody awaits a command to Redis.  The client sends the commands of a   *)
(* process in their order; one may fail, and a crash loses those not yet   *)
(* sent.  Redis itself is external.                                        *)
(***************************************************************************)
EXTENDS Integers, Sequences

CONSTANTS
  Sids,      \* session ids; each is issued once
  Ttl,       \* SESSION_TTL_MS
  IdleTtl,   \* SESSION_IDLE_TTL_MS; 0 means no limit
  MaxTime,   \* bound: the clock stops here
  MaxWire,   \* bound: commands under way to Redis
  None       \* no session

Session == [createdAt : Nat, lastSeenAt : Nat]

ASSUME SessionAssumption ==
  /\ Ttl \in Nat /\ IdleTtl \in Nat
  /\ None \notin Session

VARIABLES
  now,        \* Date.now()
  sessions,   \* sessions: the session of an id, or None
  redis,      \* external: the session stored for an id, or None
  wire,       \* the commands under way to Redis: [sid, to], None deletes
  used,       \* history: ids that were issued
  seen,       \* history: when a session was last used
  ended,      \* history: ids that were signed out or replaced
  lost,       \* history: ids a command of which failed or was lost
  reset       \* history: ids that were open at a factory reset

webVars == <<now, sessions, redis, wire, used, seen, ended, lost, reset>>

Expired(s) ==
  \/ now - s.createdAt > Ttl
  \/ IdleTtl > 0 /\ now - s.lastSeenAt > IdleTtl

(* The session a request finds: sessionFromCookies.                        *)
Valid(sid) == sessions[sid] # None /\ ~Expired(sessions[sid])

Command(sid, to) == [sid |-> sid, to |-> to]
Room(n) == Len(wire) + n <= MaxWire

-------------------------------------------------------------------------------
(* "Faulty" marks a change somebody could make to the code; the checks put *)
(* it in the place of the definition that follows it and expect a property *)
(* below to fail.                                                          *)

(* Faulty: a session that was not seen yet. *)
FreshUnseen == [createdAt |-> now]

Fresh == [createdAt |-> now, lastSeenAt |-> now]

(* Faulty: the session before is forgotten in memory alone. *)
IssueQuiet(sid, old) ==
  /\ sid \notin used
  /\ Room(2)
  /\ sessions' = [s \in Sids |-> IF s = sid THEN Fresh
                                 ELSE IF s \in old THEN None ELSE sessions[s]]
  /\ wire' = Append(wire, Command(sid, Fresh))
  /\ used' = used \cup {sid} /\ ended' = ended \cup old
  /\ seen' = [seen EXCEPT ![sid] = now]
  /\ UNCHANGED <<now, redis, lost, reset>>

(* issueLocalSession; old holds the id in the browser's cookie, if any.    *)
Deletions(old) ==
  IF old = {} THEN <<>> ELSE <<Command(CHOOSE s \in old : TRUE, None)>>

IssueLocal(sid, old) ==
  /\ sid \notin used
  /\ Room(2)
  /\ sessions' = [s \in Sids |-> IF s = sid THEN Fresh
                                 ELSE IF s \in old THEN None ELSE sessions[s]]
  /\ wire' = wire \o Deletions(old) \o <<Command(sid, Fresh)>>
  /\ used' = used \cup {sid} /\ ended' = ended \cup old
  /\ seen' = [seen EXCEPT ![sid] = now]
  /\ UNCHANGED <<now, redis, lost, reset>>

(* GET /api/auth/callback: memory alone, for the old session and the new.  *)
IssueEntra(sid, old) ==
  /\ sid \notin used
  /\ sessions' = [s \in Sids |-> IF s = sid THEN Fresh
                                 ELSE IF s \in old THEN None ELSE sessions[s]]
  /\ used' = used \cup {sid}
  /\ seen' = [seen EXCEPT ![sid] = now]
  /\ UNCHANGED <<now, redis, wire, ended, lost, reset>>

(* Faulty: activity is stored for the session as it was found. *)
TouchedOld(sid) == sessions[sid]

(* touchSessionActivity *)
Touched(sid) == [sessions[sid] EXCEPT !.lastSeenAt = now]

(* Faulty: activity is kept in memory. *)
RequestQuiet(sid) ==
  /\ Valid(sid)
  /\ sessions' = [sessions EXCEPT ![sid] = Touched(sid)]
  /\ seen' = [seen EXCEPT ![sid] = now]
  /\ UNCHANGED <<now, redis, wire, used, ended, lost, reset>>

(* The router touches the session of every request it lets in.             *)
Request(sid) ==
  /\ Valid(sid) /\ Room(1)
  /\ sessions' = [sessions EXCEPT ![sid] = Touched(sid)]
  /\ wire' = Append(wire, Command(sid, Touched(sid)))
  /\ seen' = [seen EXCEPT ![sid] = now]
  /\ UNCHANGED <<now, redis, used, ended, lost, reset>>

(* getSessionById of an expired session.                                   *)
Rejected(sid) ==
  /\ sessions[sid] # None /\ ~Valid(sid) /\ Room(1)
  /\ sessions' = [sessions EXCEPT ![sid] = None]
  /\ wire' = Append(wire, Command(sid, None))
  /\ UNCHANGED <<now, redis, used, seen, ended, lost, reset>>

(* Faulty: the session is touched again when the answer is written. *)
LogoutTouches(sid) ==
  /\ sid \in used /\ Room(2)
  /\ sessions' = [sessions EXCEPT ![sid] = None]
  /\ wire' = wire \o <<Command(sid, None)>>
                  \o (IF Valid(sid) THEN <<Command(sid, Touched(sid))>> ELSE <<>>)
  /\ seen' = IF Valid(sid) THEN [seen EXCEPT ![sid] = now] ELSE seen
  /\ ended' = ended \cup {sid}
  /\ UNCHANGED <<now, redis, used, lost, reset>>

(* POST or GET /api/auth/logout with the cookie of sid, behind the router, *)
(* which looks the session up, and touches it, first.                      *)
Logout(sid) ==
  /\ sid \in used /\ Room(2)
  /\ sessions' = [sessions EXCEPT ![sid] = None]
  /\ wire' = wire \o (IF Valid(sid) THEN <<Command(sid, Touched(sid))>> ELSE <<>>)
                  \o <<Command(sid, None)>>
  /\ seen' = IF Valid(sid) THEN [seen EXCEPT ![sid] = now] ELSE seen
  /\ ended' = ended \cup {sid}
  /\ UNCHANGED <<now, redis, used, lost, reset>>

(* The housekeeping drops expired sessions from memory alone.              *)
Prune ==
  /\ sessions' = [s \in Sids |-> IF Valid(s) THEN sessions[s] ELSE None]
  /\ sessions' # sessions
  /\ UNCHANGED <<now, redis, wire, used, seen, ended, lost, reset>>

(* performFactoryResetForDeployment clears shared.sessions, a Map nothing  *)
(* else uses: the sessions stay.  The answer clears the cookie of the      *)
(* browser that asked, sid, which the router touched.                      *)
FactoryReset(sid) ==
  /\ Valid(sid) /\ Room(1)
  /\ sessions' = [sessions EXCEPT ![sid] = Touched(sid)]
  /\ wire' = Append(wire, Command(sid, Touched(sid)))
  /\ seen' = [seen EXCEPT ![sid] = now]
  /\ reset' = reset \cup {s \in Sids : Valid(s)}
  /\ UNCHANGED <<now, redis, used, ended, lost>>

(* External: Redis carries a command out.                                  *)
Stored ==
  /\ wire # <<>>
  /\ redis' = [redis EXCEPT ![Head(wire).sid] = Head(wire).to]
  /\ wire' = Tail(wire)
  /\ UNCHANGED <<now, sessions, used, seen, ended, lost, reset>>

(* External: it fails, which is logged and forgotten.                      *)
Failed ==
  /\ wire # <<>>
  /\ wire' = Tail(wire)
  /\ lost' = lost \cup {Head(wire).sid}
  /\ UNCHANGED <<now, sessions, redis, used, seen, ended, reset>>

(* Faulty: every stored session is taken. *)
RestoredAll(sid) == redis[sid]

(* redisRestoreSessions *)
Restored(sid) == IF redis[sid] # None /\ Expired(redis[sid]) THEN None ELSE redis[sid]

(* The process dies and starts; it serves no request before it restored    *)
(* the sessions.                                                           *)
Restart ==
  /\ sessions' = [s \in Sids |-> Restored(s)]
  /\ lost' = lost \cup {wire[i].sid : i \in DOMAIN wire}
  /\ wire' = <<>>
  /\ UNCHANGED <<now, redis, used, seen, ended, reset>>

Tick == now < MaxTime /\ now' = now + 1
        /\ UNCHANGED <<sessions, redis, wire, used, seen, ended, lost, reset>>

Init ==
  /\ now = 0
  /\ sessions = [s \in Sids |-> None] /\ redis = [s \in Sids |-> None]
  /\ wire = <<>>
  /\ used = {} /\ ended = {} /\ lost = {} /\ reset = {}
  /\ seen = [s \in Sids |-> 0]

Cookies == {{}} \cup {{s} : s \in used}

Next ==
  \/ \E sid \in Sids : \/ \E old \in Cookies : IssueLocal(sid, old) \/ IssueEntra(sid, old)
                       \/ Request(sid) \/ Rejected(sid) \/ Logout(sid) \/ FactoryReset(sid)
  \/ Prune \/ Stored \/ Failed \/ Restart \/ Tick

Spec == Init /\ [][Next]_webVars

-------------------------------------------------------------------------------
(* Properties *)

TypeOK ==
  /\ now \in Nat
  /\ sessions \in [Sids -> Session \cup {None}]
  /\ redis \in [Sids -> Session \cup {None}]
  /\ wire \in Seq([sid : Sids, to : Session \cup {None}])
  /\ used \in SUBSET Sids /\ ended \in SUBSET Sids /\ lost \in SUBSET Sids
  /\ reset \in SUBSET Sids
  /\ seen \in [Sids -> Nat]

(* Who signs out, or signs in again, is never let in with the old session: *)
(* not by the touch that was sent to Redis just before, nor after a        *)
(* restart, unless a command about it was lost.                            *)
SignedOutStaysOut ==
  \A sid \in ended : sessions[sid] # None => sid \in lost

(* The idle time counts from the last use, over restarts as well: it never *)
(* starts later, and earlier only when a command about the session was     *)
(* lost.                                                                   *)
IdleCountsFromUse ==
  \A sid \in Sids : Valid(sid) =>
    /\ sessions[sid].lastSeenAt <= seen[sid]
    /\ sid \notin lost => sessions[sid].lastSeenAt = seen[sid]

(* When nothing is under way and nothing was lost, Redis holds every       *)
(* session that was used since it was stored as memory holds it, so that a *)
(* restart signs nobody out.                                               *)
StoredAsUsed ==
  \A sid \in Sids :
    wire = <<>> /\ sid \notin lost /\ Valid(sid) /\ redis[sid] # None
      => redis[sid] = sessions[sid]

(* The sessions are kept: all of the above.                                *)
SessionSafety == TypeOK /\ SignedOutStaysOut /\ IdleCountsFromUse /\ StoredAsUsed

(* A session that expired is not found again, after a restart either.      *)
ExpiredStaysOut ==
  [][\A sid \in Sids :
       sessions[sid] = None /\ sid \in used /\ sessions'[sid] # None
         => now - sessions'[sid].createdAt <= Ttl
            /\ (IdleTtl > 0 => now - seen[sid] <= IdleTtl \/ sid \in lost)]_webVars

(* public/index.html:342 says of the factory reset "You will be signed     *)
(* out": no session that was open before it lets anybody in afterwards.    *)
ResetSignsOut == \A sid \in reset : ~Valid(sid)
===============================================================================
