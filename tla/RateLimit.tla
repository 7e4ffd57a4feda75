------------------------------- MODULE RateLimit -------------------------------
(***************************************************************************)
(* consumeRateLimitToken and pruneRateLimitBuckets, lib/ratelimit.js: the  *)
(* fixed-window buckets in front of the login, the password setup, the API *)
(* tokens, the agents and the public pages.                                *)
(*                                                                         *)
(* A key is the string a route builds ("login:<ip>").  A request is one    *)
(* step: the bucket is read, counted and stored without an await.          *)
(***************************************************************************)
EXTENDS Integers, Sequences

CONSTANTS
  Keys,       \* keys of buckets
  Limit,      \* max
  Duration,   \* windowMs
  MaxTime,    \* bound: the clock stops here
  MaxCount,   \* bound: requests counted in one bucket
  None        \* no bucket

Bucket == [count : Nat \ {0}, resetAtMs : Nat]

ASSUME LimitAssumption ==
  /\ Limit \in Nat \ {0} /\ Duration \in Nat \ {0}
  /\ None \notin Bucket

VARIABLES
  now,      \* Date.now()
  bucket,   \* rateLimitBuckets: the bucket of a key, or None
  passed    \* history: when the allowed requests of a key came, and the
            \* start of the window each was counted in

limitVars == <<now, bucket, passed>>

Expired(b) == now >= b.resetAtMs
Live(k) == bucket[k] # None /\ ~Expired(bucket[k])

-------------------------------------------------------------------------------
(* "Faulty" marks a change somebody could make to the code; the checks put *)
(* it in the place of the definition that follows it and expect a property *)
(* below to fail.                                                          *)

(* Faulty: every request moves the end of the window. *)
CountedExtends(k) ==
  IF Live(k) THEN [count |-> bucket[k].count + 1, resetAtMs |-> now + Duration]
             ELSE [count |-> 1, resetAtMs |-> now + Duration]

(* Faulty: a bucket is stored before its first request is counted. *)
CountedFromZero(k) ==
  IF Live(k) THEN [bucket[k] EXCEPT !.count = @ + 1]
             ELSE [count |-> 0, resetAtMs |-> now + Duration]

(* Faulty: windows are cut at multiples of half their duration. *)
CountedShort(k) ==
  IF Live(k) THEN [bucket[k] EXCEPT !.count = @ + 1]
             ELSE [count |-> 1, resetAtMs |-> now + Duration \div 2 + 1]

(* The bucket with this request in it.                                     *)
Counted(k) ==
  IF Live(k) THEN [bucket[k] EXCEPT !.count = @ + 1]
             ELSE [count |-> 1, resetAtMs |-> now + Duration]

(* Faulty: off by one. *)
AllowedBelow(b) == b.count < Limit

Allowed(b) == b.count <= Limit

Consume(k) ==
  LET b == Counted(k) IN
  /\ b.count <= MaxCount
  /\ bucket' = [bucket EXCEPT ![k] = b]
  /\ passed' = IF Allowed(b)
               THEN [passed EXCEPT ![k] =
                      Append(@, [at |-> now, from |-> b.resetAtMs - Duration])]
               ELSE passed
  /\ UNCHANGED now

(* Faulty: the housekeeping removes the buckets that are full. *)
StaleFull(b) == b # None /\ (Expired(b) \/ b.count >= Limit)

Stale(b) == b # None /\ Expired(b)

(* Every housekeeping of the server.                                       *)
Prune ==
  /\ bucket' = [k \in Keys |-> IF Stale(bucket[k]) THEN None ELSE bucket[k]]
  /\ bucket' # bucket
  /\ UNCHANGED <<now, passed>>

(* rateLimitBuckets.clear() of the factory reset: what passed before it    *)
(* counts no more.                                                         *)
Clear ==
  /\ bucket' = [k \in Keys |-> None]
  /\ passed' = [k \in Keys |-> <<>>]
  /\ UNCHANGED now

Tick == now < MaxTime /\ now' = now + 1 /\ UNCHANGED <<bucket, passed>>

LimitInit ==
  /\ now = 0
  /\ bucket = [k \in Keys |-> None]
  /\ passed = [k \in Keys |-> <<>>]

LimitNext == (\E k \in Keys : Consume(k)) \/ Prune \/ Clear \/ Tick

LimitSpec == LimitInit /\ [][LimitNext]_limitVars

-------------------------------------------------------------------------------
(* Properties *)

LimitTypeOK ==
  /\ now \in Nat
  /\ bucket \in [Keys -> Bucket \cup {None}]
  /\ passed \in [Keys -> Seq([at : Nat, from : Int])]

(* Fixed windows let through at most twice the limit in any period as long *)
(* as the window, wherever it lies: the last Limit of one window and the   *)
(* Limit of the next.                                                      *)
TwiceTheLimit ==
  \A k \in Keys : \A i \in DOMAIN passed[k] :
    i + 2 * Limit <= Len(passed[k])
      => passed[k][i + 2 * Limit].at - passed[k][i].at > Duration

(* Nobody is refused who did not use the limit up: a bucket that refuses   *)
(* counts Limit allowed requests within the last Duration.                 *)
RefusedAfterLimit ==
  \A k \in Keys :
    Live(k) /\ bucket[k].count >= Limit
      => /\ Len(passed[k]) >= Limit
         /\ now - passed[k][Len(passed[k]) - Limit + 1].at < Duration

(* The limit is kept: both of the above.                                   *)
LimitSafety == LimitTypeOK /\ TwiceTheLimit /\ RefusedAfterLimit

(* The Retry-After of a refusal stays true: while a bucket lives no        *)
(* request, refused or not, moves the end of its window.                   *)
EndStays ==
  [][\A k \in Keys : Live(k) /\ bucket'[k] # None
       => bucket'[k].resetAtMs = bucket[k].resetAtMs]_limitVars
===============================================================================
