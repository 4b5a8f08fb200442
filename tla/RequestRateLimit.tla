-------------------------- MODULE RequestRateLimit --------------------------
(***************************************************************************)
(* RateLimitGuard: one bucket of a route limited by address, which INCR    *)
(* and EXPIRE maintain as two commands, and one of an avatar route, which  *)
(* a script maintains.                                                     *)
(***************************************************************************)
EXTENDS Integers

CONSTANTS
    LimitedCall,   \* requests in flight at once
    Points,        \* admitted per window
    MaxHits,       \* bound: the highest count
    MaxStops       \* bound: how often the API stops

ASSUME RequestLimitAssumption == Points \in Nat /\ MaxHits \in Nat /\ MaxStops \in Nat

VARIABLES
    bucket, avatarBucket,  \* [hits, expires]: hits = 0 when there is no key
    limitedCall,           \* what INCR answered; 0 when idle, -1 when past EXPIRE
    stops

limitVars == <<bucket, avatarBucket, limitedCall, stops>>

NoBucket == [hits |-> 0, expires |-> FALSE]
Bucket == [hits : 0..MaxHits, expires : BOOLEAN]

RequestLimitTypeOK ==
    /\ bucket \in Bucket /\ avatarBucket \in Bucket
    /\ limitedCall \in [LimitedCall -> -1..MaxHits]
    /\ stops \in 0..MaxStops

RequestLimitInit ==
    /\ bucket = NoBucket /\ avatarBucket = NoBucket
    /\ limitedCall = [q \in LimitedCall |-> 0] /\ stops = 0

Hit(b) == [b EXCEPT !.hits = @ + 1]

Increment(q) ==
    /\ limitedCall[q] = 0 /\ bucket.hits < MaxHits
    /\ bucket' = Hit(bucket)
    /\ limitedCall' = [limitedCall EXCEPT ![q] = bucket'.hits]
    /\ UNCHANGED <<avatarBucket, stops>>

\* Plausible bug: only a request that is admitted sets the time to live.
SetsExpiryLate(n) == n = Points

SetsExpiry(n) == n = 1

\* EXPIRE of a key that is gone does nothing.
Expire(q) ==
    /\ limitedCall[q] > 0
    /\ bucket' = IF SetsExpiry(limitedCall[q]) /\ bucket.hits > 0
                 THEN [bucket EXCEPT !.expires = TRUE] ELSE bucket
    /\ limitedCall' = [limitedCall EXCEPT ![q] = -1]
    /\ UNCHANGED <<avatarBucket, stops>>

\* The time to live is read for the message, and the request admitted or not.
Decide(q) ==
    /\ limitedCall[q] = -1
    /\ limitedCall' = [limitedCall EXCEPT ![q] = 0]
    /\ UNCHANGED <<bucket, avatarBucket, stops>>

AvatarLimit ==
    /\ avatarBucket.hits < MaxHits
    /\ avatarBucket' = [hits |-> avatarBucket.hits + 1, expires |-> TRUE]
    /\ UNCHANGED <<bucket, limitedCall, stops>>

WindowEnds ==
    /\ \/ bucket.expires /\ bucket' = NoBucket /\ UNCHANGED avatarBucket
       \/ avatarBucket.expires /\ avatarBucket' = NoBucket /\ UNCHANGED bucket
    /\ UNCHANGED <<limitedCall, stops>>

\* The API stops, or loses Redis, between two commands.
ApiStops ==
    /\ stops < MaxStops
    /\ stops' = stops + 1
    /\ limitedCall' = [q \in LimitedCall |-> 0]
    /\ UNCHANGED <<bucket, avatarBucket>>

RequestLimitNext ==
    \/ \E q \in LimitedCall : Increment(q) \/ Expire(q) \/ Decide(q)
    \/ AvatarLimit \/ WindowEnds \/ ApiStops

RequestLimitSpec == RequestLimitInit /\ [][RequestLimitNext]_limitVars

------------------------------------------------------------
(* Properties                                                              *)

\* A caller is never limited for good: a bucket without a time to live is one
\* whose first request has yet to set it, unless the API stopped in between. The
\* avatar routes do without the exception.
BucketsExpire ==
    /\ bucket.hits > 0 /\ ~bucket.expires =>
           stops > 0 \/ \E q \in LimitedCall : limitedCall[q] = 1
    /\ avatarBucket.hits > 0 => avatarBucket.expires
=============================================================================
