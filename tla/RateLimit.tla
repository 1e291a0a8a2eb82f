----------------------------- MODULE RateLimit -----------------------------
(***************************************************************************)
(* One bucket of the rate limiter (security/ratelimit.py): one identity    *)
(* and one route class, asked by replicas whose clocks disagree, through a *)
(* script Redis runs atomically.  A token is divided in Cost parts, which  *)
(* is what a request costs; a tick is what it takes to add one part.  A    *)
(* bucket Redis does not hold is a full one.                               *)
(***************************************************************************)
EXTENDS Integers

CONSTANTS
    Capacity,   \* parts the bucket holds
    Cost,       \* parts a request costs
    Slack,      \* how much longer than a full refill a bucket is kept
    MaxSkew,    \* bound: a replica's clock is ahead of Redis's by at most this
    MaxTime,    \* bound: ticks
    MaxCalls,   \* bound: calls to the script
    MaxLosses   \* bound: times Redis is emptied

ASSUME RateAssumption ==
    /\ Capacity \in Nat /\ Cost \in Nat \ {0} /\ Slack \in Nat
    /\ MaxSkew \in 0 .. Slack
    /\ MaxTime \in Nat /\ MaxCalls \in Nat /\ MaxLosses \in Nat

VARIABLES
    clock,      \* Redis's
    tokens,     \* the bucket's two fields
    stamp,
    touched,    \* when it was last written, on Redis's clock: EXPIRE counts from there
    spent,      \* parts granted so far
    regained,   \* by how much all the writes that moved the stamp back moved it
    lost,       \* what emptied buckets could hold
    calls, losses

bucket == <<tokens, stamp, touched, spent, regained, calls>>
limiter == <<bucket, lost, losses, clock>>

RateInit ==
    /\ clock = 0 /\ tokens = Capacity /\ stamp = 0 /\ touched = 0
    /\ spent = 0 /\ regained = 0 /\ lost = 0 /\ calls = 0 /\ losses = 0

-----------------------------------------------------------------------------
Lesser(a, b) == IF a <= b THEN a ELSE b
Greater(a, b) == IF a <= b THEN b ELSE a

\* Mutant: a bucket is dropped a moment before its owner comes back.
TtlFull == Capacity
\* A full refill, and a minute.
Ttl == Capacity + Slack

Expired == clock >= touched + Ttl

\* What the bucket holds at `now`, the caller's time.
Level(now) == IF Expired THEN Capacity
                         ELSE Lesser(Capacity, tokens + Greater(0, now - stamp))

Now == clock .. clock + MaxSkew

\* Granted or not, the bucket is written, at the caller's time even when that
\* is behind the stamp.
Writes(now, level) ==
    /\ calls < MaxCalls /\ calls' = calls + 1
    /\ tokens' = level /\ stamp' = now /\ touched' = clock
    /\ regained' = regained + Greater(0, stamp - now)
    /\ UNCHANGED <<lost, losses, clock>>

Grant ==
    \E now \in Now :
        /\ Level(now) >= Cost
        /\ Writes(now, Level(now) - Cost)
        /\ spent' = spent + Cost

Deny ==
    \E now \in Now :
        /\ Level(now) < Cost
        /\ Writes(now, Level(now))
        /\ UNCHANGED spent

\* Redis is emptied: its next answer starts from a full bucket.
LoseBucket ==
    /\ losses < MaxLosses /\ losses' = losses + 1
    /\ tokens' = Capacity /\ lost' = lost + Capacity
    /\ UNCHANGED <<stamp, touched, spent, regained, calls, clock>>

Tick ==
    /\ clock < MaxTime /\ clock' = clock + 1
    /\ UNCHANGED <<bucket, lost, losses>>
=============================================================================
