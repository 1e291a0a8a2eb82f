---------------------------- MODULE SingleFlight ----------------------------
(***************************************************************************)
(* One key of the response cache (cache/store.py) and the call in flight   *)
(* for it (cache/single_flight.py).  A caller looks in the store; if it    *)
(* misses it leads the call, or waits for the one who does.  Everything    *)
(* between two awaits is one step.  A module that EXTENDS this one says    *)
(* who calls, and when a caller is cancelled.                              *)
(***************************************************************************)
CONSTANTS
    Callers,    \* the researchers of the runs in one process
    Cacheable,  \* whether the key's namespace is stored at all
    None

ASSUME CallerAssumption == None \notin Callers /\ Cacheable \in BOOLEAN

VARIABLES
    sought,   \* where each caller's search is
    leader,   \* the caller whose call is in flight (_inflight)
    stored    \* whether the store holds the value

flight == <<sought, leader, stored>>

Searching == {"looking", "missed", "leading", "storing", "waiting"}
Lookups == {"out", "found", "failed", "cancelled"} \cup Searching

FlightInit ==
    /\ sought = [c \in Callers |-> "out"]
    /\ leader = None
    /\ stored = FALSE

\* Of the callers in one step, some move together.
Move(who, to) == sought' = [c \in Callers |-> IF c \in who THEN to ELSE sought[c]]

Waiting == {c \in Callers : sought[c] = "waiting"}

\* A caller asks.  A namespace that is not stored is not read.
Seek(c) ==
    /\ sought[c] = "out"
    /\ Move({c}, IF Cacheable THEN "looking" ELSE "missed")
    /\ UNCHANGED <<leader, stored>>

\* The store answers; an entry that cannot be read is dropped, and is a miss.
Look(c) ==
    /\ sought[c] = "looking"
    /\ \/ stored /\ Move({c}, "found") /\ UNCHANGED stored
       \/ Move({c}, "missed") /\ stored' = FALSE
    /\ UNCHANGED leader

\* Nothing is awaited between finding no call in flight and registering one.
Join(c) ==
    /\ sought[c] = "missed"
    /\ IF leader = None
       THEN Move({c}, "leading") /\ leader' = c
       ELSE Move({c}, "waiting") /\ UNCHANGED leader
    /\ UNCHANGED stored

\* The leader has the value, and stores it before it shares it; a write that
\* fails, or is too large, is no error.
Produce(c) ==
    /\ sought[c] = "leading"
    /\ Move({c}, "storing")
    /\ stored' \in {stored, Cacheable}
    /\ UNCHANGED leader

\* Mutant: the leader leaves its call registered.
SettleRegistered(c) ==
    /\ sought[c] = "storing"
    /\ Move({c} \cup Waiting, "found")
    /\ UNCHANGED <<leader, stored>>
\* The future is resolved, and the call is no longer in flight.
Settle(c) ==
    /\ sought[c] = "storing"
    /\ Move({c} \cup Waiting, "found")
    /\ leader' = None
    /\ UNCHANGED stored

\* A failure is shared like a value.
Fail(c) ==
    /\ sought[c] = "leading"
    /\ Move({c} \cup Waiting, "failed")
    /\ leader' = None
    /\ UNCHANGED stored

\* A caller is cancelled at the await it is in.  A leader's cancellation is an
\* exception like any other, and its waiters get it; a waiter is shielded from
\* the call, and leaves alone.
Followers(c) == IF leader = c THEN Waiting ELSE {}

\* Mutant: only an Exception reaches the future.
AbandonWaiters(c) ==
    /\ Move({c}, "out")
    /\ leader' = IF leader = c THEN None ELSE leader
    /\ UNCHANGED stored
Abandon(c) ==
    /\ sought' = [d \in Callers |-> IF d = c THEN "out"
                                    ELSE IF d \in Followers(c) THEN "cancelled"
                                    ELSE sought[d]]
    /\ leader' = IF leader = c THEN None ELSE leader
    /\ UNCHANGED stored

\* The entry's time to live passes.
Expire == stored /\ stored' = FALSE /\ UNCHANGED <<sought, leader>>

Flies(c) == Look(c) \/ Join(c) \/ Produce(c) \/ Settle(c)

FlightTypeOK ==
    /\ sought \in [Callers -> Lookups]
    /\ leader \in Callers \cup {None}
    /\ stored \in BOOLEAN
=============================================================================
