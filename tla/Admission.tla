----------------------------- MODULE Admission -----------------------------
(***************************************************************************)
(* One user's requests to create runs (research/service.py create): the    *)
(* rate limiter, then the count of active runs, then the insert, which     *)
(* other requests see when it commits.  Runs start, wait again and end     *)
(* meanwhile (RunLease).                                                   *)
(***************************************************************************)
EXTENDS RateLimit, FiniteSets

CONSTANTS
    Requests,    \* requests in progress at one time
    MaxActive,   \* max_concurrent_runs_per_user
    MaxOutages   \* bound: requests the limiter could not reach Redis for

ASSUME AdmissionAssumption ==
    IsFiniteSet(Requests) /\ MaxActive \in Nat \ {0} /\ MaxOutages \in Nat

VARIABLES
    step,             \* where each request is
    queued, running,  \* how many committed runs wait, and are in flight
    outages

runs == <<queued, running>>
vars == <<limiter, step, runs, outages>>

Steps == {"idle", "admitted", "counted"}

Init ==
    /\ RateInit
    /\ step = [q \in Requests |-> "idle"]
    /\ queued = 0 /\ running = 0 /\ outages = 0

Goes(q, place) == step' = [step EXCEPT ![q] = place]
AtStep(place) == {q \in Requests : step[q] = place}

-----------------------------------------------------------------------------
(* A request *)

Arrive(q) ==
    /\ step[q] = "idle"
    /\ \/ Grant /\ Goes(q, "admitted")
       \/ Deny /\ UNCHANGED step
    /\ UNCHANGED <<runs, outages>>

\* The limiter fails open.
FailOpen(q) ==
    /\ step[q] = "idle" /\ outages < MaxOutages
    /\ outages' = outages + 1
    /\ Goes(q, "admitted")
    /\ UNCHANGED <<limiter, runs>>

\* Mutant: the runs that wait.
CountWaiting == queued
\* Every run that is not terminal.
CountActive == queued + running

\* The count, and the limit.
Count(q) ==
    /\ step[q] = "admitted"
    /\ Goes(q, IF CountActive >= MaxActive THEN "idle" ELSE "counted")
    /\ UNCHANGED <<limiter, runs, outages>>

\* A parent or an upload that is not the user's, or a lost connection.
Refuse(q) ==
    /\ step[q] = "counted" /\ Goes(q, "idle")
    /\ UNCHANGED <<limiter, runs, outages>>

Create(q) ==
    /\ step[q] = "counted" /\ Goes(q, "idle")
    /\ queued' = queued + 1
    /\ UNCHANGED <<limiter, running, outages>>

-----------------------------------------------------------------------------
(* The user's runs *)

Claim ==
    /\ queued > 0
    /\ queued' = queued - 1 /\ running' = running + 1
    /\ UNCHANGED <<limiter, step, outages>>

\* A retry or a hand-back.
Release ==
    /\ running > 0
    /\ queued' = queued + 1 /\ running' = running - 1
    /\ UNCHANGED <<limiter, step, outages>>

\* A run completes or fails, or is cancelled, waiting or not.
End ==
    /\ \/ queued > 0 /\ queued' = queued - 1 /\ UNCHANGED running
       \/ running > 0 /\ running' = running - 1 /\ UNCHANGED queued
    /\ UNCHANGED <<limiter, step, outages>>

Next ==
    \/ \E q \in Requests : Arrive(q) \/ FailOpen(q) \/ Count(q) \/ Refuse(q) \/ Create(q)
    \/ Claim \/ Release \/ End
    \/ (Tick \/ LoseBucket) /\ UNCHANGED <<step, runs, outages>>

Spec == Init /\ [][Next]_vars

-----------------------------------------------------------------------------
(* Properties *)

\* Types; the bucket's stamp is at most MaxSkew ahead of Redis's clock.
TypeOK ==
    /\ clock \in 0 .. MaxTime /\ touched \in 0 .. clock
    /\ tokens \in 0 .. Capacity /\ stamp \in 0 .. touched + MaxSkew
    /\ spent \in Nat /\ regained \in Nat /\ lost \in Nat
    /\ calls \in 0 .. MaxCalls /\ losses \in 0 .. MaxLosses
    /\ step \in [Requests -> Steps]
    /\ queued \in Nat /\ running \in Nat
    /\ outages \in 0 .. MaxOutages

\* What a bucket grants is its burst and what time added to it, however the
\* calls of replicas interleave, also when the bucket expires in between
\* (ratelimit.py:76-84).  A call of a replica that is behind the last caller
\* sets the stamp back, and what lies between is added once more
\* (ratelimit.py:166-169).
WithinRate == spent <= Capacity + clock + MaxSkew + regained + lost

\* The limit is a count followed by an insert, so requests may pass it
\* together; by no more than one run each, whatever runs do meanwhile
\* (service.py:87-95).
ActiveBounded == CountActive + Cardinality(AtStep("counted")) <= MaxActive - 1 + Cardinality(Requests)
=============================================================================
