---------------------------- MODULE RunOwnership ----------------------------
(***************************************************************************)
(* What the lease promises, without rows, heartbeats, jobs or slots: the   *)
(* contract stated in workers/lifecycle.py.  A run waits, is owned by one  *)
(* worker, and ends.  Several workers may be working on a run at once (a   *)
(* lease that expired does not stop the worker that had it), but only the  *)
(* owner's work decides what becomes of the run, and it decides once.      *)
(***************************************************************************)
CONSTANTS Runs, Workers, None

VARIABLES
    stage,    \* absent, waiting, owned or ended
    owner,    \* the worker that owns the run, or None
    working   \* the workers with an execution of the run, or a lease they remember

vars == <<stage, owner, working>>

Init ==
    /\ stage = [r \in Runs |-> "absent"]
    /\ owner = [r \in Runs |-> None]
    /\ working = [r \in Runs |-> {}]

Submit(r) ==
    /\ stage[r] = "absent"
    /\ stage' = [stage EXCEPT ![r] = "waiting"]
    /\ UNCHANGED <<owner, working>>

\* A worker takes a waiting run, or takes an owned one over: its own, too, when
\* the execution that had it ended without a word and the lease ran out.
Take(r, w) ==
    /\ stage[r] \in {"waiting", "owned"}
    /\ stage' = [stage EXCEPT ![r] = "owned"]
    /\ owner' = [owner EXCEPT ![r] = w]
    /\ working' = [working EXCEPT ![r] = @ \cup {w}]

\* The owner's work on the run is over, and says what becomes of it.
Conclude(r, w) ==
    /\ stage[r] = "owned" /\ owner[r] = w /\ w \in working[r]
    /\ \E next \in {"waiting", "ended"} : stage' = [stage EXCEPT ![r] = next]
    /\ owner' = [owner EXCEPT ![r] = None]
    /\ working' = [working EXCEPT ![r] = @ \ {w}]

\* Who is at work changes without a word: workers are killed, or notice that
\* they lost the run.  An owner that has left does not come back.
Drift(on) ==
    /\ \A r \in Runs : owner[r] \in on[r] => owner[r] \in working[r]
    /\ working' = on
    /\ UNCHANGED <<stage, owner>>

\* The user ends a run, whoever owns it.
Withdraw(r) ==
    /\ stage[r] \in {"waiting", "owned"}
    /\ stage' = [stage EXCEPT ![r] = "ended"]
    /\ owner' = [owner EXCEPT ![r] = None]
    /\ UNCHANGED working

Next ==
    \/ \E r \in Runs : Submit(r) \/ Withdraw(r)
    \/ \E r \in Runs, w \in Workers : Take(r, w) \/ Conclude(r, w)
    \/ \E on \in [Runs -> SUBSET Workers] : Drift(on)

Spec == Init /\ [][Next]_vars
=============================================================================
