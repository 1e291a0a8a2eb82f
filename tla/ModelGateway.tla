---------------------------- MODULE ModelGateway ----------------------------
(***************************************************************************)
(* Model calls of one process (models/gateway.py): a chain of models, each *)
(* tried a number of times, behind the process's slots (models/limiter.py) *)
(* and each run's allowance (models/budget.py).  A call asks its guard     *)
(* first and queues for a slot afterwards; it holds the slot while the     *)
(* provider works and not while it pauses.  Everything between two awaits  *)
(* is one step.                                                            *)
(***************************************************************************)
EXTENDS Integers, Sequences, FiniteSets, SequencesExt

CONSTANTS
    Calls,      \* the calls, one per node of a run that makes any
    Runs,
    RunOf,      \* the run of each call
    Exempt,     \* calls of the finishing roles
    Chain,      \* models in the routed chain
    Priced,     \* those with a declared price
    Tries,      \* max_attempts_per_model
    Slots,      \* max_concurrent_calls
    Limit,      \* limits.max_cost_usd, in units
    MaxCost,    \* the most a call costs
    NotEnrolled

ASSUME GatewayAssumption ==
    /\ RunOf \in [Calls -> Runs] /\ Exempt \subseteq Calls
    /\ Chain \in Nat \ {0} /\ Priced \subseteq 1 .. Chain
    /\ Tries \in Nat \ {0} /\ Slots \in Nat \ {0}
    /\ Limit \in Nat \ {0} /\ MaxCost \in Nat \ {0}
    /\ NotEnrolled \notin Nat
    /\ IsFiniteSet(Calls)

VARIABLES
    call,    \* where each call is
    model,   \* the model it is at
    try,     \* the attempt on that model
    free,    \* slots nobody holds
    queue,   \* the calls waiting for one, in order
    spent,   \* what the guard knows of each enrolled run
    paid,    \* what the providers were paid for each run's calls
    cost     \* what the call that was answered cost

gateway == <<call, model, try, free, queue, spent, paid, cost>>
semaphore == <<free, queue>>
budget == <<spent, paid, cost>>

\* Not yet asked, between two attempts on a model, and between two models.
Attempting == {"idle", "pausing", "moving"}
Phases == Attempting \cup {"queued", "calling", "answered", "errored", "refused"}

\* The errors of models/errors.py, by what may help.
Errors == [retryable : BOOLEAN, failover : BOOLEAN]

GatewayInit ==
    /\ call = [c \in Calls |-> "idle"]
    /\ model = [c \in Calls |-> 1]
    /\ try = [c \in Calls |-> 1]
    /\ free = Slots /\ queue = <<>>
    /\ spent = [r \in Runs |-> NotEnrolled]
    /\ paid = [r \in Runs |-> 0]
    /\ cost = [c \in Calls |-> 0]

----------------------------------------------------------------------------
\* The guard of a call's run.
Guard(c) == spent[RunOf[c]]
Governed(c) == c \notin Exempt /\ Guard(c) # NotEnrolled

\* Mutant: the ceiling itself is still an allowance.
ExhaustedBeyond(c) == Governed(c) /\ Guard(c) > Limit
Exhausted(c) == Governed(c) /\ Guard(c) >= Limit
Unpriced(c) == Governed(c) /\ model[c] \notin Priced

\* A slot that becomes free goes to the first in the queue.
Release ==
    IF queue = <<>> THEN free' = free + 1 /\ UNCHANGED queue
                    ELSE queue' = Tail(queue) /\ UNCHANGED free

First == IF queue = <<>> THEN {} ELSE {Head(queue)}

\* A call that gave its slot back is at p, and the one that got it is calling.
Goes(c, p) ==
    call' = [d \in Calls |->
        IF d = c THEN p
        ELSE IF call[c] = "calling" /\ call[d] = "queued" /\ d \in First
        THEN "calling" ELSE call[d]]

\* What an error leads to: the same model after a pause, the next model, or
\* the caller.
Retries(c, e) == e.retryable /\ try[c] < Tries
\* Mutant: one model past the last.
AdvancesBeyond(c, e) == ~Retries(c, e) /\ e.failover /\ model[c] <= Chain
Advances(c, e) == ~Retries(c, e) /\ e.failover /\ model[c] < Chain

Raises(c, e) ==
    /\ try' = [try EXCEPT ![c] = IF Retries(c, e) THEN @ + 1
                                 ELSE IF Advances(c, e) THEN 1 ELSE @]
    /\ model' = IF Advances(c, e) THEN [model EXCEPT ![c] = @ + 1] ELSE model
    /\ Goes(c, IF Retries(c, e) THEN "pausing"
               ELSE IF Advances(c, e) THEN "moving" ELSE "errored")

\* A queue when some have left it.
Without(q, who) ==
    LET kept[i \in 0 .. Len(q)] ==
            IF i = 0 THEN <<>>
            ELSE IF q[i] \in who THEN kept[i - 1] ELSE Append(kept[i - 1], q[i])
    IN  kept[Len(q)]

----------------------------------------------------------------------------
\* Before the semaphore, so that a run that has spent its allowance does not
\* queue; but nothing asks again when the slot comes.
Authorise(c) ==
    /\ call[c] \in Attempting /\ ~Exhausted(c) /\ ~Unpriced(c)
    /\ IF free > 0 /\ queue = <<>>
       THEN Goes(c, "calling") /\ free' = free - 1 /\ UNCHANGED queue
       ELSE Goes(c, "queued") /\ queue' = Append(queue, c) /\ UNCHANGED free
    /\ UNCHANGED <<model, try, budget>>

Refuse(c) ==
    /\ call[c] \in Attempting /\ Exhausted(c)
    /\ Goes(c, "refused")
    /\ UNCHANGED <<model, try, semaphore, budget>>

\* ModelNotPriced is a reason to try the next model.
PassOver(c) ==
    /\ call[c] \in Attempting /\ ~Exhausted(c) /\ Unpriced(c)
    /\ Raises(c, [retryable |-> FALSE, failover |-> TRUE])
    /\ UNCHANGED <<semaphore, budget>>

\* The guard counts the call if its run is enrolled.
Charge(r, n) ==
    /\ paid' = [paid EXCEPT ![r] = @ + n]
    /\ spent' = [spent EXCEPT ![r] = IF @ = NotEnrolled THEN @ ELSE @ + n]

\* The provider answers; the slot is released and the call recorded in one
\* step.  Without a price it costs nothing that is known.
Answer(c) ==
    /\ call[c] = "calling"
    /\ Goes(c, "answered") /\ Release
    /\ \E n \in (IF model[c] \in Priced THEN 1 .. MaxCost ELSE {0}) :
         Charge(RunOf[c], n) /\ cost' = [cost EXCEPT ![c] = n]
    /\ UNCHANGED <<model, try>>

\* Or fails, or does not answer in time.  The failed attempt is recorded
\* without tokens, so it costs the run nothing.
Err(c) ==
    /\ call[c] = "calling"
    /\ \E e \in Errors : Raises(c, e)
    /\ Release
    /\ UNCHANGED budget

\* Mutant: a cancelled call keeps its slot.
DropHolding(who) ==
    /\ queue' = Without(queue, who) /\ UNCHANGED free
    /\ call' = [c \in Calls |-> IF c \in who THEN "idle" ELSE call[c]]
    /\ model' = [c \in Calls |-> IF c \in who THEN 1 ELSE model[c]]
    /\ try' = [c \in Calls |-> IF c \in who THEN 1 ELSE try[c]]
    /\ cost' = [c \in Calls |-> IF c \in who THEN 0 ELSE cost[c]]

\* Calls are cancelled where they are: a queued one leaves the queue, one that
\* holds a slot passes it on, and none is recorded.
Drop(who) ==
    LET keep == Without(queue, who)
        back == Cardinality({c \in who : call[c] = "calling"})
        given == IF back <= Len(keep) THEN back ELSE Len(keep) IN
    /\ queue' = SubSeq(keep, given + 1, Len(keep))
    /\ free' = free + (back - given)
    /\ call' = [c \in Calls |-> IF c \in who THEN "idle"
                                ELSE IF call[c] = "queued" /\ \E i \in 1 .. given : keep[i] = c
                                THEN "calling" ELSE call[c]]
    /\ model' = [c \in Calls |-> IF c \in who THEN 1 ELSE model[c]]
    /\ try' = [c \in Calls |-> IF c \in who THEN 1 ELSE try[c]]
    /\ cost' = [c \in Calls |-> IF c \in who THEN 0 ELSE cost[c]]

Attempt(c) == Authorise(c) \/ Refuse(c) \/ PassOver(c)

GatewayTypeOK ==
    /\ call \in [Calls -> Phases]
    /\ model \in [Calls -> 1 .. Chain]
    /\ try \in [Calls -> 1 .. Tries]
    /\ free \in 0 .. Slots /\ queue \in Seq(Calls)
    /\ spent \in [Runs -> Nat \cup {NotEnrolled}]
    /\ paid \in [Runs -> Nat]
    /\ cost \in [Calls -> 0 .. MaxCost]
=============================================================================
