--------------------------- MODULE ResearchRound ---------------------------
(***************************************************************************)
(* The runs of one worker process while they research: researchers of a    *)
(* round side by side (agents/graph.py), each of which asks a model for    *)
(* queries, searches, and asks a model what to keep                        *)
(* (agents/researchers/web.py).  Model calls share the process's slots,    *)
(* and each run's allowance (ModelGateway); equal searches share one call  *)
(* (SingleFlight).  A round's costs reach the checkpoint when all its      *)
(* researchers have returned, and the row, from which a resumed run's      *)
(* allowance is counted, one step later (workers/worker.py).               *)
(*                                                                         *)
(* What a run does between two rounds is ResearchGraph, who may execute it *)
(* is RunLease.                                                            *)
(***************************************************************************)
EXTENDS ModelGateway, SingleFlight, FiniteSetsExt

CONSTANTS
    WriterOf,   \* each run's synthesizer
    Rounds,     \* of each run, when it meets no ceiling
    MaxFaults   \* bound: errors, timeouts and crashes

ASSUME RoundAssumption ==
    /\ Rounds \in [Runs -> Nat \ {0}] /\ MaxFaults \in Nat
    /\ Callers \subseteq Calls
    /\ WriterOf \in [Runs -> Calls \ Callers]
    /\ \A r \in Runs : RunOf[WriterOf[r]] = r /\ WriterOf[r] \in Exempt
    /\ Exempt \cap Callers = {}

VARIABLES
    stage,       \* what each run does here
    round,       \* where its checkpoint is: a round, the report, the end
    outcome,     \* what each researcher returned this round
    used,        \* the cost it has reported, or will
    checkpoint,  \* the cost in the run's checkpoint
    row,         \* and on its row
    faults

progress == <<stage, round, checkpoint, row>>
returned == <<outcome, used>>
vars == <<gateway, flight, progress, returned, faults>>

Stages == {"away", "researching", "reporting", "writing", "over"}
Outcomes == {"todo", "done", "failed", "cancelled"}

Team(r) == {c \in Callers : RunOf[c] = r}
Members(r) == Team(r) \cup {WriterOf[r]}
AtWork(c) == stage[RunOf[c]] = "researching" /\ outcome[c] = "todo"
Returned(c) == outcome[c] \in {"done", "failed"}

\* The sum of what a run's researchers reported.
Reported(r) == MapThenSumSet(LAMBDA c : used[c], Team(r))

\* What the checkpoint says is next.
Doing(r) == IF round[r] <= Rounds[r] THEN "researching"
            ELSE IF round[r] = Rounds[r] + 1 THEN "writing" ELSE "over"

Init ==
    /\ GatewayInit /\ FlightInit
    /\ stage = [r \in Runs |-> "away"]
    /\ round = [r \in Runs |-> 1]
    /\ outcome = [c \in Callers |-> "todo"]
    /\ used = [c \in Callers |-> 0]
    /\ checkpoint = [r \in Runs |-> 0]
    /\ row = [r \in Runs |-> 0]
    /\ faults = 0

Fault == faults < MaxFaults /\ faults' = faults + 1

-----------------------------------------------------------------------------
(* A run comes and goes *)

\* The guard knows a run until its graph has ended.
Enters(r, n) ==
    /\ stage' = [stage EXCEPT ![r] = Doing(r)]
    /\ spent' = [spent EXCEPT ![r] = IF Doing(r) = "over" THEN NotEnrolled ELSE n]

\* The run is claimed.  Its guard starts from its row, its graph from its
\* checkpoint.
Enrol(r) ==
    /\ stage[r] = "away"
    /\ Enters(r, row[r])
    /\ UNCHANGED <<call, model, try, semaphore, paid, cost, flight, round,
                   checkpoint, row, returned, faults>>

Leaves(r) ==
    /\ stage' = [stage EXCEPT ![r] = "away"]
    /\ spent' = [spent EXCEPT ![r] = NotEnrolled]

\* Mutant: what a researcher reported outlives it.
ForgetsOutcome(who) ==
    /\ outcome' = [c \in Callers |-> IF c \in who THEN "todo" ELSE outcome[c]]
    /\ UNCHANGED used
\* Researchers that did not return start again.
Forgets(who) ==
    /\ outcome' = [c \in Callers |-> IF c \in who THEN "todo" ELSE outcome[c]]
    /\ used' = [c \in Callers |-> IF c \in who THEN 0 ELSE used[c]]

\* A CancelledError that is not the process's own shutdown leaves the graph
\* when the round's other researchers have returned, and the executor with it.
Torn(r) ==
    /\ stage[r] = "researching"
    /\ \A c \in Team(r) : outcome[c] # "todo"
    /\ \E c \in Team(r) : outcome[c] = "cancelled"
    /\ Leaves(r)
    /\ Forgets({c \in Team(r) : outcome[c] = "cancelled"})
    /\ UNCHANGED <<call, model, try, semaphore, paid, cost, flight, round,
                   checkpoint, row, faults>>

\* The process dies.  Of the researchers that had returned, some results were
\* written; the store of the cache may be another process.
Crash ==
    /\ Fault
    /\ stage' = [r \in Runs |-> IF stage[r] = "over" THEN "over" ELSE "away"]
    /\ spent' = [r \in Runs |-> NotEnrolled]
    /\ \E kept \in SUBSET {c \in Callers : Returned(c)} : Forgets(Callers \ kept)
    /\ Drop(Calls)
    /\ sought' = [c \in Callers |-> "out"] /\ leader' = None
    /\ stored' \in {stored, FALSE}
    /\ UNCHANGED <<paid, round, checkpoint, row>>

-----------------------------------------------------------------------------
(* A researcher *)

\* It asks for queries first, and after a search what to keep of the results.
Asks(c) ==
    /\ AtWork(c) /\ sought[c] \in {"out", "found"} /\ call[c] = "idle"
    /\ Attempt(c)
    /\ UNCHANGED <<flight, progress, returned, faults>>

\* With queries, it searches.
Searches(c) ==
    /\ AtWork(c) /\ sought[c] = "out" /\ call[c] = "answered"
    /\ Seek(c)
    /\ used' = [used EXCEPT ![c] = @ + cost[c]]
    /\ Drop({c})
    /\ UNCHANGED <<spent, paid, progress, outcome, faults>>

\* The node of c is over.
Returns(c, o, n) ==
    /\ outcome' = [outcome EXCEPT ![c] = o]
    /\ used' = [used EXCEPT ![c] = n]
    /\ Move({c}, "out") /\ UNCHANGED <<leader, stored>>
    /\ Drop({c})
    /\ UNCHANGED <<spent, paid, progress, faults>>

\* It reports what its answered calls cost, also when its search failed or
\* found nothing.
Finishes(c) ==
    /\ AtWork(c)
    /\ \/ sought[c] = "found" /\ call[c] \in {"idle", "answered"}
       \/ sought[c] = "failed"
    /\ Returns(c, "done", used[c] + cost[c])

\* An exception of the node is a failed task, and its usage is lost with it.
Gives(c) ==
    /\ AtWork(c) /\ call[c] \in {"refused", "errored"}
    /\ Returns(c, "failed", 0)

\* A CancelledError is not an Exception.
Loses(c) ==
    /\ AtWork(c) /\ sought[c] = "cancelled"
    /\ Returns(c, "cancelled", 0)

\* The node's timeout cancels what the researcher awaits, and then fails it.
Timeout(c) ==
    /\ AtWork(c) /\ Fault
    /\ call[c] # "idle" \/ sought[c] \in Searching \cup {"found"}
    /\ outcome' = [outcome EXCEPT ![c] = "failed"]
    /\ used' = [used EXCEPT ![c] = 0]
    /\ Abandon(c)
    /\ Drop({c})
    /\ UNCHANGED <<spent, paid, progress>>

-----------------------------------------------------------------------------
(* A superstep *)

\* The round's results are a checkpoint.  Another round follows, unless the
\* cost that was reported meets the ceiling.
Boundary(r) ==
    /\ stage[r] = "researching" /\ \A c \in Team(r) : Returned(c)
    /\ checkpoint' = [checkpoint EXCEPT ![r] = @ + Reported(r)]
    /\ round' = [round EXCEPT ![r] = IF checkpoint'[r] >= Limit THEN Rounds[r] + 1 ELSE @ + 1]
    /\ stage' = [stage EXCEPT ![r] = "reporting"]
    /\ Forgets(Team(r))
    /\ UNCHANGED <<gateway, flight, row, faults>>

\* The step reporter brings the row up to it.
Advance(r) ==
    /\ stage[r] = "reporting"
    /\ row' = [row EXCEPT ![r] = checkpoint[r]]
    /\ Enters(r, spent[r])
    /\ UNCHANGED <<call, model, try, semaphore, paid, cost, flight, round,
                   checkpoint, returned, faults>>

Writes(r) ==
    /\ stage[r] = "writing" /\ call[WriterOf[r]] = "idle"
    /\ Attempt(WriterOf[r])
    /\ UNCHANGED <<flight, progress, returned, faults>>

Written(r) ==
    LET w == WriterOf[r] IN
    /\ stage[r] = "writing" /\ call[w] = "answered"
    /\ checkpoint' = [checkpoint EXCEPT ![r] = @ + cost[w]]
    /\ round' = [round EXCEPT ![r] = Rounds[r] + 2]
    /\ stage' = [stage EXCEPT ![r] = "reporting"]
    /\ Drop({w})
    /\ UNCHANGED <<spent, paid, flight, row, returned, faults>>

\* Without a report the run has failed, and is tried again.
Undone(r) ==
    /\ Leaves(r)
    /\ Drop({WriterOf[r]})
    /\ UNCHANGED <<paid, flight, round, checkpoint, row, returned>>

WriterFails(r) ==
    /\ stage[r] = "writing" /\ call[WriterOf[r]] = "errored"
    /\ Undone(r) /\ UNCHANGED faults

WriterTimesOut(r) ==
    /\ stage[r] = "writing" /\ call[WriterOf[r]] # "idle"
    /\ Undone(r) /\ Fault

-----------------------------------------------------------------------------
(* The gateway and the cache go on *)

CallGoesOn(c) ==
    /\ call[c] # "idle"
    /\ Attempt(c) \/ Answer(c)
    /\ UNCHANGED <<flight, progress, returned, faults>>
CallErrs(c) == Err(c) /\ Fault /\ UNCHANGED <<flight, progress, returned>>
SearchGoesOn(c) == Flies(c) /\ UNCHANGED <<gateway, progress, returned, faults>>
SearchFails(c) == Fail(c) /\ Fault /\ UNCHANGED <<gateway, progress, returned>>
EntryExpires == Expire /\ UNCHANGED <<gateway, progress, returned, faults>>

RunGoesOn(r) ==
    \/ Enrol(r) \/ Torn(r) \/ Boundary(r) \/ Advance(r)
    \/ Writes(r) \/ Written(r) \/ WriterFails(r)
ResearcherGoesOn(c) == Asks(c) \/ Searches(c) \/ Finishes(c) \/ Gives(c) \/ Loses(c)

Next ==
    \/ \E r \in Runs : RunGoesOn(r) \/ WriterTimesOut(r)
    \/ \E c \in Callers : ResearcherGoesOn(c) \/ Timeout(c) \/ SearchGoesOn(c) \/ SearchFails(c)
    \/ \E c \in Calls : CallGoesOn(c) \/ CallErrs(c)
    \/ Crash \/ EntryExpires

Spec == Init /\ [][Next]_vars

\* The event loop runs what can run, providers answer, the queue of a semaphore
\* is served in order, and RunLease shows that a run that was left is claimed
\* again.  That a timeout fires in time is not assumed.
Fairness ==
    /\ \A r \in Runs : WF_vars(RunGoesOn(r))
    /\ \A c \in Callers : WF_vars(ResearcherGoesOn(c)) /\ WF_vars(SearchGoesOn(c))
    /\ \A c \in Calls : WF_vars(CallGoesOn(c))

FairSpec == Spec /\ Fairness

-----------------------------------------------------------------------------
(* What a run may rely on *)

TypeOK ==
    /\ GatewayTypeOK /\ FlightTypeOK
    /\ stage \in [Runs -> Stages]
    /\ round \in [Runs -> Nat \ {0}] /\ \A r \in Runs : round[r] <= Rounds[r] + 2
    /\ outcome \in [Callers -> Outcomes]
    /\ used \in [Callers -> Nat]
    /\ checkpoint \in [Runs -> Nat] /\ row \in [Runs -> Nat]
    /\ faults \in 0 .. MaxFaults

\* While researchers work side by side, what their guard has counted passes the
\* ceiling by no more than the call each of them had been granted
\* (RunBudgetGuard.authorise, which nothing asks again once a call has queued);
\* what failed or timed-out researchers spent, and did not report, included.
OverspendBounded ==
    \A r \in Runs : stage[r] = "researching" =>
        spent[r] <= Limit - 1 + Cardinality(Team(r)) * MaxCost

\* A run's cost is counted once: its row never passes its checkpoint, and that,
\* with what the researchers of the round still have to report, never passes
\* what was paid, however often a round is torn, crashed and resumed; nor does
\* what the guard counts.
NothingCountedTwice ==
    \A r \in Runs :
        /\ row[r] <= checkpoint[r]
        /\ checkpoint[r] + Reported(r) <= paid[r]
        /\ spent[r] # NotEnrolled => spent[r] <= paid[r]

\* Every slot is free or held by a call, none is free while a call queues, and
\* exactly the calls that wait are in the queue, whatever was cancelled where
\* (ConcurrencyLimiter).
SlotsAccounted ==
    /\ free + Cardinality({c \in Calls : call[c] = "calling"}) = Slots
    /\ free > 0 => queue = <<>>
    /\ ToSet(queue) = {c \in Calls : call[c] = "queued"}

\* Whoever waits for a call in flight waits for a caller that is making it
\* (SingleFlight.run).
WaitersHaveLeader ==
    Waiting # {} => leader # None /\ sought[leader] \in {"leading", "storing"}

\* Every run gets its report, when its researchers share slots, searches and a
\* cancelled leader with those of another run, and no timeout helps.
EveryRunIsWritten == \A r \in Runs : <>(stage[r] = "over")
=============================================================================
