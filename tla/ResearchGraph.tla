---------------------------- MODULE ResearchGraph ----------------------------
(***************************************************************************)
(* One research run as the graph of apps/api/app/agents executes it: the   *)
(* nodes and their routing (graph.py), the ceilings that end discovery     *)
(* (budget.py), the reducers of the shared state (state.py), and the       *)
(* invocations of the runner, each of which resumes from the checkpoint    *)
(* the one before it left (runtime.py).                                    *)
(*                                                                         *)
(* A step is one node, from the read of the cancel flag to the checkpoint  *)
(* that holds its update and the node the edges choose next; the flag may  *)
(* be set while the node's agent works, which nothing notices before the   *)
(* next node, so that it is set before or after the step.  The             *)
(* researchers of a round share one superstep and one checkpoint: each is  *)
(* a step of its own here, and the round moves on with the last.           *)
(***************************************************************************)
EXTENDS Integers

CONSTANTS
    MaxIterations,  \* the run's budget: planning rounds,
    MaxSources,     \* sources,
    MaxQueries,     \* and search queries
    Width,          \* researchers in a round, whatever the plan's length
    MaxSubtasks,    \* bound: subtasks in a plan
    Overrun,        \* bound: searches of a researcher past its allowance
    MaxFaults       \* bound: invocations that end without a result

ASSUME GraphAssumption ==
    /\ {MaxIterations, MaxSources, MaxQueries, Width, MaxSubtasks} \subseteq Nat \ {0}
    /\ {Overrun, MaxFaults} \subseteq Nat

VARIABLES
    phase,      \* "running", "down" between two invocations, "done"
    node,       \* the node the checkpoint says is next, "end" after the last
    steps,      \* supersteps of this invocation, which LangGraph limits
    iteration,  \* planning rounds started
    plan,       \* research_plan: "none", "empty" or "full"
    left,       \* researchers of this round that have not returned
    share,      \* what each of them may add: sources and queries
    sources,    \* sources collected
    queries,    \* search queries reported
    meter,      \* cost and runtime against their ceilings
    stop,       \* the reason discovery ended, "none" while it has not
    critique,   \* the critic's last word: "none", "wanting" or "enough"
    answer,     \* an answer has been written
    report,     \* the last draft: its revision and its coverage caveat
    check,      \* the citation check of that draft
    repairs,    \* citation repairs granted
    deep,       \* the run's row: a deep or conversational run, or a quick one,
    cancelled,  \* and whether it was cancelled
    faults      \* invocations that ended without a result

control == <<phase, node, steps, faults>>
discovery == <<iteration, plan, left, share>>
usage == <<sources, queries, meter>>
writing == <<answer, report, check, repairs>>
row == <<deep, cancelled>>
vars == <<control, discovery, usage, writing, stop, critique, row>>

-----------------------------------------------------------------------------
(* The budget *)

MaxRepairs == 1
RoundSteps == IF deep THEN 7 ELSE 4
TailSteps == 1 + 2 * (1 + MaxRepairs)
Margin == 3
RecursionLimit == RoundSteps * MaxIterations + TailSteps + Margin

Nodes == {"planner", "researcher", "evidence", "normalizer", "verifier",
          "contradictions", "critic", "answerer", "synthesizer", "validator", "end"}
\* Cost, runtime, sources, queries and an uncosted call are one reason here:
\* nothing after the check tells them apart but the caveat's wording.
Stops == {"none", "limit", "iterations", "failed", "cancelled"}
NoReport == [revision |-> -1, caveat |-> "none"]
NoCheck == [revision |-> -1, passed |-> FALSE]

\* Spending and time only grow.  A run that is over a ceiling is over it
\* whether its calls could be costed or not.
Meters == {"under", "uncosted", "over"}
MeterFrom == [under |-> Meters, uncosted |-> {"uncosted", "over"}, over |-> {"over"}]
Spend == meter' \in MeterFrom[meter]
\* A node that calls nobody, or whose call failed, adds nothing but its time.
Elapse == meter' \in {meter, "over"}

\* Mutant: the query ceiling is left to the allocation.
LimitReachedButQueries(reading, atRoundBoundary) ==
    \/ reading = "over"
    \/ atRoundBoundary /\ reading = "uncosted"
    \/ sources >= MaxSources

LimitReached(reading, atRoundBoundary) ==
    \/ reading = "over"
    \/ atRoundBoundary /\ reading = "uncosted"
    \/ sources >= MaxSources
    \/ queries >= MaxQueries

\* Mutant: nobody counts the rounds.
EndOfRoundsByLimit(reading) ==
    IF LimitReached(reading, TRUE) THEN "limit" ELSE "none"

\* Why no further round starts, read at a round's boundary.
EndOfRounds(reading) ==
    IF LimitReached(reading, TRUE) THEN "limit"
    ELSE IF iteration >= MaxIterations THEN "iterations" ELSE "none"

QueriesLeft == MaxQueries - queries
SourcesLeft == MaxSources - sources

\* How many subtasks are dispatched: the plan's length, cut to the width and to
\* what is left.  The length is the planner's choice, so every count up to the
\* smallest of the four can come out.
Dispatches ==
    {n \in 1..MaxSubtasks : n <= Width /\ n <= QueriesLeft /\ n <= SourcesLeft}

\* Mutant: each researcher is given all that is left.
AllowanceUndivided(n) == [sources |-> SourcesLeft, queries |-> QueriesLeft]

Allowance(n) == [sources |-> SourcesLeft \div n, queries |-> QueriesLeft \div n]

\* The reducer of the stop channel: the first stop sticks, a cancellation
\* overrides it.
KeepStop(reason) == IF reason = "cancelled" \/ stop = "none" THEN reason ELSE stop

-----------------------------------------------------------------------------
Init ==
    /\ phase = "running" /\ node = "planner" /\ steps = 0 /\ faults = 0
    /\ iteration = 0 /\ plan = "none" /\ left = 0
    /\ share = [sources |-> 0, queries |-> 0]
    /\ sources = 0 /\ queries = 0 /\ meter = "under"
    /\ stop = "none" /\ critique = "none"
    /\ answer = FALSE /\ report = NoReport /\ check = NoCheck /\ repairs = 0
    /\ deep \in BOOLEAN /\ cancelled = FALSE

\* LangGraph raises GraphRecursionError where a superstep would pass the limit.
At(n) == phase = "running" /\ node = n /\ steps < RecursionLimit
\* Mutant: the flag is read from the state the graph holds, not from the row.
CancelledInState == stop = "cancelled"

Cancelled == cancelled \/ stop = "cancelled"
\* A node the run may still do work in.
Working(n) == At(n) /\ ~Cancelled
Goto(n) == node' = n /\ steps' = steps + 1 /\ UNCHANGED <<phase, faults, row>>

-----------------------------------------------------------------------------
(* Discovery *)

\* The planner finds a stop, a ceiling or the last round behind it.
PlannerStops ==
    /\ Working("planner")
    /\ Elapse
    /\ KeepStop(EndOfRounds(meter')) # "none"
    /\ stop' = KeepStop(EndOfRounds(meter'))
    /\ Goto("answerer")
    /\ UNCHANGED <<discovery, sources, queries, critique, writing>>

MayPlan == Working("planner") /\ KeepStop(EndOfRounds(meter)) = "none"

\* Mutant: the round is dispatched though planning it reached a limit.
DispatchRegardless ==
    IF plan' = "empty" \/ Dispatches = {}
      THEN Goto("answerer") /\ UNCHANGED <<left, share>>
      ELSE \E n \in Dispatches :
             left' = n /\ share' = Allowance(n) /\ Goto("researcher")

\* The edge after the planner: researchers, each with its share, or none.
Dispatch ==
    IF stop' # "none" \/ plan' = "empty" \/ Dispatches = {}
      THEN Goto("answerer") /\ UNCHANGED <<left, share>>
      ELSE \E n \in Dispatches :
             left' = n /\ share' = Allowance(n) /\ Goto("researcher")

PlannerPlans ==
    /\ MayPlan
    /\ iteration' = iteration + 1
    /\ plan' \in {"empty", "full"}
    /\ Spend
    /\ stop' = KeepStop(IF LimitReached(meter', FALSE) THEN "limit" ELSE "none")
    /\ Dispatch
    /\ UNCHANGED <<sources, queries, critique, writing>>

\* The budget guard refuses the call, or a planner after the first round fails.
\* The first round's failure is raised: Fails.
PlannerGivesUp ==
    /\ MayPlan
    /\ \/ stop' = KeepStop("limit")
       \/ iteration > 0 /\ stop' = KeepStop("failed")
    /\ Elapse
    /\ Goto("answerer")
    /\ UNCHANGED <<discovery, sources, queries, critique, writing>>

\* One researcher of the round is done; the last one ends the superstep.
Returns ==
    /\ left' = left - 1
    /\ IF left = 1 THEN Goto("evidence") ELSE UNCHANGED <<control, row>>
    /\ UNCHANGED <<iteration, plan, share, critique, writing>>

\* Sources past the allowance are dropped, and one a sibling also found is
\* merged away; searches past the allowance are counted.
ResearcherFinds ==
    /\ At("researcher") /\ ~cancelled
    /\ \E found \in 0..share.sources, made \in 0..(share.queries + Overrun) :
         /\ sources' = sources + found
         /\ queries' = queries + made
    /\ Spend
    /\ Returns
    /\ UNCHANGED stop

\* A failure, or a call the guard refuses, is recorded and reports no usage.
ResearcherFails ==
    /\ At("researcher") /\ ~cancelled
    /\ Returns
    /\ UNCHANGED <<usage, stop>>

ResearcherSeesCancel ==
    /\ At("researcher") /\ cancelled
    /\ stop' = KeepStop("cancelled")
    /\ Returns
    /\ UNCHANGED usage

-----------------------------------------------------------------------------
(* Processing *)

After ==
    [evidence       |-> "normalizer",
     normalizer     |-> IF deep THEN "verifier" ELSE "answerer",
     verifier       |-> "contradictions",
     contradictions |-> "critic"]

\* The four processing nodes: a failure costs the node's items, a refused call
\* ends discovery.
Process ==
    \E n \in DOMAIN After :
      /\ Working(n)
      /\ \/ Spend /\ UNCHANGED stop
         \/ Elapse /\ stop' = KeepStop("limit")
      /\ Goto(After[n])
      /\ UNCHANGED <<discovery, sources, queries, critique, writing>>

\* Discovery ended earlier in the round: the critic is not called.
CriticPasses ==
    /\ Working("critic") /\ stop # "none"
    /\ Elapse
    /\ Goto("answerer")
    /\ UNCHANGED <<discovery, sources, queries, stop, critique, writing>>

CriticJudges ==
    /\ Working("critic") /\ stop = "none"
    /\ Spend
    /\ critique' \in {"wanting", "enough"}
    /\ stop' = KeepStop(IF critique' = "enough" THEN "none" ELSE EndOfRounds(meter'))
    /\ Goto(IF stop' # "none" \/ critique' = "enough" THEN "answerer" ELSE "planner")
    /\ UNCHANGED <<discovery, sources, queries, writing>>

CriticGivesUp ==
    /\ Working("critic") /\ stop = "none"
    /\ stop' \in {KeepStop("limit"), KeepStop("failed")}
    /\ Elapse
    /\ Goto("answerer")
    /\ UNCHANGED <<discovery, sources, queries, critique, writing>>

-----------------------------------------------------------------------------
(* Writing *)

\* No answer, whether the call failed or wrote none, does not stop the report.
\* A refused call leaves a stop behind, though the budget guard of today
\* exempts the answerer.
Answerer ==
    /\ Working("answerer")
    /\ \/ Spend /\ answer' \in {answer, TRUE} /\ UNCHANGED stop
       \/ Elapse /\ ~answer /\ stop' = KeepStop("limit") /\ UNCHANGED answer
    /\ Goto("synthesizer")
    /\ UNCHANGED <<discovery, sources, queries, critique, report, check, repairs>>

\* Mutant: the repaired draft loses the caveat.
SynthesizerDropsCaveat ==
    /\ Working("synthesizer")
    /\ report' = [revision |-> repairs, caveat |-> IF repairs = 0 THEN stop ELSE "none"]
    /\ check' = NoCheck
    /\ Spend
    /\ Goto("validator")
    /\ UNCHANGED <<discovery, sources, queries, stop, critique, answer, repairs>>

Synthesizer ==
    /\ Working("synthesizer")
    /\ report' = [revision |-> repairs, caveat |-> stop]
    /\ check' = NoCheck
    /\ Spend
    /\ Goto("validator")
    /\ UNCHANGED <<discovery, sources, queries, stop, critique, answer, repairs>>

\* Mutant: the repair is routed by the count before this check's grant.
AfterValidationStale(verdict, granted) ==
    IF ~verdict.passed /\ granted > verdict.revision + 1 THEN "synthesizer" ELSE "end"

\* The edge after the validator: back only when this check was granted a repair.
AfterValidation(verdict, granted) ==
    IF ~verdict.passed /\ granted > verdict.revision THEN "synthesizer" ELSE "end"

\* Mutant: a repair is granted on every failed check.
RepairsUnbounded ==
    /\ Working("validator") /\ report # NoReport
    /\ \E passed \in BOOLEAN :
         check' = [revision |-> report.revision, passed |-> passed]
    /\ repairs' = IF ~check'.passed THEN repairs + 1 ELSE repairs
    /\ Spend
    /\ Goto(AfterValidation(check', repairs'))
    /\ UNCHANGED <<discovery, sources, queries, stop, critique, answer, report>>

Validator ==
    /\ Working("validator") /\ report # NoReport
    /\ \E passed \in BOOLEAN :
         check' = [revision |-> report.revision, passed |-> passed]
    /\ repairs' = IF ~check'.passed /\ repairs < MaxRepairs THEN repairs + 1 ELSE repairs
    /\ Spend
    /\ Goto(AfterValidation(check', repairs'))
    /\ UNCHANGED <<discovery, sources, queries, stop, critique, answer, report>>

-----------------------------------------------------------------------------
(* Cancellation and invocations *)

\* Where the edges lead from a node that found the run cancelled.
CancelRoute ==
    [n \in Nodes \ {"researcher", "end"} |->
       CASE n \in {"planner", "critic", "validator"} -> "end"
         [] n = "answerer" -> "synthesizer"
         [] n = "synthesizer" -> "validator"
         [] OTHER -> After[n]]

NodeSeesCancel ==
    \E n \in DOMAIN CancelRoute :
      /\ At(n) /\ Cancelled
      /\ stop' = KeepStop("cancelled")
      /\ Elapse
      /\ Goto(CancelRoute[n])
      /\ UNCHANGED <<discovery, sources, queries, critique, writing>>

\* The request read the row before the run was over; its write may come after.
CancelRun ==
    /\ ~cancelled
    /\ cancelled' = TRUE
    /\ UNCHANGED <<deep, control, discovery, usage, writing, stop, critique>>

\* The graph is over: its state is recorded and returned.
Record ==
    /\ phase = "running" /\ node = "end"
    /\ phase' = "done"
    /\ UNCHANGED <<node, steps, faults, discovery, usage, writing, stop, critique, row>>

\* The invocation ends with nothing returned: the first planner, the
\* synthesizer or the validator raised, a node broke its contract, the listener
\* lost the lease, the results could not be recorded, or the process died.
\* What the last checkpoint holds, and what the researchers of an unfinished
\* superstep had already returned, is kept.  To lose a cancelled row is no fault.
Fails ==
    /\ phase = "running" /\ phase' = "down"
    /\ \/ faults < MaxFaults /\ faults' = faults + 1
       \/ cancelled /\ UNCHANGED faults
    /\ UNCHANGED <<node, steps, discovery, usage, writing, stop, critique, row>>

\* Mutant: only a run with a plan is taken up again.
ResumePlanned ==
    /\ phase = "down" /\ ~cancelled /\ iteration > 0
    /\ phase' = "running" /\ steps' = 0
    /\ UNCHANGED <<node, faults, discovery, usage, writing, stop, critique, row>>

\* A worker runs it again from the checkpoint.  It is not given a cancelled run.
Resume ==
    /\ phase = "down" /\ ~cancelled
    /\ phase' = "running" /\ steps' = 0
    /\ UNCHANGED <<node, faults, discovery, usage, writing, stop, critique, row>>

Over == phase = "done" \/ (phase = "down" /\ cancelled)
Done == Over /\ UNCHANGED vars

Work ==
    \/ PlannerStops \/ PlannerPlans \/ PlannerGivesUp
    \/ ResearcherFinds \/ ResearcherFails \/ ResearcherSeesCancel
    \/ Process \/ CriticPasses \/ CriticJudges \/ CriticGivesUp
    \/ Answerer \/ Synthesizer \/ Validator
    \/ NodeSeesCancel \/ Record \/ Resume

Next == Work \/ CancelRun \/ Fails \/ Done

Spec == Init /\ [][Next]_vars

\* Every call a node makes is under a timeout, and a run that is down is taken
\* up again, so the graph does not stand still.
FairSpec == Spec /\ WF_vars(Work)

-----------------------------------------------------------------------------
(* Properties *)

\* Every variable has the type the code gives it.
TypeOK ==
    /\ phase \in {"running", "down", "done"} /\ node \in Nodes
    /\ {steps, iteration, left, sources, queries, faults} \subseteq Nat
    /\ plan \in {"none", "empty", "full"}
    /\ share \in [sources : Nat, queries : Nat]
    /\ meter \in Meters /\ stop \in Stops
    /\ critique \in {"none", "wanting", "enough"}
    /\ answer \in BOOLEAN /\ deep \in BOOLEAN /\ cancelled \in BOOLEAN
    /\ report \in [revision : {-1} \cup 0..MaxRepairs, caveat : Stops]
    /\ check \in [revision : {-1} \cup 0..MaxRepairs, passed : BOOLEAN]
    /\ repairs \in 0..MaxRepairs

\* The recursion limit is never what ends a run: whatever the rounds, the stops
\* and the repair, an invocation stays clear of it by the whole margin
\* (budget.py: recursion_limit, _ROUND_STEPS, _TAIL_STEPS).
WithinRecursionLimit == steps <= RecursionLimit - Margin

\* No researcher can spend a sibling's share: what the run holds and what the
\* researchers still out may add never pass the source ceiling together
\* (allocate, and the cut at the allowance in researcher).
SourcesWithinBudget == sources + left * share.sources <= MaxSources

\* A run that returns and was not stopped by a cancellation returns a report
\* whose citations were checked as they are, and which failed the check only
\* with the one repair spent (after_validation).
ReturnsCheckedReport ==
    phase = "done" /\ stop # "cancelled" =>
        /\ report # NoReport
        /\ check.revision = report.revision
        /\ check.passed \/ report.revision = MaxRepairs

\* The report carries the caveat of the stop that ended discovery, through the
\* repair as well, and carries one only if there was a stop (synthesizer).
CaveatNamesTheStop ==
    phase = "done" /\ stop # "cancelled" => report.caveat = stop

\* Discovery is not cut short without a reason: a run that goes on to write with
\* no stop recorded is one whose planner had nothing left to research, or whose
\* critic was content, or a quick run that had its round (after_planner,
\* after_critic).
NoSilentStop ==
    node \in {"answerer", "synthesizer", "validator", "end"} /\ stop = "none" =>
        \/ plan = "empty"
        \/ IF deep THEN critique = "enough" ELSE plan = "full"

\* What ended discovery early is recorded, and what is recorded reaches the
\* reader with the report: neither a silent stop nor a caveat of another one
\* (LimitReached's paths to the synthesizer and its repair).
StopIsTold == NoSilentStop /\ CaveatNamesTheStop

\* "No planner or researcher runs again" once a stop is recorded (budget.py:
\* the first rule): the step that records it dispatches nothing either.
LimitEndsDiscovery ==
    [][stop' # "none" => left' <= left /\ (stop # "none" => iteration' = iteration)]_vars

\* "Nothing further runs, synthesis included" once the row says cancelled
\* (budget.py: the second rule).  A call the cancellation finds in flight ends
\* as if it had ended before it.
CancellationEndsWork ==
    [][cancelled => UNCHANGED <<iteration, sources, queries, critique, writing>>]_vars

\* A run comes to an end, through every round, repair, failure and restart.
RunEnds == <>[]Over

=============================================================================
