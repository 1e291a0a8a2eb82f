----------------------------- MODULE RunProgress -----------------------------
(***************************************************************************)
(* How far a run's row says it is (workers/progress.py): after each        *)
(* superstep of ResearchGraph, and before the next, the worker writes the  *)
(* bar of the node that finished (workers/worker.py).  A cancel request    *)
(* writes it too: it reads the whole run and writes the whole run back     *)
(* (research/service.py).  The bar is in hundredths, as it is rounded.     *)
(***************************************************************************)
EXTENDS ResearchGraph

VARIABLES
    owed,   \* the node whose superstep has not been reported, or "none"
    bar,    \* the row's progress
    before  \* the progress before the worker's last write

progressVars == <<vars, owed, bar, before>>

Floor == 5
Ceiling == 70

\* How far through a round each node is,
RoundOffset ==
    [planner |-> 0, researcher |-> 35, evidence |-> 55, normalizer |-> 65,
     verifier |-> 80, contradictions |-> 88, critic |-> 95]
\* and how far through the run once discovery is over.
WritingProgress == [answerer |-> 74, synthesizer |-> 85, validator |-> 92]

\* To the nearest hundredth.
Rounded(n, d) == (2 * n + d) \div (2 * d)

\* Where the bar is after so many hundredths of a round, of all there may be.
InBand(position) ==
    LET reached == Floor + Rounded((Ceiling - Floor) * position, 100 * MaxIterations)
    IN  IF reached <= Ceiling THEN reached ELSE Ceiling

RoundsBehind == IF iteration = 0 THEN 0 ELSE iteration - 1

\* Mutant: every round starts at the floor.
ProgressInRound(n) ==
    IF n \in DOMAIN WritingProgress THEN WritingProgress[n] ELSE InBand(RoundOffset[n])
\* The bar after n finished in the round the state is in.
ProgressFor(n) ==
    IF n \in DOMAIN WritingProgress THEN WritingProgress[n]
    ELSE InBand(100 * RoundsBehind + RoundOffset[n])

-----------------------------------------------------------------------------
ProgressInit == Init /\ owed = "none" /\ bar = 0 /\ before = 0

\* The graph goes on when the listener has returned; a superstep leaves it a
\* report to make.
GraphGoesOn ==
    /\ owed = "none" /\ Work
    /\ owed' = IF steps' = steps + 1 THEN node ELSE "none"
    /\ UNCHANGED <<bar, before>>

\* The listener writes the row, if it is still the worker's.
Advances ==
    /\ phase = "running" /\ owed # "none" /\ ~cancelled
    /\ bar' = ProgressFor(owed) /\ before' = bar /\ owed' = "none"
    /\ UNCHANGED vars

\* The listener finds the row lost, or something else ends the invocation.  A
\* report that was owed is never made.
LosesRow == Fails /\ owed # "none" /\ cancelled /\ owed' = "none" /\ UNCHANGED <<bar, before>>
Ends == Fails /\ faults' > faults /\ owed' = "none" /\ UNCHANGED <<bar, before>>

\* The graph returned, and the run is complete.
Completes ==
    /\ phase = "done" /\ ~cancelled /\ bar # 100
    /\ bar' = 100 /\ before' = bar
    /\ UNCHANGED <<vars, owed>>

\* A cancel request commits.  It read the run before, reads the row again, and
\* sets every column to what it had first read: a progress that has moved in
\* between is set back, and one that has not is left out of the UPDATE, so that
\* a report committed just before it survives.  Bound: one report at most comes
\* between the first read of a request and its write.
Cancels ==
    /\ CancelRun
    /\ bar' \in {bar, before}
    /\ UNCHANGED <<owed, before>>

ProgressNext ==
    \/ GraphGoesOn \/ Advances \/ LosesRow \/ Ends \/ Completes \/ Cancels
    \/ Done /\ UNCHANGED <<owed, bar, before>>

ProgressSpec == ProgressInit /\ [][ProgressNext]_progressVars

\* As in FairSpec; the listener is a statement on the row.
ProgressFairSpec == ProgressSpec /\ WF_progressVars(GraphGoesOn \/ Advances \/ LosesRow)

-----------------------------------------------------------------------------
\* What is done over: a planner that starts no further round ends the one
\* before it once more, and a draft is written again.
GoesBack ==
    \/ owed = "planner" /\ stop # "none"
    \/ owed = "synthesizer" /\ report.revision > 0

\* The one write that is not a worker's takes back its last report, as the run
\* is cancelled, and no more than that.
TakenBack == ~cancelled /\ cancelled' /\ bar' = before

\* The bar goes back there and nowhere else, whatever failed or died with its
\* report unmade: under the worker's writes only where work is done over, and
\* once more where a cancellation overwrites the last of them (progress_for,
\* advanced, ResearchService.cancel).
BarGoesBackOnlyThere == [][bar' < bar => GoesBack \/ TakenBack]_progressVars

\* progress.py:14-16: "What the numbers never do is go backwards, which is the
\* one thing a progress bar must not do".
BarNeverGoesBack == [][bar' >= bar]_progressVars
=============================================================================
