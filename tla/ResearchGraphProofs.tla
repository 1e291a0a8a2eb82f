------------------------- MODULE ResearchGraphProofs -------------------------
(***************************************************************************)
(* What ResearchGraph, and RunProgress on top of it, keep for every        *)
(* budget, width and mode.                                                 *)
(*                                                                         *)
(* The argument is one inductive invariant in five parts.  Types and       *)
(* Round say what the variables hold and when researchers are out.  On     *)
(* them rest SourcesWithinBudget, which is inductive as it stands, and     *)
(* Endings: what is known of the plan, the report and its check where the  *)
(* graph goes on to write or ends.  Position bounds the supersteps by the  *)
(* node the checkpoint names; it needs Endings, because a draft is sent    *)
(* back only if its revision is behind the repairs granted.                *)
(*                                                                         *)
(* RunProgress adds a bound on the bar by the node that is next.           *)
(***************************************************************************)
EXTENDS RunProgress, TLAPS

-----------------------------------------------------------------------------
(* The inductive invariant *)

\* Researchers are out exactly while the round's superstep is running.
Round == node = "researcher" <=> left >= 1

\* How many supersteps an invocation can have taken before each node.
Position ==
    /\ iteration <= MaxIterations
    /\ node = "planner" => iteration < MaxIterations /\ steps <= RoundSteps * iteration
    /\ node \notin {"planner", "answerer", "synthesizer", "validator", "end"} => iteration >= 1
    /\ node = "researcher" => steps <= RoundSteps * (iteration - 1) + 1
    /\ node = "evidence" => steps <= RoundSteps * (iteration - 1) + 2
    /\ node = "normalizer" => steps <= RoundSteps * (iteration - 1) + 3
    /\ node = "verifier" => deep /\ steps <= RoundSteps * (iteration - 1) + 4
    /\ node = "contradictions" => deep /\ steps <= RoundSteps * (iteration - 1) + 5
    /\ node = "critic" => deep /\ steps <= RoundSteps * (iteration - 1) + 6
    /\ node = "answerer" => steps <= RoundSteps * MaxIterations
    /\ node = "synthesizer" => steps <= RoundSteps * MaxIterations + 1 + 2 * repairs
    /\ node = "validator" => steps <= RoundSteps * MaxIterations + 2 + 2 * repairs
    /\ node = "end" => steps <= RoundSteps * MaxIterations + TailSteps

\* Where the plan stands, and what a draft says of the run that wrote it.
Endings ==
    /\ phase = "done" => node = "end"
    /\ node \notin {"planner", "answerer", "synthesizer", "validator", "end"} => plan = "full"
    /\ NoSilentStop
    /\ node = "validator" /\ stop # "cancelled" =>
         report.revision = repairs /\ report.caveat = stop
    /\ node = "end" /\ stop # "cancelled" =>
         /\ report # NoReport
         /\ report.caveat = stop
         /\ check.revision = report.revision
         /\ check.passed \/ report.revision = MaxRepairs

Basics == TypeOK /\ Round

-----------------------------------------------------------------------------
(* Lemmas about the operators *)

\* Where the edges lead from a processing node.
LEMMA AfterValues ==
    /\ DOMAIN After = {"evidence", "normalizer", "verifier", "contradictions"}
    /\ After["evidence"] = "normalizer"
    /\ After["normalizer"] = IF deep THEN "verifier" ELSE "answerer"
    /\ After["verifier"] = "contradictions"
    /\ After["contradictions"] = "critic"
BY DEF After

\* Where they lead from a node that found the run cancelled.
LEMMA CancelRouteValues ==
    /\ DOMAIN CancelRoute = Nodes \ {"researcher", "end"}
    /\ \A n \in {"planner", "critic", "validator"} : CancelRoute[n] = "end"
    /\ CancelRoute["answerer"] = "synthesizer"
    /\ CancelRoute["synthesizer"] = "validator"
    /\ \A n \in DOMAIN After : CancelRoute[n] = After[n]
BY AfterValues DEF CancelRoute, Nodes

\* The meter only moves among its readings.
LEMMA MeterStays ==
    ASSUME meter \in Meters, Spend \/ Elapse
    PROVE  meter' \in Meters
BY DEF Spend, Elapse, Meters, MeterFrom

\* The equal shares of n researchers fit what is left.
LEMMA SharesFit ==
    ASSUME NEW total \in Nat, NEW n \in Nat \ {0}
    PROVE  total \div n \in Nat /\ n * (total \div n) <= total
OBVIOUS

\* One share less is out when a researcher has returned.
LEMMA OneShareLess ==
    ASSUME NEW n \in Nat, NEW s \in Nat
    PROVE  (n - 1) * s + s = n * s
OBVIOUS

\* A subtask can be dispatched whenever neither ceiling is reached.
LEMMA SomethingToDispatch ==
    ASSUME TypeOK, GraphAssumption, NEW reading, NEW boundary,
           ~LimitReached(reading, boundary)
    PROVE  1 \in Dispatches
BY DEF TypeOK, GraphAssumption, LimitReached, Dispatches, QueriesLeft, SourcesLeft

-----------------------------------------------------------------------------
(* Types *)

\* The initial state satisfies every part.
LEMMA InitHolds ==
    ASSUME GraphAssumption, Init
    PROVE  Basics /\ Position /\ SourcesWithinBudget /\ Endings
<1> USE DEF Init
<1>1. Basics
  <2>1. report \in [revision : {-1} \cup 0..MaxRepairs, caveat : Stops]
    BY DEF NoReport, MaxRepairs, Stops
  <2>2. check \in [revision : {-1} \cup 0..MaxRepairs, passed : BOOLEAN]
    BY DEF NoCheck, MaxRepairs
  <2>3. answer \in BOOLEAN /\ deep \in BOOLEAN /\ cancelled \in BOOLEAN
    BY Zenon
  <2> QED
    BY <2>1, <2>2, <2>3 DEF Basics, TypeOK, Round, Nodes, Meters, Stops, MaxRepairs
<1>2. Position
  BY DEF GraphAssumption, Position, RoundSteps
<1>3. SourcesWithinBudget
  BY DEF GraphAssumption, SourcesWithinBudget
<1>4. Endings
  BY DEF Endings, NoSilentStop
<1> QED
  BY <1>1, <1>2, <1>3, <1>4

\* A researcher's return keeps them, whatever it adds.
LEMMA ReturnsKeepsBasics ==
    ASSUME Basics, node = "researcher", Returns, meter' \in Meters, stop' \in Stops,
           sources' \in Nat, queries' \in Nat
    PROVE  Basics'
<1> USE DEF Basics, TypeOK, Round, Returns, Goto, Nodes, control, writing, row
<1>1. left' \in Nat /\ left >= 1
  OBVIOUS
<1>2. CASE left = 1
  BY <1>1, <1>2
<1>3. CASE left # 1
  BY <1>1, <1>3
<1> QED
  BY <1>2, <1>3

\* Every step keeps the types, and researchers out while the round runs.
LEMMA BasicsStep ==
    ASSUME GraphAssumption, Basics, [Next]_vars
    PROVE  Basics'
<1> USE DEF Basics, TypeOK, Round, vars, control, discovery, usage, writing, row,
            At, Working, Goto, Nodes, Stops, KeepStop
<1>1. CASE UNCHANGED vars
  BY <1>1
<1>2. CASE PlannerStops
  BY <1>2, MeterStays DEF PlannerStops, EndOfRounds
<1>3. CASE PlannerPlans
  <2>1. /\ MayPlan /\ iteration' = iteration + 1 /\ plan' \in {"empty", "full"}
        /\ meter' \in Meters /\ stop' \in Stops /\ Dispatch
        /\ UNCHANGED <<sources, queries, critique, writing>>
    BY <1>3, MeterStays DEF PlannerPlans
  <2>2. left = 0 /\ iteration' \in Nat
    BY <2>1 DEF MayPlan
  <2>3. CASE Goto("answerer") /\ UNCHANGED <<left, share>>
    BY <2>1, <2>2, <2>3
  <2>4. CASE \E n \in Dispatches : left' = n /\ share' = Allowance(n) /\ Goto("researcher")
    <3>1. PICK n \in Dispatches : left' = n /\ share' = Allowance(n) /\ Goto("researcher")
      BY <2>4
    <3>2. n \in Nat \ {0} /\ n <= QueriesLeft /\ n <= SourcesLeft
      BY GraphAssumption DEF Dispatches, GraphAssumption
    <3>3. QueriesLeft \in Nat /\ SourcesLeft \in Nat
      BY <3>2, GraphAssumption DEF QueriesLeft, SourcesLeft, GraphAssumption
    <3>4. share' \in [sources : Nat, queries : Nat]
      BY <3>1, <3>2, <3>3, SharesFit DEF Allowance
    <3> QED
      BY <2>1, <3>1, <3>2, <3>4
  <2> QED
    BY <2>1, <2>3, <2>4 DEF Dispatch
<1>4. CASE PlannerGivesUp
  BY <1>4, MeterStays DEF PlannerGivesUp, MayPlan
<1>5. CASE ResearcherFinds
  <2>1. PICK found \in 0..share.sources, made \in 0..(share.queries + Overrun) :
          sources' = sources + found /\ queries' = queries + made
    BY <1>5 DEF ResearcherFinds
  <2>2. sources' \in Nat /\ queries' \in Nat
    BY <2>1, GraphAssumption DEF GraphAssumption
  <2>3. meter' \in Meters /\ UNCHANGED stop /\ node = "researcher" /\ Returns
    BY <1>5, MeterStays DEF ResearcherFinds
  <2> QED
    BY <2>2, <2>3, ReturnsKeepsBasics
<1>6. CASE ResearcherFails
  BY <1>6, ReturnsKeepsBasics DEF ResearcherFails
<1>7. CASE ResearcherSeesCancel
  BY <1>7, ReturnsKeepsBasics DEF ResearcherSeesCancel
<1>8. CASE Process
  <2>1. PICK n \in DOMAIN After : node = n /\ node' = After[n] /\ steps' = steps + 1
    BY <1>8 DEF Process
  <2>2. node' \in {"normalizer", "verifier", "answerer", "contradictions", "critic"} /\ left = 0
    BY <2>1, AfterValues
  <2> QED
    BY <1>8, <2>2, MeterStays DEF Process
<1>9. CASE CriticPasses
  BY <1>9, MeterStays DEF CriticPasses
<1>10. CASE CriticJudges
  BY <1>10, MeterStays DEF CriticJudges, EndOfRounds
<1>11. CASE CriticGivesUp
  BY <1>11, MeterStays DEF CriticGivesUp
<1>12. CASE Answerer
  <2>1. answer' \in BOOLEAN
    BY <1>12, Zenon DEF Answerer
  <2>2. /\ node = "answerer" /\ node' = "synthesizer" /\ steps' = steps + 1
        /\ meter' \in Meters /\ stop' \in Stops
        /\ UNCHANGED <<phase, faults, row, discovery, sources, queries, critique,
                       report, check, repairs>>
    BY <1>12, MeterStays DEF Answerer
  <2> QED
    BY <2>1, <2>2
<1>13. CASE Synthesizer
  BY <1>13, MeterStays DEF Synthesizer, NoCheck, MaxRepairs
<1>14. CASE Validator
  BY <1>14, MeterStays DEF Validator, AfterValidation, MaxRepairs
<1>15. CASE NodeSeesCancel
  <2>1. PICK n \in DOMAIN CancelRoute : node = n /\ node' = CancelRoute[n] /\ steps' = steps + 1
    BY <1>15 DEF NodeSeesCancel
  <2>2. node' \in Nodes \ {"researcher"} /\ left = 0
    BY <2>1, AfterValues, CancelRouteValues
  <2> QED
    BY <1>15, <2>2, MeterStays DEF NodeSeesCancel
<1>16. CASE Record \/ Resume \/ CancelRun \/ Fails \/ Done
  <2>1. cancelled' \in BOOLEAN /\ UNCHANGED deep
    BY <1>16, Zenon DEF Record, Resume, CancelRun, Fails, Done
  <2>2. /\ UNCHANGED <<node, discovery, usage, writing, stop, critique>>
        /\ phase' \in {"running", "down", "done"} /\ steps' \in Nat /\ faults' \in Nat
    BY <1>16 DEF Record, Resume, CancelRun, Fails, Done
  <2> QED
    BY <2>1, <2>2
<1> QED
  BY <1>1, <1>2, <1>3, <1>4, <1>5, <1>6, <1>7, <1>8, <1>9, <1>10, <1>11, <1>12, <1>13,
     <1>14, <1>15, <1>16 DEF Next, Work

-----------------------------------------------------------------------------
(* Supersteps *)

\* Every step keeps each node within its bound.
LEMMA PositionStep ==
    ASSUME GraphAssumption, Basics, Endings, Position, [Next]_vars
    PROVE  Position'
<1>0. /\ {steps, iteration, MaxIterations} \subseteq Nat /\ repairs \in 0..1
      /\ MaxIterations >= 1 /\ deep \in BOOLEAN
  BY DEF Basics, TypeOK, GraphAssumption, MaxRepairs
<1> USE <1>0 DEF Position, At, Working, Goto, RoundSteps, TailSteps, MaxRepairs, vars,
                 control, discovery, usage, writing, row
<1>1. CASE UNCHANGED vars
  BY <1>1
<1>2. CASE PlannerStops
  BY <1>2 DEF PlannerStops
<1>3. CASE PlannerPlans
  <2>1. /\ node = "planner" /\ iteration' = iteration + 1 /\ steps' = steps + 1
        /\ node' \in {"answerer", "researcher"} /\ UNCHANGED <<repairs, deep>>
    BY <1>3 DEF PlannerPlans, MayPlan, Dispatch
  <2> QED
    BY <2>1
<1>4. CASE PlannerGivesUp
  BY <1>4 DEF PlannerGivesUp, MayPlan
<1>5. CASE ResearcherFinds \/ ResearcherFails \/ ResearcherSeesCancel
  <2>1. node = "researcher" /\ Returns
    BY <1>5 DEF ResearcherFinds, ResearcherFails, ResearcherSeesCancel
  <2> QED
    BY <2>1 DEF Returns
<1>6. CASE Process
  <2>1. PICK n \in DOMAIN After : node = n /\ node' = After[n] /\ steps' = steps + 1
    BY <1>6 DEF Process
  <2>2. UNCHANGED <<iteration, repairs, deep>>
    BY <1>6 DEF Process
  <2> QED
    BY <2>1, <2>2, AfterValues
<1>7. CASE CriticPasses
  BY <1>7 DEF CriticPasses
<1>8. CASE CriticJudges
  <2>1. /\ node = "critic" /\ steps' = steps + 1 /\ UNCHANGED <<iteration, repairs, deep>>
        /\ node' \in {"answerer", "planner"}
    BY <1>8 DEF CriticJudges
  <2>2. node' = "planner" => iteration < MaxIterations
    <3> SUFFICES ASSUME node' = "planner"
                 PROVE  iteration < MaxIterations
      OBVIOUS
    <3>1. stop' = "none" /\ critique' # "enough" /\ stop = "none"
      BY <1>8 DEF CriticJudges
    <3>2. EndOfRounds(meter') = "none"
      BY <1>8, <3>1 DEF CriticJudges, KeepStop
    <3>3. ~(iteration >= MaxIterations)
      BY <3>2 DEF EndOfRounds, LimitReached
    <3> QED
      BY <3>3
  <2> QED
    BY <2>1, <2>2
<1>9. CASE CriticGivesUp
  BY <1>9 DEF CriticGivesUp
<1>10. CASE Answerer
  BY <1>10 DEF Answerer
<1>11. CASE Synthesizer
  BY <1>11 DEF Synthesizer
<1>12. CASE Validator
  <2>1. /\ node = "validator" /\ steps' = steps + 1 /\ UNCHANGED <<iteration, deep>>
        /\ repairs' \in {repairs, repairs + 1} /\ repairs' <= 1
        /\ node' \in {"synthesizer", "end"}
    BY <1>12 DEF Validator, AfterValidation
  <2>2. node' = "synthesizer" => repairs' = 1 /\ repairs = 0
    <3>1. report.revision = repairs
      BY <1>12 DEF Validator, Endings, Cancelled
    <3> QED
      BY <1>12, <3>1 DEF Validator, AfterValidation
  <2> QED
    BY <2>1, <2>2
<1>13. CASE NodeSeesCancel
  <2>1. PICK n \in DOMAIN CancelRoute : node = n /\ node' = CancelRoute[n] /\ steps' = steps + 1
    BY <1>13 DEF NodeSeesCancel
  <2>2. UNCHANGED <<iteration, repairs, deep>>
    BY <1>13 DEF NodeSeesCancel
  <2> QED
    BY <2>1, <2>2, AfterValues, CancelRouteValues DEF Nodes
<1>14. CASE Resume
  BY <1>14 DEF Resume
<1>15. CASE Record \/ CancelRun \/ Fails \/ Done
  BY <1>15 DEF Record, CancelRun, Fails, Done
<1> QED
  BY <1>1, <1>2, <1>3, <1>4, <1>5, <1>6, <1>7, <1>8, <1>9, <1>10, <1>11, <1>12, <1>13,
     <1>14, <1>15 DEF Next, Work

-----------------------------------------------------------------------------
(* Sources *)

\* Every step keeps what is held and what is handed out within the ceiling.
LEMMA SourcesStep ==
    ASSUME GraphAssumption, Basics, SourcesWithinBudget, [Next]_vars
    PROVE  SourcesWithinBudget'
<1>0. /\ {left, share.sources, sources} \subseteq Nat /\ MaxSources \in Nat
      /\ node = "researcher" <=> left >= 1
  BY DEF Basics, TypeOK, Round, GraphAssumption
<1> USE DEF SourcesWithinBudget
<1>1. CASE PlannerPlans
  <2>1. UNCHANGED sources /\ left = 0 /\ Dispatch
    BY <1>0, <1>1 DEF PlannerPlans, MayPlan, Working, At
  <2>2. CASE UNCHANGED <<left, share>>
    BY <2>1, <2>2
  <2>3. CASE \E n \in Dispatches : left' = n /\ share' = Allowance(n)
    <3>1. PICK n \in Dispatches : left' = n /\ share' = Allowance(n)
      BY <2>3
    <3>2. n \in Nat \ {0} /\ n <= SourcesLeft /\ SourcesLeft \in Nat
      BY <1>0, GraphAssumption DEF Dispatches, SourcesLeft, GraphAssumption
    <3>3. n * (SourcesLeft \div n) <= SourcesLeft /\ SourcesLeft \div n \in Nat
      BY <3>2, SharesFit
    <3>4. left' * share'.sources <= SourcesLeft /\ left' * share'.sources \in Int
      BY <3>1, <3>2, <3>3 DEF Allowance
    <3> QED
      BY <1>0, <2>1, <3>4 DEF SourcesLeft
  <2> QED
    BY <2>1, <2>2, <2>3 DEF Dispatch
<1>2. CASE ResearcherFinds
  <2>1. PICK found \in 0..share.sources : sources' = sources + found
    BY <1>2 DEF ResearcherFinds
  <2>2. left' = left - 1 /\ UNCHANGED share /\ left >= 1
    BY <1>0, <1>2 DEF ResearcherFinds, Returns, At
  <2>3. (left - 1) * share.sources + share.sources = left * share.sources
    BY <1>0, OneShareLess
  <2>4. (left - 1) * share.sources \in Int /\ left * share.sources \in Int
    BY <1>0
  <2> QED
    BY <1>0, <2>1, <2>2, <2>3, <2>4
<1>3. CASE ResearcherFails \/ ResearcherSeesCancel
  <2>1. left' = left - 1 /\ UNCHANGED <<share, sources>>
    BY <1>3 DEF ResearcherFails, ResearcherSeesCancel, Returns, usage
  <2>2. (left - 1) * share.sources + share.sources = left * share.sources
    BY <1>0, OneShareLess
  <2>3. (left - 1) * share.sources \in Int /\ left * share.sources \in Int
    BY <1>0
  <2> QED
    BY <1>0, <2>1, <2>2, <2>3
<1>4. ASSUME UNCHANGED <<sources, left, share>>
      PROVE  SourcesWithinBudget'
  BY <1>4
<1> QED
  BY <1>1, <1>2, <1>3, <1>4
  DEF Next, Work, PlannerStops, PlannerGivesUp, Process, CriticPasses, CriticJudges,
      CriticGivesUp, Answerer, Synthesizer, Validator, NodeSeesCancel, Record, Resume,
      CancelRun, Fails, Done, vars, discovery, usage

-----------------------------------------------------------------------------
(* Endings *)

\* Every step keeps what is known where discovery or the run is over.
LEMMA EndingsStep ==
    ASSUME GraphAssumption, Basics, Endings, [Next]_vars
    PROVE  Endings'
<1>0. /\ phase \in {"running", "down", "done"} /\ node \in Nodes /\ stop \in Stops
      /\ repairs \in 0..1 /\ deep \in BOOLEAN
  BY DEF Basics, TypeOK, GraphAssumption, MaxRepairs
<1> USE <1>0 DEF Endings, NoSilentStop, At, Working, Cancelled, Goto, MaxRepairs, vars,
                 control, discovery, usage, writing, row
<1>1. CASE UNCHANGED vars
  BY <1>1
<1>2. CASE PlannerStops
  <2>1. stop' # "none"
    BY <1>2 DEF PlannerStops, KeepStop, EndOfRounds, LimitReached, Elapse
  <2> QED
    BY <1>2, <2>1 DEF PlannerStops
<1>3. CASE PlannerPlans
  <2>1. /\ node = "planner" /\ phase = "running" /\ UNCHANGED phase /\ Dispatch
        /\ plan' \in {"empty", "full"} /\ node' \in {"answerer", "researcher"}
    BY <1>3 DEF PlannerPlans, MayPlan, Dispatch
  <2>2. node' = "researcher" => plan' = "full"
    BY <2>1 DEF Dispatch
  <2>3. node' = "answerer" /\ stop' = "none" => plan' = "empty"
    <3>1. ~LimitReached(meter, TRUE)
      BY <1>3 DEF PlannerPlans, MayPlan, KeepStop, EndOfRounds
    <3>2. 1 \in Dispatches
      BY <3>1, SomethingToDispatch DEF Basics
    <3> QED
      BY <2>1, <3>2 DEF Dispatch
  <2> QED
    BY <2>1, <2>2, <2>3
<1>4. CASE PlannerGivesUp
  BY <1>4 DEF PlannerGivesUp, MayPlan, KeepStop
<1>5. CASE ResearcherFinds \/ ResearcherFails \/ ResearcherSeesCancel
  <2>1. node = "researcher" /\ phase = "running" /\ Returns
    BY <1>5 DEF ResearcherFinds, ResearcherFails, ResearcherSeesCancel
  <2> QED
    BY <2>1 DEF Returns
<1>6. CASE Process
  <2>1. PICK n \in DOMAIN After : node = n /\ node' = After[n] /\ phase' = "running"
    BY <1>6 DEF Process
  <2>2. UNCHANGED <<plan, critique, deep>> /\ (deep => node' # "answerer")
    BY <1>6, <2>1, AfterValues DEF Process
  <2> QED
    BY <2>1, <2>2, AfterValues
<1>7. CASE CriticPasses
  BY <1>7 DEF CriticPasses
<1>8. CASE CriticJudges
  <2>1. /\ node = "critic" /\ phase' = "running" /\ UNCHANGED <<plan, deep>>
        /\ node' \in {"answerer", "planner"}
        /\ node' = "answerer" => stop' # "none" \/ critique' = "enough"
    BY <1>8 DEF CriticJudges
  <2> QED
    BY <2>1
<1>9. CASE CriticGivesUp
  BY <1>9 DEF CriticGivesUp, KeepStop
<1>10. CASE Answerer
  BY <1>10 DEF Answerer, KeepStop
<1>11. CASE Synthesizer
  BY <1>11 DEF Synthesizer
<1>12. CASE Validator
  <2>1. /\ node = "validator" /\ phase' = "running" /\ stop # "cancelled" /\ report # NoReport
        /\ UNCHANGED <<report, stop, plan, critique, deep>>
        /\ check'.revision = report.revision
        /\ node' \in {"synthesizer", "end"}
    BY <1>12 DEF Validator, AfterValidation
  <2>2. report.revision = repairs /\ report.caveat = stop
    BY <2>1
  <2>3. node' = "end" => check'.passed \/ report.revision = 1
    BY <1>12, <2>2 DEF Validator, AfterValidation
  <2> QED
    BY <2>1, <2>2, <2>3
<1>13. CASE NodeSeesCancel
  <2>1. PICK n \in DOMAIN CancelRoute : node = n /\ node' = CancelRoute[n] /\ phase' = "running"
    BY <1>13 DEF NodeSeesCancel
  <2>2. UNCHANGED plan /\ stop' = "cancelled"
    BY <1>13 DEF NodeSeesCancel, KeepStop
  <2> QED
    BY <2>1, <2>2, AfterValues, CancelRouteValues DEF Nodes
<1>14. CASE Record \/ Resume \/ CancelRun \/ Fails \/ Done
  BY <1>14 DEF Record, Resume, CancelRun, Fails, Done
<1> QED
  BY <1>1, <1>2, <1>3, <1>4, <1>5, <1>6, <1>7, <1>8, <1>9, <1>10, <1>11, <1>12, <1>13,
     <1>14 DEF Next, Work

-----------------------------------------------------------------------------
(* The theorems *)

IInv == Basics /\ SourcesWithinBudget /\ Endings /\ Position

\* The five parts together are inductive.
LEMMA Inductive == Spec => []IInv
<1>1. Init => IInv
  BY InitHolds, GraphAssumption DEF IInv
<1>2. IInv /\ [Next]_vars => IInv'
  BY BasicsStep, SourcesStep, EndingsStep, PositionStep, GraphAssumption DEF IInv
<1> QED
  BY <1>1, <1>2, PTL DEF Spec

\* Every variable of the graph keeps its type, whatever the budget.
THEOREM TypeCorrect == Spec => []TypeOK
<1>1. IInv => TypeOK
  BY DEF IInv, Basics
<1> QED
  BY <1>1, Inductive, PTL

\* recursion_limit is never reached: its tail and its margin cover every path
\* through the graph, in every mode, for every number of rounds.
THEOREM RecursionLimitSuffices == Spec => []WithinRecursionLimit
<1>1. IInv => WithinRecursionLimit
  <2> SUFFICES ASSUME IInv
               PROVE  WithinRecursionLimit
    OBVIOUS
  <2>1. /\ {steps, iteration, MaxIterations} \subseteq Nat /\ repairs \in 0..1
        /\ node \in Nodes /\ MaxIterations >= 1 /\ iteration <= MaxIterations
        /\ RoundSteps \in {4, 7} /\ (deep => RoundSteps = 7)
    BY GraphAssumption
    DEF IInv, Basics, TypeOK, GraphAssumption, MaxRepairs, RoundSteps, Position
  <2>2. CASE RoundSteps = 4
    BY <2>1, <2>2 DEF IInv, Position, Nodes, WithinRecursionLimit, RecursionLimit, Margin,
                      TailSteps, MaxRepairs
  <2>3. CASE RoundSteps = 7
    BY <2>1, <2>3 DEF IInv, Position, Nodes, WithinRecursionLimit, RecursionLimit, Margin,
                      TailSteps, MaxRepairs
  <2> QED
    BY <2>1, <2>2, <2>3
<1> QED
  BY <1>1, Inductive, PTL

\* The shares allocate hands out never let a round pass the source ceiling.
THEOREM SharesNeverOverdrawn == Spec => []SourcesWithinBudget
<1>1. IInv => SourcesWithinBudget
  BY DEF IInv
<1> QED
  BY <1>1, Inductive, PTL

\* A run that returns has a report whose citations were checked as they are.
THEOREM ReportIsChecked == Spec => []ReturnsCheckedReport
<1>1. IInv => ReturnsCheckedReport
  BY DEF IInv, Endings, ReturnsCheckedReport
<1> QED
  BY <1>1, Inductive, PTL

\* That report carries the caveat of what ended discovery, and of nothing else.
THEOREM CaveatIsTheStops == Spec => []CaveatNamesTheStop
<1>1. IInv => CaveatNamesTheStop
  BY DEF IInv, Endings, CaveatNamesTheStop
<1> QED
  BY <1>1, Inductive, PTL

\* Discovery never ends early without a stop for the caveat to name.
THEOREM StopIsNeverSilent == Spec => []NoSilentStop
<1>1. IInv => NoSilentStop
  BY DEF IInv, Endings
<1> QED
  BY <1>1, Inductive, PTL

\* So a reader of any report that a run ends with knows whether, and by what,
\* its research was cut short.
THEOREM ReaderKnowsTheStop == Spec => []StopIsTold
BY CaveatIsTheStops, StopIsNeverSilent, PTL DEF StopIsTold

\* Once a stop is recorded no round starts and no researcher is sent out, not
\* even by the step that records it.
THEOREM StopEndsDiscovery == Spec => LimitEndsDiscovery
<1> DEFINE Keeps == stop' # "none" => left' <= left /\ (stop # "none" => iteration' = iteration)
<1>1. IInv /\ [Next]_vars => [Keeps]_vars
  <2> SUFFICES ASSUME IInv, [Next]_vars, stop' # "none"
               PROVE  left' <= left /\ (stop # "none" => iteration' = iteration)
    OBVIOUS
  <2>1. left \in Nat
    BY DEF IInv, Basics, TypeOK
  <2>2. CASE PlannerPlans
    BY <2>1, <2>2 DEF PlannerPlans, Dispatch, MayPlan, KeepStop
  <2>3. CASE ResearcherFinds \/ ResearcherFails \/ ResearcherSeesCancel
    BY <2>1, <2>3 DEF ResearcherFinds, ResearcherFails, ResearcherSeesCancel, Returns
  <2>4. ASSUME UNCHANGED <<left, iteration>>
        PROVE  left' <= left /\ iteration' = iteration
    BY <2>1, <2>4
  <2> QED
    BY <2>2, <2>3, <2>4
    DEF Next, Work, PlannerStops, PlannerGivesUp, Process, CriticPasses, CriticJudges,
        CriticGivesUp, Answerer, Synthesizer, Validator, NodeSeesCancel, Record, Resume,
        CancelRun, Fails, Done, vars, discovery
<1> QED
  BY <1>1, Inductive, PTL DEF Spec, LimitEndsDiscovery

\* Once the row says cancelled no node works any more: what the run has planned,
\* found, judged and written stays as it is.
THEOREM CancellationStopsWork == Spec => CancellationEndsWork
<1>1. [Next]_vars => [cancelled => UNCHANGED <<iteration, sources, queries, critique, writing>>]_vars
  <2> SUFFICES ASSUME [Next]_vars, cancelled
               PROVE  UNCHANGED <<iteration, sources, queries, critique, writing>>
    OBVIOUS
  <2>1. CASE UNCHANGED vars \/ Done \/ CancelRun \/ Fails \/ Record \/ Resume
    BY <2>1 DEF vars, Done, CancelRun, Fails, Record, Resume, discovery, usage
  <2>2. CASE ResearcherSeesCancel \/ ResearcherFails
    BY <2>2 DEF ResearcherSeesCancel, ResearcherFails, Returns, usage
  <2>3. CASE NodeSeesCancel
    BY <2>3 DEF NodeSeesCancel, discovery
  <2>4. ~(PlannerStops \/ PlannerPlans \/ PlannerGivesUp \/ ResearcherFinds \/ Process \/ CriticPasses
            \/ CriticJudges \/ CriticGivesUp \/ Answerer \/ Synthesizer \/ Validator)
    BY DEF PlannerStops, PlannerPlans, PlannerGivesUp, MayPlan, ResearcherFinds, Process, CriticPasses,
       CriticJudges, CriticGivesUp, Answerer, Synthesizer, Validator, Working, Cancelled
  <2> QED
    BY <2>1, <2>2, <2>3, <2>4 DEF Next, Work
<1> QED
  BY <1>1, PTL DEF Spec, CancellationEndsWork

-----------------------------------------------------------------------------
(* A run only goes forward *)

\* How far the run is from its end, its graph aside: down, running, over; a
\* cancelled run that is down is over.
Standing ==
    IF cancelled
      THEN IF phase = "running" THEN 0 ELSE 1
      ELSE CASE phase = "down" -> 0 [] phase = "running" -> 1 [] OTHER -> 2

\* The order of the nodes within a round and after the last.  The planner comes
\* after the critic: it ends its round, or begins the next.
NodeRank ==
    CASE node = "researcher" -> 1 [] node = "evidence" -> 2 [] node = "normalizer" -> 3
      [] node = "verifier" -> 4 [] node = "contradictions" -> 5 [] node = "critic" -> 6
      [] node = "planner" -> 7 [] node = "answerer" -> 8
      [] node = "synthesizer" -> 9 + 2 * repairs
      [] node = "validator" -> 10 + 2 * repairs
      [] OTHER -> 13

\* The graph has moved on: another round, a later node, or a researcher less.
Onward ==
    \/ iteration' > iteration
    \/ /\ iteration' = iteration
       /\ NodeRank' > NodeRank \/ (NodeRank' = NodeRank /\ left' < left)

\* The whole run has: the first of faults, cancellation, standing and graph that
\* changes goes forward.
Later ==
    \/ faults' > faults
    \/ faults' = faults /\ ~cancelled /\ cancelled'
    \/ /\ UNCHANGED <<faults, cancelled>>
       /\ Standing' > Standing \/ (Standing' = Standing /\ Onward)

\* There is only so far to go.
OnlySoFar ==
    /\ faults <= MaxFaults /\ iteration <= MaxIterations /\ left <= MaxSubtasks
    /\ Standing \in 0 .. 2 /\ NodeRank \in 1 .. 13

\* The ranks, node by node.
LEMMA Ranks ==
    ASSUME repairs \in 0 .. 1
    PROVE  /\ node = "researcher" => NodeRank = 1
           /\ node = "evidence" => NodeRank = 2
           /\ node = "normalizer" => NodeRank = 3
           /\ node = "verifier" => NodeRank = 4
           /\ node = "contradictions" => NodeRank = 5
           /\ node = "critic" => NodeRank = 6
           /\ node = "planner" => NodeRank = 7
           /\ node = "answerer" => NodeRank = 8
           /\ node = "synthesizer" => NodeRank = 9 + 2 * repairs
           /\ node = "validator" => NodeRank = 10 + 2 * repairs
           /\ node = "end" => NodeRank = 13
BY DEF NodeRank

\* They are the same for the next state.
LEMMA RanksNext ==
    ASSUME repairs' \in 0 .. 1
    PROVE  /\ node' = "researcher" => NodeRank' = 1
           /\ node' = "evidence" => NodeRank' = 2
           /\ node' = "normalizer" => NodeRank' = 3
           /\ node' = "verifier" => NodeRank' = 4
           /\ node' = "contradictions" => NodeRank' = 5
           /\ node' = "critic" => NodeRank' = 6
           /\ node' = "planner" => NodeRank' = 7
           /\ node' = "answerer" => NodeRank' = 8
           /\ node' = "synthesizer" => NodeRank' = 9 + 2 * repairs'
           /\ node' = "validator" => NodeRank' = 10 + 2 * repairs'
           /\ node' = "end" => NodeRank' = 13
BY DEF NodeRank

\* A superstep that is over leads to a later node, unless it begins a round.
LEMMA SuperstepsGoOn ==
    ASSUME IInv, Next, ~Done,
           ~(CancelRun \/ Fails \/ Record \/ Resume)
    PROVE  Onward /\ UNCHANGED <<phase, faults, cancelled>>
<1>1. repairs \in 0 .. 1 /\ repairs' \in 0 .. 1 /\ {iteration, left} \subseteq Nat
  <2>1. IInv'
    BY BasicsStep, SourcesStep, EndingsStep, PositionStep, GraphAssumption DEF IInv
  <2> QED
    BY <2>1 DEF IInv, Basics, TypeOK, MaxRepairs
<1>2. ASSUME NEW n, Goto(n)
      PROVE  node' = n /\ UNCHANGED <<phase, faults, cancelled>>
  BY <1>2 DEF Goto, row
<1> USE <1>1 DEF At, Working
<1>3. CASE PlannerPlans
  <2>1. iteration' = iteration + 1 /\ \E n : Goto(n)
    BY <1>3 DEF PlannerPlans, Dispatch
  <2> QED
    BY <1>2, <2>1 DEF Onward
<1>4. CASE PlannerStops \/ PlannerGivesUp
  <2>1. node = "planner" /\ Goto("answerer") /\ UNCHANGED iteration
    BY <1>4 DEF PlannerStops, PlannerGivesUp, MayPlan, discovery
  <2> QED
    BY <1>2, <2>1, Ranks, RanksNext DEF Onward
<1>5. CASE ResearcherFinds \/ ResearcherFails \/ ResearcherSeesCancel
  <2>1. node = "researcher" /\ Returns /\ UNCHANGED iteration
    BY <1>5 DEF ResearcherFinds, ResearcherFails, ResearcherSeesCancel, Returns
  <2>2. CASE left = 1
    <3>1. Goto("evidence")
      BY <2>1, <2>2 DEF Returns
    <3> QED
      BY <1>2, <2>1, <3>1, Ranks, RanksNext DEF Onward
  <2>3. CASE left # 1
    <3>1. left' = left - 1 /\ UNCHANGED <<control, row>>
      BY <2>1, <2>3 DEF Returns
    <3>2. node' = "researcher" /\ UNCHANGED <<phase, faults, cancelled>>
      BY <2>1, <3>1 DEF control, row
    <3> QED
      BY <2>1, <3>1, <3>2, Ranks, RanksNext DEF Onward
  <2> QED
    BY <2>2, <2>3
<1>6. ASSUME NEW n \in DOMAIN After, node = n, Goto(After[n]), UNCHANGED iteration
      PROVE  Onward
  <2>1. NodeRank' > NodeRank
    BY <1>2, <1>6, AfterValues, Ranks, RanksNext
  <2> QED
    BY <1>6, <2>1 DEF Onward
<1>7. CASE Process
  <2>1. PICK n \in DOMAIN After : node = n /\ Goto(After[n])
    BY <1>7 DEF Process
  <2>2. UNCHANGED iteration
    BY <1>7 DEF Process, discovery
  <2> QED
    BY <1>2, <1>6, <2>1, <2>2
<1>8. CASE CriticPasses \/ CriticJudges \/ CriticGivesUp
  <2>1. node = "critic" /\ UNCHANGED iteration /\ (Goto("answerer") \/ Goto("planner"))
    BY <1>8 DEF CriticPasses, CriticJudges, CriticGivesUp, discovery
  <2> QED
    BY <1>2, <2>1, Ranks, RanksNext DEF Onward
<1>9. CASE Answerer
  <2>1. node = "answerer" /\ UNCHANGED iteration /\ Goto("synthesizer")
    BY <1>9 DEF Answerer, discovery
  <2> QED
    BY <1>2, <2>1, Ranks, RanksNext DEF Onward
<1>10. CASE Synthesizer
  <2>1. node = "synthesizer" /\ UNCHANGED <<iteration, repairs>> /\ Goto("validator")
    BY <1>10 DEF Synthesizer, discovery
  <2> QED
    BY <1>2, <2>1, Ranks, RanksNext DEF Onward
<1>11. CASE Validator
  <2>1. node = "validator" /\ UNCHANGED iteration /\ Goto(AfterValidation(check', repairs'))
        /\ check'.revision = report.revision
        /\ repairs' \in {repairs, repairs + 1}
    BY <1>11 DEF Validator, discovery
  <2>2. report.revision = repairs
    BY <1>11 DEF Validator, IInv, Endings, Cancelled
  <2>3. CASE Goto("end")
    BY <1>2, <2>1, <2>3, Ranks, RanksNext DEF Onward
  <2>4. CASE Goto("synthesizer") /\ repairs' > repairs
    BY <1>2, <2>1, <2>4, Ranks, RanksNext DEF Onward
  <2> QED
    BY <2>1, <2>2, <2>3, <2>4 DEF AfterValidation
<1>12. CASE NodeSeesCancel
  <2>1. PICK n \in DOMAIN CancelRoute : node = n /\ Goto(CancelRoute[n])
    BY <1>12 DEF NodeSeesCancel
  <2>2. UNCHANGED <<iteration, repairs>>
    BY <1>12 DEF NodeSeesCancel, discovery, writing
  <2>3. CASE n \in DOMAIN After
    BY <1>2, <1>6, <2>1, <2>2, <2>3, CancelRouteValues
  <2>4. CASE n \in {"planner", "critic", "validator"}
    BY <1>2, <2>1, <2>2, <2>4, CancelRouteValues, Ranks, RanksNext DEF Onward
  <2>5. CASE n \in {"answerer", "synthesizer"}
    BY <1>2, <2>1, <2>2, <2>5, CancelRouteValues, Ranks, RanksNext DEF Onward
  <2>6. DOMAIN CancelRoute \subseteq DOMAIN After \cup {"planner", "critic", "validator", "answerer", "synthesizer"}
    BY CancelRouteValues, AfterValues DEF Nodes
  <2> QED
    BY <2>3, <2>4, <2>5, <2>6
<1> QED
  BY <1>3, <1>4, <1>5, <1>7, <1>8, <1>9, <1>10, <1>11, <1>12 DEF Next, Work

\* The steps that are not the graph's: a fault, a cancellation, an end, a
\* resumption.
LEMMA OtherStepsGoOn ==
    ASSUME TypeOK, CancelRun \/ Fails \/ Record \/ Resume
    PROVE  Later
<1>1. CASE CancelRun
  BY <1>1 DEF CancelRun, control, Later
<1>2. CASE Fails
  <2>1. CASE faults' = faults + 1
    BY <2>1 DEF Later, TypeOK
  <2>2. CASE cancelled /\ UNCHANGED faults
    BY <1>2, <2>2 DEF Fails, row, Later, Standing
  <2> QED
    BY <1>2, <2>1, <2>2 DEF Fails
<1>3. CASE Record
  BY <1>3 DEF Record, row, Later, Standing
<1>4. CASE Resume
  BY <1>4 DEF Resume, row, Later, Standing
<1> QED
  BY <1>1, <1>2, <1>3, <1>4

\* No step takes a run back, and it has only so far to go: whatever the plans,
\* verdicts, repairs, failures and restarts, a run takes finitely many steps.
THEOREM RunsOnlyGoForward == Spec => []OnlySoFar /\ [][Later]_vars
<1>1. Init => faults <= MaxFaults /\ left <= MaxSubtasks
  BY GraphAssumption DEF Init, GraphAssumption
<1>2. (faults <= MaxFaults /\ left <= MaxSubtasks) /\ IInv /\ [Next]_vars
        => (faults <= MaxFaults /\ left <= MaxSubtasks)'
  <2> SUFFICES ASSUME faults <= MaxFaults, left <= MaxSubtasks, IInv, [Next]_vars
               PROVE  faults' <= MaxFaults /\ left' <= MaxSubtasks
    OBVIOUS
  <2>1. {faults, left, MaxFaults, MaxSubtasks} \subseteq Nat
    BY GraphAssumption DEF GraphAssumption, IInv, Basics, TypeOK
  <2>2. CASE PlannerPlans
    <3>1. UNCHANGED faults /\ (UNCHANGED left \/ left' \in Dispatches)
      BY <2>2 DEF PlannerPlans, Dispatch, Goto
    <3> QED
      BY <2>1, <3>1 DEF Dispatches
  <2>3. CASE ResearcherFinds \/ ResearcherFails \/ ResearcherSeesCancel
    <3>1. left' = left - 1 /\ UNCHANGED faults
      BY <2>3 DEF ResearcherFinds, ResearcherFails, ResearcherSeesCancel, Returns, Goto, control
    <3> QED
      BY <2>1, <3>1
  <2>4. CASE Fails
    BY <2>1, <2>4 DEF Fails, discovery
  <2>5. CASE UNCHANGED <<faults, left>>
    BY <2>5
  <2> QED
    BY <2>2, <2>3, <2>4, <2>5
    DEF Next, Work, PlannerStops, PlannerGivesUp, MayPlan, Process, CriticPasses, CriticJudges,
        CriticGivesUp, Answerer, Synthesizer, Validator, NodeSeesCancel, Record, Resume,
        CancelRun, Done, Goto, vars, control, discovery
<1>3. IInv /\ faults <= MaxFaults /\ left <= MaxSubtasks => OnlySoFar
  <2> SUFFICES ASSUME IInv, faults <= MaxFaults, left <= MaxSubtasks
               PROVE  OnlySoFar
    OBVIOUS
  <2>1. iteration <= MaxIterations /\ repairs \in 0 .. 1 /\ node \in Nodes
    BY DEF IInv, Position, Basics, TypeOK, MaxRepairs
  <2>2. NodeRank \in 1 .. 13
    BY <2>1, Ranks DEF Nodes
  <2>3. Standing \in 0 .. 2
    BY DEF Standing
  <2> QED
    BY <2>1, <2>2, <2>3 DEF OnlySoFar
<1>4. IInv /\ [Next]_vars => [Later]_vars
  <2> SUFFICES ASSUME IInv, Next, ~Done PROVE Later
    BY DEF Done
  <2>1. CASE CancelRun \/ Fails \/ Record \/ Resume
    BY <2>1, OtherStepsGoOn DEF IInv, Basics
  <2>2. CASE ~(CancelRun \/ Fails \/ Record \/ Resume)
    <3>1. Onward /\ UNCHANGED <<phase, faults, cancelled>>
      BY <2>2, SuperstepsGoOn
    <3>2. Standing' = Standing
      BY <3>1 DEF Standing
    <3> QED
      BY <3>1, <3>2 DEF Later
  <2> QED
    BY <2>1, <2>2
<1> QED
  BY <1>1, <1>2, <1>3, <1>4, Inductive, PTL DEF Spec

\* Where some step of the graph or the runner can be taken: an invocation is to
\* be resumed or its result recorded, or the next node has what it asks for.
CanGoOn ==
    \/ phase = "down" /\ ~cancelled
    \/ phase = "running" /\ node = "end"
    \/ \E n \in Nodes \ {"end"} :
         /\ At(n)
         /\ n = "researcher" => left >= 1
         /\ n = "validator" /\ ~Cancelled => report # NoReport

\* A run that is not over can go on: no invocation runs into the recursion limit,
\* and the validator never finds itself without a report.
THEOREM NoRunGetsStuck == Spec => [](~Over => CanGoOn)
<1>1. IInv /\ WithinRecursionLimit => (~Over => CanGoOn)
  <2> SUFFICES ASSUME IInv, WithinRecursionLimit, ~Over, phase = "running", node # "end"
               PROVE  CanGoOn
    BY DEF Over, CanGoOn, IInv, Basics, TypeOK
  <2>1. node \in Nodes \ {"end"}
    BY DEF IInv, Basics, TypeOK
  <2>2. At(node)
    <3>1. steps \in Nat /\ RecursionLimit \in Nat
      BY GraphAssumption DEF GraphAssumption, IInv, Basics, TypeOK, RecursionLimit, RoundSteps, TailSteps,
         MaxRepairs, Margin
    <3> QED
      BY <3>1 DEF At, WithinRecursionLimit, Margin
  <2>3. node = "researcher" => left >= 1
    BY DEF IInv, Basics, Round
  <2>4. node = "validator" /\ ~Cancelled => report # NoReport
    <3> SUFFICES ASSUME node = "validator", ~Cancelled PROVE report # NoReport
      OBVIOUS
    <3>1. report.revision = repairs /\ repairs \in 0 .. 1
      BY DEF IInv, Endings, Cancelled, Basics, TypeOK, MaxRepairs
    <3> QED
      BY <3>1 DEF NoReport
  <2> QED
    BY <2>1, <2>2, <2>3, <2>4 DEF CanGoOn
<1> QED
  BY <1>1, Inductive, RecursionLimitSuffices, PTL

-----------------------------------------------------------------------------
(* The bar *)

\* A graph whose supersteps are reported is the graph: whatever is shown of
\* ResearchGraph holds of it.
THEOREM ReportedGraphIsTheGraph == ProgressSpec => Spec
<1>1. ProgressInit => Init
  BY DEF ProgressInit
<1>2. [ProgressNext]_progressVars => [Next]_vars
  BY DEF ProgressNext, progressVars, GraphGoesOn, Advances, LosesRow, Ends, Completes, Cancels, Next
<1> QED
  BY <1>1, <1>2, PTL DEF ProgressSpec, Spec

\* Division keeps the order.
LEMMA DivisionKeepsOrder ==
    ASSUME NEW a \in Nat, NEW b \in Nat, NEW d \in Nat \ {0}, a <= b
    PROVE  a \div d \in Nat /\ b \div d \in Nat /\ a \div d <= b \div d
<1>1. /\ a \div d \in Nat /\ b \div d \in Nat
      /\ d * (a \div d) <= a /\ b < d * (b \div d) + d
  OBVIOUS
<1>2. SUFFICES ASSUME NEW x \in Nat, NEW y \in Nat, d * x < d * y + d
               PROVE  x <= y
  BY <1>1
<1>3. SUFFICES ASSUME x >= y + 1
               PROVE  FALSE
  OBVIOUS
<1>4. d * x >= d * (y + 1) /\ d * (y + 1) = d * y + d
  BY <1>3
<1> QED
  BY <1>2, <1>4

\* Within the band, the bar follows the position.
LEMMA BandKeepsOrder ==
    ASSUME GraphAssumption, NEW p \in Nat, NEW q \in Nat, p <= q
    PROVE  InBand(p) \in 0 .. 70 /\ InBand(q) \in 0 .. 70 /\ InBand(p) <= InBand(q)
<1> DEFINE d == 200 * MaxIterations
           n(x) == 2 * (65 * x) + 100 * MaxIterations
<1>1. d \in Nat \ {0} /\ n(p) \in Nat /\ n(q) \in Nat /\ n(p) <= n(q) /\ 2 * (100 * MaxIterations) = d
  BY DEF GraphAssumption
<1>2. n(p) \div d \in Nat /\ n(q) \div d \in Nat /\ n(p) \div d <= n(q) \div d
  <2> HIDE DEF d, n
  <2> QED
    BY <1>1, DivisionKeepsOrder
<1>3. /\ Rounded((Ceiling - Floor) * p, 100 * MaxIterations) = n(p) \div d
      /\ Rounded((Ceiling - Floor) * q, 100 * MaxIterations) = n(q) \div d
  BY <1>1 DEF Rounded, Ceiling, Floor
<1> HIDE DEF d, n
<1> QED
  BY <1>2, <1>3 DEF InBand, Ceiling, Floor

\* The positions of one round, and of the next.
LEMMA BandOrder ==
    ASSUME GraphAssumption, NEW k \in Nat
    PROVE  /\ InBand(100 * k) \in 0 .. 70 /\ InBand(100 * k + 0) = InBand(100 * k)
           /\ InBand(100 * k + 35) \in 0 .. 70 /\ InBand(100 * k) <= InBand(100 * k + 35)
           /\ InBand(100 * k + 55) \in 0 .. 70 /\ InBand(100 * k + 35) <= InBand(100 * k + 55)
           /\ InBand(100 * k + 65) \in 0 .. 70 /\ InBand(100 * k + 55) <= InBand(100 * k + 65)
           /\ InBand(100 * k + 80) \in 0 .. 70 /\ InBand(100 * k + 65) <= InBand(100 * k + 80)
           /\ InBand(100 * k + 88) \in 0 .. 70 /\ InBand(100 * k + 80) <= InBand(100 * k + 88)
           /\ InBand(100 * k + 95) \in 0 .. 70 /\ InBand(100 * k + 88) <= InBand(100 * k + 95)
           /\ InBand(100 * (k + 1)) \in 0 .. 70 /\ InBand(100 * k + 95) <= InBand(100 * (k + 1))
<1>1. /\ 100 * k \in Nat /\ 100 * k + 0 = 100 * k
      /\ 100 * k + 95 <= 100 * (k + 1) /\ 100 * (k + 1) \in Nat
  OBVIOUS
<1>2. InBand(100 * k) \in 0 .. 70 /\ InBand(100 * k + 35) \in 0 .. 70 /\ InBand(100 * k) <= InBand(100 * k + 35)
  <2>1. 100 * k \in Nat /\ 100 * k + 35 \in Nat /\ 100 * k <= 100 * k + 35
    BY <1>1
  <2> QED
    BY <2>1, BandKeepsOrder
<1>3. InBand(100 * k + 35) \in 0 .. 70 /\ InBand(100 * k + 55) \in 0 .. 70 /\ InBand(100 * k + 35) <= InBand(100 * k + 55)
  <2>1. 100 * k + 35 \in Nat /\ 100 * k + 55 \in Nat /\ 100 * k + 35 <= 100 * k + 55
    BY <1>1
  <2> QED
    BY <2>1, BandKeepsOrder
<1>4. InBand(100 * k + 55) \in 0 .. 70 /\ InBand(100 * k + 65) \in 0 .. 70 /\ InBand(100 * k + 55) <= InBand(100 * k + 65)
  <2>1. 100 * k + 55 \in Nat /\ 100 * k + 65 \in Nat /\ 100 * k + 55 <= 100 * k + 65
    BY <1>1
  <2> QED
    BY <2>1, BandKeepsOrder
<1>5. InBand(100 * k + 65) \in 0 .. 70 /\ InBand(100 * k + 80) \in 0 .. 70 /\ InBand(100 * k + 65) <= InBand(100 * k + 80)
  <2>1. 100 * k + 65 \in Nat /\ 100 * k + 80 \in Nat /\ 100 * k + 65 <= 100 * k + 80
    BY <1>1
  <2> QED
    BY <2>1, BandKeepsOrder
<1>6. InBand(100 * k + 80) \in 0 .. 70 /\ InBand(100 * k + 88) \in 0 .. 70 /\ InBand(100 * k + 80) <= InBand(100 * k + 88)
  <2>1. 100 * k + 80 \in Nat /\ 100 * k + 88 \in Nat /\ 100 * k + 80 <= 100 * k + 88
    BY <1>1
  <2> QED
    BY <2>1, BandKeepsOrder
<1>7. InBand(100 * k + 88) \in 0 .. 70 /\ InBand(100 * k + 95) \in 0 .. 70 /\ InBand(100 * k + 88) <= InBand(100 * k + 95)
  <2>1. 100 * k + 88 \in Nat /\ 100 * k + 95 \in Nat /\ 100 * k + 88 <= 100 * k + 95
    BY <1>1
  <2> QED
    BY <2>1, BandKeepsOrder
<1>8. InBand(100 * k + 95) \in 0 .. 70 /\ InBand(100 * (k + 1)) \in 0 .. 70 /\ InBand(100 * k + 95) <= InBand(100 * (k + 1))
  <2>1. 100 * k + 95 \in Nat /\ 100 * (k + 1) \in Nat /\ 100 * k + 95 <= 100 * (k + 1)
    BY <1>1
  <2> QED
    BY <2>1, BandKeepsOrder
<1> QED
  BY <1>1, <1>2, <1>3, <1>4, <1>5, <1>6, <1>7, <1>8

\* What the bar has not passed when a node is next.
Before(n) ==
    IF n = "planner" THEN InBand(100 * iteration)
    ELSE IF n = "synthesizer" THEN IF repairs = 0 THEN 85 ELSE 92
    ELSE IF n = "end" THEN 100 ELSE ProgressFor(n)

BarBound ==
    /\ bar \in 0 .. 100 /\ before \in 0 .. 100
    /\ owed \in (Nodes \ {"end"}) \cup {"none"}
    /\ bar <= Before(node) \/ cancelled
    /\ owed # "none" =>
         /\ ProgressFor(owed) <= Before(node)
         /\ bar <= ProgressFor(owed) \/ GoesBack \/ cancelled
    /\ stop = "cancelled" => cancelled
    /\ phase = "done" => owed = "none"

\* A node has not passed the next one, in a round and after the last.
LEMMA NodesOrder ==
    ASSUME GraphAssumption, iteration \in Nat
    PROVE  /\ \A n \in {"planner", "researcher"} \cup DOMAIN After \cup {"critic"} :
                ProgressFor(n) \in 0 .. 70
           /\ \A n \in Nodes \ {"planner", "synthesizer", "end"} : Before(n) = ProgressFor(n)
           /\ ProgressFor("researcher") <= ProgressFor("evidence")
           /\ ProgressFor("evidence") <= ProgressFor("normalizer")
           /\ ProgressFor("normalizer") <= ProgressFor("verifier")
           /\ ProgressFor("verifier") <= ProgressFor("contradictions")
           /\ ProgressFor("contradictions") <= ProgressFor("critic")
           /\ Before("planner") \in 0 .. 70
           /\ iteration >= 1 => ProgressFor("critic") <= Before("planner")
           /\ ProgressFor("answerer") = 74 /\ ProgressFor("synthesizer") = 85
           /\ ProgressFor("validator") = 92
<1> DEFINE k == RoundsBehind
<1>1. k \in Nat /\ (iteration >= 1 => k + 1 = iteration)
  BY DEF RoundsBehind
<1>2. /\ ProgressFor("planner") = InBand(100 * k + 0)
      /\ ProgressFor("researcher") = InBand(100 * k + 35)
      /\ ProgressFor("evidence") = InBand(100 * k + 55)
      /\ ProgressFor("normalizer") = InBand(100 * k + 65)
      /\ ProgressFor("verifier") = InBand(100 * k + 80)
      /\ ProgressFor("contradictions") = InBand(100 * k + 88)
      /\ ProgressFor("critic") = InBand(100 * k + 95)
  BY DEF ProgressFor, RoundOffset, WritingProgress
<1>3. /\ ProgressFor("answerer") = 74 /\ ProgressFor("synthesizer") = 85
      /\ ProgressFor("validator") = 92
  BY DEF ProgressFor, WritingProgress
<1>4. Before("planner") = InBand(100 * iteration) /\ InBand(100 * iteration) \in 0 .. 70
  BY BandOrder DEF Before
<1>5. \A n \in Nodes \ {"planner", "synthesizer", "end"} : Before(n) = ProgressFor(n)
  BY DEF Before
<1>6. iteration >= 1 => InBand(100 * k + 95) <= InBand(100 * iteration)
  <2> SUFFICES ASSUME iteration >= 1 PROVE InBand(100 * k + 95) <= InBand(100 * iteration)
    OBVIOUS
  <2>1. InBand(100 * k + 95) <= InBand(100 * (k + 1)) /\ k + 1 = iteration
    BY <1>1, BandOrder
  <2> QED
    BY <2>1
<1> HIDE DEF k
<1> QED
  BY <1>1, <1>2, <1>3, <1>4, <1>5, <1>6, BandOrder, AfterValues

\* A superstep of n that leads to m.
LEMMA SuperstepKeepsBound ==
    ASSUME GraphAssumption, TypeOK, BarBound,
           NEW n \in Nodes \ {"end"}, NEW m \in Nodes,
           node = n, node' = m, owed' = n, UNCHANGED <<bar, before, cancelled, phase>>,
           phase = "running", stop' = "cancelled" => cancelled,
           ProgressFor(n)' <= Before(m)', bar <= Before(m)' \/ cancelled,
           bar <= ProgressFor(n)' \/ GoesBack' \/ cancelled
    PROVE  BarBound'
BY DEF BarBound, Nodes

\* The graph's own steps keep the bound.
LEMMA GraphKeepsBound ==
    ASSUME GraphAssumption, IInv, BarBound, GraphGoesOn
    PROVE  BarBound'
<1>1. /\ TypeOK /\ iteration \in Nat /\ repairs \in 0 .. 1 /\ owed = "none"
      /\ UNCHANGED <<bar, before>> /\ before \in 0 .. 100
      /\ bar \in 0 .. 100 /\ (bar <= Before(node) \/ cancelled) /\ (stop = "cancelled" => cancelled)
      /\ (node \notin {"planner", "answerer", "synthesizer", "validator", "end"} => iteration >= 1)
  BY DEF IInv, Basics, TypeOK, BarBound, GraphGoesOn, MaxRepairs, Position
<1>2. steps \in Nat
  BY <1>1 DEF TypeOK
<1>3. Before("answerer") = 74 /\ Before("validator") = 92 /\ Before("end") = 100
      /\ Before("answerer")' = 74 /\ Before("validator")' = 92 /\ Before("end")' = 100
      /\ Before("synthesizer")' \in {85, 92} /\ ProgressFor("validator")' = 92
      /\ ProgressFor("answerer")' = 74 /\ ProgressFor("synthesizer")' = 85
  BY DEF Before, ProgressFor, WritingProgress
<1>4. ASSUME UNCHANGED iteration
      PROVE  /\ \A n \in Nodes : ProgressFor(n)' = ProgressFor(n)
             /\ \A n \in Nodes \ {"synthesizer"} : Before(n)' = Before(n)
  BY <1>4 DEF ProgressFor, Before, RoundsBehind
<1> DEFINE Leads(n, m) ==
             /\ phase = "running" /\ node = n /\ Goto(m) /\ UNCHANGED iteration
             /\ stop' = "cancelled" => cancelled
<1>5. ASSUME NEW n \in Nodes \ {"end"}, NEW m \in Nodes, Leads(n, m),
             ProgressFor(n) <= Before(m)', bar <= Before(m)' \/ cancelled,
             bar <= ProgressFor(n) \/ GoesBack' \/ cancelled
      PROVE  BarBound'
  <2>1. owed' = n /\ node' = m /\ UNCHANGED <<cancelled, phase>>
    BY <1>2, <1>5 DEF GraphGoesOn, Goto, row
  <2>2. ProgressFor(n)' = ProgressFor(n)
    BY <1>4, <1>5
  <2> QED
    BY <1>1, <1>5, <2>1, <2>2, SuperstepKeepsBound
<1>6. CASE PlannerPlans
  <2>1. node = "planner" /\ iteration' = iteration + 1 /\ owed' = "planner" /\ phase' = "running"
        /\ node' \in {"answerer", "researcher"} /\ UNCHANGED <<repairs, cancelled>>
        /\ (stop' = "cancelled" => stop = "cancelled")
    BY <1>2, <1>6 DEF PlannerPlans, MayPlan, Working, At, Dispatch, Goto, GraphGoesOn, row,
        writing, KeepStop
  <2>2. /\ ProgressFor("planner")' = InBand(100 * iteration + 0)
        /\ ProgressFor("researcher")' = InBand(100 * iteration + 35)
        /\ Before("researcher")' = ProgressFor("researcher")'
        /\ Before("planner") = InBand(100 * iteration)
    BY <1>1, <2>1 DEF ProgressFor, RoundOffset, WritingProgress, RoundsBehind, Before
  <2>3. /\ InBand(100 * iteration) \in 0 .. 70 /\ InBand(100 * iteration + 35) \in 0 .. 70
        /\ InBand(100 * iteration + 0) = InBand(100 * iteration)
        /\ InBand(100 * iteration) <= InBand(100 * iteration + 35)
    BY <1>1, BandOrder
  <2>4. PICK m \in {"answerer", "researcher"} : node' = m
    BY <2>1
  <2>5. /\ bar <= ProgressFor("planner")' \/ cancelled
        /\ ProgressFor("planner")' <= Before(m)'
        /\ bar <= Before(m)' \/ cancelled
    BY <1>1, <1>3, <2>1, <2>2, <2>3
  <2>6. phase = "running" /\ "planner" \in Nodes \ {"end"} /\ m \in Nodes
    BY <1>6 DEF PlannerPlans, MayPlan, Working, At, Nodes
  <2> QED
    BY <1>1, <2>1, <2>4, <2>5, <2>6, SuperstepKeepsBound
<1>7. CASE PlannerStops \/ PlannerGivesUp
  <2>1. Leads("planner", "answerer") /\ stop' # "none"
    BY <1>1, <1>7 DEF PlannerStops, PlannerGivesUp, MayPlan, Working, At, discovery, KeepStop, EndOfRounds
  <2>2. GoesBack'
    BY <1>2, <2>1 DEF GoesBack, GraphGoesOn, Goto
  <2>3. ProgressFor("planner") \in 0 .. 70 /\ Before("planner") \in 0 .. 70
    BY <1>1, NodesOrder
  <2> QED
    BY <1>1, <1>3, <1>5, <2>1, <2>2, <2>3 DEF Nodes
<1>8. CASE ResearcherFinds \/ ResearcherFails \/ ResearcherSeesCancel
  <2>1. node = "researcher" /\ phase = "running" /\ UNCHANGED <<iteration, repairs>> /\ Returns
        /\ (stop' = "cancelled" => cancelled)
    BY <1>1, <1>8 DEF ResearcherFinds, ResearcherFails, ResearcherSeesCancel, Returns, At, writing, KeepStop
  <2>2. CASE Goto("evidence")
    <3>1. ProgressFor("researcher") <= ProgressFor("evidence") /\ Before("researcher") = ProgressFor("researcher")
          /\ Before("evidence") = ProgressFor("evidence") /\ Before("evidence")' = Before("evidence")
          /\ ProgressFor("researcher") \in 0 .. 70 /\ ProgressFor("evidence") \in 0 .. 70
      BY <1>1, <1>4, <2>1, NodesOrder, AfterValues DEF Nodes
    <3> QED
      BY <1>1, <1>5, <2>1, <2>2, <3>1 DEF Nodes
  <2>3. CASE UNCHANGED <<control, row>>
    <3>1. owed' = "none" /\ node' = node /\ Before("researcher")' = Before("researcher") /\ UNCHANGED cancelled
      BY <1>2, <1>4, <2>1, <2>3 DEF GraphGoesOn, control, row, Nodes
    <3> QED
      BY <1>1, <2>1, <3>1 DEF BarBound
  <2> QED
    BY <2>1, <2>2, <2>3 DEF Returns
<1>9. ASSUME NEW n \in DOMAIN After, NEW m, m = After[n], Leads(n, m)
      PROVE  BarBound'
  <2>1. n \in Nodes \ {"planner", "synthesizer", "end"} /\ m \in Nodes \ {"planner", "synthesizer", "end"}
    BY <1>9, AfterValues DEF Nodes
  <2>2. Before(n) = ProgressFor(n) /\ ProgressFor(n) \in 0 .. 70 /\ Before(m) = ProgressFor(m)
    <3>1. \A x \in Nodes \ {"planner", "synthesizer", "end"} : Before(x) = ProgressFor(x)
      BY ONLY GraphAssumption, <1>1, NodesOrder
    <3>2. \A x \in DOMAIN After : ProgressFor(x) \in 0 .. 70
      BY ONLY GraphAssumption, <1>1, NodesOrder
    <3> QED BY ONLY <1>9, <2>1, <3>1, <3>2
  <2>3. ProgressFor(n) <= ProgressFor(m) /\ ProgressFor(m) \in 0 .. 100
    BY <1>1, <1>9, <2>2, NodesOrder, AfterValues
  <2>4. Before(m)' = Before(m)
    BY <1>4, <1>9, <2>1
  <2> QED
    BY <1>1, <1>5, <1>9, <2>1, <2>2, <2>3, <2>4
<1>10. CASE Process
  <2>1. PICK n \in DOMAIN After : \E m : m = After[n] /\ Leads(n, m)
    BY <1>1, <1>10 DEF Process, Working, At, discovery, KeepStop
  <2> QED
    BY <1>9, <2>1
<1>11. ASSUME NEW m \in {"answerer", "planner"}, Leads("critic", m)
       PROVE  BarBound'
  <2>1. /\ Before("critic") = ProgressFor("critic") /\ ProgressFor("critic") \in 0 .. 70
        /\ ProgressFor("critic") <= Before("planner") /\ Before("planner")' = Before("planner")
        /\ Before("planner") \in 0 .. 70
    BY <1>1, <1>4, <1>11, NodesOrder DEF Nodes
  <2> QED
    BY <1>1, <1>3, <1>5, <1>11, <2>1 DEF Nodes
<1>12. CASE CriticPasses \/ CriticJudges \/ CriticGivesUp
  <2>1. Leads("critic", "answerer") \/ Leads("critic", "planner")
    BY <1>1, <1>12 DEF CriticPasses, CriticJudges, CriticGivesUp, Working, At, discovery,
        KeepStop, EndOfRounds
  <2> QED
    BY <1>11, <2>1
<1>13. CASE Answerer
  <2>1. Leads("answerer", "synthesizer") /\ ProgressFor("answerer") = 74
    BY <1>1, <1>13, NodesOrder DEF Answerer, Working, At, discovery, KeepStop
  <2> QED
    BY <1>1, <1>3, <1>5, <2>1 DEF Nodes
<1>14. CASE Synthesizer
  <2>1. Leads("synthesizer", "validator") /\ ProgressFor("synthesizer") = 85
        /\ report'.revision = repairs /\ owed' = "synthesizer"
    BY <1>1, <1>2, <1>14, NodesOrder DEF Synthesizer, Working, At, discovery, GraphGoesOn, Goto
  <2>2. bar <= 85 \/ GoesBack' \/ cancelled
    BY <1>1, <2>1 DEF GoesBack, Before
  <2>3. bar <= 92 \/ cancelled
    BY <1>1, <2>1 DEF Before
  <2> QED
    BY <1>1, <1>3, <1>5, <2>1, <2>2, <2>3 DEF Nodes
<1>15. CASE Validator
  <2>1. /\ ProgressFor("validator") = 92
        /\ \/ Leads("validator", "end")
           \/ Leads("validator", "synthesizer") /\ repairs' # 0
    BY <1>1, <1>15, NodesOrder DEF Validator, Working, At, discovery, AfterValidation,
        Cancelled, IInv, Endings
  <2>2. repairs' # 0 => Before("synthesizer")' = 92
    BY DEF Before
  <2> QED
    BY <1>1, <1>3, <1>5, <2>1, <2>2 DEF Nodes
<1>16. CASE NodeSeesCancel
  <2>1. PICK n \in DOMAIN CancelRoute :
          \E m : m = CancelRoute[n] /\ Leads(n, m) /\ cancelled /\ repairs' = repairs
    BY <1>1, <1>16 DEF NodeSeesCancel, Cancelled, At, discovery, writing, KeepStop
  <2>2. CASE n \in {"planner", "critic", "validator"}
    <3>1. CancelRoute[n] = "end" /\ ProgressFor(n) \in 0 .. 92
      BY <1>1, <2>2, CancelRouteValues, NodesOrder
    <3> QED
      BY <1>1, <1>3, <1>5, <2>1, <2>2, <3>1 DEF Nodes
  <2>3. CASE n = "answerer"
    BY <1>1, <1>3, <1>5, <2>1, <2>3, CancelRouteValues, NodesOrder DEF Nodes
  <2>4. CASE n = "synthesizer"
    <3>1. bar <= 92 \/ cancelled
      BY <1>1, <2>1, <2>4 DEF Before
    <3> QED
      BY <1>1, <1>3, <1>5, <2>1, <2>4, <3>1, CancelRouteValues, NodesOrder DEF Nodes
  <2>5. CASE n \in DOMAIN After
    BY <1>9, <2>1, <2>5, CancelRouteValues
  <2> QED
    BY <2>2, <2>3, <2>4, <2>5, CancelRouteValues, AfterValues DEF Nodes
<1>17. CASE Record \/ Resume
  <2>1. owed' = "none" /\ UNCHANGED <<node, iteration, repairs, stop, cancelled>>
    BY <1>2, <1>17 DEF Record, Resume, GraphGoesOn, discovery, writing, row
  <2>2. Before(node)' = Before(node)
    BY <2>1 DEF Before, ProgressFor, RoundsBehind
  <2> QED
    BY <1>1, <2>1, <2>2 DEF BarBound
<1> QED
  BY <1>6, <1>7, <1>8, <1>10, <1>12, <1>13, <1>14, <1>15, <1>16, <1>17 DEF GraphGoesOn, Work

\* Nor does the row's writer, or the end of an invocation, break it.
LEMMA BarStep ==
    ASSUME GraphAssumption, IInv, BarBound, [ProgressNext]_progressVars
    PROVE  BarBound'
<1>1. CASE GraphGoesOn
  BY <1>1, GraphKeepsBound
<1>2. ASSUME UNCHANGED <<iteration, repairs>>
      PROVE  \A n \in Nodes : ProgressFor(n)' = ProgressFor(n) /\ Before(n)' = Before(n)
  BY <1>2 DEF ProgressFor, Before, RoundsBehind
<1>3. node \in Nodes /\ (phase = "done" => node = "end") /\ iteration \in Nat
  BY DEF IInv, Basics, TypeOK, Endings
<1>4. CASE Advances
  <2>1. \A n \in Nodes \ {"end"} : ProgressFor(n) \in 0 .. 100
    BY <1>3, NodesOrder, AfterValues DEF Nodes
  <2> QED
    BY <1>2, <1>3, <1>4, <2>1 DEF Advances, BarBound, vars, control, discovery, writing, row
<1>5. CASE LosesRow \/ Ends
  BY <1>2, <1>3, <1>5 DEF LosesRow, Ends, Fails, BarBound, discovery, writing, row
<1>6. CASE Completes
  <2>1. node = "end" /\ Before("end")' = 100 /\ UNCHANGED <<owed, node, stop, cancelled, phase>>
    BY <1>3, <1>6 DEF Completes, Before, vars, control, row
  <2>2. owed = "none"
    BY <1>6 DEF Completes, BarBound
  <2> QED
    BY <1>2, <1>6, <2>1, <2>2 DEF Completes, BarBound
<1>7. CASE Cancels
  BY <1>2, <1>3, <1>7 DEF Cancels, CancelRun, BarBound, control, discovery, writing, GoesBack
<1>8. CASE UNCHANGED progressVars
  BY <1>2, <1>3, <1>8 DEF BarBound, progressVars, vars, control, discovery, writing, row, GoesBack
<1>9. CASE Done /\ UNCHANGED <<owed, bar, before>>
  BY <1>8, <1>9 DEF Done, progressVars
<1> QED
  BY <1>1, <1>4, <1>5, <1>6, <1>7, <1>8, <1>9 DEF ProgressNext

\* The bar is at most where the next node is, until the run is cancelled, and
\* where its last report was, except where it is set back.
LEMMA BarIsBound == ProgressSpec => []BarBound
<1>1. ProgressInit => BarBound
  <2> SUFFICES ASSUME ProgressInit PROVE BarBound
    OBVIOUS
  <2>1. Before("planner") \in 0 .. 70
    <3>1. iteration \in Nat
      BY DEF ProgressInit, Init
    <3> QED
      BY <3>1, GraphAssumption, NodesOrder
  <2> QED
    BY <2>1 DEF ProgressInit, Init, BarBound, Nodes
<1>2. IInv /\ BarBound /\ [ProgressNext]_progressVars => BarBound'
  BY BarStep, GraphAssumption
<1> QED
  BY <1>1, <1>2, Inductive, ReportedGraphIsTheGraph, PTL DEF ProgressSpec

\* For any number of rounds, the bar goes back only when a planner starts no
\* further round, when a draft is written again, and when a cancellation writes
\* back what its request had read.
THEOREM BarGoesBackNowhereElse == ProgressSpec => BarGoesBackOnlyThere
<1> DEFINE Back == bar' < bar => GoesBack \/ TakenBack
<1>1. IInv /\ BarBound /\ [ProgressNext]_progressVars => [Back]_progressVars
  <2> SUFFICES ASSUME IInv, BarBound, ProgressNext, bar' < bar
               PROVE  GoesBack \/ TakenBack
    BY DEF progressVars
  <2>1. bar \in 0 .. 100
    BY DEF BarBound
  <2>2. CASE Advances
    <3>1. owed # "none" /\ ~cancelled /\ bar' = ProgressFor(owed)
      BY <2>2 DEF Advances
    <3>2. owed \in Nodes \ {"end"} /\ iteration \in Nat
      BY <3>1 DEF BarBound, IInv, Basics, TypeOK
    <3>3. ProgressFor(owed) \in Nat
      BY <3>2, NodesOrder, GraphAssumption, AfterValues DEF Nodes
    <3> QED
      BY <2>1, <3>1, <3>3 DEF BarBound
  <2>3. CASE Completes
    BY <2>1, <2>3 DEF Completes
  <2>4. CASE Cancels
    BY <2>1, <2>4 DEF Cancels, CancelRun, TakenBack
  <2> QED
    BY <2>1, <2>2, <2>3, <2>4 DEF ProgressNext, GraphGoesOn, LosesRow, Ends
<1> QED
  BY <1>1, BarIsBound, Inductive, ReportedGraphIsTheGraph, PTL DEF ProgressSpec, BarGoesBackOnlyThere
=============================================================================
