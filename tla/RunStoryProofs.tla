--------------------------- MODULE RunStoryProofs ---------------------------
(* Theorems about RunStory, for any executions, any number of rounds and    *)
(* attempts, any replay window and buffer, and any number of faults; and    *)
(* about Ingestion, which extends it, for any files and any sizes: an       *)
(* execution that ingests first tells the story of RunStory, and what it    *)
(* counts as ingested is there once, and whole.  What is said of RunStory   *)
(* uses no definition and no assumption of Ingestion.                       *)
EXTENDS Ingestion, FiniteSetTheorems, NaturalsInduction, WellFoundedInduction, TLAPS

-----------------------------------------------------------------------------
(* The operators *)

\* The bounds are numbers.
LEMMA Bounds ==
  /\ Last \in Nat /\ Rounds \in Nat /\ Rounds < Last /\ 1 <= Last
  /\ Revisions \in Nat /\ 1 <= Revisions /\ Steps \in Nat /\ Steps = Last + Revisions
  /\ Window \in Nat /\ Buffer \in Nat /\ MaxFaults \in Nat
  BY BoundsAssumption DEF Last, Steps

\* A fault is counted within its bound.
LEMMA FaultBound ==
  ASSUME faults \in 0 .. MaxFaults, Fault
  PROVE  faults' \in 0 .. MaxFaults
  BY Bounds DEF Fault

\* A publication lengthens the log by its event and changes nothing in it.
LEMMA PublishAppends ==
  ASSUME log \in Seq(Events), NEW type \in {"fact"} \cup Endings,
         NEW fact \in 0 .. Last, NEW by \in Executions \cup {None},
         Publish(type, fact, by)
  PROVE  /\ log' \in Seq(Events)
         /\ Len(log') = Len(log) + 1
         /\ log'[Len(log) + 1] = Event(type, fact, by)
         /\ \A i \in 1 .. Len(log) : log'[i] = log[i]
<1>1. Event(type, fact, by) \in Events
  BY DEF Event, Events
<1>2. log' = Append(log, Event(type, fact, by))
  BY DEF Publish
<1> HIDE DEF Event, Events
<1> QED BY <1>1, <1>2

\* Publishing anything but a completion adds no completion.
LEMMA NoEndAdded ==
  ASSUME log \in Seq(Events), NEW type \in ({"fact"} \cup Endings) \ {"completed"},
         NEW fact \in 0 .. Last, NEW by \in Executions \cup {None},
         UNCHANGED log \/ Publish(type, fact, by),
         \E i \in 1 .. Len(log') : log'[i].type = "completed"
  PROVE  \E i \in 1 .. Len(log) : log[i].type = "completed"
<1>1. CASE UNCHANGED log
  BY <1>1
<1>2. CASE Publish(type, fact, by)
  <2>1. type \in {"fact"} \cup Endings /\ Len(log) \in Nat
    OBVIOUS
  <2>2. /\ Len(log') = Len(log) + 1
        /\ log'[Len(log) + 1] = Event(type, fact, by)
        /\ \A i \in 1 .. Len(log) : log'[i] = log[i]
    BY <1>2, <2>1, PublishAppends
  <2>3. log'[Len(log) + 1].type = type
    BY <2>2 DEF Event
  <2> QED BY <2>1, <2>2, <2>3
<1> QED BY <1>1, <1>2

\* An event of the log has the fields of one.
LEMMA EventFields ==
  ASSUME log \in Seq(Events), NEW i \in 1 .. Len(log)
  PROVE  /\ log[i].type \in {"fact"} \cup Endings
         /\ log[i].fact \in 0 .. Last
         /\ log[i].by \in Executions \cup {None}
<1>1. log[i] \in Events
  OBVIOUS
<1> QED BY <1>1 DEF Events

\* What a read returns are positions of the log.
LEMMA PagesAreOfTheLog ==
  ASSUME log \in Seq(Events), NEW page \in {FirstPage} \cup Fallbacks
  PROVE  page \subseteq 1 .. Len(log)
<1>1. Len(log) \in Nat
  OBVIOUS
<1> QED BY <1>1, Bounds DEF FirstPage, Fallbacks, Min2, Max2

\* What is left to announce are facts the cursor does not hold.
LEMMA UnsaidFacts ==
  ASSUME NEW e \in Executions, TypeOK
  PROVE  Unsaid(e) \subseteq Facts /\ Unsaid(e) \cap seen[e] = {}
<1>1. state[e] \in 0 .. Steps
  BY DEF TypeOK
<1> QED BY <1>1, Bounds DEF Unsaid, Facts

\* Recording a state takes no row away and no report but for another, and the
\* state the graph ends with leaves nothing to add.
LEMMA ProjectKeeps ==
  ASSUME reached \in 0 .. Last, valued \in 0 .. Steps, report \in 0 .. Revisions,
         NEW k \in 0 .. Steps, Project(k)
  PROVE  /\ reached' \in 0 .. Last /\ valued' \in 0 .. Steps /\ report' \in 0 .. Revisions
         /\ reached <= reached' /\ (report # 0 => report' # 0)
         /\ (report' = report \/ report' = ReportIn(k)) /\ (valued' = valued \/ valued' = k)
         /\ (k = Steps => reached' = Last /\ report' = Revisions /\ valued' = Steps)
  BY Bounds DEF Project, Upsert, Replace, ReportIn, Max2, Min2

-----------------------------------------------------------------------------
(* Types *)

\* At first nothing has happened.
LEMMA TypeInit == Init => TypeOK
<1> SUFFICES ASSUME Init PROVE TypeOK
  OBVIOUS
<1>1. /\ 0 \in 0 .. Last /\ 0 \in 0 .. Steps /\ 0 \in 0 .. Revisions
      /\ 0 \in 0 .. MaxFaults /\ 0 \in Nat
  BY Bounds
<1>2. row \in [status : {"waiting", "running"} \cup Endings,
               owner : Executions \cup {None}, attempts : Nat]
  BY DEF Init
<1>3. log \in Seq(Events)
  BY DEF Init
<1>4. /\ phase \in [Executions -> Phases] /\ attempt \in [Executions -> Nat]
      /\ start \in [Executions -> 0 .. Steps] /\ state \in [Executions -> 0 .. Steps]
      /\ held \in [Executions -> 0 .. Steps]
  BY <1>1 DEF Init, Phases
<1>5. /\ read \in [Executions -> SUBSET Nat] /\ due \in [Executions -> SUBSET Facts]
      /\ seen \in [Executions -> SUBSET (0 .. Last)]
  BY DEF Init
<1> QED BY <1>1, <1>2, <1>3, <1>4, <1>5 DEF Init, TypeOK

\* Each step of an execution keeps the types.
LEMMA TypeRuns ==
  ASSUME TypeOK, NEW e \in Executions,
         Runs(e) \/ RecordFails(e) \/ BriefFails(e) \/ Breaks(e) \/ Crash(e)
  PROVE  TypeOK'
<1> USE DEF TypeOK, rows
<1>1. CASE Claim(e)
  <2>1. faults' \in 0 .. MaxFaults
    BY <1>1, FaultBound DEF Claim
  <2>2. row.attempts + 1 \in Nat
    OBVIOUS
  <2>3. row' \in [status : {"waiting", "running"} \cup Endings,
                 owner : Executions \cup {None}, attempts : Nat]
    BY <1>1, <2>2 DEF Claim
  <2>4. phase' \in [Executions -> Phases] /\ attempt' \in [Executions -> Nat]
    BY <1>1, <2>2 DEF Claim, Goes, Phases
  <2>5. UNCHANGED <<cancel, start, read, log, lost, seen, due, checkpoint, rows, state, held>>
    BY <1>1 DEF Claim, story, work, rows
  <2> QED BY <2>1, <2>3, <2>4, <2>5
<1>2. CASE Prime(e)
  <2>1. PICK page \in {FirstPage} \cup Fallbacks :
          /\ IF page = FirstPage THEN UNCHANGED faults ELSE Fault
          /\ read' = [read EXCEPT ![e] = page]
          /\ seen' = [seen EXCEPT ![e] = FactsIn(page)]
    BY <1>2 DEF Prime
  <2>a. log \in Seq(Events)
    OBVIOUS
  <2>b. page \subseteq 1 .. Len(log)
    BY ONLY <2>a, PagesAreOfTheLog
  <2>2. page \subseteq 1 .. Len(log) /\ Len(log) \in Nat
    BY <2>a, <2>b
  <2>3. FactsIn(page) \subseteq 0 .. Last
    BY <2>2, EventFields DEF FactsIn
  <2>4. faults' \in 0 .. MaxFaults
    BY <2>1, FaultBound
  <2>5. read' \in [Executions -> SUBSET Nat] /\ seen' \in [Executions -> SUBSET (0 .. Last)]
    BY <2>1, <2>2, <2>3
  <2> QED BY <1>2, <2>4, <2>5 DEF Prime, Goes, Phases, lease, work, rows
<1>3. CASE Resume(e)
  BY <1>3 DEF Resume, Goes, Phases, lease, story
<1>4. CASE Superstep(e)
  <2>1. state[e] + 1 \in 0 .. Steps
    BY <1>4, Bounds DEF Superstep
  <2> QED BY <1>4, <2>1 DEF Superstep, Goes, Phases, lease, story
<1>5. CASE Advance(e)
  <2>1. due' \in [Executions -> SUBSET Facts]
    BY <1>5, UnsaidFacts DEF Advance
  <2>2. phase' \in [Executions -> Phases]
    <3>1. PICK p \in {"working", "lost"} : phase' = [phase EXCEPT ![e] = p]
      BY <1>5 DEF Advance, Goes
    <3>2. p \in Phases
      BY DEF Phases
    <3> QED BY <3>1, <3>2
  <2>3. UNCHANGED <<row, cancel, checkpoint, rows, state, held, attempt, start, read, log, lost,
                    seen, faults>>
    BY <1>5 DEF Advance, lease, work, rows
  <2> QED BY <2>1, <2>2, <2>3
<1>6. CASE Tell(e)
  <2>1. PICK f \in due[e] :
          /\ due' = [due EXCEPT ![e] = @ \ {f}]
          /\ seen' = [seen EXCEPT ![e] = @ \cup {f}]
          /\ \/ Publish("fact", f, e) /\ UNCHANGED <<lost, faults>>
             \/ lost' = lost \cup {f} /\ Fault /\ UNCHANGED log
    BY <1>6 DEF Tell
  <2>2. f \in Facts /\ f \in 0 .. Last
    BY Bounds DEF Facts
  <2>3. log' \in Seq(Events) /\ faults' \in 0 .. MaxFaults
    BY <2>1, <2>2, PublishAppends, FaultBound
  <2>4. due' \in [Executions -> SUBSET Facts] /\ seen' \in [Executions -> SUBSET (0 .. Last)]
    BY <2>1, <2>2
  <2>5. lost' \subseteq Facts
    BY <2>1, <2>2
  <2>6. UNCHANGED <<row, cancel, checkpoint, rows, state, held, phase, attempt, start, read>>
    BY <1>6 DEF Tell, lease, work, rows
  <2> QED BY <2>3, <2>4, <2>5, <2>6
<1>7. CASE Record(e)
  BY <1>7, ProjectKeeps DEF Record, Goes, Phases, lease, story
<1>8. CASE Reread(e)
  BY <1>8 DEF Reread, Goes, Phases, lease, story
<1>9. CASE Salvage(e)
  BY <1>9, ProjectKeeps, FaultBound DEF Salvage, Goes, Phases, lease, story
<1>10. CASE Release(e)
  BY <1>10 DEF Release, Goes, Phases, work, rows, story
<1>11. CASE GiveUp(e)
  BY <1>11 DEF GiveUp, Ends, Endings, Goes, Phases, work, rows, story
<1>12. CASE CheckEnd(e)
  BY <1>12, FaultBound DEF CheckEnd, Goes, Phases, lease, work, rows, story
<1>13. CASE AnnounceFailure(e)
  <2>1. log' \in Seq(Events) /\ faults' \in 0 .. MaxFaults
    <3>1. (Publish("failed", 0, e) /\ UNCHANGED faults) \/ (Fault /\ UNCHANGED log)
      BY <1>13 DEF AnnounceFailure
    <3>2. "failed" \in {"fact"} \cup Endings
      BY DEF Endings
    <3>a. 0 \in 0 .. Last
      BY Bounds
    <3>3. ASSUME Publish("failed", 0, e) PROVE log' \in Seq(Events)
      BY <3>2, <3>a, <3>3, PublishAppends
    <3> QED BY <3>1, <3>3, FaultBound
  <2>2. phase' \in [Executions -> Phases]
    BY <1>13 DEF AnnounceFailure, Goes, Phases
  <2>3. UNCHANGED <<row, cancel, checkpoint, rows, state, held, attempt, start, read, lost, seen, due>>
    BY <1>13 DEF AnnounceFailure, lease, work, rows
  <2> QED BY <2>1, <2>2, <2>3
<1>14. CASE Finish(e)
  BY <1>14 DEF Finish, Ends, Endings, Goes, Phases, work, rows, story
<1>15. CASE AnnounceCompletion(e)
  <2>1. log' \in Seq(Events) /\ faults' \in 0 .. MaxFaults
    <3>1. (Publish("completed", 0, e) /\ UNCHANGED faults) \/ (Fault /\ UNCHANGED log)
      BY <1>15 DEF AnnounceCompletion
    <3>2. "completed" \in {"fact"} \cup Endings
      BY DEF Endings
    <3>a. 0 \in 0 .. Last
      BY Bounds
    <3>3. ASSUME Publish("completed", 0, e) PROVE log' \in Seq(Events)
      BY <3>2, <3>a, <3>3, PublishAppends
    <3> QED BY <3>1, <3>3, FaultBound
  <2>2. phase' \in [Executions -> Phases]
    BY <1>15 DEF AnnounceCompletion, Goes, Phases
  <2>3. UNCHANGED <<row, cancel, checkpoint, rows, state, held, attempt, start, read, lost, seen, due>>
    BY <1>15 DEF AnnounceCompletion, lease, work, rows
  <2> QED BY <2>1, <2>2, <2>3
<1>16. CASE RecordFails(e)
  BY <1>16, FaultBound DEF RecordFails, Goes, Phases, lease, work, rows, story
<1>17. CASE Breaks(e)
  BY <1>17, FaultBound DEF Breaks, Goes, Phases, lease, work, rows, story
<1>19. CASE BriefFails(e)
  BY <1>19, FaultBound DEF BriefFails, Goes, Phases, lease, work, rows, story
<1>18. CASE Crash(e)
  BY <1>18, FaultBound DEF Crash, Goes, Phases, lease, work, rows, story
<1> QED BY <1>1, <1>2, <1>3, <1>4, <1>5, <1>6, <1>7, <1>8, <1>9, <1>10, <1>11,
           <1>12, <1>13, <1>14, <1>15, <1>16, <1>17, <1>18, <1>19 DEF Runs, Works

\* So does each step of the request that cancels, and a file's failure.
LEMMA TypeCancels ==
  ASSUME TypeOK, FileFails \/ CancelReads \/ Cancels \/ CancelRollsBack
  PROVE  TypeOK'
<1> USE DEF TypeOK
<1>1. CASE CancelReads
  BY <1>1 DEF CancelReads, work, rows, story
<1>2. CASE CancelWrites
  BY <1>2 DEF CancelWrites, work, rows, story
<1>3. CASE CancelTells
  <2>1. log' \in Seq(Events)
    BY <1>3, PublishAppends, Bounds DEF CancelTells, Endings
  <2> QED BY <1>3, <2>1 DEF CancelTells, work, rows
<1>4. CASE CancelCommits
  BY <1>4 DEF CancelCommits, Endings, work, rows, story
<1>5. CASE CancelRollsBack
  BY <1>5, FaultBound DEF CancelRollsBack, work, rows, story
<1>6. CASE FileFails
  BY <1>6, FaultBound DEF FileFails, lease, work, rows, story
<1> QED BY <1>1, <1>2, <1>3, <1>4, <1>5, <1>6 DEF Cancels

\* TypeOK is inductive.
LEMMA TypeStep == TypeOK /\ [Next]_vars => TypeOK'
<1> SUFFICES ASSUME TypeOK, [Next]_vars PROVE TypeOK'
  OBVIOUS
<1>1. CASE Next
  BY <1>1, TypeRuns, TypeCancels DEF Next
<1>2. CASE UNCHANGED vars
  BY <1>2 DEF TypeOK, vars
<1> QED BY <1>1, <1>2

\* The row, the log and every execution keep their types (TypeOK), whatever
\* fails and whoever takes the run over.
THEOREM TypeCorrect == Spec => []TypeOK
BY TypeInit, TypeStep, PTL DEF Spec

-----------------------------------------------------------------------------
(* What an execution has read it does not repeat *)

Early == {"idle", "claimed"}

\* The cursor holds every fact its execution read or told, and only an
\* execution that has read the log tells any.
CursorInv ==
    /\ \A e \in Executions : read[e] \subseteq 1 .. Len(log)
    /\ \A i \in 1 .. Len(log) : log[i].type = "fact" => log[i].by \in Executions
    /\ \A e \in Executions : phase[e] \in Early =>
         /\ read[e] = {} /\ due[e] = {}
         /\ \A i \in 1 .. Len(log) : log[i].type = "fact" => log[i].by # e
    /\ \A e \in Executions : phase[e] \notin Early =>
         \A i \in 1 .. Len(log) :
            (log[i].type = "fact" /\ (i \in read[e] \/ log[i].by = e))
               => log[i].fact \in seen[e]
    /\ \A e \in Executions : due[e] \cap seen[e] = {}
    /\ NeverRepeatsWhatItRead

\* No one begins again.
NoneBeginsAgain ==
    \A x \in Executions : phase'[x] \in Early => phase[x] \in Early

\* A step that leaves log and cursors alone keeps the invariant.
LEMMA CursorQuiet ==
  ASSUME CursorInv, UNCHANGED <<log, read, seen, due>>, NoneBeginsAgain
  PROVE  CursorInv'
BY DEF CursorInv, NoneBeginsAgain, NeverRepeatsWhatItRead

\* So does one that publishes an end.
LEMMA CursorEnding ==
  ASSUME TypeOK, CursorInv, UNCHANGED <<read, seen, due>>, NoneBeginsAgain,
         NEW type \in Endings, NEW by \in Executions \cup {None},
         Publish(type, 0, by)
  PROVE  CursorInv'
<1>1. /\ Len(log) \in Nat /\ Len(log') = Len(log) + 1
      /\ log'[Len(log) + 1] = Event(type, 0, by)
      /\ \A i \in 1 .. Len(log) : log'[i] = log[i]
  <2>1. log \in Seq(Events) /\ 0 \in 0 .. Last /\ Len(log) \in Nat
    BY Bounds DEF TypeOK
  <2>2. type \in {"fact"} \cup Endings
    OBVIOUS
  <2>3. Publish(type, 0, by)
    OBVIOUS
  <2>4. /\ Len(log') = Len(log) + 1
        /\ log'[Len(log) + 1] = Event(type, 0, by)
        /\ \A i \in 1 .. Len(log) : log'[i] = log[i]
    BY ONLY <2>1, <2>2, <2>3, PublishAppends
  <2> QED BY <2>1, <2>4
<1>2. log'[Len(log) + 1].type # "fact"
  BY <1>1 DEF Event, Endings
<1>3. \A i \in 1 .. Len(log') : log'[i].type = "fact" => i \in 1 .. Len(log) /\ log'[i] = log[i]
  BY <1>1, <1>2
<1>4. NeverRepeatsWhatItRead'
  BY <1>3 DEF CursorInv, NeverRepeatsWhatItRead
<1>5. \A e \in Executions : read'[e] \subseteq 1 .. Len(log')
  BY <1>1 DEF CursorInv
<1> QED BY <1>3, <1>4, <1>5 DEF CursorInv, NoneBeginsAgain

\* The prime fills an empty cursor from the page it reads.
LEMMA CursorPrime ==
  ASSUME TypeOK, CursorInv, NEW e \in Executions, Prime(e)
  PROVE  CursorInv'
<1>1. PICK page \in {FirstPage} \cup Fallbacks :
        read' = [read EXCEPT ![e] = page] /\ seen' = [seen EXCEPT ![e] = FactsIn(page)]
  BY DEF Prime
<1>2. page \subseteq 1 .. Len(log)
  <2>1. log \in Seq(Events)
    BY DEF TypeOK
  <2> QED BY ONLY <2>1, PagesAreOfTheLog
<1>3. UNCHANGED <<log, due>> /\ phase[e] = "claimed" /\ phase' = [phase EXCEPT ![e] = "primed"]
  BY DEF Prime, Goes
<1>4. /\ read'[e] = page /\ seen'[e] = FactsIn(page) /\ phase'[e] = "primed"
      /\ \A x \in Executions \ {e} : read'[x] = read[x] /\ seen'[x] = seen[x] /\ phase'[x] = phase[x]
  BY <1>1, <1>3 DEF TypeOK
<1>5. /\ due[e] = {}
      /\ \A i \in 1 .. Len(log) : log[i].type = "fact" => log[i].by # e
  BY <1>3 DEF CursorInv, Early
<1>6. \A i \in 1 .. Len(log) : (log[i].type = "fact" /\ i \in page) => log[i].fact \in FactsIn(page)
  BY DEF FactsIn
<1>7. NeverRepeatsWhatItRead'
  BY <1>3, <1>4, <1>5 DEF CursorInv, NeverRepeatsWhatItRead
<1>8. \A x \in Executions : phase'[x] \in Early => x # e /\ phase[x] \in Early
  BY <1>4 DEF Early
<1>9. \A x \in Executions : due'[x] \cap seen'[x] = {}
  BY <1>3, <1>4, <1>5 DEF CursorInv
<1>10. \A x \in Executions : read'[x] \subseteq 1 .. Len(log')
  BY <1>2, <1>3, <1>4 DEF CursorInv
<1>11. ASSUME NEW x \in Executions, phase'[x] \notin Early,
              NEW i \in 1 .. Len(log'), log'[i].type = "fact",
              i \in read'[x] \/ log'[i].by = x
       PROVE  log'[i].fact \in seen'[x]
  <2>1. CASE x = e
    BY <1>3, <1>4, <1>5, <1>6, <1>11, <2>1
  <2>2. CASE x # e
    BY <1>3, <1>4, <1>11, <2>2 DEF CursorInv
  <2> QED BY <2>1, <2>2
<1>12. \A x \in Executions : phase'[x] \in Early =>
         /\ read'[x] = {} /\ due'[x] = {}
         /\ \A i \in 1 .. Len(log') : log'[i].type = "fact" => log'[i].by # x
  BY <1>3, <1>4, <1>8 DEF CursorInv
<1>13. \A i \in 1 .. Len(log') : log'[i].type = "fact" => log'[i].by \in Executions
  BY <1>3 DEF CursorInv
<1> QED BY <1>7, <1>9, <1>10, <1>11, <1>12, <1>13 DEF CursorInv

\* What is due is what the cursor lacks.
LEMMA CursorAdvance ==
  ASSUME TypeOK, CursorInv, NEW e \in Executions, Advance(e)
  PROVE  CursorInv'
<1>1. UNCHANGED <<log, read, seen>> /\ phase[e] = "stepped"
  BY DEF Advance, lease, work, rows
<1>2. \A x \in Executions : due'[x] = due[x] \/ (x = e /\ due'[x] = Unsaid(e))
  BY DEF Advance, TypeOK
<1>3. \A x \in Executions : phase'[x] = phase[x] \/ (x = e /\ phase'[x] \notin Early)
  <2>1. PICK p \in {"working", "lost"} : phase' = [phase EXCEPT ![e] = p]
    BY DEF Advance, Goes
  <2>2. p \notin Early
    BY DEF Early
  <2> QED BY <2>1, <2>2 DEF TypeOK
<1>4. phase[e] \notin Early
  BY <1>1 DEF Early
<1>5. \A x \in Executions : due'[x] \cap seen'[x] = {}
  BY <1>1, <1>2, UnsaidFacts DEF CursorInv
<1>6. NeverRepeatsWhatItRead'
  BY <1>1 DEF CursorInv, NeverRepeatsWhatItRead
<1> QED BY <1>1, <1>2, <1>3, <1>4, <1>5, <1>6 DEF CursorInv

\* A fact that is told is not in the cursor, and from then on it is.
LEMMA CursorTell ==
  ASSUME TypeOK, CursorInv, NEW e \in Executions, Tell(e)
  PROVE  CursorInv'
<1>1. PICK f \in due[e] :
        /\ due' = [due EXCEPT ![e] = @ \ {f}]
        /\ seen' = [seen EXCEPT ![e] = @ \cup {f}]
        /\ \/ Publish("fact", f, e)
           \/ UNCHANGED log
  BY DEF Tell
<1>2. UNCHANGED <<read, phase>> /\ phase[e] = "working" /\ phase[e] \notin Early
  BY DEF Tell, lease, work, rows, Early
<1>3. f \notin seen[e] /\ f \in 0 .. Last
  BY Bounds DEF CursorInv, TypeOK, Facts
<1>4. /\ due'[e] = due[e] \ {f} /\ seen'[e] = seen[e] \cup {f}
      /\ \A x \in Executions \ {e} : due'[x] = due[x] /\ seen'[x] = seen[x]
  BY <1>1 DEF TypeOK
<1>5. \A x \in Executions : due'[x] \cap seen'[x] = {} /\ (due[x] = {} => due'[x] = {})
                            /\ seen[x] \subseteq seen'[x]
  BY <1>4 DEF CursorInv
<1>6. CASE UNCHANGED log
  <2>1. NeverRepeatsWhatItRead'
    BY <1>2, <1>6 DEF CursorInv, NeverRepeatsWhatItRead
  <2> QED BY <1>2, <1>5, <1>6, <2>1 DEF CursorInv
<1>7. CASE Publish("fact", f, e)
  <2>1. /\ Len(log) \in Nat /\ Len(log') = Len(log) + 1
        /\ log'[Len(log) + 1] = Event("fact", f, e)
        /\ \A i \in 1 .. Len(log) : log'[i] = log[i]
    <3>1. log \in Seq(Events)
      BY DEF TypeOK
    <3> QED BY <1>3, <1>7, <3>1, PublishAppends
  <2>2. /\ log'[Len(log) + 1].type = "fact" /\ log'[Len(log) + 1].fact = f
        /\ log'[Len(log) + 1].by = e
    BY <2>1 DEF Event
  <2>3. \A i \in 1 .. Len(log') : i = Len(log) + 1 \/ i \in 1 .. Len(log)
    BY <2>1
  <2>4. \A i \in 1 .. Len(log) : (log[i].type = "fact" /\ log[i].fact = f)
                                   => i \notin read[e] /\ log[i].by # e
    BY <1>2, <1>3 DEF CursorInv
  <2>5. \A x \in Executions : read[x] \subseteq 1 .. Len(log) /\ Len(log) + 1 \notin read[x]
    BY <2>1 DEF CursorInv
  <2>6. NeverRepeatsWhatItRead'
    <3> SUFFICES ASSUME NEW i \in 1 .. Len(log'), NEW j \in 1 .. Len(log'), i < j,
                        log'[i].type = "fact", log'[j].type = "fact",
                        log'[i].fact = log'[j].fact
                 PROVE  i \notin read'[log'[j].by] /\ log'[i].by # log'[j].by
      BY DEF NeverRepeatsWhatItRead
    <3>1. i \in 1 .. Len(log) /\ log'[i] = log[i]
      BY <2>1, <2>3
    <3>2. CASE j = Len(log) + 1
      BY <1>2, <2>2, <2>4, <3>1, <3>2
    <3>3. CASE j \in 1 .. Len(log)
      BY <1>2, <2>1, <3>1, <3>3 DEF CursorInv, NeverRepeatsWhatItRead
    <3> QED BY <2>3, <3>2, <3>3
  <2>7. \A x \in Executions : phase[x] \notin Early =>
          \A i \in 1 .. Len(log') :
             (log'[i].type = "fact" /\ (i \in read[x] \/ log'[i].by = x))
                => log'[i].fact \in seen'[x]
    BY <1>4, <1>5, <2>1, <2>2, <2>3, <2>5 DEF CursorInv
  <2>8. \A x \in Executions : phase[x] \in Early =>
          \A i \in 1 .. Len(log') : log'[i].type = "fact" => log'[i].by # x
    BY <1>2, <2>1, <2>2, <2>3 DEF CursorInv
  <2>9. /\ \A x \in Executions : read'[x] \subseteq 1 .. Len(log')
        /\ \A i \in 1 .. Len(log') : log'[i].type = "fact" => log'[i].by \in Executions
    BY <1>2, <2>1, <2>2, <2>3, <2>5 DEF CursorInv
  <2> QED BY <1>2, <1>5, <2>6, <2>7, <2>8, <2>9 DEF CursorInv
<1> QED BY <1>1, <1>6, <1>7

\* Every step keeps the invariant.
LEMMA CursorStep == TypeOK /\ CursorInv /\ [Next]_vars => CursorInv'
<1> SUFFICES ASSUME TypeOK, CursorInv, [Next]_vars PROVE CursorInv'
  OBVIOUS
<1>1. phase \in [Executions -> Phases] /\ 0 \in 0 .. Last
  BY Bounds DEF TypeOK
<1>2. ASSUME NEW e \in Executions,
             \/ Claim(e) \/ Resume(e) \/ Superstep(e) \/ Record(e) \/ Reread(e)
             \/ Salvage(e) \/ Release(e) \/ GiveUp(e) \/ CheckEnd(e) \/ Finish(e)
             \/ RecordFails(e) \/ BriefFails(e) \/ Breaks(e) \/ Crash(e)
      PROVE  CursorInv'
  <2>1. UNCHANGED <<log, read, seen, due>>
    BY <1>2 DEF Claim, Resume, Superstep, Record, Reread, Salvage, Release, GiveUp,
       CheckEnd, Finish, RecordFails, BriefFails, Breaks, Crash, story, lease, work, rows
  <2>2. NoneBeginsAgain
    BY <1>1, <1>2 DEF NoneBeginsAgain, Early, Goes, Claim, Resume, Superstep, Record,
       Reread, Salvage, Release, GiveUp, CheckEnd, Finish, RecordFails, BriefFails, Breaks, Crash
  <2> QED BY <2>1, <2>2, CursorQuiet
<1>3. ASSUME NEW e \in Executions, AnnounceFailure(e) \/ AnnounceCompletion(e)
      PROVE  CursorInv'
  <2>1. UNCHANGED <<read, seen, due>>
    BY <1>3 DEF AnnounceFailure, AnnounceCompletion, lease, work, rows
  <2>2. NoneBeginsAgain
    BY <1>1, <1>3 DEF NoneBeginsAgain, Early, Goes, AnnounceFailure, AnnounceCompletion
  <2>3. UNCHANGED log \/ \E type \in Endings : Publish(type, 0, e)
    BY <1>3 DEF AnnounceFailure, AnnounceCompletion, Endings
  <2> QED BY <2>1, <2>2, <2>3, CursorQuiet, CursorEnding
<1>4. CASE FileFails \/ CancelReads \/ CancelWrites \/ CancelCommits \/ CancelRollsBack
  <2>1. UNCHANGED <<log, read, seen, due, phase>>
    BY <1>4 DEF FileFails, CancelReads, CancelWrites, CancelCommits, CancelRollsBack, story, work, rows, lease
  <2> QED BY <2>1, CursorQuiet DEF NoneBeginsAgain
<1>5. CASE CancelTells
  <2>1. UNCHANGED <<read, seen, due, phase>> /\ Publish("cancelled", 0, None)
    BY <1>5 DEF CancelTells, work, rows
  <2> QED BY <2>1, CursorEnding DEF NoneBeginsAgain, Endings
<1>6. CASE UNCHANGED vars
  <2>1. UNCHANGED <<log, read, seen, due, phase>>
    BY <1>6 DEF vars
  <2> QED BY <2>1, CursorQuiet DEF NoneBeginsAgain
<1> QED BY <1>2, <1>3, <1>4, <1>5, <1>6, CursorPrime, CursorAdvance, CursorTell
        DEF Next, Runs, Works, Cancels

\* An execution tells no fact that it read in the log or told itself
\* (_Announced, prime), whatever window or fallback it read.
THEOREM NothingReadIsRepeated == Spec => []NeverRepeatsWhatItRead
<1>1. Init => CursorInv
  BY DEF Init, CursorInv, Early, NeverRepeatsWhatItRead
<1>2. CursorInv => NeverRepeatsWhatItRead
  BY DEF CursorInv
<1> QED BY <1>1, <1>2, TypeInit, TypeStep, CursorStep, PTL DEF Spec

-----------------------------------------------------------------------------
(* A report that was announced, or that the row promises, is there *)

\* A report and a row for every fact are stored.
Whole == ReportStored /\ reached = Last

\* The last revision and the last values are stored, but for late workers'.
Final ==
    /\ report = Revisions \/ \E e \in Executions : Late(e) /\ report = ReportIn(held[e])
    /\ valued = Steps \/ \E e \in Executions : Late(e) /\ valued = held[e]

\* Each claim has an attempt of its own, and the owner the last.
AttemptsInv ==
    /\ \A e \in Executions : phase[e] # "idle" => attempt[e] # 0
    /\ \A e \in Executions : attempt[e] <= row.attempts
    /\ \A e, f \in Executions : e # f /\ attempt[e] = attempt[f] => attempt[e] = 0
    /\ \A e \in Executions : Holds(e) => attempt[e] = row.attempts

\* Only an execution that recorded the whole run goes on to complete it; while
\* it has the last attempt, whoever records an earlier checkpoint is late.
OpenInv ==
    /\ AttemptsInv
    /\ \A e \in Executions : phase[e] \in {"recorded", "finished"} => Whole
    /\ \A e \in Executions : phase[e] = "recorded" /\ Holds(e) => Final
    /\ row.status = "completed" =>
         Final /\ \E e \in Executions : /\ attempt[e] = row.attempts
                                        /\ phase[e] \in {"finished", "gone"}
                                        /\ attempt[e] # 0
    /\ CompletedCanBeOpened

\* No step but a claim moves an attempt, and only its owner completes a row.
LEMMA RowMoves ==
  ASSUME TypeOK, [Next]_vars
  PROVE  \/ \E e \in Executions : Claim(e)
         \/ /\ UNCHANGED attempt /\ row'.attempts = row.attempts
            /\ row'.status = "running" => row' = row
            /\ row'.status = "completed" =>
                 row.status = "completed" \/ \E e \in Executions : Finish(e) /\ Holds(e)
<1>1. row \in [status : {"waiting", "running"} \cup Endings,
               owner : Executions \cup {None}, attempts : Nat]
  BY DEF TypeOK
<1>2. ASSUME NEW e \in Executions, Release(e) \/ GiveUp(e) \/ Finish(e)
      PROVE  /\ UNCHANGED attempt /\ row'.attempts = row.attempts
             /\ row'.status = "running" => row' = row
             /\ row'.status = "completed" => row.status = "completed" \/ (Finish(e) /\ Holds(e))
  BY <1>1, <1>2 DEF Release, GiveUp, Finish, Ends
<1>3. CASE CancelCommits
  BY <1>1, <1>3 DEF CancelCommits
<1>4. ASSUME NEW e \in Executions,
             \/ Prime(e) \/ Resume(e) \/ Superstep(e) \/ Advance(e) \/ Tell(e) \/ Record(e)
             \/ Reread(e) \/ Salvage(e) \/ CheckEnd(e) \/ AnnounceFailure(e)
             \/ AnnounceCompletion(e) \/ BriefFails(e) \/ RecordFails(e) \/ Breaks(e) \/ Crash(e)
      PROVE  UNCHANGED <<row, attempt>>
  BY <1>4 DEF Prime, Resume, Superstep, Advance, Tell, Record, Reread, Salvage, CheckEnd,
     AnnounceFailure, AnnounceCompletion, BriefFails, RecordFails, Breaks, Crash, lease
<1>5. CASE FileFails \/ CancelReads \/ CancelWrites \/ CancelTells \/ CancelRollsBack \/ UNCHANGED vars
  BY <1>5 DEF FileFails, CancelReads, CancelWrites, CancelTells, CancelRollsBack, vars, lease
<1>6. UNCHANGED <<row, attempt>> =>
        /\ UNCHANGED attempt /\ row'.attempts = row.attempts
        /\ row'.status = "running" => row' = row
        /\ row'.status = "completed" => row.status = "completed"
  OBVIOUS
<1> QED BY <1>2, <1>3, <1>4, <1>5, <1>6 DEF Next, Runs, Works, Cancels

\* An execution goes from phase to phase: what has recorded for the last time
\* does not return, and what it reread stays.
LEMMA PhaseMoves ==
  ASSUME TypeOK, [Next]_vars, NEW x \in Executions
  PROVE  /\ phase[x] \in {"failing", "failed", "mourning", "gone"} =>
              /\ phase'[x] \in {"failing", "failed", "mourning", "gone"}
              /\ held'[x] = held[x]
         /\ phase[x] \in {"finished", "gone"} => phase'[x] \in {"finished", "gone"}
         /\ phase[x] = "idle" => phase'[x] = "idle" \/ Claim(x)
         /\ phase'[x] = "recorded" => phase[x] = "recorded" \/ Record(x)
         /\ phase'[x] = "finished" => phase[x] \in {"recorded", "finished"}
<1> DEFINE Good ==
         /\ phase[x] \in {"failing", "failed", "mourning", "gone"} =>
              /\ phase'[x] \in {"failing", "failed", "mourning", "gone"}
              /\ held'[x] = held[x]
         /\ phase[x] \in {"finished", "gone"} => phase'[x] \in {"finished", "gone"}
         /\ phase[x] = "idle" => phase'[x] = "idle" \/ Claim(x)
         /\ phase'[x] = "recorded" => phase[x] = "recorded" \/ Record(x)
         /\ phase'[x] = "finished" => phase[x] \in {"recorded", "finished"}
<1>1. phase \in [Executions -> Phases] /\ held \in [Executions -> 0 .. Steps]
  BY DEF TypeOK
<1>2. UNCHANGED <<phase, held>> => Good
  OBVIOUS
<1>3. ASSUME NEW e \in Executions, Claim(e) \/ Prime(e) \/ Resume(e) \/ Superstep(e) \/ Advance(e)
      PROVE  Good
  BY <1>1, <1>3 DEF Goes, Claim, Prime, Resume, Superstep, Advance, work
<1>4. ASSUME NEW e \in Executions, Tell(e) PROVE Good
  BY <1>2, <1>4 DEF Tell, work
<1>5. ASSUME NEW e \in Executions, Record(e) \/ Reread(e) \/ Salvage(e) \/ Release(e) \/ GiveUp(e)
      PROVE  Good
  BY <1>1, <1>5 DEF Goes, Record, Reread, Salvage, Release, GiveUp, work
<1>6. ASSUME NEW e \in Executions,
             CheckEnd(e) \/ AnnounceFailure(e) \/ Finish(e) \/ AnnounceCompletion(e)
      PROVE  Good
  BY <1>1, <1>6 DEF Goes, CheckEnd, AnnounceFailure, Finish, AnnounceCompletion, work
<1>7. ASSUME NEW e \in Executions, BriefFails(e) \/ RecordFails(e) \/ Breaks(e) \/ Crash(e)
      PROVE  Good
  BY <1>1, <1>7 DEF Goes, BriefFails, RecordFails, Breaks, Crash, work
<1>8. ASSUME FileFails \/ CancelReads \/ Cancels \/ CancelRollsBack \/ UNCHANGED vars
      PROVE  Good
  BY <1>2, <1>8 DEF FileFails, CancelReads, Cancels, CancelWrites, CancelTells, CancelCommits,
     CancelRollsBack, vars, work
<1> HIDE DEF Good
<1>9. ASSUME NEW e \in Executions, Runs(e) PROVE Good
  BY <1>3, <1>4, <1>5, <1>6, <1>9 DEF Runs, Works
<1>10. Good
  BY <1>7, <1>8, <1>9 DEF Next
<1> QED BY <1>10 DEF Good

\* A claim is the only step that gives an attempt, and it gives a new one.
LEMMA AttemptsStep == TypeOK /\ AttemptsInv /\ [Next]_vars => AttemptsInv'
<1> SUFFICES ASSUME TypeOK, AttemptsInv, [Next]_vars PROVE AttemptsInv'
  OBVIOUS
<1>1. row.attempts \in Nat /\ attempt \in [Executions -> Nat] /\ phase \in [Executions -> Phases]
  BY DEF TypeOK
<1>2. ASSUME NEW e \in Executions, Claim(e) PROVE AttemptsInv'
  <2>1. /\ row'.status = "running" /\ row'.owner = e /\ row'.attempts = row.attempts + 1
        /\ attempt' = [attempt EXCEPT ![e] = row.attempts + 1]
        /\ phase' = [phase EXCEPT ![e] = "claimed"]
    BY <1>2 DEF Claim, Goes
  <2> QED BY <1>1, <2>1 DEF AttemptsInv, Holds
<1>3. CASE ~ \E e \in Executions : Claim(e)
  <2>1. \A x \in Executions : phase'[x] # "idle" => attempt'[x] # 0
    BY <1>3, PhaseMoves, RowMoves DEF AttemptsInv
  <2>2. /\ UNCHANGED attempt /\ row'.attempts = row.attempts
        /\ row'.status = "running" => row' = row
    BY <1>3, RowMoves
  <2> QED BY <2>1, <2>2 DEF AttemptsInv, Holds
<1> QED BY <1>2, <1>3

\* Who is late stays so.
LEMMA LateStays ==
  ASSUME TypeOK, TypeOK', [Next]_vars, NEW x \in Executions, Late(x)
  PROVE  Late(x)' /\ held'[x] = held[x]
<1>1. /\ row.attempts \in Nat /\ row'.attempts \in Nat
      /\ attempt \in [Executions -> Nat] /\ attempt[x] \in Nat
  BY DEF TypeOK
<1>2. attempt'[x] = attempt[x] /\ row'.attempts >= row.attempts
  <2>1. ASSUME NEW e \in Executions, Claim(e)
        PROVE  attempt'[x] = attempt[x] /\ row'.attempts >= row.attempts
    <3>1. e # x
      BY <2>1 DEF Claim, Late
    <3>2. row'.attempts = row.attempts + 1 /\ attempt' = [attempt EXCEPT ![e] = row.attempts + 1]
      BY <2>1 DEF Claim
    <3> QED BY <1>1, <3>1, <3>2
  <2> QED BY <1>1, <2>1, RowMoves
<1> QED BY <1>1, <1>2, PhaseMoves DEF Late

\* So what is the last stays the last while nothing is recorded ...
LEMMA FinalKept ==
  ASSUME TypeOK, TypeOK', [Next]_vars, Final, UNCHANGED <<report, valued>>
  PROVE  Final'
BY LateStays DEF Final, ReportIn, Steps, Last

\* ... and while what is recorded is recorded by one that has not the last attempt.
LEMMA FinalSalvaged ==
  ASSUME TypeOK, TypeOK', AttemptsInv, [Next]_vars, Final,
         NEW e \in Executions, attempt[e] = row.attempts, attempt[e] # 0,
         phase[e] \in {"recorded", "finished", "gone"}, NEW x \in Executions, Salvage(x)
  PROVE  Final'
<1>1. /\ UNCHANGED <<row, attempt, held>> /\ phase[x] \in {"leaving", "salvaging"}
      /\ phase'[x] \in {"gone", "failing"}
  BY DEF Salvage, Goes, lease, TypeOK
<1>2. Late(x)'
  <2>1. e # x
    BY <1>1
  <2>2. attempt[x] <= row.attempts /\ attempt[x] # row.attempts
    BY <1>1, <2>1 DEF AttemptsInv
  <2>3. attempt[x] \in Nat /\ row.attempts \in Nat
    BY DEF TypeOK
  <2> QED BY <1>1, <2>2, <2>3 DEF Late
<1>3. /\ report' = report \/ report' = ReportIn(held[x])
      /\ valued' = valued \/ valued' = held[x]
  <2>1. Project(held[x]) \/ UNCHANGED rows
    BY DEF Salvage
  <2> QED BY <2>1, ProjectKeeps DEF rows, TypeOK
<1>4. \A y \in Executions : Late(y) => Late(y)' /\ held'[y] = held[y]
  BY LateStays
<1> QED BY <1>1, <1>2, <1>3, <1>4 DEF Final, ReportIn, Steps, Last

\* Rows come and are not taken away.
LEMMA WholeStays ==
  ASSUME TypeOK, [Next]_vars
  PROVE  /\ Whole => Whole'
         /\ \/ UNCHANGED rows
            \/ \E e \in Executions : Record(e) /\ Whole' /\ report' = Revisions /\ valued' = Steps
            \/ \E e \in Executions : Salvage(e)
<1>0. /\ reached \in 0 .. Last /\ valued \in 0 .. Steps /\ report \in 0 .. Revisions
      /\ held \in [Executions -> 0 .. Steps] /\ Steps \in 0 .. Steps
  BY Bounds DEF TypeOK
<1>1. ASSUME NEW e \in Executions, Record(e)
      PROVE  Whole' /\ report' = Revisions /\ valued' = Steps
  <2>1. reached' = Last /\ report' = Revisions /\ valued' = Steps
    BY <1>0, <1>1, ProjectKeeps DEF Record
  <2> QED BY <2>1, Bounds DEF Whole, ReportStored, Last
<1>2. ASSUME NEW e \in Executions, Salvage(e) PROVE Whole => Whole'
  <2>1. CASE UNCHANGED rows
    BY <2>1 DEF rows, Whole, ReportStored, Last
  <2>2. CASE Project(held[e])
    <3>1. reached <= reached' /\ reached' \in 0 .. Last /\ (report # 0 => report' # 0)
      BY <1>0, <2>2, ProjectKeeps
    <3> QED BY <1>0, <3>1, Bounds DEF Whole, ReportStored, Last
  <2> QED BY <1>2, <2>1, <2>2 DEF Salvage
<1>3. ASSUME NEW e \in Executions,
             \/ Claim(e) \/ Prime(e) \/ Resume(e) \/ Superstep(e) \/ Advance(e) \/ Tell(e)
             \/ Reread(e) \/ Release(e) \/ GiveUp(e) \/ CheckEnd(e) \/ AnnounceFailure(e)
             \/ Finish(e) \/ AnnounceCompletion(e)
             \/ BriefFails(e) \/ RecordFails(e) \/ Breaks(e) \/ Crash(e)
      PROVE  UNCHANGED rows
  BY <1>3 DEF Claim, Prime, Resume, Superstep, Advance, Tell, Reread, Release, GiveUp, CheckEnd,
     AnnounceFailure, Finish, AnnounceCompletion, BriefFails, RecordFails, Breaks, Crash, work
<1>4. ASSUME FileFails \/ CancelReads \/ Cancels \/ CancelRollsBack \/ UNCHANGED vars
      PROVE  UNCHANGED rows
  BY <1>4 DEF FileFails, CancelReads, Cancels, CancelWrites, CancelTells, CancelCommits,
     CancelRollsBack, vars, work, rows
<1>5. UNCHANGED rows => (Whole => Whole')
  BY DEF rows, Whole, ReportStored, Last
<1>6. ASSUME NEW e \in Executions,
             Runs(e) \/ BriefFails(e) \/ RecordFails(e) \/ Breaks(e) \/ Crash(e)
      PROVE  UNCHANGED rows \/ Record(e) \/ Salvage(e)
  BY <1>3, <1>6 DEF Runs, Works
<1>7. \/ UNCHANGED rows \/ \E e \in Executions : Record(e) \/ Salvage(e)
  BY <1>4, <1>6 DEF Next
<1>8. Whole => Whole'
  BY <1>1, <1>2, <1>5, <1>7
<1> QED BY <1>1, <1>7, <1>8

\* Completion is announced by an execution that finished, and by no other.
LEMMA CompletionsAreWhole ==
  ASSUME TypeOK, TypeOK', OpenInv, [Next]_vars, \E i \in 1 .. Len(log') : log'[i].type = "completed"
  PROVE  Whole
<1> DEFINE Told == \E i \in 1 .. Len(log) : log[i].type = "completed"
<1>0. Told => Whole
  BY DEF OpenInv, CompletedCanBeOpened, Whole
<1>a. log \in Seq(Events) /\ 0 \in 0 .. Last
  BY Bounds DEF TypeOK
<1>c. {"fact", "failed", "cancelled"} \subseteq ({"fact"} \cup Endings) \ {"completed"}
  BY DEF Endings
<1>1. ASSUME NEW e \in Executions, Tell(e) PROVE Told
  <2>1. UNCHANGED log \/ \E f \in 0 .. Last : Publish("fact", f, e)
    <3>1. PICK f \in due[e] : Publish("fact", f, e) \/ UNCHANGED log
      BY <1>1 DEF Tell
    <3>2. f \in 0 .. Last
      BY Bounds DEF Facts, TypeOK
    <3> QED BY <3>1, <3>2
  <2> QED BY <1>a, <1>c, <2>1, NoEndAdded
<1>2. ASSUME NEW e \in Executions, AnnounceFailure(e) PROVE Told
  <2>1. UNCHANGED log \/ Publish("failed", 0, e)
    BY <1>2 DEF AnnounceFailure
  <2> QED BY <1>a, <1>c, <2>1, NoEndAdded
<1>3. ASSUME NEW e \in Executions, AnnounceCompletion(e) PROVE Whole
  BY <1>3 DEF AnnounceCompletion, OpenInv
<1>4. CASE CancelTells
  <2>1. Publish("cancelled", 0, None)
    BY <1>4 DEF CancelTells
  <2> QED BY <1>0, <1>a, <1>c, <2>1, NoEndAdded
<1>5. ASSUME NEW e \in Executions,
             \/ Claim(e) \/ Prime(e) \/ Resume(e) \/ Superstep(e) \/ Advance(e) \/ Record(e)
             \/ Reread(e) \/ Salvage(e) \/ Release(e) \/ GiveUp(e) \/ CheckEnd(e) \/ Finish(e)
             \/ BriefFails(e) \/ RecordFails(e) \/ Breaks(e) \/ Crash(e)
      PROVE  Told
  <2>1. UNCHANGED log
    BY <1>5 DEF Claim, Prime, Resume, Superstep, Advance, Record, Reread, Salvage, Release, GiveUp,
       CheckEnd, Finish, BriefFails, RecordFails, Breaks, Crash, story
  <2> QED BY <2>1
<1>6. CASE FileFails \/ CancelReads \/ CancelWrites \/ CancelCommits \/ CancelRollsBack \/ UNCHANGED vars
  <2>1. UNCHANGED log
    BY <1>6 DEF FileFails, CancelReads, CancelWrites, CancelCommits, CancelRollsBack, vars, story
  <2> QED BY <1>0, <2>1
<1> QED BY <1>0, <1>1, <1>2, <1>3, <1>4, <1>5, <1>6 DEF Next, Runs, Works, Cancels

\* Every step keeps the invariant.
LEMMA OpenStep == TypeOK /\ TypeOK' /\ OpenInv /\ [Next]_vars => OpenInv'
<1> SUFFICES ASSUME TypeOK, TypeOK', OpenInv, [Next]_vars PROVE OpenInv'
  OBVIOUS
<1> DEFINE Ender == \E e \in Executions : /\ attempt[e] = row.attempts
                                          /\ phase[e] \in {"finished", "gone"}
                                          /\ attempt[e] # 0
<1>1. AttemptsInv'
  BY AttemptsStep DEF OpenInv
<1>2. ASSUME NEW e \in Executions, phase'[e] \in {"recorded", "finished"} PROVE Whole'
  <2>1. CASE phase[e] \in {"recorded", "finished"}
    BY <2>1, WholeStays DEF OpenInv
  <2>2. CASE Record(e)
    BY <2>2, WholeStays, Bounds, ProjectKeeps DEF Record, Whole, ReportStored, TypeOK, Last
  <2> QED BY <1>2, <2>1, <2>2, PhaseMoves
<1>3. ASSUME Final, NEW e \in Executions, attempt[e] = row.attempts, attempt[e] # 0,
             phase[e] \in {"recorded", "finished", "gone"}
      PROVE  Final'
  <2>1. CASE UNCHANGED rows
    BY <1>3, <2>1, FinalKept DEF rows
  <2>2. CASE report' = Revisions /\ valued' = Steps
    BY <2>2 DEF Final, Steps, Last
  <2>3. ASSUME NEW x \in Executions, Salvage(x) PROVE Final'
    BY <1>3, <2>3, FinalSalvaged DEF OpenInv
  <2> QED BY <2>1, <2>2, <2>3, WholeStays
<1>4. ASSUME NEW e \in Executions, phase'[e] = "recorded", Holds(e)' PROVE Final'
  <2>1. CASE Record(e)
    <3>1. report' = Revisions /\ valued' = Steps
      BY <2>1, Bounds, ProjectKeeps DEF Record, TypeOK
    <3> QED BY <3>1 DEF Final, Steps, Last
  <2>2. CASE phase[e] = "recorded"
    <3>1. Holds(e)
      <4>1. ASSUME NEW f \in Executions, Claim(f) PROVE FALSE
        <5>1. row'.owner = f /\ phase[f] = "idle" /\ phase'[f] = "claimed"
          BY <4>1 DEF Claim, Goes, TypeOK
        <5> QED BY <1>4, <5>1 DEF Holds
      <4> QED BY <1>4, <4>1, RowMoves DEF Holds
    <3>2. attempt[e] = row.attempts /\ attempt[e] # 0 /\ Final
      BY <2>2, <3>1 DEF OpenInv, AttemptsInv
    <3> QED BY <1>3, <2>2, <3>2
  <2> QED BY <1>4, <2>1, <2>2, PhaseMoves
<1>5. ASSUME row'.status = "completed" PROVE Final' /\ Ender' /\ Whole'
  <2>1. ~ \E e \in Executions : Claim(e)
    BY <1>5 DEF Claim
  <2>2. UNCHANGED attempt /\ row'.attempts = row.attempts
    BY <2>1, RowMoves
  <2>3. CASE row.status = "completed"
    <3>1. Final /\ Ender /\ Whole
      BY <2>3 DEF OpenInv, CompletedCanBeOpened, Whole
    <3>2. Final'
      BY <1>3, <3>1
    <3>3. Ender'
      BY <2>2, <3>1, PhaseMoves
    <3> QED BY <3>1, <3>2, <3>3, WholeStays
  <2>4. ASSUME NEW e \in Executions, Finish(e), Holds(e) PROVE Final' /\ Ender' /\ Whole'
    <3>1. phase[e] = "recorded" /\ phase'[e] = "finished"
      BY <2>4 DEF Finish, Goes, TypeOK
    <3>2. attempt[e] = row.attempts /\ attempt[e] # 0 /\ Final /\ Whole
      BY <2>4, <3>1 DEF OpenInv, AttemptsInv
    <3> QED BY <1>3, <2>2, <3>1, <3>2, WholeStays
  <2> QED BY <1>5, <2>1, <2>3, <2>4, RowMoves
<1>6. ASSUME \E i \in 1 .. Len(log') : log'[i].type = "completed" PROVE Whole'
  BY <1>6, CompletionsAreWhole, WholeStays
<1>7. CompletedCanBeOpened'
  BY <1>5, <1>6 DEF CompletedCanBeOpened, Whole, Final
<1> QED BY <1>1, <1>2, <1>4, <1>5, <1>7 DEF OpenInv

\* Whoever is told by row or stream that a run is complete finds a report and a
\* row for every fact; what the row of a completed run promises is the last
\* revision with its values, unless a worker that had lost the run recorded an
\* earlier checkpoint (_completed, record_report, _record_last_checkpoint).
THEOREM CompletedIsReadable == Spec => []CompletedCanBeOpened
<1>1. Init => OpenInv
  BY DEF Init, OpenInv, AttemptsInv, Holds, CompletedCanBeOpened
<1>2. OpenInv => CompletedCanBeOpened
  BY DEF OpenInv
<1> QED BY <1>1, <1>2, TypeInit, TypeStep, OpenStep, PTL DEF Spec

-----------------------------------------------------------------------------
(* A cancelled row has its event *)

CancelledToldNow == \E i \in 1 .. Len(log) : log[i].type = "cancelled"

CancelInv == CommittedCancelIsTold /\ (cancel = "told" => CancelledToldNow)

\* The log is only appended to.
LEMMA LogGrows ==
  ASSUME TypeOK, [Next]_vars
  PROVE  Len(log) <= Len(log') /\ \A i \in 1 .. Len(log) : log'[i] = log[i]
<1>1. log \in Seq(Events) /\ Len(log) \in Nat /\ 0 \in 0 .. Last
  BY Bounds DEF TypeOK
<1>2. \/ UNCHANGED log
      \/ \E type \in {"fact"} \cup Endings, fact \in 0 .. Last, by \in Executions \cup {None} :
            Publish(type, fact, by)
  <2>1. ASSUME NEW e \in Executions,
             Runs(e) \/ RecordFails(e) \/ BriefFails(e) \/ Breaks(e) \/ Crash(e)
        PROVE  \/ UNCHANGED log
               \/ \E type \in {"fact"} \cup Endings, fact \in 0 .. Last : Publish(type, fact, e)
    <3>1. CASE Tell(e)
      BY <1>1, <3>1 DEF Tell, Facts, TypeOK
    <3>2. CASE AnnounceFailure(e) \/ AnnounceCompletion(e)
      BY <1>1, <3>2 DEF AnnounceFailure, AnnounceCompletion, Endings
    <3>3. CASE ~ (Tell(e) \/ AnnounceFailure(e) \/ AnnounceCompletion(e))
      BY <2>1, <3>3 DEF Runs, Works, Claim, Prime, Resume, Superstep, Advance, Record, Reread,
         Salvage, Release, GiveUp, CheckEnd, Finish, RecordFails, BriefFails, Breaks, Crash, story
    <3> QED BY <3>1, <3>2, <3>3
  <2>2. ASSUME FileFails \/ CancelReads \/ Cancels \/ CancelRollsBack
        PROVE  UNCHANGED log \/ Publish("cancelled", 0, None)
    BY <2>2 DEF FileFails, CancelReads, Cancels, CancelWrites, CancelTells, CancelCommits,
       CancelRollsBack, story, lease
  <2>3. "cancelled" \in {"fact"} \cup Endings
    BY DEF Endings
  <2>4. UNCHANGED vars => UNCHANGED log
    BY DEF vars
  <2> QED BY <1>1, <2>1, <2>2, <2>3, <2>4 DEF Next
<1> QED BY <1>1, <1>2, PublishAppends

\* Every step keeps the invariant: only the commit makes the row cancelled.
LEMMA CancelStep == TypeOK /\ CancelInv /\ [Next]_vars => CancelInv'
<1> SUFFICES ASSUME TypeOK, CancelInv, [Next]_vars PROVE CancelInv'
  OBVIOUS
<1>1. log \in Seq(Events) /\ Len(log) \in Nat /\ 0 \in 0 .. Last
      /\ row \in [status : {"waiting", "running"} \cup Endings,
                  owner : Executions \cup {None}, attempts : Nat]
  BY Bounds DEF TypeOK
<1>2. CancelledToldNow => CancelledToldNow'
  BY <1>1, LogGrows DEF CancelledToldNow
<1>3. ASSUME NEW e \in Executions,
             Runs(e) \/ RecordFails(e) \/ BriefFails(e) \/ Breaks(e) \/ Crash(e)
      PROVE  (row'.status = "cancelled" => row.status = "cancelled") /\ cancel' = cancel
  <2>1. CASE Claim(e)
    BY <2>1 DEF Claim
  <2>2. CASE Release(e) \/ GiveUp(e) \/ Finish(e)
    BY <1>1, <2>2 DEF Release, GiveUp, Finish, Ends
  <2>3. CASE ~ (Claim(e) \/ Release(e) \/ GiveUp(e) \/ Finish(e))
    BY <1>3, <2>3 DEF Runs, Works, Prime, Resume, Superstep, Advance, Tell, Record, Reread, Salvage,
       CheckEnd, AnnounceFailure, AnnounceCompletion, RecordFails, BriefFails, Breaks, Crash, lease
  <2> QED BY <2>1, <2>2, <2>3
<1>4. CASE FileFails \/ CancelReads \/ CancelWrites \/ CancelRollsBack \/ UNCHANGED vars
  <2>1. row' = row /\ (cancel' = "told" => cancel = "told")
    BY <1>4 DEF FileFails, CancelReads, CancelWrites, CancelRollsBack, vars, lease
  <2> QED BY <1>2, <2>1 DEF CancelInv, CommittedCancelIsTold, CancelledToldNow
<1>5. CASE CancelTells
  <2>1. Publish("cancelled", 0, None) /\ "cancelled" \in {"fact"} \cup Endings
    BY <1>5 DEF CancelTells, Endings
  <2>2. Len(log') = Len(log) + 1 /\ log'[Len(log) + 1] = Event("cancelled", 0, None)
    BY <1>1, <2>1, PublishAppends
  <2>3. CancelledToldNow'
    BY <1>1, <2>2 DEF CancelledToldNow, Event
  <2> QED BY <2>3 DEF CancelInv, CommittedCancelIsTold, CancelledToldNow
<1>6. CASE CancelCommits
  BY <1>2, <1>6 DEF CancelCommits, CancelInv, CommittedCancelIsTold, CancelledToldNow
<1>7. ASSUME NEW e \in Executions,
             Runs(e) \/ RecordFails(e) \/ BriefFails(e) \/ Breaks(e) \/ Crash(e)
      PROVE  CancelInv'
  BY <1>2, <1>3, <1>7 DEF CancelInv, CommittedCancelIsTold, CancelledToldNow
<1> QED BY <1>4, <1>5, <1>6, <1>7 DEF Next, Cancels

\* A row that says the user cancelled has the event that says so (cancel).
THEOREM CancellationIsTold == Spec => []CommittedCancelIsTold
<1>1. Init => CancelInv
  BY DEF Init, CancelInv, CommittedCancelIsTold
<1>2. CancelInv => CommittedCancelIsTold
  BY DEF CancelInv
<1> QED BY <1>1, <1>2, TypeInit, TypeStep, CancelStep, PTL DEF Spec

-----------------------------------------------------------------------------
(* An end that nobody has told yet is somebody's to tell *)

EndTold == \E i \in 1 .. Len(log) : log[i].type \in Endings

\* Who wrote the end of a row and has not told it.
HasToTell(e) == phase[e] \in {"failed", "mourning", "finished"}

\* The run has ended, nothing has failed, and no event says so.
Unannounced == Ended /\ faults = 0 /\ ~EndTold

OwedInv == Unannounced => \E e \in Executions : HasToTell(e)

\* An end that nobody has told is on its way: some execution is about to tell
\* it, and if it is the completion, the report it announces is there.
EndIsOwed ==
    Unannounced => \E e \in Executions :
        HasToTell(e) /\ (phase[e] = "finished" => ReportStored)

\* An event that was stored stays.
LEMMA TellingStays ==
  ASSUME TypeOK, [Next]_vars, EndTold
  PROVE  EndTold'
<1>1. PICK i \in 1 .. Len(log) : log[i].type \in Endings
  BY DEF EndTold
<1>2. Len(log) <= Len(log') /\ log'[i] = log[i] /\ Len(log) \in Nat /\ Len(log') \in Nat
  <2>1. log \in Seq(Events) /\ log' \in Seq(Events)
    BY TypeStep DEF TypeOK
  <2> QED BY <1>1, <2>1, LogGrows
<1>3. i \in 1 .. Len(log')
  BY <1>1, <1>2
<1> QED BY <1>1, <1>2, <1>3 DEF EndTold

\* Publishing an end tells it.
LEMMA EndPublished ==
  ASSUME TypeOK, NEW status \in Endings, NEW e \in Executions, Publish(status, 0, e)
  PROVE  EndTold'
<1>1. log \in Seq(Events) /\ Len(log) \in Nat /\ 0 \in 0 .. Last
  BY Bounds DEF TypeOK
<1>2. Len(log') = Len(log) + 1 /\ log'[Len(log) + 1] = Event(status, 0, e)
  BY <1>1, PublishAppends
<1>3. log'[Len(log')].type \in Endings /\ Len(log') \in 1 .. Len(log')
  BY <1>1, <1>2 DEF Event
<1> QED BY <1>3 DEF EndTold

\* A fault is counted.
LEMMA FaultsCounted == ASSUME TypeOK, UNCHANGED faults PROVE ~Fault
  BY Bounds DEF TypeOK, Fault

\* Whoever has to tell an end goes on having to, or has told it, unless
\* something fails: what CheckEnd finds in the log is an end that was told.
LEMMA TellersTell ==
  ASSUME TypeOK, NEW e \in Executions, NEW x \in Executions, HasToTell(x), UNCHANGED faults,
         Runs(e) \/ RecordFails(e) \/ BriefFails(e) \/ Breaks(e) \/ Crash(e)
  PROVE  HasToTell(x)' \/ EndTold \/ EndTold'
<1>0. ~Fault
  BY FaultsCounted
<1>1. CASE CheckEnd(e)
  <2>1. Goes(e, IF EndedIn(FirstPage) THEN "gone" ELSE "mourning")
    BY <1>0, <1>1 DEF CheckEnd
  <2>2. CASE EndedIn(FirstPage)
    <3>1. FirstPage \subseteq 1 .. Len(log)
      BY PagesAreOfTheLog DEF TypeOK
    <3> QED BY <2>2, <3>1 DEF EndedIn, EndTold
  <2>3. CASE ~EndedIn(FirstPage)
    <3>1. phase' = [phase EXCEPT ![e] = "mourning"]
      BY <2>1, <2>3 DEF Goes
    <3> QED BY <3>1 DEF HasToTell, TypeOK
  <2> QED BY <2>2, <2>3
<1>2. CASE AnnounceFailure(e) \/ AnnounceCompletion(e)
  <2>1. PICK status \in {"failed", "completed"} : Publish(status, 0, e)
    BY <1>0, <1>2 DEF AnnounceFailure, AnnounceCompletion
  <2>2. status \in Endings
    BY DEF Endings
  <2> QED BY <2>1, <2>2, EndPublished
<1>3. ~(Crash(e) \/ RecordFails(e) \/ Breaks(e))
  BY <1>0 DEF Crash, RecordFails, Breaks
<1>4. CASE ~(CheckEnd(e) \/ AnnounceFailure(e) \/ AnnounceCompletion(e))
  <2>1. phase[e] \notin {"failed", "mourning", "finished"}
    BY <1>3, <1>4 DEF Runs, Works, Claim, Prime, Resume, Superstep, Advance, Tell, Record, Reread,
       Salvage, Release, GiveUp, Finish, BriefFails
  <2>2. e # x
    BY <2>1 DEF HasToTell
  <2>3. phase' = phase \/ \E p : Goes(e, p)
    BY <1>3, <1>4 DEF Runs, Works, Claim, Prime, Resume, Superstep, Advance, Tell, Record, Reread,
       Salvage, Release, GiveUp, Finish, BriefFails
  <2>4. phase'[x] = phase[x]
    BY <2>2, <2>3 DEF Goes, TypeOK
  <2> QED BY <2>4 DEF HasToTell
<1> QED BY <1>1, <1>2, <1>4

\* An execution that ends the row goes on to tell it.
LEMMA EndersTell ==
  ASSUME TypeOK, NEW e \in Executions, ~Ended, Ended',
         Runs(e) \/ RecordFails(e) \/ BriefFails(e) \/ Breaks(e) \/ Crash(e)
  PROVE  HasToTell(e)'
<1>1. row' # row
  BY DEF Ended
<1>2. CASE GiveUp(e) \/ Finish(e)
  BY <1>2 DEF GiveUp, Finish, Goes, HasToTell, TypeOK
<1>3. CASE Claim(e)
  BY <1>3 DEF Claim, Ended, Endings
<1>4. CASE Release(e)
  BY <1>1, <1>4 DEF Release, Ended, Endings, TypeOK
<1>5. GiveUp(e) \/ Finish(e) \/ Claim(e) \/ Release(e)
  BY <1>1 DEF Runs, Works, Prime, Resume, Superstep, Advance, Tell, Record, Reread, Salvage,
     CheckEnd, AnnounceFailure, AnnounceCompletion, RecordFails, BriefFails, Breaks, Crash, lease
<1> QED BY <1>2, <1>3, <1>4, <1>5

\* Every step keeps the invariant: a cancellation is told before it is committed.
LEMMA OwedStep == TypeOK /\ TypeOK' /\ CancelInv /\ OwedInv /\ [Next]_vars => OwedInv'
<1> SUFFICES ASSUME TypeOK, TypeOK', CancelInv, OwedInv, [Next]_vars, Unannounced'
             PROVE  \E e \in Executions : HasToTell(e)'
  BY DEF OwedInv
<1>1. ~EndTold /\ ~EndTold' /\ Ended'
  BY TellingStays DEF Unannounced
<1>2. faults = 0 /\ UNCHANGED faults
  <2>1. faults' = faults \/ Fault
    BY DEF Next, vars, Runs, Works, Claim, Prime, Resume, Superstep, Advance, Tell, Record, Reread,
       Salvage, Release, GiveUp, CheckEnd, AnnounceFailure, Finish, AnnounceCompletion, RecordFails,
       BriefFails, Breaks, Crash, FileFails, CancelReads, Cancels, CancelWrites, CancelTells,
       CancelCommits, CancelRollsBack
  <2>2. faults' = 0 /\ faults \in Nat
    BY Bounds DEF Unannounced, TypeOK
  <2> QED BY <2>1, <2>2 DEF Fault
<1>3. ASSUME Ended PROVE \E e \in Executions : HasToTell(e)
  BY <1>1, <1>2, <1>3 DEF OwedInv, Unannounced
<1>4. ASSUME NEW e \in Executions,
             Runs(e) \/ RecordFails(e) \/ BriefFails(e) \/ Breaks(e) \/ Crash(e)
      PROVE  \E x \in Executions : HasToTell(x)'
  <2>1. CASE Ended
    BY <1>1, <1>2, <1>3, <1>4, <2>1, TellersTell
  <2>2. CASE ~Ended
    BY <1>1, <1>4, <2>2, EndersTell
  <2> QED BY <2>1, <2>2
<1>5. CASE CancelCommits
  <2>1. CancelledToldNow
    BY <1>5 DEF CancelCommits, CancelInv
  <2> QED BY <1>1, <2>1 DEF CancelledToldNow, EndTold, Endings
<1>6. CASE FileFails \/ CancelReads \/ CancelWrites \/ CancelTells \/ CancelRollsBack \/ UNCHANGED vars
  <2>1. UNCHANGED <<row, phase>>
    BY <1>6 DEF FileFails, CancelReads, CancelWrites, CancelTells, CancelRollsBack, vars, lease
  <2>2. Ended
    BY <1>1, <2>1 DEF Ended
  <2> QED BY <1>3, <2>1, <2>2 DEF HasToTell
<1> QED BY <1>4, <1>5, <1>6 DEF Next, Cancels

\* However a run ends, the end is told or an execution is about to tell it and
\* has what it needs, until something fails (cancel, _completed, _failed).
THEOREM EndHasItsTeller == Spec => []EndIsOwed
<1>1. Init => OwedInv /\ OpenInv /\ CancelInv
  BY DEF Init, OwedInv, Unannounced, Ended, Endings, OpenInv, AttemptsInv, Holds, CompletedCanBeOpened,
     CancelInv, CommittedCancelIsTold
<1>2. OwedInv /\ OpenInv => EndIsOwed
  BY DEF OwedInv, OpenInv, Whole, EndIsOwed
<1> QED BY <1>1, <1>2, TypeInit, TypeStep, CancelStep, OpenStep, OwedStep, PTL DEF Spec

-----------------------------------------------------------------------------
(* An execution that completes has told its own work *)

\* A fact was published, or its publication failed.
Settled(f) ==
    f \in lost \/ \E j \in 1 .. Len(log) : log[j].type = "fact" /\ log[j].fact = f

\* What an execution has done since it resumed and has told, or is telling.
Accounted(e) ==
    \A f \in Facts :
        (/\ f > start[e] /\ f <= state[e]
         /\ phase[e] = "stepped" => f # state[e])
        => f \in seen[e] \cup due[e]

WorkInv ==
    /\ \A e \in Executions : \A f \in seen[e] : Settled(f)
    /\ \A e \in Executions : due[e] # {} => phase[e] \in {"working", "gone"}
    /\ \A e \in Executions : phase[e] \in {"working", "stepped", "recorded", "finished"}
                               => Accounted(e)
    /\ \A e \in Executions : phase[e] \in {"recorded", "finished"} => state[e] = Steps
    /\ \A i \in 1 .. Len(log) : log[i].type = "completed" =>
         log[i].by \in Executions /\ phase[log[i].by] = "gone"
    /\ \A e \in Executions : read[e] \subseteq 1 .. Len(log)
    /\ TellsItsOwnWork

\* What was published stays published.
LEMMA SettledStays ==
  ASSUME TypeOK, Len(log) <= Len(log'), \A i \in 1 .. Len(log) : log'[i] = log[i],
         log' \in Seq(Events), lost \subseteq lost', NEW f, Settled(f)
  PROVE  Settled(f)'
<1>1. Len(log) \in Nat /\ Len(log') \in Nat
  BY DEF TypeOK
<1> QED BY <1>1 DEF Settled

\* The property survives a step that appends nothing or no completion, and
\* forgets no start of an execution that is gone.
LEMMA TellsKept ==
  ASSUME TypeOK, TypeOK', WorkInv, [Next]_vars, lost \subseteq lost',
         \A e \in Executions : phase[e] = "gone" => start'[e] = start[e],
         \A i \in 1 .. Len(log') : log'[i].type = "completed" => i \in 1 .. Len(log)
  PROVE  TellsItsOwnWork'
<1>1. /\ Len(log) \in Nat /\ Len(log') \in Nat /\ Len(log) <= Len(log')
      /\ \A i \in 1 .. Len(log) : log'[i] = log[i]
  <2>1. log \in Seq(Events) /\ log' \in Seq(Events)
    BY DEF TypeOK
  <2> QED BY <2>1, LogGrows
<1> SUFFICES ASSUME NEW i \in 1 .. Len(log'), log'[i].type = "completed", NEW f \in Facts,
                    ~ (f <= start'[log'[i].by]), f \notin lost'
             PROVE  \E j \in 1 .. i - 1 : log'[j].type = "fact" /\ log'[j].fact = f
  BY DEF TellsItsOwnWork, Facts, Last
<1>2. i \in 1 .. Len(log) /\ log'[i] = log[i]
  BY <1>1
<1>3. start'[log[i].by] = start[log[i].by]
  BY <1>2 DEF WorkInv
<1>4. PICK j \in 1 .. i - 1 : log[j].type = "fact" /\ log[j].fact = f
  BY <1>2, <1>3 DEF WorkInv, TellsItsOwnWork
<1>5. log'[j] = log[j]
  BY <1>1, <1>2, <1>4
<1> QED BY <1>4, <1>5

\* A step that publishes nothing, tells nothing and moves phases without
\* calling work told that is not.
LEMMA WorkQuiet ==
  ASSUME TypeOK, TypeOK', WorkInv, [Next]_vars,
         UNCHANGED <<log, lost, seen, due, read, start, state>>,
         \A x \in Executions :
            \/ phase'[x] = phase[x]
            \/ /\ phase[x] # "gone"
               /\ due[x] = {} \/ phase'[x] = "gone"
               /\ phase'[x] \notin {"working", "stepped", "recorded", "finished"}
            \/ /\ phase[x] \in {"working", "recorded"} /\ due[x] = {} /\ state[x] = Steps
               /\ phase'[x] \in {"recorded", "finished"}
  PROVE  WorkInv'
<1>1. TellsItsOwnWork'
  <2>1. \A i \in 1 .. Len(log') : log'[i].type = "completed" => i \in 1 .. Len(log)
    OBVIOUS
  <2>2. lost \subseteq lost' /\ \A e \in Executions : phase[e] = "gone" => start'[e] = start[e]
    OBVIOUS
  <2> QED BY <2>1, <2>2, TellsKept
<1>2. \A x \in Executions : \A f \in seen'[x] : Settled(f)'
  BY DEF WorkInv, Settled
<1>3. \A x \in Executions : phase'[x] \in {"working", "stepped", "recorded", "finished"}
                              => Accounted(x)'
  BY DEF WorkInv, Accounted, Facts, Last
<1>4. /\ \A x \in Executions : due'[x] # {} => phase'[x] \in {"working", "gone"}
      /\ \A x \in Executions : phase'[x] \in {"recorded", "finished"} => state'[x] = Steps
      /\ \A i \in 1 .. Len(log') : log'[i].type = "completed" =>
           log'[i].by \in Executions /\ phase'[log'[i].by] = "gone"
      /\ \A x \in Executions : read'[x] \subseteq 1 .. Len(log')
  BY DEF WorkInv
<1> QED BY <1>1, <1>2, <1>3, <1>4 DEF WorkInv, Steps, Last

\* A step that ends by publishing an end other than completion.
LEMMA WorkEnding ==
  ASSUME TypeOK, TypeOK', WorkInv, [Next]_vars,
         UNCHANGED <<lost, seen, due, read, start, state>>,
         NEW type \in {"failed", "cancelled"}, NEW by \in Executions \cup {None},
         Publish(type, 0, by),
         \A x \in Executions : phase'[x] = phase[x]
                               \/ (phase[x] = "mourning" /\ phase'[x] = "gone")
  PROVE  WorkInv'
<1>1. /\ Len(log) \in Nat /\ Len(log') = Len(log) + 1
      /\ log'[Len(log) + 1] = Event(type, 0, by)
      /\ \A i \in 1 .. Len(log) : log'[i] = log[i]
  <2>1. log \in Seq(Events) /\ 0 \in 0 .. Last /\ type \in {"fact"} \cup Endings
    BY Bounds DEF TypeOK, Endings
  <2> QED BY <2>1, PublishAppends
<1>2. log'[Len(log) + 1].type # "completed"
  BY <1>1 DEF Event
<1>3. \A i \in 1 .. Len(log') : log'[i].type = "completed" => i \in 1 .. Len(log)
  BY <1>1, <1>2
<1>4. TellsItsOwnWork'
  BY <1>3, TellsKept
<1>5. \A x \in Executions : \A f \in seen'[x] : Settled(f)'
  BY <1>1 DEF WorkInv, Settled
<1>6. \A x \in Executions : phase'[x] \in {"working", "stepped", "recorded", "finished"}
                              => Accounted(x)'
  BY DEF WorkInv, Accounted, Facts, Last
<1>7. /\ \A x \in Executions : due'[x] # {} => phase'[x] \in {"working", "gone"}
      /\ \A x \in Executions : phase'[x] \in {"recorded", "finished"} => state'[x] = Steps
      /\ \A i \in 1 .. Len(log') : log'[i].type = "completed" =>
           log'[i].by \in Executions /\ phase'[log'[i].by] = "gone"
      /\ \A x \in Executions : read'[x] \subseteq 1 .. Len(log')
  BY <1>1, <1>3 DEF WorkInv
<1> QED BY <1>4, <1>5, <1>6, <1>7 DEF WorkInv, Steps, Last

\* The prime takes into the cursor what the log shows.
LEMMA WorkPrime ==
  ASSUME TypeOK, TypeOK', WorkInv, [Next]_vars, NEW e \in Executions, Prime(e)
  PROVE  WorkInv'
<1>1. PICK page \in {FirstPage} \cup Fallbacks :
        read' = [read EXCEPT ![e] = page] /\ seen' = [seen EXCEPT ![e] = FactsIn(page)]
  BY DEF Prime
<1>2. page \subseteq 1 .. Len(log)
  <2>1. log \in Seq(Events)
    BY DEF TypeOK
  <2> QED BY ONLY <2>1, PagesAreOfTheLog
<1>3. /\ UNCHANGED <<log, lost, due, start, state>>
      /\ phase[e] = "claimed" /\ phase' = [phase EXCEPT ![e] = "primed"]
  BY DEF Prime, Goes, work, rows
<1>4. /\ read'[e] = page /\ seen'[e] = FactsIn(page) /\ phase'[e] = "primed"
      /\ \A x \in Executions \ {e} : read'[x] = read[x] /\ seen'[x] = seen[x] /\ phase'[x] = phase[x]
  BY <1>1, <1>3 DEF TypeOK
<1>5. \A x \in Executions : \A f \in seen'[x] : Settled(f)'
  <2>1. \A f \in FactsIn(page) : Settled(f)
    BY <1>2 DEF FactsIn, Settled
  <2> QED BY <1>3, <1>4, <2>1 DEF WorkInv, Settled
<1>6. TellsItsOwnWork'
  <2>1. \A i \in 1 .. Len(log') : log'[i].type = "completed" => i \in 1 .. Len(log)
    BY <1>3
  <2>2. lost \subseteq lost' /\ \A x \in Executions : phase[x] = "gone" => start'[x] = start[x]
    BY <1>3
  <2> QED BY <2>1, <2>2, TellsKept
<1>7. \A x \in Executions : phase'[x] \in {"working", "stepped", "recorded", "finished"}
                              => Accounted(x)'
  BY <1>3, <1>4 DEF WorkInv, Accounted, Facts, Last
<1>8. /\ \A x \in Executions : due'[x] # {} => phase'[x] \in {"working", "gone"}
      /\ \A x \in Executions : phase'[x] \in {"recorded", "finished"} => state'[x] = Steps
      /\ \A i \in 1 .. Len(log') : log'[i].type = "completed" =>
           log'[i].by \in Executions /\ phase'[log'[i].by] = "gone"
      /\ \A x \in Executions : read'[x] \subseteq 1 .. Len(log')
  <2>1. \A x \in Executions : due'[x] # {} => phase'[x] \in {"working", "gone"}
    BY <1>3, <1>4 DEF WorkInv
  <2>2. \A x \in Executions : phase'[x] \in {"recorded", "finished"} => state'[x] = Steps
    BY <1>3, <1>4 DEF WorkInv
  <2>3. \A i \in 1 .. Len(log') : log'[i].type = "completed" =>
           log'[i].by \in Executions /\ phase'[log'[i].by] = "gone"
    BY <1>3, <1>4 DEF WorkInv
  <2>4. \A x \in Executions : read'[x] \subseteq 1 .. Len(log')
    BY <1>2, <1>3, <1>4 DEF WorkInv
  <2> QED BY <2>1, <2>2, <2>3, <2>4
<1> QED BY <1>5, <1>6, <1>7, <1>8 DEF WorkInv, Steps, Last

\* An execution that resumes has done nothing yet; one that steps has one more
\* superstep to tell; one that advances has it to tell.
LEMMA WorkMoves ==
  ASSUME TypeOK, TypeOK', WorkInv, [Next]_vars, NEW e \in Executions,
         Resume(e) \/ Superstep(e) \/ Advance(e)
  PROVE  WorkInv'
<1>1. /\ UNCHANGED <<log, lost, seen, read>>
      /\ phase[e] \in {"primed", "working", "stepped"} /\ due[e] = {}
  BY DEF Resume, Superstep, Advance, lease, work, rows, story, WorkInv
<1>2. \A x \in Executions \ {e} :
        phase'[x] = phase[x] /\ start'[x] = start[x] /\ state'[x] = state[x] /\ due'[x] = due[x]
  BY DEF Resume, Superstep, Advance, Goes, lease, work, rows, story, TypeOK
<1>3. TellsItsOwnWork'
  <2>1. \A i \in 1 .. Len(log') : log'[i].type = "completed" => i \in 1 .. Len(log)
    BY <1>1
  <2>2. lost \subseteq lost' /\ \A x \in Executions : phase[x] = "gone" => start'[x] = start[x]
    BY <1>1, <1>2
  <2> QED BY <2>1, <2>2, TellsKept
<1>4. phase'[e] \notin {"gone", "recorded", "finished"}
  BY DEF Resume, Superstep, Advance, Goes, TypeOK
<1>5. (due'[e] # {} => phase'[e] = "working")
      /\ (phase'[e] \in {"working", "stepped"} => Accounted(e)')
  <2>1. CASE Resume(e)
    <3>1. start'[e] = checkpoint /\ state'[e] = checkpoint /\ due'[e] = {}
      BY <1>1, <2>1 DEF Resume, story, TypeOK
    <3>2. checkpoint \in 0 .. Steps /\ Facts \subseteq Nat
      BY Bounds DEF TypeOK, Facts
    <3> QED BY <3>1, <3>2, Bounds DEF Accounted, Facts, Last
  <2>2. CASE Superstep(e)
    <3>1. /\ start'[e] = start[e] /\ state'[e] = state[e] + 1 /\ phase'[e] = "stepped"
          /\ due'[e] = {} /\ seen'[e] = seen[e] /\ phase[e] = "working"
      BY <1>1, <2>2 DEF Superstep, Goes, story, TypeOK
    <3>2. state[e] \in 0 .. Steps /\ start[e] \in 0 .. Steps
      BY DEF TypeOK
    <3>3. Accounted(e)
      BY <3>1 DEF WorkInv
    <3>4. \A f \in 1 .. Last : (f <= state[e] + 1 /\ f # state[e] + 1) => f <= state[e]
      BY <3>2, Bounds
    <3> QED BY <1>1, <3>1, <3>3, <3>4 DEF Accounted, Facts, Last
  <2>3. CASE Advance(e)
    <3>1. /\ start'[e] = start[e] /\ state'[e] = state[e] /\ phase[e] = "stepped"
          /\ seen'[e] = seen[e]
          /\ \/ phase'[e] = "working" /\ due'[e] = Unsaid(e)
             \/ phase'[e] = "lost" /\ due'[e] = due[e]
      BY <2>3 DEF Advance, Goes, work, rows, TypeOK
    <3>2. \A f \in 1 .. Last : (f > start[e] /\ f <= state[e] /\ f # state[e]) => f \in seen[e]
      BY <1>1, <3>1 DEF WorkInv, Accounted, Facts
    <3>3. \A f \in 1 .. Last : f = state[e] => f \in seen[e] \cup Unsaid(e)
      BY DEF Unsaid, Facts
    <3> QED BY <1>1, <3>1, <3>2, <3>3 DEF Accounted, Facts, Last
  <2> QED BY <2>1, <2>2, <2>3
<1>6. \A x \in Executions : phase'[x] \in {"working", "stepped", "recorded", "finished"}
                              => Accounted(x)'
  <2>1. \A x \in Executions \ {e} :
          phase[x] \in {"working", "stepped", "recorded", "finished"} => Accounted(x)
    BY DEF WorkInv
  <2>2. \A x \in Executions \ {e} : Accounted(x) => Accounted(x)'
    BY <1>1, <1>2 DEF Accounted, Facts, Last
  <2> QED BY <1>2, <1>4, <1>5, <2>1, <2>2
<1>7. /\ \A x \in Executions : due'[x] # {} => phase'[x] \in {"working", "gone"}
      /\ \A x \in Executions : phase'[x] \in {"recorded", "finished"} => state'[x] = Steps
  BY <1>2, <1>4, <1>5 DEF WorkInv
<1>8. /\ \A i \in 1 .. Len(log') : log'[i].type = "completed" =>
           log'[i].by \in Executions /\ phase'[log'[i].by] = "gone"
      /\ \A x \in Executions : read'[x] \subseteq 1 .. Len(log')
  BY <1>1, <1>2 DEF WorkInv
<1>9. \A x \in Executions : \A f \in seen'[x] : Settled(f)'
  BY <1>1 DEF WorkInv, Settled
<1> QED BY <1>3, <1>6, <1>7, <1>8, <1>9 DEF WorkInv, Steps, Last

\* A fact that is told is settled, one way or the other.
LEMMA WorkTell ==
  ASSUME TypeOK, TypeOK', WorkInv, [Next]_vars, NEW e \in Executions, Tell(e)
  PROVE  WorkInv'
<1>1. PICK f \in due[e] :
        /\ due' = [due EXCEPT ![e] = @ \ {f}]
        /\ seen' = [seen EXCEPT ![e] = @ \cup {f}]
        /\ \/ Publish("fact", f, e) /\ UNCHANGED lost
           \/ lost' = lost \cup {f} /\ UNCHANGED log
  BY DEF Tell
<1>2. UNCHANGED <<read, phase, start, state>> /\ phase[e] = "working"
  BY DEF Tell, lease, work, rows
<1>3. /\ due'[e] = due[e] \ {f} /\ seen'[e] = seen[e] \cup {f}
      /\ \A x \in Executions \ {e} : due'[x] = due[x] /\ seen'[x] = seen[x]
  BY <1>1 DEF TypeOK
<1>4. /\ Len(log) \in Nat /\ Len(log) <= Len(log')
      /\ \A i \in 1 .. Len(log) : log'[i] = log[i]
      /\ lost \subseteq lost' /\ log' \in Seq(Events)
  <2>1. log \in Seq(Events) /\ log' \in Seq(Events)
    BY DEF TypeOK
  <2>2. Len(log) <= Len(log') /\ \A i \in 1 .. Len(log) : log'[i] = log[i]
    BY LogGrows
  <2> QED BY <1>1, <2>1, <2>2
<1>5. /\ Settled(f)'
      /\ \A i \in 1 .. Len(log') : log'[i].type = "completed" => i \in 1 .. Len(log)
  <2>1. CASE UNCHANGED log /\ lost' = lost \cup {f}
    BY <2>1 DEF Settled
  <2>2. CASE Publish("fact", f, e)
    <3>1. log \in Seq(Events) /\ f \in 0 .. Last
      BY Bounds DEF TypeOK, Facts
    <3>2. Len(log') = Len(log) + 1 /\ log'[Len(log) + 1] = Event("fact", f, e)
      BY <2>2, <3>1, PublishAppends
    <3>3. log'[Len(log) + 1].type = "fact" /\ log'[Len(log) + 1].fact = f
      BY <3>2 DEF Event
    <3> QED BY <1>4, <3>2, <3>3 DEF Settled
  <2> QED BY <1>1, <2>1, <2>2
<1>6. \A x \in Executions : \A g \in seen'[x] : Settled(g)'
  <2>1. \A x \in Executions : \A g \in seen[x] : Settled(g)'
    BY <1>4, SettledStays DEF WorkInv
  <2> QED BY <1>3, <1>5, <2>1
<1>7. TellsItsOwnWork'
  <2>1. \A x \in Executions : phase[x] = "gone" => start'[x] = start[x]
    BY <1>2
  <2> QED BY <1>4, <1>5, <2>1, TellsKept
<1>8. \A x \in Executions : phase'[x] \in {"working", "stepped", "recorded", "finished"}
                              => Accounted(x)'
  <2>1. \A x \in Executions : seen[x] \cup due[x] = seen'[x] \cup due'[x]
    BY <1>3
  <2> QED BY <1>2, <2>1 DEF WorkInv, Accounted, Facts, Last
<1>9. \A x \in Executions : due'[x] # {} => phase'[x] \in {"working", "gone"}
  BY <1>2, <1>3 DEF WorkInv
<1>10. \A i \in 1 .. Len(log') : log'[i].type = "completed" =>
         log'[i].by \in Executions /\ phase'[log'[i].by] = "gone"
  BY <1>2, <1>4, <1>5 DEF WorkInv
<1>11. /\ \A x \in Executions : phase'[x] \in {"recorded", "finished"} => state'[x] = Steps
       /\ \A x \in Executions : read'[x] \subseteq 1 .. Len(log')
  <2>1. \A x \in Executions : read[x] \subseteq 1 .. Len(log)
    BY DEF WorkInv
  <2>2. Len(log') \in Nat
    BY <1>4
  <2>3. 1 .. Len(log) \subseteq 1 .. Len(log')
    BY <1>4, <2>2
  <2> QED BY <1>2, <2>1, <2>3 DEF WorkInv
<1> QED BY <1>6, <1>7, <1>8, <1>9, <1>10, <1>11 DEF WorkInv, Steps, Last

\* Completion is announced by an execution whose work is all settled.
LEMMA WorkCompletion ==
  ASSUME TypeOK, TypeOK', WorkInv, [Next]_vars, NEW e \in Executions,
         AnnounceCompletion(e), Publish("completed", 0, e)
  PROVE  WorkInv'
<1>1. /\ UNCHANGED <<lost, seen, due, read, start, state>>
      /\ phase[e] = "finished" /\ phase' = [phase EXCEPT ![e] = "gone"]
  BY DEF AnnounceCompletion, Goes, lease, work, rows
<1>2. phase'[e] = "gone" /\ \A x \in Executions \ {e} : phase'[x] = phase[x]
  BY <1>1 DEF TypeOK
<1>3. /\ Len(log) \in Nat /\ Len(log') = Len(log) + 1
      /\ log'[Len(log) + 1] = Event("completed", 0, e)
      /\ \A i \in 1 .. Len(log) : log'[i] = log[i]
  <2>1. log \in Seq(Events) /\ 0 \in 0 .. Last /\ "completed" \in {"fact"} \cup Endings
    BY Bounds DEF TypeOK, Endings
  <2> QED BY <2>1, PublishAppends
<1>4. log'[Len(log) + 1].by = e /\ log'[Len(log) + 1].type = "completed"
  BY <1>3 DEF Event
<1>5. \A f \in Facts : f <= start[e] \/ Settled(f)
  <2>1. Accounted(e) /\ due[e] = {} /\ state[e] = Steps
    BY <1>1 DEF WorkInv
  <2>2. start[e] \in 0 .. Steps
    BY DEF TypeOK
  <2>3. \A f \in 1 .. Last : f <= start[e] \/ f \in seen[e]
    BY <1>1, <2>1, <2>2, Bounds DEF Accounted, Facts
  <2> QED BY <2>3 DEF WorkInv, Facts
<1>6. TellsItsOwnWork'
  <2> SUFFICES ASSUME NEW i \in 1 .. Len(log'), log'[i].type = "completed", NEW f \in Facts,
                      ~ (f <= start[log'[i].by]), f \notin lost
               PROVE  \E j \in 1 .. i - 1 : log'[j].type = "fact" /\ log'[j].fact = f
    BY <1>1 DEF TellsItsOwnWork, Facts, Last
  <2>1. CASE i = Len(log) + 1
    BY <1>3, <1>4, <1>5, <2>1 DEF Settled
  <2>2. CASE i \in 1 .. Len(log)
    <3>1. PICK j \in 1 .. i - 1 : log[j].type = "fact" /\ log[j].fact = f
      BY <1>3, <2>2 DEF WorkInv, TellsItsOwnWork
    <3>2. log'[j] = log[j]
      BY <1>3, <2>2
    <3> QED BY <3>1, <3>2
  <2> QED BY <1>3, <2>1, <2>2
<1>7. \A x \in Executions : \A f \in seen'[x] : Settled(f)'
  BY <1>1, <1>3 DEF WorkInv, Settled
<1>8. \A x \in Executions : phase'[x] \in {"working", "stepped", "recorded", "finished"}
                              => Accounted(x)'
  BY <1>1, <1>2 DEF WorkInv, Accounted, Facts, Last
<1>9. \A i \in 1 .. Len(log') : log'[i].type = "completed" =>
        log'[i].by \in Executions /\ phase'[log'[i].by] = "gone"
  BY <1>2, <1>3, <1>4 DEF WorkInv
<1>10. /\ \A x \in Executions : due'[x] # {} => phase'[x] \in {"working", "gone"}
       /\ \A x \in Executions : phase'[x] \in {"recorded", "finished"} => state'[x] = Steps
       /\ \A x \in Executions : read'[x] \subseteq 1 .. Len(log')
  BY <1>1, <1>2, <1>3 DEF WorkInv
<1> QED BY <1>6, <1>7, <1>8, <1>9, <1>10 DEF WorkInv, Steps, Last

\* Every step keeps the invariant.
LEMMA WorkStep == TypeOK /\ TypeOK' /\ WorkInv /\ [Next]_vars => WorkInv'
<1> SUFFICES ASSUME TypeOK, TypeOK', WorkInv, [Next]_vars PROVE WorkInv'
  OBVIOUS
<1>1. phase \in [Executions -> Phases]
  BY DEF TypeOK
<1>2. ASSUME NEW e \in Executions,
             \/ Claim(e) \/ Record(e) \/ Reread(e) \/ Salvage(e) \/ Release(e) \/ GiveUp(e)
             \/ CheckEnd(e) \/ Finish(e) \/ RecordFails(e) \/ BriefFails(e) \/ Breaks(e) \/ Crash(e)
      PROVE  WorkInv'
  <2>1. UNCHANGED <<log, lost, seen, due, read, start, state>>
    BY <1>2 DEF Claim, Record, Reread, Salvage, Release, GiveUp, CheckEnd, Finish,
       RecordFails, BriefFails, Breaks, Crash, story, work, rows
  <2>2. \A x \in Executions : due[x] # {} => phase[x] \in {"working", "gone"}
    BY DEF WorkInv
  <2>3. phase[e] \in {"recorded", "finished"} => state[e] = Steps
    BY DEF WorkInv
  <2>4. \A x \in Executions : x # e => phase'[x] = phase[x]
    BY <1>1, <1>2 DEF Goes, Claim, Record, Reread, Salvage, Release, GiveUp, CheckEnd,
       Finish, RecordFails, BriefFails, Breaks, Crash
  <2>5. \/ phase'[e] = phase[e]
        \/ /\ phase[e] # "gone"
           /\ due[e] = {} \/ phase'[e] = "gone"
           /\ phase'[e] \notin {"working", "stepped", "recorded", "finished"}
        \/ /\ phase[e] \in {"working", "recorded"} /\ due[e] = {} /\ state[e] = Steps
           /\ phase'[e] \in {"recorded", "finished"}
    <3>1. CASE Record(e) \/ Finish(e)
      BY <1>1, <2>2, <2>3, <3>1 DEF Goes, Record, Finish
    <3>2. CASE Crash(e)
      BY <1>1, <3>2 DEF Goes, Crash
    <3>3. CASE RecordFails(e) \/ BriefFails(e) \/ Breaks(e)
      BY <1>1, <2>2, <3>3 DEF Goes, RecordFails, BriefFails, Breaks
    <3>4. CASE Claim(e) \/ Reread(e) \/ Salvage(e) \/ Release(e) \/ GiveUp(e) \/ CheckEnd(e)
      BY <1>1, <2>2, <3>4 DEF Goes, Claim, Reread, Salvage, Release, GiveUp, CheckEnd
    <3> QED BY <1>2, <3>1, <3>2, <3>3, <3>4
  <2> QED BY <2>1, <2>4, <2>5, WorkQuiet
<1>3. ASSUME NEW e \in Executions, AnnounceFailure(e) PROVE WorkInv'
  <2>1. /\ UNCHANGED <<lost, seen, due, read, start, state>>
        /\ phase[e] = "mourning" /\ due[e] = {}
    BY <1>3 DEF AnnounceFailure, lease, work, rows, WorkInv
  <2>2. \A x \in Executions : phase'[x] = phase[x]
                              \/ (phase[x] = "mourning" /\ phase'[x] = "gone" /\ x = e)
    BY <1>1, <1>3 DEF AnnounceFailure, Goes
  <2>3. UNCHANGED log \/ Publish("failed", 0, e)
    BY <1>3 DEF AnnounceFailure
  <2>4. CASE UNCHANGED log
    BY <2>1, <2>2, <2>4, WorkQuiet
  <2>5. CASE Publish("failed", 0, e)
    BY <2>1, <2>2, <2>5, WorkEnding
  <2> QED BY <2>3, <2>4, <2>5
<1>4. ASSUME NEW e \in Executions, AnnounceCompletion(e) PROVE WorkInv'
  <2>1. CASE Publish("completed", 0, e)
    BY <1>4, <2>1, WorkCompletion
  <2>2. CASE UNCHANGED log
    <3>1. /\ UNCHANGED <<lost, seen, due, read, start, state>>
          /\ phase[e] = "finished" /\ due[e] = {}
      BY <1>4 DEF AnnounceCompletion, lease, work, rows, WorkInv
    <3>2. \A x \in Executions : phase'[x] = phase[x]
                                \/ (phase[x] = "finished" /\ phase'[x] = "gone" /\ x = e)
      BY <1>1, <1>4 DEF AnnounceCompletion, Goes
    <3> QED BY <2>2, <3>1, <3>2, WorkQuiet
  <2> QED BY <1>4, <2>1, <2>2 DEF AnnounceCompletion
<1>5. CASE FileFails \/ CancelReads \/ CancelWrites \/ CancelCommits \/ CancelRollsBack \/ UNCHANGED vars
  <2>1. UNCHANGED <<log, lost, seen, due, read, start, state, phase>>
    BY <1>5 DEF FileFails, CancelReads, CancelWrites, CancelCommits, CancelRollsBack, vars, story, work, rows, lease
  <2> QED BY <2>1, WorkQuiet
<1>6. CASE CancelTells
  <2>1. UNCHANGED <<lost, seen, due, read, start, state, phase>> /\ Publish("cancelled", 0, None)
    BY <1>6 DEF CancelTells, work, rows
  <2> QED BY <2>1, WorkEnding
<1> QED BY <1>2, <1>3, <1>4, <1>5, <1>6, WorkPrime, WorkMoves, WorkTell
        DEF Next, Runs, Works, Cancels

\* When an execution announces completion, every fact of the supersteps it did
\* itself was published before, or its publication failed (stepped, completed).
THEOREM OwnWorkIsTold == Spec => []TellsItsOwnWork
<1>1. Init => WorkInv
  BY DEF Init, WorkInv, TellsItsOwnWork
<1>2. WorkInv => TellsItsOwnWork
  BY DEF WorkInv
<1> QED BY <1>1, <1>2, TypeInit, TypeStep, WorkStep, PTL DEF Spec
-----------------------------------------------------------------------------
(* What a pass of embed_pending does to what is pending *)

\* A set of numbers that is not empty has a least one.
LEMMA Least ==
  ASSUME NEW S \in SUBSET Nat, S # {}
  PROVE  \E m \in S : \A d \in S : m <= d
<1>1. PICK m \in S : \A d \in S : ~ (<<d, m>> \in OpToRel(<, Nat))
  BY NatLessThanWellFounded, WFMin
<1>2. \A d \in S : ~ (d < m)
  BY <1>1 DEF OpToRel
<1> QED BY <1>2

\* A part of a document's chunks is a finite set of numbers.
LEMMA Part ==
  ASSUME NEW S \in SUBSET (1 .. Chunks)
  PROVE  IsFiniteSet(S) /\ S \in SUBSET Nat /\ Cardinality(S) \in Nat
<1>1. 1 \in Int /\ Chunks \in Int /\ 1 .. Chunks \subseteq Nat
  BY IngestionAssumption
<1>2. IsFiniteSet(1 .. Chunks)
  BY <1>1, FS_Interval
<1> QED BY <1>1, <1>2, FS_Subset, FS_CardinalityType

\* What a pass sends is all that was pending, or a full batch.
LEMMA FirstIsFull ==
  ASSUME NEW S \in SUBSET (1 .. Chunks), Batch <= Page
  PROVE  /\ FirstOf(S) \subseteq S
         /\ FirstOf(S) = S \/ Cardinality(FirstOf(S)) >= Batch
<1>1. IsFiniteSet(S) /\ S \subseteq Nat /\ Min2(Batch, Page) = Batch
  BY Part, IngestionAssumption DEF Min2
<1>2. SUFFICES ASSUME FirstOf(S) # S PROVE Cardinality(FirstOf(S)) >= Batch
  BY DEF FirstOf
<1> DEFINE Below(c) == {d \in S : d < c}
<1>3. PICK m \in S \ FirstOf(S) : \A d \in S \ FirstOf(S) : m <= d
  <2>1. S \ FirstOf(S) \in SUBSET Nat /\ S \ FirstOf(S) # {}
    BY <1>1, <1>2 DEF FirstOf
  <2> HIDE DEF FirstOf
  <2> QED BY <2>1, Least
<1>4. Below(m) \subseteq FirstOf(S)
  <2>1. ASSUME NEW d \in S, d < m, d \notin FirstOf(S) PROVE FALSE
    <3>1. d \in S \ FirstOf(S) /\ m \in Nat /\ d \in Nat
      BY <1>1, <1>3, <2>1
    <3>2. m <= d
      BY <1>3, <3>1
    <3> HIDE DEF FirstOf
    <3> QED BY <2>1, <3>1, <3>2
  <2> QED BY <2>1
<1>5. Cardinality(Below(m)) \in Nat /\ ~ (Cardinality(Below(m)) < Batch)
  <2>1. Below(m) \in SUBSET S
    OBVIOUS
  <2>2. ~ (Cardinality(Below(m)) < Batch)
    BY <1>1, <1>3 DEF FirstOf
  <2> QED BY <1>1, <2>1, <2>2, FS_Subset, FS_CardinalityType
<1>6. IsFiniteSet(FirstOf(S))
  BY <1>1, FS_Subset DEF FirstOf
<1>7. Cardinality(Below(m)) <= Cardinality(FirstOf(S)) /\ Cardinality(FirstOf(S)) \in Nat
  BY <1>4, <1>6, FS_Subset, FS_CardinalityType
<1> QED BY <1>5, <1>7, IngestionAssumption

\* After k passes nothing is pending, or all of them were full.
Short(S, k) == S = {} \/ Cardinality(S) + k * Batch <= MaxChunks

LEMMA PassShortens ==
  ASSUME NEW S \in SUBSET (1 .. Chunks), NEW k \in Nat, Short(S, k), Batch <= Page
  PROVE  Short(S \ FirstOf(S), k + 1)
<1> DEFINE F == FirstOf(S)
<1>1. /\ F \subseteq S /\ IsFiniteSet(S)
      /\ F = S \/ Cardinality(F) >= Batch
  BY FirstIsFull, Part
<1>2. CASE F = S
  BY <1>2 DEF Short
<1>3. CASE F # S
  <2>1. /\ Cardinality(S) \in Nat /\ Cardinality(F) \in Nat /\ Cardinality(S \ F) \in Nat
        /\ Cardinality(S \ F) = Cardinality(S) - Cardinality(F)
    <3> HIDE DEF F
    <3>1. S \cap F = F
      BY <1>1
    <3>2. Cardinality(S \ F) = Cardinality(S) - Cardinality(S \cap F)
      BY <1>1, FS_Difference
    <3>3. IsFiniteSet(F) /\ IsFiniteSet(S \ F)
      BY <1>1, FS_Subset
    <3> QED BY <1>1, <3>1, <3>2, <3>3, FS_CardinalityType
  <2>2. S # {}
    BY <1>1, <1>3
  <2>3. Cardinality(S) + k * Batch <= MaxChunks
    BY <2>2 DEF Short
  <2>4. (k + 1) * Batch = k * Batch + Batch /\ k * Batch \in Nat
    BY IngestionAssumption
  <2>5. Cardinality(S \ F) + (k + 1) * Batch <= MaxChunks
    <3> HIDE DEF F
    <3> QED BY <1>1, <1>3, <2>1, <2>3, <2>4, IngestionAssumption
  <2> QED BY <2>5 DEF Short
<1> QED BY <1>2, <1>3

\* Vectors that another execution stores meanwhile only help.
LEMMA LessIsShort ==
  ASSUME NEW S \in SUBSET (1 .. Chunks), NEW T \in SUBSET S, NEW k \in Nat, Short(S, k)
  PROVE  Short(T, k)
<1>1. IsFiniteSet(S)
  BY Part
<1>2. Cardinality(T) <= Cardinality(S) /\ Cardinality(T) \in Nat /\ Cardinality(S) \in Nat
  BY <1>1, FS_Subset, FS_CardinalityType
<1>3. k * Batch \in Nat
  BY IngestionAssumption
<1> QED BY <1>2, <1>3, IngestionAssumption DEF Short

\* So the passes the loop has are enough.
LEMMA PassesSuffice ==
  ASSUME NEW S \in SUBSET (1 .. Chunks), Short(S, Passes)
  PROVE  S = {}
<1>1. Passes * Batch > MaxChunks /\ Passes \in Nat
  <2> DEFINE q == (MaxChunks + Batch - 1) \div Batch
  <2>1. q \in Int /\ q >= 0 /\ MaxChunks + Batch - 1 < (q + 1) * Batch
    BY IngestionAssumption
  <2> QED BY <2>1, IngestionAssumption DEF Passes
<1>2. IsFiniteSet(S) /\ Cardinality(S) \in Nat
  BY Part
<1> QED BY <1>1, <1>2, IngestionAssumption DEF Short

-----------------------------------------------------------------------------
(* What an execution that ingests tells *)

\* It starts and goes on as the story does; ingestion alone changes nothing of
\* it but for the faults it counts.
LEMMA StoryStep ==
  /\ ExecInit => Init
  /\ [ExecNext]_allVars => [Next]_vars
<1>1. ExecInit => Init
  BY DEF ExecInit
<1>2. ASSUME NEW e \in Executions, StoryGoesOn(e) PROVE Next
  BY <1>2 DEF StoryGoesOn, Next, Runs
<1>3. ASSUME NEW e \in Executions, NEW u \in Uploads, IngestFails(e, u) PROVE Next
  BY <1>3 DEF IngestFails, Next
<1>4. ASSUME NEW e \in Executions, NEW u \in Uploads, IngestGoesOn(e, u) PROVE UNCHANGED vars
  BY <1>4 DEF IngestGoesOn
<1>5. ExecNext => Next \/ UNCHANGED vars
  BY <1>2, <1>3, <1>4 DEF ExecNext, Next
<1>6. UNCHANGED allVars => UNCHANGED vars
  BY DEF allVars
<1> QED BY <1>1, <1>5, <1>6

\* So all that RunStory promises of a run holds of one whose files are ingested
\* by its executions first (execute, _brief).
THEOREM ExecutionsTellTheStory == ExecSpec => Spec
BY StoryStep, PTL DEF ExecSpec, Spec

-----------------------------------------------------------------------------
(* The invariant *)

\* Where a file's task has got to says what is stored: the copy before the
\* source, the source before the vectors, and never a second source, because
\* what was found under the lock is still so.
Stored ==
    \A u \in Uploads :
        /\ sources[u] \in {0, 1}
        /\ sources[u] = 1 => u \in copied
        /\ \A e \in Executions :
             /\ task[e][u] \in {"parsing", "storing", "locked"} => u \in copied
             /\ task[e][u] = "locked" => lock[u] = e /\ (saw[e][u] <=> sources[u] = 1)
             /\ task[e][u] \in {"embedding", "waiting", "done"} => sources[u] = 1

\* Every pass an execution has made was full, or nothing is left.
Covered ==
    Embedder /\ Batch <= Page =>
        \A e \in Executions, u \in Uploads :
            /\ task[e][u] = "embedding" => Short(Pending(u), Passes - passes[e][u])
            /\ task[e][u] = "waiting" =>
                 Short(Pending(u) \ batch[e][u], Passes - passes[e][u])
            /\ task[e][u] = "done" => Pending(u) = {}

CorpusTypes ==
    /\ task \in [Executions -> [Uploads -> Tasks]]
    /\ saw \in [Executions -> [Uploads -> BOOLEAN]]
    /\ batch \in [Executions -> [Uploads -> SUBSET (1 .. Chunks)]]
    /\ passes \in [Executions -> [Uploads -> 0 .. Passes]]
    /\ copied \subseteq Uploads
    /\ lock \in [Uploads -> Executions \cup {None}]
    /\ sources \in [Uploads -> Nat]
    /\ vectors \in [Uploads -> SUBSET (1 .. Chunks)]

IngestInv == CorpusTypes /\ Stored /\ Covered

LEMMA PassesNat == Passes \in Nat
<1> DEFINE q == (MaxChunks + Batch - 1) \div Batch
<1>1. q \in Int /\ q >= 0
  BY IngestionAssumption
<1> QED BY <1>1 DEF Passes

LEMMA InitInv == IngestInit => IngestInv
BY PassesNat, IngestionAssumption DEF IngestInit, IngestInv, CorpusTypes, Stored, Covered, Tasks

\* A task that moves moves alone.
LEMMA MovesAlone ==
  ASSUME CorpusTypes, NEW e \in Executions, NEW u \in Uploads, NEW t \in Tasks, Moves(e, u, t)
  PROVE  /\ task' \in [Executions -> [Uploads -> Tasks]]
         /\ task'[e][u] = t
         /\ \A f \in Executions, v \in Uploads :
              (f # e \/ v # u) => task'[f][v] = task[f][v]
BY DEF Moves, CorpusTypes

\* The step of one task ...
Alone(e, u) ==
    \A f \in Executions, v \in Uploads : (f # e \/ v # u) =>
        /\ task'[f][v] = task[f][v] /\ saw'[f][v] = saw[f][v]
        /\ batch'[f][v] = batch[f][v] /\ passes'[f][v] = passes[f][v]

\* ... that takes nothing away ...
Adds(e, u) ==
    /\ copied \subseteq copied' /\ vectors[u] \subseteq vectors'[u]
    /\ \A v \in Uploads : v # u => /\ lock'[v] = lock[v] /\ sources'[v] = sources[v]
                                   /\ vectors'[v] = vectors[v]
    /\ sources'[u] \in {0, 1} /\ sources[u] <= sources'[u]
    /\ sources'[u] = 1 => u \in copied'
    /\ \/ lock'[u] = lock[u] /\ sources'[u] = sources[u]
       \/ \A f \in Executions : task'[f][u] = "locked" => f = e

\* ... and knows what it has done.
Knows(e, u) ==
    /\ task'[e][u] \in {"parsing", "storing", "locked"} => u \in copied'
    /\ task'[e][u] = "locked" => lock'[u] = e /\ (saw'[e][u] <=> sources'[u] = 1)
    /\ task'[e][u] \in {"embedding", "waiting", "done"} => sources'[u] = 1

Fills(e, u) ==
    Embedder /\ Batch <= Page =>
        /\ task'[e][u] = "embedding" => Short(Pending(u)', Passes - passes'[e][u])
        /\ task'[e][u] = "waiting" =>
             Short(Pending(u)' \ batch'[e][u], Passes - passes'[e][u])
        /\ task'[e][u] = "done" => Pending(u)' = {}

\* What the other tasks know is still so.
LEMMA OthersKeep ==
  ASSUME IngestInv, NEW e \in Executions, NEW u \in Uploads,
         CorpusTypes', Alone(e, u), Adds(e, u), Knows(e, u), Fills(e, u)
  PROVE  IngestInv'
<1> USE DEF Alone, Adds, Knows, Fills
<1>1. Stored'
  <2>1. ASSUME NEW v \in Uploads, NEW f \in Executions
        PROVE  /\ task'[f][v] \in {"parsing", "storing", "locked"} => v \in copied'
               /\ task'[f][v] = "locked" => lock'[v] = f /\ (saw'[f][v] <=> sources'[v] = 1)
               /\ task'[f][v] \in {"embedding", "waiting", "done"} => sources'[v] = 1
    <3>1. CASE f = e /\ v = u
      BY <3>1
    <3>2. CASE f # e \/ v # u
      BY <2>1, <3>2 DEF IngestInv, Stored
    <3> QED BY <3>1, <3>2
  <2>2. ASSUME NEW v \in Uploads
        PROVE  sources'[v] \in {0, 1} /\ (sources'[v] = 1 => v \in copied')
    BY <2>2 DEF IngestInv, Stored
  <2> QED BY <2>1, <2>2 DEF Stored
<1>2. Covered'
  <2>1. ASSUME Embedder /\ Batch <= Page, NEW f \in Executions, NEW v \in Uploads, f # e \/ v # u
        PROVE  /\ task'[f][v] = "embedding" => Short(Pending(v)', Passes - passes'[f][v])
               /\ task'[f][v] = "waiting" =>
                    Short(Pending(v)' \ batch'[f][v], Passes - passes'[f][v])
               /\ task'[f][v] = "done" => Pending(v)' = {}
    <3>1. Pending(v)' \subseteq Pending(v) /\ Pending(v) \subseteq 1 .. Chunks
      BY <2>1 DEF Pending
    <3>2. /\ task[f][v] = "embedding" => Short(Pending(v), Passes - passes[f][v])
          /\ task[f][v] = "waiting" => Short(Pending(v) \ batch[f][v], Passes - passes[f][v])
          /\ task[f][v] = "done" => Pending(v) = {}
      BY <2>1 DEF IngestInv, Covered
    <3>3. Passes - passes[f][v] \in Nat
      BY PassesNat DEF IngestInv, CorpusTypes
    <3>4. /\ task'[f][v] = task[f][v] /\ batch'[f][v] = batch[f][v]
          /\ passes'[f][v] = passes[f][v]
      BY <2>1
    <3>5. CASE task[f][v] = "embedding"
      BY <3>1, <3>2, <3>3, <3>4, <3>5, LessIsShort
    <3>6. CASE task[f][v] = "waiting"
      <4>1. /\ Pending(v)' \ batch[f][v] \in SUBSET (Pending(v) \ batch[f][v])
            /\ Pending(v) \ batch[f][v] \in SUBSET (1 .. Chunks)
        BY <3>1
      <4> QED BY <3>2, <3>3, <3>4, <3>6, <4>1, LessIsShort
    <3>7. CASE task[f][v] \notin {"embedding", "waiting"}
      BY <3>1, <3>2, <3>4, <3>7
    <3> QED BY <3>5, <3>6, <3>7
  <2> QED BY <2>1 DEF Covered
<1> QED BY <1>1, <1>2 DEF IngestInv

\* Each step of an ingestion keeps the types ...
LEMMA IngestTypes ==
  ASSUME CorpusTypes, NEW e \in Executions, NEW u \in Uploads,
         Ingests(e, u) \/ Refuses(e, u) \/ Fails(e, u)
  PROVE  CorpusTypes'
<1>1. \A t \in Tasks : Moves(e, u, t) => task' \in [Executions -> [Uploads -> Tasks]]
  BY MovesAlone
<1>2. {"copying", "parsing", "storing", "skipped", "locked", "embedding", "waiting", "done",
       "broken"} \subseteq Tasks
  BY DEF Tasks
<1>3. Embeds(e, u) => /\ task' \in [Executions -> [Uploads -> Tasks]]
                      /\ passes' \in [Executions -> [Uploads -> 0 .. Passes]]
  BY <1>1, <1>2, PassesNat, IngestionAssumption DEF Embeds, CorpusTypes
<1>4. CASE Look(e, u)
  BY <1>1, <1>2, <1>3, <1>4 DEF Look, CorpusTypes, corpus
<1>5. CASE Copy(e, u) \/ Parse(e, u)
  BY <1>1, <1>2, <1>5 DEF Copy, Parse, CorpusTypes, corpus
<1>6. CASE Find(e, u)
  BY <1>1, <1>2, <1>6 DEF Find, CorpusTypes
<1>7. CASE Store(e, u)
  BY <1>3, <1>7 DEF Store, CorpusTypes
<1>8. CASE Batches(e, u)
  <2>1. FirstOf(Pending(u)) \in SUBSET (1 .. Chunks)
    BY DEF FirstOf, Pending
  <2>2. passes[e][u] \in 0 .. Passes
    BY DEF CorpusTypes
  <2>3. passes[e][u] # 0 => passes[e][u] - 1 \in 0 .. Passes
    BY <2>2, PassesNat
  <2>4. task' \in [Executions -> [Uploads -> Tasks]]
    BY <1>1, <1>2, <1>8 DEF Batches
  <2>5. CASE passes[e][u] = 0 \/ Pending(u) = {}
    BY <1>8, <2>4, <2>5 DEF Batches, CorpusTypes, corpus
  <2>6. CASE ~ (passes[e][u] = 0 \/ Pending(u) = {})
    <3>1. /\ batch' = [batch EXCEPT ![e][u] = FirstOf(Pending(u))]
          /\ passes' = [passes EXCEPT ![e][u] = @ - 1]
          /\ UNCHANGED <<copied, lock, sources, vectors, saw>>
      BY <1>8, <2>6 DEF Batches, corpus
    <3>2. batch' \in [Executions -> [Uploads -> SUBSET (1 .. Chunks)]]
      <4> HIDE DEF FirstOf
      <4> QED BY <2>1, <3>1 DEF CorpusTypes
    <3>3. passes' \in [Executions -> [Uploads -> 0 .. Passes]]
      BY <2>3, <2>6, <3>1 DEF CorpusTypes
    <3> QED BY <2>4, <3>1, <3>2, <3>3 DEF CorpusTypes
  <2> QED BY <2>5, <2>6
<1>9. CASE Fill(e, u)
  <2>1. task' \in [Executions -> [Uploads -> Tasks]]
    BY <1>1, <1>2, <1>9 DEF Fill
  <2>2. batch' \in [Executions -> [Uploads -> SUBSET (1 .. Chunks)]]
    BY <1>9 DEF Fill, CorpusTypes
  <2>3. vectors' \in [Uploads -> SUBSET (1 .. Chunks)]
    BY <1>9 DEF Fill, CorpusTypes
  <2> QED BY <1>9, <2>1, <2>2, <2>3 DEF Fill, CorpusTypes
<1>10. CASE Refuses(e, u) \/ Fails(e, u)
  <2>1. Gives(e, u) /\ (Moves(e, u, "skipped") \/ Moves(e, u, "broken"))
    BY <1>10 DEF Refuses, Fails
  <2>2. task' \in [Executions -> [Uploads -> Tasks]]
    BY <1>1, <1>2, <2>1
  <2>3. batch' \in [Executions -> [Uploads -> SUBSET (1 .. Chunks)]]
    BY <2>1 DEF Gives, CorpusTypes
  <2>4. lock' \in [Uploads -> Executions \cup {None}]
    BY <2>1 DEF Gives, CorpusTypes
  <2> QED BY <2>1, <2>2, <2>3, <2>4 DEF Gives, CorpusTypes
<1> QED BY <1>4, <1>5, <1>6, <1>7, <1>8, <1>9, <1>10 DEF Ingests

\* ... and the invariant.
LEMMA IngestKeeps ==
  ASSUME IngestInv, NEW e \in Executions, NEW u \in Uploads,
         Ingests(e, u) \/ Refuses(e, u) \/ Fails(e, u)
  PROVE  IngestInv'
<1>a. CorpusTypes /\ CorpusTypes' /\ Stored /\ Covered
  BY IngestTypes DEF IngestInv
<1>b. /\ sources[u] \in {0, 1} /\ (sources[u] = 1 => u \in copied)
      /\ task[e][u] \in {"parsing", "storing", "locked"} => u \in copied
      /\ task[e][u] \in {"embedding", "waiting", "done"} => sources[u] = 1
      /\ \A f \in Executions : task[f][u] = "locked" =>
            lock[u] = f /\ (saw[f][u] <=> sources[u] = 1)
  BY <1>a DEF Stored
<1>c. \A t \in Tasks : Moves(e, u, t) =>
        /\ task'[e][u] = t
        /\ \A f \in Executions, v \in Uploads :
              (f # e \/ v # u) => task'[f][v] = task[f][v]
  BY <1>a, MovesAlone
<1>d. {"looking", "copying", "parsing", "storing", "skipped", "locked", "embedding", "waiting",
       "done", "broken"} \subseteq Tasks
  BY DEF Tasks
<1>e. ASSUME Embeds(e, u)
      PROVE  /\ task'[e][u] \in {"embedding", "done"}
             /\ task'[e][u] = "done" => ~Embedder
             /\ passes'[e][u] = Passes
             /\ \A f \in Executions, v \in Uploads : (f # e \/ v # u) =>
                  task'[f][v] = task[f][v] /\ passes'[f][v] = passes[f][v]
  BY <1>a, <1>c, <1>d, <1>e DEF Embeds, CorpusTypes
<1>f. Short(Pending(u), 0)
  <2>1. Pending(u) \in SUBSET (1 .. Chunks) /\ IsFiniteSet(1 .. Chunks)
        /\ Cardinality(1 .. Chunks) = Chunks
    BY IngestionAssumption, FS_Interval DEF Pending
  <2>2. Cardinality(Pending(u)) <= Chunks /\ Cardinality(Pending(u)) \in Nat
    BY <2>1, FS_Subset, FS_CardinalityType
  <2> QED BY <2>2, IngestionAssumption DEF Short
<1>g. Alone(e, u) /\ Adds(e, u) /\ Knows(e, u) /\ Fills(e, u) => IngestInv'
  BY <1>a, OthersKeep
<1>1. CASE Look(e, u)
  <2>1. CASE sources[u] > 0
    <3>1. Embeds(e, u) /\ UNCHANGED <<corpus, saw, batch>>
      BY <1>1, <2>1 DEF Look
    <3>2. Pending(u)' = Pending(u) /\ Passes - Passes = 0
      BY <3>1, PassesNat DEF Pending, corpus
    <3>3. Alone(e, u) /\ Adds(e, u)
      BY <1>b, <1>e, <3>1 DEF Alone, Adds, corpus
    <3>4. Knows(e, u) /\ Fills(e, u)
      BY <1>b, <1>e, <1>f, <2>1, <3>1, <3>2 DEF Knows, Fills, corpus
    <3> QED BY <1>g, <3>3, <3>4
  <2>2. CASE ~ (sources[u] > 0)
    <3>1. Moves(e, u, "copying") /\ UNCHANGED <<passes, corpus, saw, batch>>
      BY <1>1, <2>2 DEF Look
    <3>2. Alone(e, u) /\ Adds(e, u)
      BY <1>b, <1>c, <1>d, <3>1 DEF Alone, Adds, corpus
    <3>3. Knows(e, u) /\ Fills(e, u)
      BY <1>c, <1>d, <3>1 DEF Knows, Fills
    <3> QED BY <1>g, <3>2, <3>3
  <2> QED BY <2>1, <2>2
<1>2. CASE Copy(e, u)
  <2>1. Moves(e, u, "parsing") /\ u \in copied' /\ copied \subseteq copied'
        /\ UNCHANGED <<lock, sources, vectors, saw, batch, passes>>
    BY <1>2 DEF Copy
  <2>2. Alone(e, u) /\ Adds(e, u)
    BY <1>b, <1>c, <1>d, <2>1 DEF Alone, Adds
  <2>3. Knows(e, u) /\ Fills(e, u)
    BY <1>c, <1>d, <2>1 DEF Knows, Fills
  <2> QED BY <1>g, <2>2, <2>3
<1>3. CASE Parse(e, u)
  <2>1. /\ Moves(e, u, "storing") \/ Moves(e, u, "skipped")
        /\ UNCHANGED <<corpus, saw, batch, passes>> /\ task[e][u] = "parsing"
    BY <1>3 DEF Parse, At
  <2>2. Alone(e, u) /\ Adds(e, u)
    BY <1>b, <1>c, <1>d, <2>1 DEF Alone, Adds, corpus
  <2>3. Knows(e, u) /\ Fills(e, u)
    BY <1>b, <1>c, <1>d, <2>1 DEF Knows, Fills, corpus
  <2> QED BY <1>g, <2>2, <2>3
<1>4. CASE Find(e, u)
  <2>1. /\ Moves(e, u, "locked") /\ lock[u] = None /\ task[e][u] = "storing"
        /\ UNCHANGED <<copied, sources, vectors, batch, passes>>
    BY <1>4 DEF Find, At
  <2>2. /\ lock'[u] = e /\ \A v \in Uploads : v # u => lock'[v] = lock[v]
        /\ saw'[e][u] = (sources[u] > 0)
        /\ \A f \in Executions, v \in Uploads : (f # e \/ v # u) => saw'[f][v] = saw[f][v]
    BY <1>4, <1>a DEF Find, CorpusTypes
  <2>3. \A f \in Executions : task'[f][u] = "locked" => f = e
    BY <1>b, <1>c, <1>d, <2>1, BoundsAssumption
  <2>4. Alone(e, u) /\ Adds(e, u)
    BY <1>b, <1>c, <1>d, <2>1, <2>2, <2>3 DEF Alone, Adds
  <2>5. Knows(e, u)
    <3>1. task'[e][u] = "locked" /\ u \in copied' /\ sources'[u] = sources[u]
      BY <1>b, <1>c, <1>d, <2>1
    <3>2. sources[u] > 0 <=> sources'[u] = 1
      BY <1>b, <3>1
    <3>3. saw'[e][u] <=> sources'[u] = 1
      BY <2>2, <3>2, Zenon
    <3> QED BY <2>2, <3>1, <3>3 DEF Knows
  <2>6. Fills(e, u)
    BY <1>c, <1>d, <2>1 DEF Fills
  <2> QED BY <1>g, <2>4, <2>5, <2>6
<1>5. CASE Store(e, u)
  <2>1. /\ Embeds(e, u) /\ task[e][u] = "locked" /\ UNCHANGED <<copied, vectors, saw, batch>>
    BY <1>5 DEF Store, At
  <2>2. /\ sources'[u] = 1
        /\ \A v \in Uploads : v # u => sources'[v] = sources[v] /\ lock'[v] = lock[v]
    BY <1>5, <1>a, <1>b, <2>1 DEF Store, CorpusTypes
  <2>3. \A f \in Executions : task'[f][u] = "locked" => f = e
    BY <1>b, <1>e, <2>1
  <2>4. Pending(u)' = Pending(u) /\ Passes - Passes = 0
    BY <2>1, PassesNat DEF Pending
  <2>5. Alone(e, u) /\ Adds(e, u)
    BY <1>b, <1>e, <2>1, <2>2, <2>3 DEF Alone, Adds
  <2>6. Knows(e, u)
    BY <1>e, <2>1, <2>2 DEF Knows
  <2>7. Fills(e, u)
    BY <1>e, <1>f, <2>1, <2>4 DEF Fills
  <2> QED BY <1>g, <2>5, <2>6, <2>7
<1>6. CASE Batches(e, u)
  <2>0. /\ task[e][u] = "embedding" /\ UNCHANGED <<corpus, saw>> /\ passes[e][u] \in 0 .. Passes
        /\ Pending(u)' = Pending(u) /\ Pending(u) \in SUBSET (1 .. Chunks)
    BY <1>6, <1>a DEF Batches, At, CorpusTypes, Pending, corpus
  <2>1. Embedder /\ Batch <= Page => Short(Pending(u), Passes - passes[e][u])
    BY <1>a, <2>0 DEF Covered
  <2>2. CASE passes[e][u] = 0 \/ Pending(u) = {}
    <3>1. Moves(e, u, "done") /\ UNCHANGED <<batch, passes>>
      BY <1>6, <2>2 DEF Batches
    <3>2. Embedder /\ Batch <= Page => Pending(u) = {}
      <4>1. passes[e][u] = 0 => Passes - passes[e][u] = Passes
        BY PassesNat
      <4> QED BY <2>0, <2>1, <2>2, <4>1, PassesSuffice
    <3>3. Alone(e, u) /\ Adds(e, u)
      BY <1>b, <1>c, <1>d, <2>0, <3>1 DEF Alone, Adds, corpus
    <3>4. Knows(e, u) /\ Fills(e, u)
      BY <1>b, <1>c, <1>d, <2>0, <3>1, <3>2 DEF Knows, Fills, corpus
    <3> QED BY <1>g, <3>3, <3>4
  <2>3. CASE ~ (passes[e][u] = 0 \/ Pending(u) = {})
    <3>1. /\ Moves(e, u, "waiting")
          /\ batch'[e][u] = FirstOf(Pending(u)) /\ passes'[e][u] = passes[e][u] - 1
          /\ \A f \in Executions, v \in Uploads : (f # e \/ v # u) =>
                batch'[f][v] = batch[f][v] /\ passes'[f][v] = passes[f][v]
      <4> HIDE DEF FirstOf
      <4> QED BY <1>6, <1>a, <2>3 DEF Batches, CorpusTypes
    <3>2. Embedder /\ Batch <= Page =>
            Short(Pending(u) \ FirstOf(Pending(u)), Passes - passes'[e][u])
      <4>1. /\ Passes - passes[e][u] \in Nat
            /\ (Passes - passes[e][u]) + 1 = Passes - (passes[e][u] - 1)
        BY <2>0, PassesNat
      <4> HIDE DEF FirstOf, Short
      <4> QED BY <2>0, <2>1, <3>1, <4>1, PassShortens
    <3>3. Alone(e, u) /\ Adds(e, u)
      BY <1>b, <1>c, <1>d, <2>0, <3>1 DEF Alone, Adds, corpus
    <3>4. Knows(e, u) /\ Fills(e, u)
      BY <1>b, <1>c, <1>d, <2>0, <3>1, <3>2 DEF Knows, Fills, corpus
    <3> QED BY <1>g, <3>3, <3>4
  <2> QED BY <2>2, <2>3
<1>7. CASE Fill(e, u)
  <2>1. /\ task[e][u] = "waiting" /\ Moves(e, u, "embedding")
        /\ UNCHANGED <<copied, lock, sources, saw, passes>>
    BY <1>7 DEF Fill, At
  <2>2. /\ vectors'[u] = vectors[u] \cup batch[e][u]
        /\ \A v \in Uploads : v # u => vectors'[v] = vectors[v]
        /\ \A f \in Executions, v \in Uploads : (f # e \/ v # u) => batch'[f][v] = batch[f][v]
    BY <1>7, <1>a DEF Fill, CorpusTypes
  <2>3. Pending(u)' = Pending(u) \ batch[e][u]
    BY <2>2 DEF Pending
  <2>4. Embedder /\ Batch <= Page => Short(Pending(u)', Passes - passes'[e][u])
    BY <1>a, <2>1, <2>3 DEF Covered
  <2>5. Alone(e, u) /\ Adds(e, u)
    BY <1>b, <1>c, <1>d, <2>1, <2>2 DEF Alone, Adds
  <2>6. Knows(e, u) /\ Fills(e, u)
    BY <1>b, <1>c, <1>d, <2>1, <2>4 DEF Knows, Fills
  <2> QED BY <1>g, <2>5, <2>6
<1>8. CASE Refuses(e, u) \/ Fails(e, u)
  <2>1. /\ Moves(e, u, "skipped") \/ Moves(e, u, "broken")
        /\ UNCHANGED <<copied, sources, vectors, saw, passes>>
        /\ lock'[u] = (IF lock[u] = e THEN None ELSE lock[u])
        /\ \A v \in Uploads : v # u => lock'[v] = lock[v]
        /\ \A f \in Executions, v \in Uploads : (f # e \/ v # u) => batch'[f][v] = batch[f][v]
    BY <1>8, <1>a DEF Refuses, Fails, Gives, CorpusTypes
  <2>2. lock[u] = e => \A f \in Executions : task'[f][u] = "locked" => f = e
    BY <1>b, <1>c, <1>d, <2>1
  <2>3. Alone(e, u) /\ Adds(e, u)
    BY <1>b, <1>c, <1>d, <2>1, <2>2 DEF Alone, Adds
  <2>4. Knows(e, u) /\ Fills(e, u)
    BY <1>c, <1>d, <2>1 DEF Knows, Fills
  <2> QED BY <1>g, <2>3, <2>4
<1> QED BY <1>1, <1>2, <1>3, <1>4, <1>5, <1>6, <1>7, <1>8 DEF Ingests

\* An execution that begins, is abandoned or dies takes nothing from the others,
\* and knows nothing itself.
LEMMA OthersRest ==
  ASSUME IngestInv, NEW e \in Executions, Begins(e) \/ Abandons(e)
  PROVE  IngestInv'
<1>a. CorpusTypes /\ Stored /\ Covered
  BY DEF IngestInv
<1>1. /\ \A v \in Uploads : task'[e][v] \in {"looking", "out"}
      /\ \A f \in Executions, v \in Uploads : f # e => task'[f][v] = task[f][v]
      /\ task' \in [Executions -> [Uploads -> Tasks]]
  <2>1. PICK t \in {"looking", "out"} : task' = [task EXCEPT ![e] = [u \in Uploads |-> t]]
    BY DEF Begins, Abandons
  <2>2. task \in [Executions -> [Uploads -> Tasks]] /\ t \in Tasks
    BY <1>a, <2>1 DEF CorpusTypes, Tasks
  <2>3. [u \in Uploads |-> t] \in [Uploads -> Tasks]
    BY <2>2
  <2> QED BY <2>1, <2>2, <2>3
<1>2. /\ \A f \in Executions, v \in Uploads : f # e => batch'[f][v] = batch[f][v]
      /\ batch' \in [Executions -> [Uploads -> SUBSET (1 .. Chunks)]]
  <2>1. batch' = batch \/ batch' = [batch EXCEPT ![e] = [u \in Uploads |-> {}]]
    BY DEF Begins, Abandons
  <2>2. [u \in Uploads |-> {}] \in [Uploads -> SUBSET (1 .. Chunks)]
    OBVIOUS
  <2> QED BY <1>a, <2>1, <2>2 DEF CorpusTypes
<1>3. /\ \A v \in Uploads, f \in Executions : f # e /\ lock[v] = f => lock'[v] = f
      /\ lock' \in [Uploads -> Executions \cup {None}]
  BY <1>a DEF Begins, Abandons, CorpusTypes, corpus
<1>4. UNCHANGED <<copied, sources, vectors, saw, passes>>
  BY DEF Begins, Abandons, corpus
<1>5. CorpusTypes'
  BY <1>a, <1>1, <1>2, <1>3, <1>4 DEF CorpusTypes
<1>6. Stored'
  <2>1. ASSUME NEW v \in Uploads, NEW f \in Executions
        PROVE  /\ task'[f][v] \in {"parsing", "storing", "locked"} => v \in copied'
               /\ task'[f][v] = "locked" => lock'[v] = f /\ (saw'[f][v] <=> sources'[v] = 1)
               /\ task'[f][v] \in {"embedding", "waiting", "done"} => sources'[v] = 1
    <3>1. CASE f = e
      BY <1>1, <3>1
    <3>2. CASE f # e
      BY <1>a, <1>1, <1>3, <1>4, <3>2 DEF Stored
    <3> QED BY <3>1, <3>2
  <2> QED BY <1>a, <1>4, <2>1 DEF Stored
<1>7. Covered'
  <2>1. \A v \in Uploads : Pending(v)' = Pending(v)
    BY <1>4 DEF Pending
  <2>2. ASSUME Embedder /\ Batch <= Page, NEW f \in Executions, NEW v \in Uploads
        PROVE  /\ task'[f][v] = "embedding" => Short(Pending(v)', Passes - passes'[f][v])
               /\ task'[f][v] = "waiting" =>
                    Short(Pending(v)' \ batch'[f][v], Passes - passes'[f][v])
               /\ task'[f][v] = "done" => Pending(v)' = {}
    <3>1. CASE f = e
      BY <1>1, <3>1
    <3>2. CASE f # e
      <4>1. task'[f][v] = task[f][v] /\ batch'[f][v] = batch[f][v] /\ passes' = passes
        BY <1>1, <1>2, <1>4, <2>2, <3>2
      <4>2. /\ task[f][v] = "embedding" => Short(Pending(v), Passes - passes[f][v])
            /\ task[f][v] = "waiting" => Short(Pending(v) \ batch[f][v], Passes - passes[f][v])
            /\ task[f][v] = "done" => Pending(v) = {}
        BY <1>a, <2>2 DEF Covered
      <4> QED BY ONLY <2>1, <2>2, <4>1, <4>2
    <3> QED BY <3>1, <3>2
  <2> QED BY <2>2 DEF Covered
<1> QED BY <1>5, <1>6, <1>7 DEF IngestInv

\* What is not ingestion leaves all of it as it is.
LEMMA Untouched ==
  ASSUME IngestInv, UNCHANGED <<corpus, ingesting>>
  PROVE  IngestInv'
BY DEF IngestInv, CorpusTypes, Stored, Covered, Pending, corpus, ingesting

LEMMA InvStep == IngestInv /\ [ExecNext]_allVars => IngestInv'
<1> SUFFICES ASSUME IngestInv, [ExecNext]_allVars PROVE IngestInv'
  OBVIOUS
<1>1. ASSUME NEW e \in Executions, StoryGoesOn(e) PROVE IngestInv'
  BY <1>1, OthersRest, Untouched DEF StoryGoesOn
<1>2. ASSUME NEW e \in Executions, Crash(e) /\ Abandons(e) PROVE IngestInv'
  BY <1>2, OthersRest
<1>3. ASSUME NEW e \in Executions, NEW u \in Uploads, IngestGoesOn(e, u) \/ IngestFails(e, u)
      PROVE  IngestInv'
  BY <1>3, IngestKeeps DEF IngestGoesOn, IngestFails
<1>4. UNCHANGED allVars => UNCHANGED <<corpus, ingesting>>
  BY DEF allVars
<1> QED BY <1>1, <1>2, <1>3, <1>4, Untouched DEF ExecNext

-----------------------------------------------------------------------------
(* Theorems *)

\* The corpus, its tasks and the story keep their types.
THEOREM TypesCorrect == ExecSpec => []TypesOK
<1>1. TypeOK /\ IngestInv => TypesOK
  BY DEF IngestInv, CorpusTypes, TypesOK
<1>2. ExecInit => IngestInv
  BY InitInv DEF ExecInit
<1> QED BY <1>1, <1>2, InvStep, ExecutionsTellTheStory, TypeCorrect, PTL DEF ExecSpec

\* A file is one source of a run, however many executions ingest it at once, and
\* an execution that counts it as ingested found or made all of it: the copy, the
\* document, and every vector if batches fit in a read (ingest, embed_pending).
THEOREM IngestionIsOnce == ExecSpec => []IngestedOnce
<1>1. ASSUME IngestInv PROVE IngestedOnce
  <2>1. ASSUME NEW u \in Uploads, NEW e \in Executions, task[e][u] = "done"
        PROVE  /\ u \in copied /\ sources[u] = 1
               /\ Embedder /\ Batch <= Page => Pending(u) = {}
    BY <1>1, <2>1 DEF IngestInv, Stored, Covered
  <2>2. \A u \in Uploads : sources[u] <= 1
    <3>1. \A u \in Uploads : sources[u] \in {0, 1}
      BY <1>1 DEF IngestInv, Stored
    <3> QED BY <3>1
  <2> QED BY <2>1, <2>2 DEF IngestedOnce
<1>2. ExecInit => IngestInv
  BY InitInv DEF ExecInit
<1> QED BY <1>1, <1>2, InvStep, PTL DEF ExecSpec
=============================================================================
