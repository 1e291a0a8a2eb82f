------------------------------ MODULE RunStory ------------------------------
(***************************************************************************)
(* What a run leaves for its reader: the events its workers narrate it     *)
(* with (workers/events.py), the rows its recorder projects                *)
(* (research/recorder.py), and how it ends.  An ending is a row and an     *)
(* event, written apart, and both by a worker (workers/worker.py) and by   *)
(* the user who cancels (research/service.py).  RunLease has the leases in *)
(* full; here a lease is an owner.  EventDelivery has what becomes of the  *)
(* log.                                                                    *)
(*                                                                         *)
(* The graph is its sequence of supersteps: rounds of research, the        *)
(* answer, and the checks of the report's revisions, a failed one being    *)
(* followed by the next.  Research and the answer bring one fact each, and *)
(* facts are told at the boundary of a superstep of their kind: a source   *)
(* with any later round of research, the answer with the answerer only.    *)
(* The announcements of drafts and checks go by a count and are left out.  *)
(***************************************************************************)
EXTENDS Integers, Sequences, FiniteSets

CONSTANTS
    Executions,    \* the executions of the run, one per claim
    Rounds,        \* supersteps of research; the answer is one more
    Revisions,     \* revisions of the report that are checked
    Window,        \* events one replay returns (DEFAULT_REPLAY_LIMIT)
    Buffer,        \* events Redis keeps (sse_replay_buffer_size)
    MaxAttempts,   \* worker_max_attempts
    MaxFaults,     \* bound on failures, stalls and kills
    None

ASSUME BoundsAssumption ==
    /\ Rounds \in Nat /\ Window \in Nat /\ Buffer \in Nat
    /\ Revisions \in Nat \ {0}
    /\ MaxAttempts \in Nat /\ MaxFaults \in Nat
    /\ None \notin Executions

Last == Rounds + 1
Facts == 1 .. Last

\* A draft that is not checked yet is recorded like the state before it.
Steps == Last + Revisions

Endings == {"completed", "failed", "cancelled"}

VARIABLES
    row,         \* the run's row: status, owner, attempts
    cancel,      \* where the request that cancels the run is
    checkpoint,  \* supersteps in the graph's last checkpoint
    reached,     \* facts that have rows
    valued,      \* the state, in supersteps, whose values rows were last given
    report,      \* the revision whose report is stored, 0 for none
    log,         \* research_events: type, fact, and who published it
    lost,        \* facts whose publication failed
    phase,       \* where each execution is
    attempt,     \* the attempt its lease carries
    start,       \* the checkpoint it resumed from
    state,       \* supersteps its graph has done
    read,        \* the positions of the log its prime returned
    seen,        \* the facts its cursor holds
    due,         \* what is left to announce of its superstep
    held,        \* the checkpoint it reread to record
    faults

lease == <<row, cancel>>
story == <<log, lost, seen, due>>
rows == <<reached, valued, report>>
work == <<checkpoint, rows, state, held>>
vars == <<row, cancel, checkpoint, reached, valued, report, log, lost,
          phase, attempt, start, state, read, seen, due, held, faults>>

----------------------------------------------------------------------------
Min2(a, b) == IF a <= b THEN a ELSE b
Max2(a, b) == IF a >= b THEN a ELSE b

Event(type, fact, by) == [type |-> type, fact |-> fact, by |-> by]

Kind(k) == IF k <= Rounds THEN "research" ELSE IF k = Last THEN "answer" ELSE "report"

\* The request's UPDATE is not committed: other writers of the row wait.
Locked == cancel \in {"written", "told"}

Ended == row.status \in Endings

Holds(e) == row.status = "running" /\ row.owner = e

\* Whether a page of history shows that the run's end was announced.
EndedIn(positions) == \E i \in positions : log[i].type \in Endings

FactsIn(positions) ==
    {log[i].fact : i \in {j \in positions : log[j].type = "fact"}}

\* The replay limit is a window at the beginning of the log.
FirstPage == 1 .. Min2(Len(log), Window)

\* When the database does not answer, the transport's buffer does, or nobody.
Fallbacks == {{}, Max2(1, Len(log) - Buffer + 1) .. Len(log)}

Fault == faults < MaxFaults /\ faults' = faults + 1

Goes(e, p) == phase' = [phase EXCEPT ![e] = p]

Publish(type, fact, by) == log' = Append(log, Event(type, fact, by))

\* The revision that a state of k supersteps has a checked report of.
ReportIn(k) == IF k <= Last THEN 0 ELSE k - Last

\* Claims, evidence, contradictions and the answer are upserted by derived ids:
\* none goes, and those of the state get its values, be it older or newer.
Upsert(k) ==
    /\ reached' = Max2(reached, Min2(k, Last))
    /\ valued' = IF k = 0 THEN valued ELSE k

\* A report replaces the one before, be it older or newer; a state without a
\* checked report leaves it.
Replace(k) == report' = IF ReportIn(k) = 0 THEN report ELSE ReportIn(k)

\* Mutant: what a state does not have is taken away.
ProjectOnlyState(k) == Upsert(k) /\ report' = ReportIn(k)
\* A graph state, as far as it got, becomes rows in one transaction.
Project(k) == Upsert(k) /\ Replace(k)

\* There is a report to open.
ReportStored == report # 0

----------------------------------------------------------------------------
Init ==
    /\ row = [status |-> "waiting", owner |-> None, attempts |-> 0]
    /\ cancel = "none"
    /\ checkpoint = 0 /\ reached = 0 /\ valued = 0 /\ report = 0
    /\ log = <<>> /\ lost = {}
    /\ phase = [e \in Executions |-> "idle"]
    /\ attempt = [e \in Executions |-> 0]
    /\ start = [e \in Executions |-> 0]
    /\ state = [e \in Executions |-> 0]
    /\ read = [e \in Executions |-> {}]
    /\ seen = [e \in Executions |-> {}]
    /\ due = [e \in Executions |-> {}]
    /\ held = [e \in Executions |-> 0]
    /\ faults = 0

\* A worker claims a waiting run, or takes it over from one that died, or that
\* is alive and stalled longer than its lease.
Claim(e) ==
    /\ phase[e] = "idle" /\ ~Locked
    /\ \/ row.status = "waiting" /\ UNCHANGED faults
       \/ /\ row.status = "running"
          /\ IF phase[row.owner] = "gone" THEN UNCHANGED faults ELSE Fault
    /\ row' = [status |-> "running", owner |-> e, attempts |-> row.attempts + 1]
    /\ attempt' = [attempt EXCEPT ![e] = row.attempts + 1]
    /\ Goes(e, "claimed")
    /\ UNCHANGED <<cancel, start, read, story, work>>

\* The cursor is rebuilt from the events the run has emitted.
Prime(e) ==
    /\ phase[e] = "claimed"
    /\ \E page \in {FirstPage} \cup Fallbacks :
         /\ IF page = FirstPage THEN UNCHANGED faults ELSE Fault
         /\ read' = [read EXCEPT ![e] = page]
         /\ seen' = [seen EXCEPT ![e] = FactsIn(page)]
    /\ Goes(e, "primed")
    /\ UNCHANGED <<lease, attempt, start, work, log, lost, due>>

\* A file of the run is not ingested (Ingestion) ...
FileFails == Fault /\ UNCHANGED <<lease, work, phase, attempt, start, read, story>>

\* ... and if it is not the file that is to blame, the graph does not start.
BriefFails(e) ==
    /\ phase[e] = "primed" /\ faults > 0
    /\ Goes(e, "failing")
    /\ UNCHANGED <<lease, work, attempt, start, read, story, faults>>

\* The graph starts from its last checkpoint.
Resume(e) ==
    /\ phase[e] = "primed"
    /\ start' = [start EXCEPT ![e] = checkpoint]
    /\ state' = [state EXCEPT ![e] = checkpoint]
    /\ Goes(e, "working")
    /\ UNCHANGED <<lease, checkpoint, rows, held, attempt, read, story, faults>>

\* A superstep ends with its checkpoint, before the listener hears of it.
Superstep(e) ==
    /\ phase[e] = "working" /\ due[e] = {} /\ state[e] < Steps
    /\ state' = [state EXCEPT ![e] = @ + 1]
    /\ checkpoint' = state[e] + 1
    /\ Goes(e, "stepped")
    /\ UNCHANGED <<lease, rows, held, attempt, start, read, story, faults>>

\* Mutant: the cursor is not consulted.
AnnounceAll(e) == {f \in Facts : f <= state[e] /\ Kind(f) = Kind(state[e])}
\* Mutant: the answerer has no case of its own.
AnnounceResearch(e) == {f \in Facts : f <= state[e] /\ Kind(f) = Kind(state[e]) /\ f <= Rounds} \ seen[e]
\* What the nodes of this superstep's kind have produced and the cursor lacks.
Unsaid(e) == {f \in Facts : f <= state[e] /\ Kind(f) = Kind(state[e])} \ seen[e]

\* The listener renews the lease first; a worker that lost the run narrates no
\* more of it.
Advance(e) ==
    /\ phase[e] = "stepped" /\ ~Locked
    /\ IF Holds(e)
       THEN Goes(e, "working") /\ due' = [due EXCEPT ![e] = Unsaid(e)]
       ELSE Goes(e, "lost") /\ UNCHANGED due
    /\ UNCHANGED <<lease, work, attempt, start, read, log, lost, seen, faults>>

\* One fact is announced.  A publication that fails is logged and dropped, and
\* the cursor holds the fact all the same.
Tell(e) ==
    /\ phase[e] = "working" /\ due[e] # {}
    /\ \E f \in due[e] :
         /\ \A g \in due[e] : f <= g
         /\ due' = [due EXCEPT ![e] = @ \ {f}]
         /\ seen' = [seen EXCEPT ![e] = @ \cup {f}]
         /\ \/ Publish("fact", f, e) /\ UNCHANGED <<lost, faults>>
            \/ lost' = lost \cup {f} /\ Fault /\ UNCHANGED log
    /\ UNCHANGED <<lease, work, phase, attempt, start, read>>

----------------------------------------------------------------------------
\* Mutant: the last checkpoint is recorded, whoever wrote it.
RecordCheckpoint(e) ==
    /\ phase[e] = "working" /\ due[e] = {} /\ state[e] = Steps /\ ~Locked
    /\ Project(checkpoint)
    /\ Goes(e, "recorded")
    /\ UNCHANGED <<lease, checkpoint, state, held, attempt, start, read, story, faults>>
\* The runner records the state the graph returned with.
Record(e) ==
    /\ phase[e] = "working" /\ due[e] = {} /\ state[e] = Steps /\ ~Locked
    /\ Project(state[e])
    /\ Goes(e, "recorded")
    /\ UNCHANGED <<lease, checkpoint, state, held, attempt, start, read, story, faults>>

\* Recording fails, which is a failure of the run and not of a node.
RecordFails(e) ==
    /\ phase[e] = "working" /\ due[e] = {} /\ state[e] = Steps
    /\ Fault
    /\ Goes(e, "failing")
    /\ UNCHANGED <<lease, work, attempt, start, read, story>>

\* A node raises.
Breaks(e) ==
    /\ phase[e] = "working" /\ due[e] = {} /\ state[e] < Steps
    /\ Fault
    /\ Goes(e, "broken")
    /\ UNCHANGED <<lease, work, attempt, start, read, story>>

\* LeaseLost is an Exception like any other on its way through the runner,
\* which reads the last checkpoint back, whoever wrote it ...
Reread(e) ==
    /\ phase[e] \in {"lost", "broken"}
    /\ held' = [held EXCEPT ![e] = checkpoint]
    /\ Goes(e, IF phase[e] = "lost" THEN "leaving" ELSE "salvaging")
    /\ UNCHANGED <<lease, checkpoint, rows, state, attempt, start, read, story, faults>>

\* ... and records it; a failure of that is swallowed.
Salvage(e) ==
    /\ phase[e] \in {"leaving", "salvaging"} /\ ~Locked
    /\ \/ Project(held[e]) /\ UNCHANGED faults
       \/ Fault /\ UNCHANGED rows
    /\ Goes(e, IF phase[e] = "leaving" THEN "gone" ELSE "failing")
    /\ UNCHANGED <<lease, checkpoint, state, held, attempt, start, read, story>>

\* The run is paused for a retry, without an event.
Release(e) ==
    /\ phase[e] = "failing" /\ ~Locked
    /\ attempt[e] < MaxAttempts
    /\ row' = IF Holds(e) THEN [row EXCEPT !.status = "waiting", !.owner = None] ELSE row
    /\ Goes(e, "gone")
    /\ UNCHANGED <<cancel, work, attempt, start, read, story, faults>>

Ends(e, status) ==
    row' = IF Holds(e) THEN [row EXCEPT !.status = status, !.owner = None] ELSE row

\* Attempts are used up, or the graph says that another could not work.
GiveUp(e) ==
    /\ phase[e] = "failing" /\ ~Locked
    /\ Ends(e, "failed")
    /\ Goes(e, "failed")
    /\ UNCHANGED <<cancel, work, attempt, start, read, story, faults>>

\* Before it announces the failure the worker asks the log whether an end was
\* announced; if it cannot, what it read at the start decides.
CheckEnd(e) ==
    /\ phase[e] = "failed"
    /\ \/ Goes(e, IF EndedIn(FirstPage) THEN "gone" ELSE "mourning") /\ UNCHANGED faults
       \/ Goes(e, IF EndedIn(read[e]) THEN "gone" ELSE "mourning") /\ Fault
    /\ UNCHANGED <<lease, work, attempt, start, read, story>>

AnnounceFailure(e) ==
    /\ phase[e] = "mourning"
    /\ \/ Publish("failed", 0, e) /\ UNCHANGED faults
       \/ Fault /\ UNCHANGED log
    /\ Goes(e, "gone")
    /\ UNCHANGED <<lease, work, attempt, start, read, lost, seen, due>>

\* Mutant: a worker that ended the run leaves without a word.
FinishQuietly(e) ==
    /\ phase[e] = "recorded" /\ ~Locked
    /\ Ends(e, "completed")
    /\ Goes(e, "gone")
    /\ UNCHANGED <<cancel, work, attempt, start, read, story, faults>>
\* The row before the event, always; whether the row was this worker's to end
\* is not asked.
Finish(e) ==
    /\ phase[e] = "recorded" /\ ~Locked
    /\ Ends(e, "completed")
    /\ Goes(e, "finished")
    /\ UNCHANGED <<cancel, work, attempt, start, read, story, faults>>

\* The report is announced if there is one to open.
AnnounceCompletion(e) ==
    /\ phase[e] = "finished"
    /\ \/ ReportStored /\ Publish("completed", 0, e) /\ UNCHANGED faults
       \/ Fault /\ UNCHANGED log
    /\ Goes(e, "gone")
    /\ UNCHANGED <<lease, work, attempt, start, read, lost, seen, due>>

\* The process dies.
Crash(e) ==
    /\ phase[e] \notin {"idle", "gone"}
    /\ Fault
    /\ Goes(e, "gone")
    /\ UNCHANGED <<lease, work, attempt, start, read, story>>

----------------------------------------------------------------------------
\* The user asks for the run to be cancelled, and it can be.
CancelReads ==
    /\ cancel = "none" /\ ~Ended
    /\ cancel' = "read"
    /\ UNCHANGED <<row, work, story, phase, attempt, start, read, faults>>

\* The UPDATE, by primary key and not yet committed.
CancelWrites ==
    /\ cancel = "read"
    /\ cancel' = "written"
    /\ UNCHANGED <<row, work, story, phase, attempt, start, read, faults>>

\* The event, in a transaction of its own.
CancelTells ==
    /\ cancel = "written"
    /\ Publish("cancelled", 0, None)
    /\ cancel' = "told"
    /\ UNCHANGED <<row, work, lost, seen, due, phase, attempt, start, read, faults>>

\* Mutant: an event that cannot be stored does not fail the request.
CommitUntold ==
    /\ cancel \in {"written", "told"}
    /\ row' = [row EXCEPT !.status = "cancelled"]
    /\ cancel' = "done"
    /\ UNCHANGED <<work, story, phase, attempt, start, read, faults>>
\* The session commits when the handler has returned.
CancelCommits ==
    /\ cancel = "told"
    /\ row' = [row EXCEPT !.status = "cancelled"]
    /\ cancel' = "done"
    /\ UNCHANGED <<work, story, phase, attempt, start, read, faults>>

\* The event could not be stored, or the commit fails: the row stays as it was.
CancelRollsBack ==
    /\ Locked /\ Fault
    /\ cancel' = "done"
    /\ UNCHANGED <<row, work, story, phase, attempt, start, read>>

----------------------------------------------------------------------------
Works(e) ==
    \/ Claim(e) \/ Superstep(e) \/ Advance(e) \/ Tell(e)
    \/ Record(e) \/ Reread(e) \/ Salvage(e) \/ Release(e) \/ GiveUp(e)
    \/ CheckEnd(e) \/ AnnounceFailure(e) \/ Finish(e) \/ AnnounceCompletion(e)

Runs(e) == Prime(e) \/ Resume(e) \/ Works(e)

Cancels == CancelWrites \/ CancelTells \/ CancelCommits

Next ==
    \/ \E e \in Executions : Runs(e) \/ BriefFails(e) \/ RecordFails(e) \/ Breaks(e) \/ Crash(e)
    \/ FileFails \/ CancelReads \/ Cancels \/ CancelRollsBack

Spec == Init /\ [][Next]_vars

\* While a worker that lives can go on, or a request that has begun, one of them
\* does; each has only so many steps, so that in the end all have gone on.
\* Nobody has to cancel, and nothing has to fail.
Fairness == WF_vars(Cancels \/ \E e \in Executions : Runs(e))

FairSpec == Spec /\ Fairness

----------------------------------------------------------------------------
Phases == {"idle", "claimed", "primed", "working", "stepped", "lost", "broken",
           "leaving", "salvaging", "failing", "failed", "mourning", "recorded",
           "finished", "gone"}

Events == [type : {"fact"} \cup Endings, fact : 0 .. Last,
           by : Executions \cup {None}]

\* Types: the row, the log and every execution.
TypeOK ==
    /\ row \in [status : {"waiting", "running"} \cup Endings,
                owner : Executions \cup {None}, attempts : Nat]
    /\ cancel \in {"none", "read", "written", "told", "done"}
    /\ checkpoint \in 0 .. Steps /\ reached \in 0 .. Last
    /\ valued \in 0 .. Steps /\ report \in 0 .. Revisions
    /\ log \in Seq(Events) /\ lost \subseteq Facts
    /\ phase \in [Executions -> Phases]
    /\ attempt \in [Executions -> Nat]
    /\ start \in [Executions -> 0 .. Steps]
    /\ state \in [Executions -> 0 .. Steps]
    /\ read \in [Executions -> SUBSET Nat]
    /\ seen \in [Executions -> SUBSET (0 .. Last)]
    /\ due \in [Executions -> SUBSET Facts]
    /\ held \in [Executions -> 0 .. Steps]
    /\ faults \in 0 .. MaxFaults

\* A fact that is told twice is told by two executions, and the second had not
\* read the first telling: it lay beyond the replay window, came after the
\* prime, or the prime failed (_Announced, prime).
NeverRepeatsWhatItRead ==
    \A i, j \in 1 .. Len(log) :
        (i < j /\ log[i].type = "fact" /\ log[j].type = "fact"
               /\ log[i].fact = log[j].fact)
        => i \notin read[log[j].by] /\ log[i].by # log[j].by

\* When an execution announces completion, all that it did itself was told, by
\* it or before it, unless a publication failed (stepped, completed).  What was
\* checkpointed before it resumed is not promised.
TellsItsOwnWork ==
    \A i \in 1 .. Len(log) :
        log[i].type = "completed" =>
            \A f \in Facts :
                \/ f <= start[log[i].by] \/ f \in lost
                \/ \E j \in 1 .. i - 1 : log[j].type = "fact" /\ log[j].fact = f

\* A run cancelled through the API has its event: the event is stored before
\* the row is committed, and failing to store it undoes the row (cancel).
CommittedCancelIsTold ==
    row.status = "cancelled" => \E i \in 1 .. Len(log) : log[i].type = "cancelled"

\* An execution that another has taken the run from, and that has recorded the
\* checkpoint it reread.
Late(e) ==
    /\ attempt[e] < row.attempts
    /\ phase[e] \in {"failing", "failed", "mourning", "gone"}

\* Whoever is told that the run is complete, by the row or by the event, finds
\* a report, and a row for every fact.  They are the last revision, with the
\* last values, but for a late worker: it may have put an earlier report or
\* earlier values back, which nothing sets right (_record_last_checkpoint).
CompletedCanBeOpened ==
    /\ (row.status = "completed" \/ \E i \in 1 .. Len(log) : log[i].type = "completed")
         => ReportStored /\ reached = Last
    /\ row.status = "completed" =>
         /\ report = Revisions \/ \E e \in Executions : Late(e) /\ report = ReportIn(held[e])
         /\ valued = Steps \/ \E e \in Executions : Late(e) /\ valued = held[e]

\* A terminal event of a run is the last one, so there is only one
\* (research/events.py).
OneEnding ==
    Cardinality({i \in 1 .. Len(log) : log[i].type \in Endings}) <= 1

\* A run that ends has its end told, if nothing failed: whoever ends the row
\* goes on to tell (cancel, _completed, _failed).
EndIsTold ==
    Ended ~> (faults > 0 \/ \E i \in 1 .. Len(log) : log[i].type \in Endings)
=============================================================================
