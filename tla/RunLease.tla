------------------------------ MODULE RunLease ------------------------------
(***************************************************************************)
(* The life of a research run between the API, the job queue and the       *)
(* worker processes: src/apps/api/app/research/service.py (create, cancel),*)
(* workers/queue.py, workers/loop.py, workers/worker.py and the            *)
(* conditional UPDATEs of db/repositories/worker.py.                       *)
(*                                                                         *)
(* Every method of the repository is one statement in one transaction, so  *)
(* each is one atomic step on the run's row.  Everything between two       *)
(* statements (a queue push after a commit, the notification of the loop,  *)
(* a crash) is a step of its own.  The database clock is abstracted to the *)
(* comparisons the WHERE clauses make: each row says whether its heartbeat *)
(* is older than the lease, whether its retry is due, whether it is past   *)
(* the grace period, and how its last dispatch compares with its last      *)
(* change; the passage of time moves those flags.                          *)
(***************************************************************************)
EXTENDS Naturals, Sequences, FiniteSets

CONSTANTS
    Runs,         \* run ids the users may create
    Workers,      \* worker identities; a restarted process has a new one
    Slots,        \* the slots of one worker, WORKER_CONCURRENCY of them
    API,          \* the API process, as an owner of pending pushes
    None,         \* no worker, no run
    MaxAttempts,  \* WORKER_MAX_ATTEMPTS
    MaxFaults,    \* bound: crashes, outages and stalls in one behaviour
    QueueCap      \* bound: the grace period never outlasts this many jobs

ASSUME Distinct ==
    /\ None \notin Runs \cup Workers
    /\ API \notin Workers \cup {None}

ASSUME Limits ==
    /\ MaxAttempts \in Nat \ {0}
    /\ MaxFaults \in Nat
    /\ QueueCap \in Nat

VARIABLES
    row,         \* research_runs, one row per run
    queue,       \* the Redis list
    outbox,      \* runs a process has committed and is about to push
    phase,       \* where each worker process is in its life
    task,        \* what each slot of each worker is doing
    held,        \* ResearchWorker._held: the leases a drain hands back
    cancelling,  \* cancel requests that have read the row and not written it
    faults,      \* faults so far
    takeovers    \* history: claims of a run that another lease still held

vars == <<row, queue, outbox, phase, task, held, cancelling, faults, takeovers>>

-----------------------------------------------------------------------------
(* Types *)

\* planning .. validating are one status here: no transition below tells
\* them apart (IN_FLIGHT_STATUSES).
Terminal == {"completed", "failed", "cancelled"}
Waiting  == {"queued", "paused"}
Status   == {"absent", "running"} \cup Waiting \cup Terminal

Row == [status   : Status,
        worker   : Workers \cup {None},
        beat     : {"none", "fresh", "stale"},       \* heartbeat_at
        attempts : Nat,
        next     : {"none", "future", "past"},       \* next_attempt_at
        dispatch : {"owed", "stamped", "forgotten"}, \* last_queued_at
        aged     : BOOLEAN]                          \* created_at past the grace

Tasks == Workers \X Slots

Task == [pc      : {"free", "reserved", "claimed", "running", "settled"},
         run     : Runs \cup {None},
         attempt : Nat]

Phase == {"off", "serving", "draining", "returning", "stopped", "dead"}

Idle == [pc |-> "free", run |-> None, attempt |-> 0]

NoRow == [status |-> "absent", worker |-> None, beat |-> "none", attempts |-> 0,
          next |-> "none", dispatch |-> "owed", aged |-> FALSE]

TypeOK ==
    /\ row \in [Runs -> Row]
    /\ queue \in Seq(Runs)
    /\ outbox \in [Workers \cup {API} -> SUBSET Runs]
    /\ phase \in [Workers -> Phase]
    /\ task \in [Tasks -> Task]
    /\ held \in [Workers -> SUBSET Runs]
    /\ cancelling \in SUBSET Runs
    /\ faults \in 0 .. MaxFaults
    /\ takeovers \in [Runs -> Nat]

-----------------------------------------------------------------------------
(* Mistakes a change to these statements could make.  Each is the mutated
   form of a definition below that some property has to notice. *)

\* claim coalesces worker_id as it does started_at.
ClaimedCoalescing(x, w) ==
    [x EXCEPT !.status = "running", !.worker = IF @ = None THEN w ELSE @,
              !.beat = "fresh", !.attempts = x.attempts + 1,
              !.next = "none", !.dispatch = "owed"]

\* _held without the worker's own id.
HoldsWhoever(x, w) == x.status \notin Terminal

\* _held without the terminal statuses.
HoldsEnded(x, w) == x.worker = w

\* finish leaves the lease columns behind.
FinishedHolding(x, outcome) == [x EXCEPT !.status = outcome, !.next = "none"]

\* due without its third population.
DueWaiting(x) ==
    /\ \/ x.status = "queued" /\ x.aged
       \/ x.status = "paused" /\ x.next \in {"none", "past"}
    /\ x.dispatch # "stamped"

\* due lets onupdate move updated_at as well, so the stamp never counts.
StampedAndTouched(x) == [x EXCEPT !.dispatch = "owed"]

-----------------------------------------------------------------------------
(* The row: what each statement of SqlAlchemyRunLifecycle requires and writes *)

RetryDue(x) == x.next \in {"none", "past"}

\* claim's WHERE: waiting and due, or held by a worker that has gone silent.
\* There is no test of attempts.
Claimable(x) ==
    \/ x.status \in Waiting /\ RetryDue(x)
    \/ x.status = "running" /\ x.beat # "fresh"

\* claim's SET.  Every write but due's sets updated_at, so the row is owed a
\* dispatch again as far as _not_already_queued can tell.
Claimed(x, w) ==
    [x EXCEPT !.status = "running", !.worker = w, !.beat = "fresh",
              !.attempts = x.attempts + 1, !.next = "none", !.dispatch = "owed"]

\* _held: the precondition that advance, finish and release share.
Holds(x, w) == x.worker = w /\ x.status \notin Terminal

Advanced(x) == [x EXCEPT !.status = "running", !.beat = "fresh", !.dispatch = "owed"]

Finished(x, outcome) ==
    [x EXCEPT !.status = outcome, !.worker = None, !.beat = "none",
              !.next = "none", !.dispatch = "owed"]

\* release: with a backoff after a failure, or due at once with the attempt
\* refunded when a stopping worker hands the run back.
Released(x, next, attempts) ==
    [x EXCEPT !.status = "paused", !.worker = None, !.beat = "none",
              !.next = next, !.attempts = attempts, !.dispatch = "owed"]

Refunded(x) == IF x.attempts > 0 THEN x.attempts - 1 ELSE 0

\* due's WHERE: the three populations, and _not_already_queued.
Due(x) ==
    /\ \/ x.status = "queued" /\ x.aged
       \/ x.status = "paused" /\ RetryDue(x)
       \/ x.status = "running" /\ x.beat # "fresh"
    /\ x.dispatch # "stamped"

Stamped(x) == [x EXCEPT !.dispatch = "stamped"]

\* SqlAlchemyResearchRepository.update as cancel uses it: only the changed
\* columns are written, by primary key, whatever the row says by then.
Cancelled(x) == [x EXCEPT !.status = "cancelled", !.dispatch = "owed"]

-----------------------------------------------------------------------------
(* Processes *)

Working(t) == task[t].pc \in {"claimed", "running"}

Alive(w) == phase[w] \in {"serving", "draining"}

\* Bound: some identity other than w is serving or still to be started, as a
\* deployment that replaces its processes always has.
Spare(w) == \E v \in Workers \ {w} : phase[v] \in {"off", "serving"}

\* Some slot of the run's holder is still executing it.
HolderAtWork(r) == \E t \in Tasks : t[1] = row[r].worker /\ task[t].run = r /\ Working(t)

Fault == faults < MaxFaults /\ faults' = faults + 1

FreeSlot(t) == task' = [task EXCEPT ![t] = Idle]

SetRow(r, x) == row' = [row EXCEPT ![r] = x]

Drop(w, r) == held' = [held EXCEPT ![w] = @ \ {r}]

Init ==
    /\ row = [r \in Runs |-> NoRow]
    /\ queue = <<>>
    /\ outbox = [p \in Workers \cup {API} |-> {}]
    /\ phase = [w \in Workers |-> "off"]
    /\ task = [t \in Tasks |-> Idle]
    /\ held = [w \in Workers |-> {}]
    /\ cancelling = {}
    /\ faults = 0
    /\ takeovers = [r \in Runs |-> 0]

-----------------------------------------------------------------------------
(* The API: ResearchService *)

\* create commits the row and only then pushes the job.
Create(r) ==
    /\ row[r].status = "absent"
    /\ SetRow(r, [NoRow EXCEPT !.status = "queued"])
    /\ outbox' = [outbox EXCEPT ![API] = @ \cup {r}]
    /\ UNCHANGED <<queue, phase, task, held, cancelling, faults, takeovers>>

\* cancel, first half: the row is read and is not terminal.
RequestCancel(r) ==
    /\ row[r].status \notin Terminal \cup {"absent"}
    /\ r \notin cancelling
    /\ cancelling' = cancelling \cup {r}
    /\ UNCHANGED <<row, queue, outbox, phase, task, held, faults, takeovers>>

\* cancel, second half: the request's session commits the UPDATE.
CommitCancel(r) ==
    /\ r \in cancelling
    /\ SetRow(r, Cancelled(row[r]))
    /\ cancelling' = cancelling \ {r}
    /\ UNCHANGED <<queue, outbox, phase, task, held, faults, takeovers>>

\* The request fails after its read and its session rolls back.
AbandonCancel(r) ==
    /\ r \in cancelling
    /\ cancelling' = cancelling \ {r}
    /\ UNCHANGED <<row, queue, outbox, phase, task, held, faults, takeovers>>

-----------------------------------------------------------------------------
(* The queue *)

\* RPUSH by the API (create), the sweep (reconcile) or a drain (_hand_back).
Enqueue(p, r) ==
    /\ r \in outbox[p]
    /\ queue' = Append(queue, r)
    /\ outbox' = [outbox EXCEPT ![p] = @ \ {r}]
    /\ UNCHANGED <<row, phase, task, held, cancelling, faults, takeovers>>

\* The push raises.  create answers 503 for its one run; the sweep and the
\* hand-back give up on everything they still had to push.
EnqueueFails(p) ==
    /\ outbox[p] # {}
    /\ Fault
    /\ \E lost \in IF p = API THEN {{r} : r \in outbox[p]} ELSE {outbox[p]} :
          outbox' = [outbox EXCEPT ![p] = @ \ lost]
    /\ UNCHANGED <<row, queue, phase, task, held, cancelling, takeovers>>

\* Redis restarts and the list is gone.
QueueLost ==
    /\ queue # <<>>
    /\ Fault
    /\ queue' = <<>>
    /\ UNCHANGED <<row, outbox, phase, task, held, cancelling, takeovers>>

-----------------------------------------------------------------------------
(* The loop: ResearchWorker *)

Start(w) ==
    /\ phase[w] = "off"
    /\ phase' = [phase EXCEPT ![w] = "serving"]
    /\ UNCHANGED <<row, queue, outbox, task, held, cancelling, faults, takeovers>>

\* reconcile, first half: due selects and stamps in one statement.  LIMIT and
\* SKIP LOCKED leave out any part of what is due.
Sweep(w, picked) ==
    /\ phase[w] = "serving"
    /\ outbox[w] = {}
    /\ picked # {}
    /\ \A r \in picked : Due(row[r])
    /\ row' = [r \in Runs |-> IF r \in picked THEN Stamped(row[r]) ELSE row[r]]
    /\ outbox' = [outbox EXCEPT ![w] = picked]
    /\ UNCHANGED <<queue, phase, task, held, cancelling, faults, takeovers>>

\* _take_slot and _dispatch: a free slot, and the head of the list.
Reserve(t) ==
    /\ phase[t[1]] = "serving"
    /\ outbox[t[1]] = {}
    /\ task[t].pc = "free"
    /\ queue # <<>>
    /\ queue' = Tail(queue)
    /\ task' = [task EXCEPT ![t] = [pc |-> "reserved", run |-> Head(queue), attempt |-> 0]]
    /\ UNCHANGED <<row, outbox, phase, held, cancelling, faults, takeovers>>

\* _handle: the conditional UPDATE takes the run, or the job is dropped.
Claim(t) ==
    LET r == task[t].run IN
    /\ Alive(t[1])
    /\ task[t].pc = "reserved"
    /\ IF Claimable(row[r])
       THEN /\ SetRow(r, Claimed(row[r], t[1]))
            /\ task' = [task EXCEPT ![t] = [pc |-> "claimed", run |-> r,
                                            attempt |-> row[r].attempts + 1]]
            /\ takeovers' = IF row[r].status = "running"
                            THEN [takeovers EXCEPT ![r] = @ + 1]
                            ELSE takeovers
       ELSE /\ FreeSlot(t)
            /\ UNCHANGED <<row, takeovers>>
    /\ UNCHANGED <<queue, outbox, phase, held, cancelling, faults>>

\* The claim raises, before or after its transaction committed: the job is gone
\* from the queue, and the run may be left holding a lease nobody remembers.
ClaimFails(t) ==
    /\ Alive(t[1])
    /\ task[t].pc \in {"reserved", "claimed"}
    /\ Fault
    /\ FreeSlot(t)
    /\ UNCHANGED <<row, queue, outbox, phase, held, cancelling, takeovers>>

\* The claim's answer reaches the loop, which remembers the lease.
Begin(t) ==
    /\ Alive(t[1])
    /\ task[t].pc = "claimed"
    /\ task' = [task EXCEPT ![t].pc = "running"]
    /\ held' = [held EXCEPT ![t[1]] = @ \cup {task[t].run}]
    /\ UNCHANGED <<row, queue, outbox, phase, cancelling, faults, takeovers>>

-----------------------------------------------------------------------------
(* The executor: RunExecutor *)

Executing(t) == Alive(t[1]) /\ task[t].pc = "running"

\* _StepReporter.stepped at a node boundary: the heartbeat is renewed, or
\* LeaseLost ends the execution.
Advance(t) ==
    LET r == task[t].run IN
    /\ Executing(t)
    /\ IF Holds(row[r], t[1])
       THEN /\ SetRow(r, Advanced(row[r]))
            /\ UNCHANGED <<task, held>>
       ELSE /\ FreeSlot(t)
            /\ Drop(t[1], r)
            /\ UNCHANGED row
    /\ UNCHANGED <<queue, outbox, phase, cancelling, faults, takeovers>>

\* The last statement of an execution.  Nothing looks at whether it changed
\* a row.
Settle(t, x) ==
    LET r == task[t].run IN
    /\ Executing(t)
    /\ IF Holds(row[r], t[1]) THEN SetRow(r, x) ELSE UNCHANGED row
    /\ task' = [task EXCEPT ![t].pc = "settled"]
    /\ UNCHANGED <<queue, outbox, phase, held, cancelling, faults, takeovers>>

\* _completed, for a run the graph finished.
Complete(t) == Settle(t, Finished(row[task[t].run], "completed"))

\* _completed, for a run whose cancellation the probe reported to the graph.
StopCancelled(t) ==
    /\ Executing(t)
    /\ row[task[t].run].status = "cancelled"
    /\ Settle(t, Finished(row[task[t].run], "cancelled"))

\* _failed, retryable and with attempts left.
Retry(t) ==
    /\ task[t].attempt < MaxAttempts
    /\ LET x == row[task[t].run] IN Settle(t, Released(x, "future", x.attempts))

\* _failed, unretryable or out of attempts.
GiveUp(t) == Settle(t, Finished(row[task[t].run], "failed"))

\* The execution returns and _handle forgets the lease.
Return(t) ==
    /\ Alive(t[1])
    /\ task[t].pc = "settled"
    /\ FreeSlot(t)
    /\ Drop(t[1], task[t].run)
    /\ UNCHANGED <<row, queue, outbox, phase, cancelling, faults, takeovers>>

\* The execution ends in a CancelledError while the loop goes on (a search or
\* a model call it waited for was led by a task that was cancelled).  execute
\* records nothing and _handle lets the error through, so the slot is free but
\* the lease stays in _held: a drain still hands the run back, unless its lease
\* expires first and somebody, perhaps this worker again, has claimed it.
TaskCancelled(t) ==
    /\ Executing(t)
    /\ Fault
    /\ FreeSlot(t)
    /\ UNCHANGED <<row, queue, outbox, phase, held, cancelling, takeovers>>

\* Recording the outcome raised: the lease is forgotten, not given back.
TaskDies(t) ==
    /\ Executing(t)
    /\ Fault
    /\ FreeSlot(t)
    /\ Drop(t[1], task[t].run)
    /\ UNCHANGED <<row, queue, outbox, phase, cancelling, takeovers>>

-----------------------------------------------------------------------------
(* Stopping *)

\* The loop sees the stop flag between two turns and enters drain.
BeginDrain(w) ==
    /\ phase[w] = "serving"
    /\ outbox[w] = {}
    /\ Spare(w)
    /\ phase' = [phase EXCEPT ![w] = "draining"]
    /\ UNCHANGED <<row, queue, outbox, task, held, cancelling, faults, takeovers>>

\* Everything finished, or the grace period elapsed and what is left is
\* cancelled where it stands.  A task cancelled while its claim was being
\* answered never reached held.
CancelPending(w) ==
    /\ phase[w] = "draining"
    /\ phase' = [phase EXCEPT ![w] = "returning"]
    /\ task' = [t \in Tasks |-> IF t[1] = w THEN Idle ELSE task[t]]
    /\ UNCHANGED <<row, queue, outbox, held, cancelling, faults, takeovers>>

\* _hand_back: release with the attempt refunded, then push.
HandBack(w, r) ==
    /\ phase[w] = "returning"
    /\ outbox[w] = {}
    /\ r \in held[w]
    /\ Drop(w, r)
    /\ IF Holds(row[r], w)
       THEN /\ SetRow(r, Released(row[r], "none", Refunded(row[r])))
            /\ outbox' = [outbox EXCEPT ![w] = {r}]
       ELSE UNCHANGED <<row, outbox>>
    /\ UNCHANGED <<queue, phase, task, cancelling, faults, takeovers>>

\* The release raises; the run keeps its lease until it expires.
HandBackFails(w, r) ==
    /\ phase[w] = "returning"
    /\ outbox[w] = {}
    /\ r \in held[w]
    /\ Fault
    /\ Drop(w, r)
    /\ UNCHANGED <<row, queue, outbox, phase, task, cancelling, takeovers>>

Exit(w) ==
    /\ phase[w] = "returning"
    /\ held[w] = {}
    /\ outbox[w] = {}
    /\ phase' = [phase EXCEPT ![w] = "stopped"]
    /\ UNCHANGED <<row, queue, outbox, task, held, cancelling, faults, takeovers>>

\* The process is killed: everything it had in memory is gone.
Crash(w) ==
    /\ phase[w] \in {"serving", "draining", "returning"}
    /\ Spare(w)
    /\ Fault
    /\ phase' = [phase EXCEPT ![w] = "dead"]
    /\ task' = [t \in Tasks |-> IF t[1] = w THEN Idle ELSE task[t]]
    /\ held' = [held EXCEPT ![w] = {}]
    /\ outbox' = [outbox EXCEPT ![w] = {}]
    /\ UNCHANGED <<row, queue, cancelling, takeovers>>

-----------------------------------------------------------------------------
(* Time *)

\* WORKER_QUEUED_GRACE_SECONDS since the run was created.
GracePasses(r) ==
    /\ row[r].status = "queued" /\ ~row[r].aged
    /\ SetRow(r, [row[r] EXCEPT !.aged = TRUE])
    /\ UNCHANGED <<queue, outbox, phase, task, held, cancelling, faults, takeovers>>

\* The backoff of a retry elapses.
BackoffPasses(r) ==
    /\ row[r].status = "paused" /\ row[r].next = "future"
    /\ SetRow(r, [row[r] EXCEPT !.next = "past"])
    /\ UNCHANGED <<queue, outbox, phase, task, held, cancelling, faults, takeovers>>

\* WORKER_LEASE_SECONDS without a heartbeat.  While the holder is at work that
\* takes a stall (an ingestion, a node or a pause longer than the lease).
LeaseExpires(r) ==
    /\ row[r].status = "running" /\ row[r].beat = "fresh"
    /\ IF HolderAtWork(r) THEN Fault ELSE UNCHANGED faults
    /\ SetRow(r, [row[r] EXCEPT !.beat = "stale"])
    /\ UNCHANGED <<queue, outbox, phase, task, held, cancelling, takeovers>>

\* The grace period since the last dispatch, after which it is presumed lost.
DispatchForgotten(r) ==
    /\ row[r].status \in Waiting \cup {"running"}
    /\ row[r].dispatch = "stamped"
    /\ Len(queue) < QueueCap
    /\ SetRow(r, [row[r] EXCEPT !.dispatch = "forgotten"])
    /\ UNCHANGED <<queue, outbox, phase, task, held, cancelling, faults, takeovers>>

-----------------------------------------------------------------------------

ApiStep(r)    == Create(r) \/ RequestCancel(r) \/ CommitCancel(r) \/ AbandonCancel(r)
TimeStep(r)   == GracePasses(r) \/ BackoffPasses(r) \/ LeaseExpires(r) \/ DispatchForgotten(r)
QueueStep(p)  == (\E r \in Runs : Enqueue(p, r)) \/ EnqueueFails(p)
ClaimStep(t)  == Reserve(t) \/ Claim(t) \/ ClaimFails(t) \/ Begin(t)
ExecStep(t)   == Advance(t) \/ Complete(t) \/ StopCancelled(t) \/ Retry(t) \/ GiveUp(t)
                   \/ Return(t) \/ TaskCancelled(t) \/ TaskDies(t)
LoopStep(w)   == Start(w) \/ (\E picked \in SUBSET Runs : Sweep(w, picked)) \/ Crash(w)
DrainStep(w)  == BeginDrain(w) \/ CancelPending(w) \/ Exit(w)
                   \/ (\E r \in Runs : HandBack(w, r) \/ HandBackFails(w, r))

Next ==
    \/ \E r \in Runs : ApiStep(r) \/ TimeStep(r)
    \/ \E p \in Workers \cup {API} : QueueStep(p)
    \/ QueueLost
    \/ \E t \in Tasks : ClaimStep(t) \/ ExecStep(t)
    \/ \E w \in Workers : LoopStep(w) \/ DrainStep(w)

Spec == Init /\ [][Next]_vars

-----------------------------------------------------------------------------
(* Fairness: what the code keeps doing, and what the world does in the end.
   Nothing makes a user cancel, a process stop or a fault happen. *)

\* _completed and _failed: LangGraph's recursion limit and the node timeouts
\* make every execution return.
Conclusion(t) == Complete(t) \/ StopCancelled(t) \/ Retry(t) \/ GiveUp(t)

\* One sweep picks r, in whichever worker's loop.
SweepPicks(r) == \E w \in Workers, picked \in SUBSET Runs : r \in picked /\ Sweep(w, picked)

\* serve alternates reconcile, _take_slot and _dispatch for as long as it
\* runs, so neither the sweep nor the reservation starves the other (SF).
Fairness ==
    /\ \A r \in Runs :
          /\ WF_vars(GracePasses(r)) /\ WF_vars(BackoffPasses(r))
          /\ WF_vars(DispatchForgotten(r))
          /\ WF_vars(~HolderAtWork(r) /\ LeaseExpires(r))
          /\ SF_vars(SweepPicks(r))
          /\ \A p \in Workers \cup {API} : WF_vars(Enqueue(p, r))
    /\ \A t \in Tasks :
          /\ SF_vars(Reserve(t))
          /\ WF_vars(Claim(t)) /\ WF_vars(Begin(t))
          /\ WF_vars(Conclusion(t)) /\ WF_vars(Return(t))
    /\ \A w \in Workers :
          /\ WF_vars(Start(w)) /\ WF_vars(CancelPending(w)) /\ WF_vars(Exit(w))
          /\ WF_vars(\E r \in Runs : HandBack(w, r))

FairSpec == Spec /\ Fairness

-----------------------------------------------------------------------------
(* Properties *)

\* The lease columns and the status move together, though five statements of
\* two programs write them separately: a run in flight always has a holder
\* and a heartbeat the sweep can see expire (a run without them would never be
\* recovered), and a waiting run has neither.
ColumnsAgree(x) ==
    /\ x.status = "running" => x.worker # None /\ x.beat # "none"
    /\ x.status \in Waiting \cup {"absent", "completed", "failed"} =>
           x.worker = None /\ x.beat = "none"

LeaseColumnsAgree == \A r \in Runs : ColumnsAgree(row[r])

\* An execution that could still write its run (its worker is the one the row
\* names) is executing the row's current attempt.  The attempt is read by
\* claim and used by _failed minutes later, after other workers may have
\* claimed the run.  It needs one slot per worker (worker_concurrency = 1).
LeaseMatchesRow ==
    \A t \in Tasks, r \in Runs :
        Working(t) /\ task[t].run = r /\ row[r].worker = t[1] =>
            row[r].attempts = task[t].attempt

\* An attempt is spent by every claim and refunded only by a hand-back, so a
\* run whose workers die is charged for each (takeovers <= attempts), and a
\* run is never attempted more than MaxAttempts times plus once for each lease
\* that expired under it.  n is the number of takeovers.
Open(x) == IF x.status = "running" THEN 1 ELSE 0

Accounted(x, n) ==
    /\ n + Open(x) <= x.attempts
    /\ x.status \notin Terminal => x.attempts <= MaxAttempts - 1 + Open(x) + n

AttemptsAccounted == \A r \in Runs : Accounted(row[r], takeovers[r])

\* The promise of lifecycle.py and worker.py::_held: whatever the processes
\* and the queue do, only the work of a run's owner concludes it, and an
\* ended run stays ended.
Stage(r) == CASE row[r].status = "absent"    -> "absent"
              [] row[r].status \in Waiting   -> "waiting"
              [] row[r].status = "running"   -> "owned"
              [] row[r].status \in Terminal  -> "ended"

Owner(r) == IF row[r].status = "running" THEN row[r].worker ELSE None

\* Whose work on the run is not over: a worker with an execution of it, or one
\* that remembers its lease and has not concluded it.
Settled(t, r) == task[t].pc = "settled" /\ task[t].run = r

WorkersOn(r) ==
    {w \in Workers :
        \/ \E s \in Slots : Working(<<w, s>>) /\ task[<<w, s>>].run = r
        \/ r \in held[w] /\ ~ \E s \in Slots : Settled(<<w, s>>, r)}

Ownership == INSTANCE RunOwnership
    WITH stage   <- [r \in Runs |-> Stage(r)],
         owner   <- [r \in Runs |-> Owner(r)],
         working <- [r \in Runs |-> WorkersOn(r)]

ImplementsOwnership == Ownership!Spec

\* No run is lost: whatever was dropped on the way (a push, a job, a lease, a
\* process, the whole list), every run that was created ends.
EveryRunEnds == \A r \in Runs : row[r].status # "absent" ~> row[r].status \in Terminal

\* A user's cancellation sticks, whichever worker was in the middle of a node,
\* a hand-back or a claim when it was written (worker.py::_held).
CancelSticks ==
    [][\A r \in Runs : row[r].status = "cancelled" => row'[r].status = "cancelled"]_vars

\* The number of jobs for r that are on the list or about to be.
Jobs(r) == Cardinality({i \in DOMAIN queue : queue[i] = r})
             + Cardinality({p \in Workers \cup {API} : r \in outbox[p]})

\* A backlog does not flood the queue: a queued run that no sweep has
\* dispatched since its last change has at most the job create pushed, however
\* many workers sweep, fail and die (due's docstring: 4,662 entries for 100
\* jobs before the sweep remembered what it had dispatched).
SweepRemembers ==
    \A r \in Runs : row[r].status = "queued" /\ row[r].dispatch = "owed" => Jobs(r) <= 1

\* Said of the code, and not so: workers/loop.py:272-274 and core/config.py
\* say a run that kills its workers is bounded by WORKER_MAX_ATTEMPTS.
AttemptsNeverExceedMax == \A r \in Runs : row[r].attempts <= MaxAttempts

\* Said of the code, and not so: workers/loop.py:59, "a job can only be held
\* once" by one process.  Fails with two slots per worker.
HeldOncePerProcess ==
    \A t, u \in Tasks :
        t # u /\ t[1] = u[1] /\ Working(t) /\ Working(u) => task[t].run # task[u].run

\* Said of the code, and not so: RunStatus.is_terminal (core/enums.py:36), "a
\* terminal run will not change again".
TerminalIsFinal ==
    [][\A r \in Runs : row[r].status \in Terminal => row'[r].status = row[r].status]_vars
=============================================================================
