--------------------------- MODULE RunLeaseProofs ---------------------------
(***************************************************************************)
(* Theorems about RunLease, for every number of runs, workers and faults.  *)
(***************************************************************************)
EXTENDS RunLease, FiniteSetTheorems, TLAPS

\* A slot that is not free is busy with a run, in a process that is alive.
TasksWellFormed ==
    /\ \A t \in Tasks : task[t].pc # "free" => task[t].run \in Runs
    /\ \A t \in Tasks : task[t].pc # "free" => Alive(t[1])

TypeInv == TypeOK /\ TasksWellFormed

-----------------------------------------------------------------------------
(* Rows *)

\* A refund never takes attempts below zero.
LEMMA RefundedNat == ASSUME NEW x \in Row PROVE Refunded(x) \in Nat
  BY DEF Refunded, Row

\* Every statement of SqlAlchemyRunLifecycle turns a row into a row.
LEMMA StatementsKeepRows ==
  ASSUME NEW x \in Row, NEW w \in Workers
  PROVE  /\ Claimed(x, w) \in Row
         /\ Advanced(x) \in Row
         /\ \A o \in Terminal : Finished(x, o) \in Row
         /\ \A n \in {"none", "future"}, a \in Nat : Released(x, n, a) \in Row
         /\ Stamped(x) \in Row
<1> USE DEF Row
<1>1. Claimed(x, w) \in Row
  <2>1. x.attempts + 1 \in Nat
    OBVIOUS
  <2>2. ASSUME NEW a \in Nat
        PROVE  [x EXCEPT !.status = "running", !.worker = w, !.beat = "fresh",
                         !.attempts = a, !.next = "none", !.dispatch = "owed"] \in Row
    BY DEF Status
  <2> QED BY ONLY <2>1, <2>2 DEF Claimed
<1>2. Advanced(x) \in Row
  BY DEF Advanced, Status
<1>3. \A o \in Terminal : Finished(x, o) \in Row
  BY DEF Finished, Status
<1>4. \A n \in {"none", "future"}, a \in Nat : Released(x, n, a) \in Row
  BY DEF Released, Status, Waiting
<1>5. Stamped(x) \in Row
  BY DEF Stamped
<1> QED BY <1>1, <1>2, <1>3, <1>4, <1>5

\* So does the UPDATE of cancel.
LEMMA CancelKeepsRows == ASSUME NEW x \in Row PROVE Cancelled(x) \in Row
  BY DEF Cancelled, Row, Status, Terminal

\* So does time.
LEMMA TimeKeepsRows ==
  ASSUME NEW x \in Row
  PROVE  /\ [x EXCEPT !.aged = TRUE] \in Row
         /\ [x EXCEPT !.next = "past"] \in Row
         /\ [x EXCEPT !.beat = "stale"] \in Row
         /\ [x EXCEPT !.dispatch = "forgotten"] \in Row
<1>1. [x EXCEPT !.aged = TRUE] \in Row
  BY DEF Row
<1>2. [x EXCEPT !.next = "past"] \in Row
  BY DEF Row
<1>3. [x EXCEPT !.beat = "stale"] \in Row
  BY DEF Row
<1>4. [x EXCEPT !.dispatch = "forgotten"] \in Row
  BY DEF Row
<1> QED BY <1>1, <1>2, <1>3, <1>4

\* A fresh row, as create inserts it, is a row.
LEMMA NewRows == [NoRow EXCEPT !.status = "queued"] \in Row /\ NoRow \in Row
  BY DEF NoRow, Row, Status, Waiting

-----------------------------------------------------------------------------
(* Type correctness *)

\* No run is created and every slot is free at the start.
LEMMA TypeInit == Init => TypeInv
  BY Limits, NewRows DEF Init, TypeInv, TasksWellFormed, TypeOK, Tasks, Task, Idle, Phase

\* create and cancel keep the types.
LEMMA ApiTypes ==
  ASSUME TypeInv, NEW r \in Runs, ApiStep(r)
  PROVE  TypeInv'
<1> USE DEF TypeInv, TypeOK, TasksWellFormed, Alive, SetRow
<1>1. CASE Create(r)
  BY <1>1, NewRows DEF Create
<1>2. CASE RequestCancel(r)
  BY <1>2 DEF RequestCancel
<1>3. CASE CommitCancel(r)
  <2>1. Cancelled(row[r]) \in Row
    BY CancelKeepsRows
  <2> QED BY <1>3, <2>1 DEF CommitCancel
<1>4. CASE AbandonCancel(r)
  BY <1>4 DEF AbandonCancel
<1> QED BY <1>1, <1>2, <1>3, <1>4 DEF ApiStep

\* The passage of time keeps them.
LEMMA TimeTypes ==
  ASSUME TypeInv, NEW r \in Runs, TimeStep(r)
  PROVE  TypeInv'
<1> USE DEF TypeInv, TypeOK, TasksWellFormed, Alive, SetRow
<1>1. CASE GracePasses(r)
  <2>1. [row[r] EXCEPT !.aged = TRUE] \in Row
    BY TimeKeepsRows
  <2> QED BY <1>1, <2>1 DEF GracePasses
<1>2. CASE BackoffPasses(r)
  <2>1. [row[r] EXCEPT !.next = "past"] \in Row
    BY TimeKeepsRows
  <2> QED BY <1>2, <2>1 DEF BackoffPasses
<1>3. CASE LeaseExpires(r)
  <2>1. [row[r] EXCEPT !.beat = "stale"] \in Row
    BY TimeKeepsRows
  <2>2. faults' \in 0 .. MaxFaults
    BY <1>3, Limits DEF LeaseExpires, Fault
  <2> QED BY <1>3, <2>1, <2>2 DEF LeaseExpires
<1>4. CASE DispatchForgotten(r)
  <2>1. [row[r] EXCEPT !.dispatch = "forgotten"] \in Row
    BY TimeKeepsRows
  <2> QED BY <1>4, <2>1 DEF DispatchForgotten
<1> QED BY <1>1, <1>2, <1>3, <1>4 DEF TimeStep

\* A push, a failed push and a lost list keep them.
LEMMA QueueTypes ==
  ASSUME TypeInv, \/ \E p \in Workers \cup {API} : QueueStep(p)
                 \/ QueueLost
  PROVE  TypeInv'
<1> USE DEF TypeInv, TypeOK, TasksWellFormed, Alive
<1>1. ASSUME NEW p \in Workers \cup {API}, NEW r \in Runs, Enqueue(p, r)
      PROVE  TypeInv'
  BY <1>1 DEF Enqueue
<1>2. ASSUME NEW p \in Workers \cup {API}, EnqueueFails(p)
      PROVE  TypeInv'
  BY <1>2, Limits DEF EnqueueFails, Fault
<1>3. CASE QueueLost
  BY <1>3, Limits DEF QueueLost, Fault
<1> QED BY <1>1, <1>2, <1>3 DEF QueueStep

\* Taking a job and claiming its run keep them.
LEMMA ClaimTypes ==
  ASSUME TypeInv, NEW t \in Tasks, ClaimStep(t)
  PROVE  TypeInv'
<1> USE DEF TypeInv, TypeOK, TasksWellFormed
<1>0. t[1] \in Workers
  BY DEF Tasks
<1>1. CASE Reserve(t)
  <2>1. Head(queue) \in Runs /\ Tail(queue) \in Seq(Runs)
    BY <1>1 DEF Reserve
  <2>2. [pc |-> "reserved", run |-> Head(queue), attempt |-> 0] \in Task
    BY <2>1 DEF Task
  <2> QED BY <1>0, <1>1, <2>1, <2>2 DEF Reserve, Alive
<1>2. CASE Claim(t)
  <2> DEFINE r == task[t].run
  <2>1. r \in Runs /\ row[r] \in Row
    BY <1>2 DEF Claim
  <2>2. CASE Claimable(row[r])
    <3>1. row[r].attempts + 1 \in Nat
      BY <2>1 DEF Row
    <3>2. Claimed(row[r], t[1]) \in Row
      BY <1>0, <2>1, StatementsKeepRows
    <3>3. [pc |-> "claimed", run |-> r, attempt |-> row[r].attempts + 1] \in Task
      BY <2>1, <3>1 DEF Task
    <3>4. /\ row' = [row EXCEPT ![r] = Claimed(row[r], t[1])]
          /\ task' = [task EXCEPT ![t] = [pc |-> "claimed", run |-> r,
                                         attempt |-> row[r].attempts + 1]]
          /\ takeovers' = (IF row[r].status = "running"
                           THEN [takeovers EXCEPT ![r] = @ + 1] ELSE takeovers)
          /\ UNCHANGED <<queue, outbox, phase, held, cancelling, faults>>
          /\ Alive(t[1])
      BY <1>2, <2>2 DEF Claim, SetRow
    <3>5. takeovers' \in [Runs -> Nat]
      BY <2>1, <3>4
    <3>6. row' \in [Runs -> Row] /\ task' \in [Tasks -> Task]
      BY <2>1, <3>2, <3>3, <3>4
    <3> QED BY <2>1, <3>4, <3>5, <3>6 DEF Alive
  <2>3. CASE ~Claimable(row[r])
    <3>1. task' = [task EXCEPT ![t] = Idle] /\ row' = row /\ takeovers' = takeovers
          /\ UNCHANGED <<queue, outbox, phase, held, cancelling, faults>>
      BY <1>2, <2>3 DEF Claim, FreeSlot
    <3> QED BY <3>1 DEF Idle, Task, Alive
  <2> QED BY <2>2, <2>3
<1>3. CASE ClaimFails(t)
  BY <1>3, Limits DEF ClaimFails, Fault, FreeSlot, Idle, Task, Alive
<1>4. CASE Begin(t)
  <2>1. [task[t] EXCEPT !.pc = "running"] \in Task
    BY DEF Task
  <2>2. task' \in [Tasks -> Task] /\ \A u \in Tasks \ {t} : task'[u] = task[u]
    BY <1>4, <2>1 DEF Begin
  <2>3. task[t].run \in Runs /\ task'[t].run = task[t].run
    BY <1>4, <2>1 DEF Begin, Task
  <2>4. held' \in [Workers -> SUBSET Runs]
    BY <1>0, <1>4, <2>3 DEF Begin
  <2> QED BY <1>4, <2>2, <2>3, <2>4 DEF Begin, Alive
<1> QED BY <1>1, <1>2, <1>3, <1>4 DEF ClaimStep

\* The common end of every execution: its last statement and its slot.
LEMMA SettleTypes ==
  ASSUME TypeInv, NEW t \in Tasks, NEW x, Settle(t, x),
         task[t].run \in Runs /\ row[task[t].run] \in Row => x \in Row
  PROVE  TypeInv'
<1> USE DEF TypeInv, TypeOK, TasksWellFormed
<1>1. task[t].run \in Runs /\ row[task[t].run] \in Row
  BY DEF Settle, Executing
<1>2. [task[t] EXCEPT !.pc = "settled"] \in Task
  BY DEF Task
<1>3. task' \in [Tasks -> Task] /\ \A u \in Tasks \ {t} : task'[u] = task[u]
  BY <1>2 DEF Settle
<1>4. task'[t].run = task[t].run
  BY <1>2 DEF Settle, Task
<1>5. row' \in [Runs -> Row]
  BY <1>1 DEF Settle, SetRow
<1> QED BY <1>1, <1>3, <1>4, <1>5 DEF Settle, Executing, Alive

\* Executing a run keeps them.
LEMMA ExecTypes ==
  ASSUME TypeInv, NEW t \in Tasks, ExecStep(t)
  PROVE  TypeInv'
<1> USE DEF TypeInv, TypeOK, TasksWellFormed
<1>0. t[1] \in Workers
  BY DEF Tasks
<1> DEFINE r == task[t].run
<1>a. ASSUME r \in Runs
      PROVE  Finished(row[r], "completed") \in Row /\ Finished(row[r], "failed") \in Row
             /\ Finished(row[r], "cancelled") \in Row
             /\ Released(row[r], "future", row[r].attempts) \in Row
  <2>1. row[r] \in Row /\ row[r].attempts \in Nat
    BY <1>a DEF Row
  <2> QED BY <1>0, <2>1, StatementsKeepRows DEF Terminal
<1>1. CASE Advance(t)
  <2>1. r \in Runs /\ row[r] \in Row
    BY <1>1 DEF Advance, Executing
  <2>2. CASE Holds(row[r], t[1])
    BY <1>0, <1>1, <2>1, <2>2, StatementsKeepRows DEF Advance, SetRow, Alive
  <2>3. CASE ~Holds(row[r], t[1])
    <3>1. /\ task' = [task EXCEPT ![t] = Idle]
          /\ held' = [held EXCEPT ![t[1]] = @ \ {r}]
          /\ UNCHANGED <<row, queue, outbox, phase, cancelling, faults, takeovers>>
      BY <1>1, <2>3 DEF Advance, FreeSlot, Drop
    <3> QED BY <1>0, <3>1 DEF Idle, Task, Alive
  <2> QED BY <2>2, <2>3
<1>2. CASE Complete(t)
  BY <1>2, <1>a, SettleTypes DEF Complete
<1>3. CASE StopCancelled(t)
  BY <1>3, <1>a, SettleTypes DEF StopCancelled
<1>4. CASE Retry(t)
  BY <1>4, <1>a, SettleTypes DEF Retry
<1>5. CASE GiveUp(t)
  BY <1>5, <1>a, SettleTypes DEF GiveUp
<1>6. CASE Return(t)
  BY <1>0, <1>6 DEF Return, FreeSlot, Drop, Idle, Task, Alive
<1>7. CASE TaskDies(t)
  BY <1>0, <1>7, Limits DEF TaskDies, Fault, Executing, FreeSlot, Drop, Idle, Task, Alive
<1>8. CASE TaskCancelled(t)
  BY <1>0, <1>8, Limits DEF TaskCancelled, Fault, Executing, FreeSlot, Idle, Task, Alive
<1> QED BY <1>1, <1>2, <1>3, <1>4, <1>5, <1>6, <1>7, <1>8 DEF ExecStep

\* Starting, sweeping and being killed keep them.
LEMMA LoopTypes ==
  ASSUME TypeInv, NEW w \in Workers, LoopStep(w)
  PROVE  TypeInv'
<1> USE DEF TypeInv, TypeOK, TasksWellFormed
<1>1. CASE Start(w)
  BY <1>1 DEF Start, Phase, Alive
<1>2. ASSUME NEW picked \in SUBSET Runs, Sweep(w, picked)
      PROVE  TypeInv'
  <2>1. \A r \in Runs : row[r] \in Row /\ Stamped(row[r]) \in Row
    BY StatementsKeepRows
  <2>2. row' \in [Runs -> Row]
    BY <1>2, <2>1 DEF Sweep
  <2> QED BY <1>2, <2>2 DEF Sweep, Alive
<1>3. CASE Crash(w)
  <2>1. task' \in [Tasks -> Task]
    BY <1>3 DEF Crash, Idle, Task
  <2>2. \A t \in Tasks : task'[t].pc # "free" => t[1] # w /\ task'[t] = task[t]
    BY <1>3 DEF Crash, Idle
  <2>3. faults' \in 0 .. MaxFaults
    BY <1>3, Limits DEF Crash, Fault
  <2> QED BY <1>3, <2>1, <2>2, <2>3 DEF Crash, Phase, Alive, Tasks
<1> QED BY <1>1, <1>2, <1>3 DEF LoopStep

\* Draining keeps them.
LEMMA DrainTypes ==
  ASSUME TypeInv, NEW w \in Workers, DrainStep(w)
  PROVE  TypeInv'
<1> USE DEF TypeInv, TypeOK, TasksWellFormed
<1>1. CASE BeginDrain(w)
  BY <1>1 DEF BeginDrain, Phase, Alive
<1>2. CASE CancelPending(w)
  <2>1. task' \in [Tasks -> Task]
    BY <1>2 DEF CancelPending, Idle, Task
  <2>2. \A t \in Tasks : task'[t].pc # "free" => t[1] # w /\ task'[t] = task[t]
    BY <1>2 DEF CancelPending, Idle
  <2> QED BY <1>2, <2>1, <2>2 DEF CancelPending, Phase, Alive, Tasks
<1>3. ASSUME NEW r \in Runs, HandBack(w, r)
      PROVE  TypeInv'
  <2>1. Released(row[r], "none", Refunded(row[r])) \in Row
    BY RefundedNat, StatementsKeepRows
  <2>2. row' \in [Runs -> Row]
    BY <1>3, <2>1 DEF HandBack, SetRow
  <2>3. outbox' \in [Workers \cup {API} -> SUBSET Runs]
    BY <1>3 DEF HandBack
  <2> QED BY <1>3, <2>2, <2>3 DEF HandBack, Drop, Alive
<1>4. ASSUME NEW r \in Runs, HandBackFails(w, r)
      PROVE  TypeInv'
  BY <1>4, Limits DEF HandBackFails, Fault, Drop, Alive
<1>5. CASE Exit(w)
  BY <1>5 DEF Exit, Phase, Alive
<1> QED BY <1>1, <1>2, <1>3, <1>4, <1>5 DEF DrainStep

\* TypeInv is inductive.
LEMMA TypeStep == TypeInv /\ [Next]_vars => TypeInv'
<1> SUFFICES ASSUME TypeInv, [Next]_vars PROVE TypeInv'
  OBVIOUS
<1>1. CASE UNCHANGED vars
  BY <1>1 DEF vars, TypeInv, TypeOK, TasksWellFormed, Alive
<1>2. CASE Next
  BY <1>2, ApiTypes, TimeTypes, QueueTypes, ClaimTypes, ExecTypes, LoopTypes, DrainTypes
     DEF Next
<1> QED BY <1>1, <1>2

\* Type correctness: whatever the API, the workers and the queue do, the row,
\* the queue and the memory of every process keep their types.
THEOREM TypeCorrect == Spec => []TypeOK
<1>1. Spec => []TypeInv
  BY TypeInit, TypeStep, PTL DEF Spec
<1>2. TypeInv => TypeOK
  BY DEF TypeInv
<1> QED BY <1>1, <1>2, PTL

-----------------------------------------------------------------------------
(* What each statement writes *)

\* The columns the invariants read, after each statement.
LEMMA Writes ==
  ASSUME NEW x \in Row, NEW w \in Workers
  PROVE  /\ Claimed(x, w).status = "running" /\ Claimed(x, w).worker = w
         /\ Claimed(x, w).beat = "fresh" /\ Claimed(x, w).attempts = x.attempts + 1
         /\ Advanced(x).status = "running" /\ Advanced(x).worker = x.worker
         /\ Advanced(x).beat = "fresh" /\ Advanced(x).attempts = x.attempts
         /\ \A o \in Terminal :
               /\ Finished(x, o).status = o /\ Finished(x, o).worker = None
               /\ Finished(x, o).beat = "none" /\ Finished(x, o).attempts = x.attempts
         /\ \A n \in {"none", "future"}, a \in Nat :
               /\ Released(x, n, a).status = "paused" /\ Released(x, n, a).worker = None
               /\ Released(x, n, a).beat = "none" /\ Released(x, n, a).attempts = a
         /\ Stamped(x).status = x.status /\ Stamped(x).worker = x.worker
         /\ Stamped(x).beat = x.beat /\ Stamped(x).attempts = x.attempts
         /\ Cancelled(x).status = "cancelled" /\ Cancelled(x).worker = x.worker
         /\ Cancelled(x).beat = x.beat /\ Cancelled(x).attempts = x.attempts
<1> USE DEF Row
<1>1. /\ Claimed(x, w).status = "running" /\ Claimed(x, w).worker = w
      /\ Claimed(x, w).beat = "fresh" /\ Claimed(x, w).attempts = x.attempts + 1
  BY DEF Claimed
<1>2. /\ Advanced(x).status = "running" /\ Advanced(x).worker = x.worker
      /\ Advanced(x).beat = "fresh" /\ Advanced(x).attempts = x.attempts
  BY DEF Advanced
<1>3. \A o \in Terminal :
               /\ Finished(x, o).status = o /\ Finished(x, o).worker = None
               /\ Finished(x, o).beat = "none" /\ Finished(x, o).attempts = x.attempts
  BY DEF Finished
<1>4. \A n \in {"none", "future"}, a \in Nat :
               /\ Released(x, n, a).status = "paused" /\ Released(x, n, a).worker = None
               /\ Released(x, n, a).beat = "none" /\ Released(x, n, a).attempts = a
  BY DEF Released
<1>5. /\ Stamped(x).status = x.status /\ Stamped(x).worker = x.worker
      /\ Stamped(x).beat = x.beat /\ Stamped(x).attempts = x.attempts
  BY DEF Stamped
<1>6. /\ Cancelled(x).status = "cancelled" /\ Cancelled(x).worker = x.worker
      /\ Cancelled(x).beat = x.beat /\ Cancelled(x).attempts = x.attempts
  BY DEF Cancelled
<1> QED BY ONLY <1>1, <1>2, <1>3, <1>4, <1>5, <1>6

-----------------------------------------------------------------------------
(* The lease columns *)

\* What each statement does to them, given its WHERE clause.
LEMMA ColumnsKept ==
  ASSUME NEW x \in Row, NEW w \in Workers, ColumnsAgree(x)
  PROVE  /\ ColumnsAgree(Claimed(x, w))
         /\ Holds(x, w) => /\ x.status = "running"
                           /\ ColumnsAgree(Advanced(x))
                           /\ \A o \in Terminal : ColumnsAgree(Finished(x, o))
                           /\ \A n \in {"none", "future"}, a \in Nat :
                                 ColumnsAgree(Released(x, n, a))
         /\ ColumnsAgree(Stamped(x))
         /\ ColumnsAgree(Cancelled(x))
<1> USE Distinct DEF ColumnsAgree, Waiting, Terminal
<1>1. ColumnsAgree(Claimed(x, w))
  BY Writes
<1>2. Holds(x, w) => x.status = "running"
  BY DEF Holds, Row, Status
<1>3. Holds(x, w) => ColumnsAgree(Advanced(x))
  BY <1>2, Writes DEF Holds
<1>4. \A o \in Terminal : ColumnsAgree(Finished(x, o))
  BY Writes
<1>5. \A n \in {"none", "future"}, a \in Nat : ColumnsAgree(Released(x, n, a))
  BY Writes
<1>6. ColumnsAgree(Stamped(x))
  BY Writes
<1>7. ColumnsAgree(Cancelled(x))
  BY Writes
<1> QED BY ONLY <1>1, <1>2, <1>3, <1>4, <1>5, <1>6, <1>7

\* Time does not disturb them either.
LEMMA ColumnsInTime ==
  ASSUME NEW x \in Row, ColumnsAgree(x)
  PROVE  /\ ColumnsAgree([x EXCEPT !.aged = TRUE])
         /\ ColumnsAgree([x EXCEPT !.next = "past"])
         /\ x.status = "running" => ColumnsAgree([x EXCEPT !.beat = "stale"])
         /\ ColumnsAgree([x EXCEPT !.dispatch = "forgotten"])
<1> USE DEF Row, ColumnsAgree, Waiting
<1>1. ColumnsAgree([x EXCEPT !.aged = TRUE])
  OBVIOUS
<1>2. ColumnsAgree([x EXCEPT !.next = "past"])
  OBVIOUS
<1>3. x.status = "running" => ColumnsAgree([x EXCEPT !.beat = "stale"])
  OBVIOUS
<1>4. ColumnsAgree([x EXCEPT !.dispatch = "forgotten"])
  OBVIOUS
<1> QED BY ONLY <1>1, <1>2, <1>3, <1>4

ColumnsInv == TypeInv /\ LeaseColumnsAgree

\* A row that was never written has no lease.
LEMMA ColumnsInit == Init => LeaseColumnsAgree
  BY DEF Init, NoRow, LeaseColumnsAgree, ColumnsAgree, Waiting

-----------------------------------------------------------------------------
(* Every way a row can change: one disjunct per statement of the code. *)

Timed(x) == {[x EXCEPT !.aged = TRUE], [x EXCEPT !.next = "past"],
             [x EXCEPT !.dispatch = "forgotten"]}

\* What the API and time do to the row of r.
Outside(r) ==
    \/ row[r].status = "absent" /\ row'[r] = [NoRow EXCEPT !.status = "queued"]
    \/ row'[r] = Cancelled(row[r])
    \/ row[r].status \in Waiting \cup {"running"} /\ row'[r] \in Timed(row[r])
    \/ row[r].status = "running" /\ row'[r] = [row[r] EXCEPT !.beat = "stale"]

\* What the worker of t does to the run it has.
ByTask(r, t) ==
    /\ task[t].run = r
    /\ \/ task[t].pc = "reserved" /\ Claimable(row[r]) /\ row'[r] = Claimed(row[r], t[1])
       \/ /\ task[t].pc = "running" /\ Holds(row[r], t[1])
          /\ \/ row'[r] = Advanced(row[r])
             \/ \E o \in {"completed", "failed"} : row'[r] = Finished(row[r], o)
             \/ /\ task[t].attempt < MaxAttempts
                /\ row'[r] = Released(row[r], "future", row[r].attempts)

\* What the loop of w does to a run, sweeping or handing back.
ByLoop(r, w) ==
    \/ Due(row[r]) /\ row'[r] = Stamped(row[r])
    \/ Holds(row[r], w) /\ row'[r] = Released(row[r], "none", Refunded(row[r]))

\* A claim of a run in flight counts as a takeover; nothing else does.
Changes(r) ==
    \/ row'[r] = row[r] /\ takeovers'[r] = takeovers[r]
    \/ Outside(r) /\ takeovers'[r] = takeovers[r]
    \/ \E t \in Tasks :
          /\ ByTask(r, t)
          /\ takeovers'[r] = takeovers[r] + IF task[t].pc = "reserved" THEN Open(row[r]) ELSE 0
    \/ \E w \in Workers : ByLoop(r, w) /\ takeovers'[r] = takeovers[r]

\* A step that leaves the rows alone changes no run.
LEMMA NothingChanges ==
  ASSUME NEW r \in Runs, UNCHANGED <<row, takeovers>>
  PROVE  Changes(r)
  BY DEF Changes

\* Only the run a step is about changes.
LEMMA OtherRuns ==
  ASSUME TypeInv, NEW q \in Runs, NEW x, row' = [row EXCEPT ![q] = x],
         NEW r \in Runs \ {q}, takeovers'[r] = takeovers[r]
  PROVE  Changes(r)
  BY DEF TypeInv, TypeOK, Changes

\* Create, cancel and time change one row, in the ways of Outside.
LEMMA OutsideChanges ==
  ASSUME TypeInv, NEW q \in Runs, ApiStep(q) \/ TimeStep(q), NEW r \in Runs
  PROVE  Changes(r)
<1> USE DEF TypeInv, TypeOK, SetRow
<1>0. takeovers' = takeovers
  BY DEF ApiStep, TimeStep, Create, RequestCancel, CommitCancel, AbandonCancel,
         GracePasses, BackoffPasses, LeaseExpires, DispatchForgotten
<1>1. CASE r # q
  <2>1. row'[r] = row[r]
    BY <1>1 DEF ApiStep, TimeStep, Create, RequestCancel, CommitCancel, AbandonCancel,
           GracePasses, BackoffPasses, LeaseExpires, DispatchForgotten
  <2> QED BY <1>0, <2>1 DEF Changes
<1>2. CASE r = q
  <2>1. row'[r] = row[r] \/ Outside(r)
    <3>1. CASE Create(q)
      BY <1>2, <3>1 DEF Create, Outside
    <3>2. CASE RequestCancel(q) \/ AbandonCancel(q)
      BY <3>2 DEF RequestCancel, AbandonCancel
    <3>3. CASE CommitCancel(q)
      BY <1>2, <3>3 DEF CommitCancel, Outside
    <3>4. CASE GracePasses(q)
      BY <1>2, <3>4 DEF GracePasses, Outside, Timed, Waiting
    <3>5. CASE BackoffPasses(q)
      BY <1>2, <3>5 DEF BackoffPasses, Outside, Timed, Waiting
    <3>6. CASE LeaseExpires(q)
      BY <1>2, <3>6 DEF LeaseExpires, Outside
    <3>7. CASE DispatchForgotten(q)
      BY <1>2, <3>7 DEF DispatchForgotten, Outside, Timed
    <3> QED BY <3>1, <3>2, <3>3, <3>4, <3>5, <3>6, <3>7 DEF ApiStep, TimeStep
  <2> QED BY <1>0, <2>1 DEF Changes
<1> QED BY <1>1, <1>2

\* A task changes only the run it has, in the ways of ByTask.
LEMMA TaskChanges ==
  ASSUME TypeInv, NEW t \in Tasks, ClaimStep(t) \/ ExecStep(t), NEW r \in Runs
  PROVE  Changes(r)
<1> USE DEF TypeInv, TypeOK, TasksWellFormed
<1> DEFINE q == task[t].run
<1>1. CASE Reserve(t) \/ ClaimFails(t) \/ Begin(t) \/ Return(t) \/ TaskCancelled(t) \/ TaskDies(t)
  BY <1>1, NothingChanges DEF Reserve, ClaimFails, Begin, Return, TaskCancelled, TaskDies
<1>2. CASE Claim(t)
  <2>1. CASE ~Claimable(row[q])
    BY <1>2, <2>1, NothingChanges DEF Claim
  <2>2. CASE Claimable(row[q])
    <3>1. /\ q \in Runs
          /\ task[t].pc = "reserved"
          /\ row' = [row EXCEPT ![q] = Claimed(row[q], t[1])]
          /\ takeovers' = (IF row[q].status = "running"
                           THEN [takeovers EXCEPT ![q] = @ + 1] ELSE takeovers)
      BY <1>2, <2>2 DEF Claim, SetRow
    <3>2. CASE r # q
      BY <3>1, <3>2, OtherRuns
    <3>3. CASE r = q
      <4>1. takeovers'[r] = takeovers[r] + Open(row[r])
        BY <3>1, <3>3 DEF Open
      <4>2. ByTask(r, t)
        BY <2>2, <3>1, <3>3 DEF ByTask
      <4> QED BY <3>1, <4>1, <4>2 DEF Changes
    <3> QED BY <3>2, <3>3
  <2> QED BY <2>1, <2>2
<1>3. ASSUME NEW x, Settle(t, x),
             Holds(row[q], t[1]) =>
               \/ \E o \in {"completed", "failed"} : x = Finished(row[q], o)
               \/ task[t].attempt < MaxAttempts
                    /\ x = Released(row[q], "future", row[q].attempts)
      PROVE  Changes(r)
  <2>1. q \in Runs /\ task[t].pc = "running" /\ takeovers' = takeovers
    BY <1>3 DEF Settle, Executing
  <2>2. CASE ~Holds(row[q], t[1])
    BY <1>3, <2>2, NothingChanges DEF Settle
  <2>3. CASE Holds(row[q], t[1])
    <3>1. row' = [row EXCEPT ![q] = x]
      BY <1>3, <2>3 DEF Settle, SetRow
    <3>2. CASE r # q
      BY <2>1, <3>1, <3>2, OtherRuns
    <3>3. CASE r = q
      <4>1. ByTask(r, t)
        BY <1>3, <2>1, <2>3, <3>1, <3>3 DEF ByTask
      <4>2. takeovers'[r] = takeovers[r] + IF task[t].pc = "reserved" THEN Open(row[r]) ELSE 0
        BY <2>1
      <4> QED BY ONLY <4>1, <4>2, t \in Tasks DEF Changes
    <3> QED BY <3>2, <3>3
  <2> QED BY <2>2, <2>3
<1>4. CASE Advance(t)
  <2>1. q \in Runs /\ task[t].pc = "running" /\ takeovers' = takeovers
    BY <1>4 DEF Advance, Executing
  <2>2. CASE ~Holds(row[q], t[1])
    BY <1>4, <2>2, NothingChanges DEF Advance
  <2>3. CASE Holds(row[q], t[1])
    <3>1. row' = [row EXCEPT ![q] = Advanced(row[q])]
      BY <1>4, <2>3 DEF Advance, SetRow
    <3>2. CASE r # q
      BY <2>1, <3>1, <3>2, OtherRuns
    <3>3. CASE r = q
      <4>1. ByTask(r, t)
        BY <2>1, <2>3, <3>1, <3>3 DEF ByTask
      <4>2. takeovers'[r] = takeovers[r] + IF task[t].pc = "reserved" THEN Open(row[r]) ELSE 0
        BY <2>1
      <4> QED BY ONLY <4>1, <4>2, t \in Tasks DEF Changes
    <3> QED BY <3>2, <3>3
  <2> QED BY <2>2, <2>3
<1>5. CASE Complete(t)
  BY <1>3, <1>5 DEF Complete
<1>6. CASE GiveUp(t)
  BY <1>3, <1>6 DEF GiveUp
<1>7. CASE Retry(t)
  BY <1>3, <1>7 DEF Retry
<1>8. CASE StopCancelled(t)
  BY <1>3, <1>8 DEF StopCancelled, Holds, Terminal
<1> QED BY <1>1, <1>2, <1>4, <1>5, <1>6, <1>7, <1>8 DEF ClaimStep, ExecStep

\* A loop changes rows only by sweeping and handing back.
LEMMA LoopChanges ==
  ASSUME TypeInv, NEW w \in Workers, LoopStep(w) \/ DrainStep(w), NEW r \in Runs
  PROVE  Changes(r)
<1> USE DEF TypeInv, TypeOK
<1>1. CASE Start(w) \/ Crash(w) \/ BeginDrain(w) \/ CancelPending(w) \/ Exit(w)
  BY <1>1, NothingChanges DEF Start, Crash, BeginDrain, CancelPending, Exit
<1>2. ASSUME NEW picked \in SUBSET Runs, Sweep(w, picked)
      PROVE  Changes(r)
  <2>1. row'[r] = row[r] \/ ByLoop(r, w)
    BY <1>2 DEF Sweep, ByLoop
  <2> QED BY <1>2, <2>1 DEF Sweep, Changes
<1>3. ASSUME NEW q \in Runs, HandBack(w, q)
      PROVE  Changes(r)
  <2>1. row'[r] = row[r] \/ ByLoop(r, w)
    BY <1>3 DEF HandBack, SetRow, ByLoop
  <2> QED BY <1>3, <2>1 DEF HandBack, Changes
<1>4. ASSUME NEW q \in Runs, HandBackFails(w, q)
      PROVE  Changes(r)
  BY <1>4, NothingChanges DEF HandBackFails
<1> QED BY <1>1, <1>2, <1>3, <1>4 DEF LoopStep, DrainStep

\* Every step changes every row in one of these ways, or not at all.
LEMMA RowChanges ==
  ASSUME TypeInv, [Next]_vars, NEW r \in Runs
  PROVE  Changes(r)
<1>1. CASE UNCHANGED vars
  BY <1>1, NothingChanges DEF vars
<1>2. CASE QueueLost \/ \E p \in Workers \cup {API} : QueueStep(p)
  BY <1>2, NothingChanges DEF QueueLost, QueueStep, Enqueue, EnqueueFails
<1> QED BY <1>1, <1>2, OutsideChanges, TaskChanges, LoopChanges DEF Next

-----------------------------------------------------------------------------
(* The columns agree *)

\* LeaseColumnsAgree is inductive with the types.
LEMMA ColumnsStep == ColumnsInv /\ [Next]_vars => ColumnsInv'
<1> SUFFICES ASSUME ColumnsInv, [Next]_vars PROVE ColumnsInv'
  OBVIOUS
<1>1. TypeInv /\ TypeInv'
  BY TypeStep DEF ColumnsInv
<1>2. ASSUME NEW r \in Runs PROVE ColumnsAgree(row'[r])
  <2>1. row[r] \in Row /\ ColumnsAgree(row[r])
    BY <1>1 DEF ColumnsInv, LeaseColumnsAgree, TypeInv, TypeOK
  <2>2. CASE row'[r] = row[r]
    BY <2>1, <2>2
  <2>3. CASE Outside(r)
    <3>1. CASE row'[r] = [NoRow EXCEPT !.status = "queued"]
      BY <3>1 DEF NoRow, ColumnsAgree
    <3>2. CASE row'[r] = Cancelled(row[r])
      <4>1. Cancelled(row[r]).status = "cancelled"
        BY <2>1 DEF Cancelled, Row
      <4> QED BY <3>2, <4>1 DEF ColumnsAgree, Waiting
    <3> QED BY <2>1, <2>3, <3>1, <3>2, ColumnsInTime DEF Outside, Timed
  <2>4. ASSUME NEW t \in Tasks, ByTask(r, t) PROVE ColumnsAgree(row'[r])
    <3>1. t[1] \in Workers
      BY DEF Tasks
    <3>2. row[r].attempts \in Nat
      BY <2>1 DEF Row
    <3> QED BY <2>1, <2>4, <3>1, <3>2, ColumnsKept DEF ByTask, Terminal
  <2>5. ASSUME NEW w \in Workers, ByLoop(r, w) PROVE ColumnsAgree(row'[r])
    BY <2>1, <2>5, ColumnsKept, RefundedNat DEF ByLoop
  <2> QED BY <1>1, <2>2, <2>3, <2>4, <2>5, RowChanges DEF Changes
<1> QED BY <1>1, <1>2 DEF ColumnsInv, LeaseColumnsAgree

\* A run in flight always has a holder and a heartbeat, and a waiting or
\* finished one neither, through every interleaving of claim, advance, finish,
\* release, due and the user's cancel (db/repositories/worker.py).
THEOREM ColumnsAlwaysAgree == Spec => []LeaseColumnsAgree
<1>1. Init => ColumnsInv
  BY TypeInit, ColumnsInit DEF ColumnsInv
<1>2. Spec => []ColumnsInv
  BY <1>1, ColumnsStep, PTL DEF Spec
<1>3. ColumnsInv => LeaseColumnsAgree
  BY DEF ColumnsInv
<1> QED BY <1>2, <1>3, PTL

-----------------------------------------------------------------------------
(* Cancellation sticks *)

\* A cancelled row satisfies no WHERE clause a worker writes under.
LEMMA CancelledStays ==
  ASSUME TypeInv, [Next]_vars, NEW r \in Runs, row[r].status = "cancelled"
  PROVE  row'[r].status = "cancelled"
<1>1. row[r] \in Row
  BY DEF TypeInv, TypeOK
<1>2. CASE Outside(r)
  BY <1>1, <1>2 DEF Outside, Waiting, Cancelled, Row
<1>3. \A t \in Tasks : ~ByTask(r, t)
  BY DEF ByTask, Claimable, Holds, Waiting, Terminal
<1>4. \A w \in Workers : ~ByLoop(r, w)
  BY DEF ByLoop, Due, Holds, Terminal
<1> QED BY <1>2, <1>3, <1>4, RowChanges DEF Changes

\* A user's cancellation is never overwritten by a worker, wherever in a node,
\* a claim or a hand-back the worker was (worker.py::_held).
THEOREM CancellationSticks == Spec => CancelSticks
<1>1. Spec => []TypeInv
  BY TypeInit, TypeStep, PTL DEF Spec
<1>2. TypeInv /\ [Next]_vars =>
        [\A r \in Runs : row[r].status = "cancelled" => row'[r].status = "cancelled"]_vars
  BY CancelledStays
<1> QED BY <1>1, <1>2, PTL DEF Spec, CancelSticks

-----------------------------------------------------------------------------
(* The attempt a lease carries, and the bound on attempts.  Both need that a
   worker executes one run at a time. *)

OneSlot == \A s, u \in Slots : s = u

\* A run that was not created has never been written.
AbsentUnwritten == \A r \in Runs : row[r].status = "absent" => row[r] = NoRow

SafeInv == ColumnsInv /\ AbsentUnwritten /\ LeaseMatchesRow /\ AttemptsAccounted

\* Nothing but create writes the row of a run that does not exist.
LEMMA AbsentStep ==
  ASSUME TypeInv, AbsentUnwritten, [Next]_vars
  PROVE  AbsentUnwritten'
<1> SUFFICES ASSUME NEW r \in Runs, row'[r].status = "absent" PROVE row'[r] = NoRow
  BY DEF AbsentUnwritten
<1>1. row[r] \in Row
  BY DEF TypeInv, TypeOK
<1>2. ~Outside(r)
  BY <1>1 DEF Outside, Timed, Cancelled, NoRow, Row, Waiting
<1>3. ASSUME NEW t \in Tasks PROVE ~ByTask(r, t)
  BY <1>1, Writes DEF ByTask, Tasks, Terminal, Row
<1>4. ASSUME NEW w \in Workers PROVE ~ByLoop(r, w)
  BY <1>1, Writes, RefundedNat DEF ByLoop, Due, Waiting
<1> QED BY <1>2, <1>3, <1>4, RowChanges DEF Changes, AbsentUnwritten

\* With one slot, a worker's task is the worker's only task.
LEMMA OneTaskPerWorker ==
  ASSUME OneSlot, NEW t \in Tasks, NEW u \in Tasks, t[1] = u[1]
  PROVE  t = u
  BY DEF OneSlot, Tasks

\* Every way a row can change keeps its attempts accounted for.
LEMMA AccountedStep ==
  ASSUME SafeInv, [Next]_vars, NEW r \in Runs
  PROVE  Accounted(row'[r], takeovers'[r])
<1> DEFINE n == takeovers[r]
<1>1. /\ TypeInv
      /\ row[r] \in Row /\ row[r].attempts \in Nat /\ n \in Nat
      /\ Accounted(row[r], n) /\ ColumnsAgree(row[r])
  BY DEF SafeInv, ColumnsInv, TypeInv, TypeOK, Row, AttemptsAccounted, LeaseColumnsAgree
<1> USE Limits
<1>2. CASE row'[r] = row[r] /\ takeovers'[r] = n
  BY <1>1, <1>2
<1>3. CASE Outside(r) /\ takeovers'[r] = n
  <2>1. CASE row[r].status = "absent" /\ row'[r] = [NoRow EXCEPT !.status = "queued"]
    <3>1. row[r].attempts = 0 /\ n = 0
      BY <1>1, <2>1 DEF SafeInv, AbsentUnwritten, NoRow, Accounted, Open
    <3>2. row'[r].status = "queued" /\ row'[r].attempts = 0
      BY <2>1 DEF NoRow
    <3> QED BY <1>3, <3>1, <3>2 DEF Accounted, Open
  <2>2. CASE row'[r] = Cancelled(row[r])
    <3>1. row'[r].status = "cancelled" /\ row'[r].attempts = row[r].attempts
      BY <1>1, <2>2 DEF Cancelled, Row
    <3> QED BY <1>1, <1>3, <3>1 DEF Accounted, Open, Terminal
  <2>3. CASE row'[r] \in Timed(row[r]) \cup {[row[r] EXCEPT !.beat = "stale"]}
    <3>1. row'[r].status = row[r].status /\ row'[r].attempts = row[r].attempts
      BY <1>1, <2>3 DEF Timed, Row
    <3> QED BY <1>1, <1>3, <3>1 DEF Accounted, Open
  <2> QED BY <1>3, <2>1, <2>2, <2>3 DEF Outside
<1>4. ASSUME NEW t \in Tasks, ByTask(r, t), task[t].pc = "reserved",
             takeovers'[r] = n + Open(row[r])
      PROVE  Accounted(row'[r], takeovers'[r])
  <2>1. Claimable(row[r]) /\ row'[r] = Claimed(row[r], t[1]) /\ t[1] \in Workers
    BY <1>4 DEF ByTask, Tasks
  <2>2. row'[r].status = "running" /\ row'[r].attempts = row[r].attempts + 1
    BY <1>1, <2>1, Writes
  <2>3. row[r].status \notin Terminal
    BY <2>1 DEF Claimable, Waiting, Terminal
  <2> QED BY <1>1, <1>4, <2>2, <2>3 DEF Accounted, Open, Terminal
<1>5. ASSUME NEW t \in Tasks, ByTask(r, t), task[t].pc = "running", takeovers'[r] = n
      PROVE  Accounted(row'[r], takeovers'[r])
  <2>1. Holds(row[r], t[1]) /\ t[1] \in Workers /\ task[t].run = r
    BY <1>5 DEF ByTask, Tasks
  <2>2. row[r].status = "running"
    BY <1>1, <2>1, ColumnsKept
  <2>3. CASE row'[r] = Advanced(row[r])
    <3>1. row'[r].status = "running" /\ row'[r].attempts = row[r].attempts
      BY <1>1, <2>1, <2>3, Writes
    <3> QED BY <1>1, <1>5, <2>2, <3>1 DEF Accounted, Open
  <2>4. ASSUME NEW o \in {"completed", "failed"}, row'[r] = Finished(row[r], o)
        PROVE  Accounted(row'[r], takeovers'[r])
    <3>1. row'[r].status = o /\ row'[r].attempts = row[r].attempts
      BY <1>1, <2>1, <2>4, Writes DEF Terminal
    <3> QED BY <1>1, <1>5, <2>2, <3>1 DEF Accounted, Open, Terminal
  <2>5. CASE /\ task[t].attempt < MaxAttempts
             /\ row'[r] = Released(row[r], "future", row[r].attempts)
    <3>1. row'[r].status = "paused" /\ row'[r].attempts = row[r].attempts
      BY <1>1, <2>1, <2>5, Writes
    <3>2. row[r].attempts = task[t].attempt
      BY <1>5, <2>1 DEF SafeInv, LeaseMatchesRow, Working, Holds
    <3> QED BY <1>1, <1>5, <2>2, <2>5, <3>1, <3>2 DEF Accounted, Open
  <2> QED BY <1>5, <2>3, <2>4, <2>5 DEF ByTask
<1>6. ASSUME NEW w \in Workers, ByLoop(r, w), takeovers'[r] = n
      PROVE  Accounted(row'[r], takeovers'[r])
  <2>1. CASE row'[r] = Stamped(row[r])
    <3>1. row'[r].status = row[r].status /\ row'[r].attempts = row[r].attempts
      BY <1>1, <2>1, Writes
    <3> QED BY <1>1, <1>6, <3>1 DEF Accounted, Open
  <2>2. CASE Holds(row[r], w) /\ row'[r] = Released(row[r], "none", Refunded(row[r]))
    <3>1. row[r].status = "running"
      BY <1>1, <2>2, ColumnsKept
    <3>2. Refunded(row[r]) = row[r].attempts - 1
      BY <1>1, <3>1 DEF Accounted, Open, Refunded
    <3>3. row'[r].status = "paused" /\ row'[r].attempts = row[r].attempts - 1
      BY <1>1, <2>2, <3>2, Writes, RefundedNat
    <3> QED BY <1>1, <1>6, <3>1, <3>3 DEF Accounted, Open, Terminal
  <2> QED BY <1>6, <2>1, <2>2 DEF ByLoop
<1>7. ASSUME NEW t \in Tasks, ByTask(r, t),
             takeovers'[r] = n + IF task[t].pc = "reserved" THEN Open(row[r]) ELSE 0
      PROVE  Accounted(row'[r], takeovers'[r])
  <2>1. CASE task[t].pc = "reserved"
    BY <1>4, <1>7, <2>1
  <2>2. CASE task[t].pc = "running"
    <3>1. takeovers'[r] = n
      BY <1>1, <1>7, <2>2
    <3> QED BY <1>5, <1>7, <2>2, <3>1
  <2> QED BY <1>7, <2>1, <2>2 DEF ByTask
<1>8. Changes(r)
  BY <1>1, RowChanges
<1> QED BY <1>2, <1>3, <1>6, <1>7, <1>8 DEF Changes

\* A task gets its run and its attempt from its claim and keeps them.
LEMMA TaskKeepsLease ==
  ASSUME TypeInv, [Next]_vars, NEW u \in Tasks, task'[u].pc \in {"claimed", "running"}
  PROVE  \/ Working(u) /\ task'[u].run = task[u].run /\ task'[u].attempt = task[u].attempt
         \/ Claim(u) /\ Claimable(row[task[u].run])
<1> USE DEF TypeInv, TypeOK, Working
<1>1. CASE task' = task
  BY <1>1
<1>2. ASSUME NEW t \in Tasks, ClaimStep(t) \/ ExecStep(t)
      PROVE  \/ Working(u) /\ task'[u].run = task[u].run /\ task'[u].attempt = task[u].attempt
             \/ Claim(u) /\ Claimable(row[task[u].run])
  <2>1. CASE t # u
    <3>1. task'[u] = task[u]
      BY <1>2, <2>1 DEF ClaimStep, Reserve, Claim, ClaimFails, Begin, FreeSlot,
             ExecStep, Advance, Complete, StopCancelled, Retry, GiveUp, Settle, Return, TaskCancelled, TaskDies
    <3> QED BY <3>1
  <2>2. CASE t = u
    <3>1. CASE Reserve(u)
      BY <3>1 DEF Reserve
    <3>2. CASE Claim(u)
      BY <3>2 DEF Claim, FreeSlot, Idle
    <3>3. CASE Begin(u)
      <4>1. task'[u] = [task[u] EXCEPT !.pc = "running"] /\ task[u].pc = "claimed"
        BY <3>3 DEF Begin
      <4> QED BY <4>1 DEF Task
    <3>4. CASE ClaimFails(u) \/ Return(u) \/ TaskCancelled(u) \/ TaskDies(u)
      BY <3>4 DEF ClaimFails, Return, TaskCancelled, TaskDies, FreeSlot, Idle
    <3>5. CASE Advance(u)
      BY <3>5 DEF Advance, Executing, FreeSlot, Idle
    <3>6. ASSUME NEW x, Settle(u, x) PROVE FALSE
      BY <3>6 DEF Settle, Task
    <3> QED BY <1>2, <2>2, <3>1, <3>2, <3>3, <3>4, <3>5, <3>6
            DEF ClaimStep, ExecStep, Complete, StopCancelled, Retry, GiveUp
  <2> QED BY <2>1, <2>2
<1>3. ASSUME NEW w \in Workers, LoopStep(w) \/ DrainStep(w)
      PROVE  task'[u] = task[u]
  <2>1. CASE Crash(w) \/ CancelPending(w)
    BY <2>1 DEF Crash, CancelPending, Idle
  <2> QED BY <1>3, <2>1 DEF LoopStep, DrainStep, Start, Sweep, BeginDrain, HandBack,
                           HandBackFails, Exit
<1>4. CASE QueueLost \/ (\E p \in Workers \cup {API} : QueueStep(p))
           \/ (\E r \in Runs : ApiStep(r) \/ TimeStep(r)) \/ UNCHANGED vars
  <2>1. task' = task
    BY <1>4 DEF QueueLost, QueueStep, Enqueue, EnqueueFails, ApiStep, TimeStep, Create,
           RequestCancel, CommitCancel, AbandonCancel, GracePasses, BackoffPasses,
           LeaseExpires, DispatchForgotten, vars
  <2> QED BY <1>1, <2>1
<1> QED BY <1>2, <1>3, <1>4 DEF Next

\* A worker's lease and the row it could write stay on the same attempt.
LEMMA LeaseStep ==
  ASSUME OneSlot, SafeInv, [Next]_vars
  PROVE  LeaseMatchesRow'
<1> SUFFICES ASSUME NEW u \in Tasks, NEW r \in Runs,
                    task'[u].pc \in {"claimed", "running"}, task'[u].run = r,
                    row'[r].worker = u[1]
             PROVE  row'[r].attempts = task'[u].attempt
  BY DEF LeaseMatchesRow, Working
<1>1. TypeInv /\ LeaseMatchesRow /\ row[r] \in Row /\ u[1] \in Workers
  BY DEF SafeInv, ColumnsInv, TypeInv, TypeOK, Tasks
<1>2. CASE Claim(u) /\ Claimable(row[task[u].run])
  <2>1. task'[u] = [pc |-> "claimed", run |-> task[u].run,
                    attempt |-> row[task[u].run].attempts + 1]
    BY <1>1, <1>2 DEF Claim, TypeInv, TypeOK
  <2>2. row'[r] = Claimed(row[r], u[1])
    BY <1>1, <1>2, <2>1 DEF Claim, SetRow, TypeInv, TypeOK
  <2> QED BY <1>1, <2>1, <2>2, Writes
<1>3. CASE Working(u) /\ task'[u].run = task[u].run /\ task'[u].attempt = task[u].attempt
  <2>1. task[u].run = r /\ (row[r].worker = u[1] => row[r].attempts = task'[u].attempt)
    BY <1>1, <1>3 DEF LeaseMatchesRow
  <2>2. CASE row'[r].worker = row[r].worker /\ row'[r].attempts = row[r].attempts
    BY <2>1, <2>2
  <2>3. CASE Outside(r)
    <3>1. row'[r] # [NoRow EXCEPT !.status = "queued"]
      BY <1>1, Distinct DEF NoRow
    <3>2. row'[r].worker = row[r].worker /\ row'[r].attempts = row[r].attempts
      BY <1>1, <2>3, <3>1 DEF Outside, Timed, Cancelled, Row
    <3> QED BY <2>2, <3>2
  <2>4. ASSUME NEW t \in Tasks, ByTask(r, t)
        PROVE  row'[r].worker = row[r].worker /\ row'[r].attempts = row[r].attempts
    <3>1. t[1] \in Workers
      BY DEF Tasks
    <3>2. row'[r] # Claimed(row[r], t[1]) \/ task[t].pc # "reserved"
      <4> SUFFICES ASSUME row'[r] = Claimed(row[r], t[1]) PROVE task[t].pc # "reserved"
        OBVIOUS
      <4>1. t[1] = u[1]
        BY <1>1, <3>1, Writes
      <4>2. t = u
        BY <4>1, OneTaskPerWorker
      <4> QED BY <1>3, <4>2 DEF Working
    <3>3. CASE row'[r] = Advanced(row[r])
      BY <1>1, <3>1, <3>3, Writes
    <3>4. \A o \in Terminal : row'[r] # Finished(row[r], o)
      BY <1>1, Writes, Distinct
    <3>5. row'[r] # Released(row[r], "future", row[r].attempts)
      BY <1>1, Writes, Distinct DEF Row
    <3> QED BY <2>4, <3>2, <3>3, <3>4, <3>5 DEF ByTask, Terminal
  <2>5. ASSUME NEW w \in Workers, ByLoop(r, w)
        PROVE  row'[r].worker = row[r].worker /\ row'[r].attempts = row[r].attempts
    <3>1. row'[r] # Released(row[r], "none", Refunded(row[r]))
      BY <1>1, Writes, RefundedNat, Distinct
    <3> QED BY <1>1, <2>5, <3>1, Writes DEF ByLoop
  <2>6. Changes(r)
    BY <1>1, RowChanges
  <2> QED BY <2>2, <2>3, <2>4, <2>5, <2>6 DEF Changes
<1> QED BY <1>1, <1>2, <1>3, TaskKeepsLease

\* SafeInv holds before anything happens.
LEMMA SafeInit == Init => SafeInv
<1> SUFFICES ASSUME Init PROVE SafeInv
  OBVIOUS
<1>1. ColumnsInv
  BY TypeInit, ColumnsInit DEF ColumnsInv
<1>2. AbsentUnwritten
  BY DEF Init, AbsentUnwritten
<1>3. LeaseMatchesRow
  BY DEF Init, LeaseMatchesRow, Working, Idle
<1>4. AttemptsAccounted
  BY Limits DEF Init, AttemptsAccounted, Accounted, Open, NoRow
<1> QED BY <1>1, <1>2, <1>3, <1>4 DEF SafeInv

\* SafeInv is inductive.
LEMMA SafeStep == ASSUME OneSlot PROVE SafeInv /\ [Next]_vars => SafeInv'
<1> SUFFICES ASSUME SafeInv, [Next]_vars PROVE SafeInv'
  OBVIOUS
<1>1. ColumnsInv'
  BY ColumnsStep DEF SafeInv
<1>2. AbsentUnwritten'
  BY AbsentStep DEF SafeInv, ColumnsInv
<1>3. LeaseMatchesRow'
  BY LeaseStep
<1>4. AttemptsAccounted'
  BY AccountedStep DEF AttemptsAccounted
<1> QED BY <1>1, <1>2, <1>3, <1>4 DEF SafeInv

\* Where a process executes one run at a time, an execution that could still
\* write its run carries the row's own attempt number: _failed never decides
\* between a retry and the end on the count of an attempt that is over.
THEOREM LeaseAlwaysMatchesRow == ASSUME OneSlot PROVE Spec => []LeaseMatchesRow
<1>1. SafeInv => LeaseMatchesRow
  BY DEF SafeInv
<1> QED BY <1>1, SafeInit, SafeStep, PTL DEF Spec

\* Under the same condition every attempt is accounted for: none that lost its
\* lease is refunded, and a run that is not over has been attempted at most
\* MaxAttempts times and once more for each lease that expired under it.
THEOREM AttemptsAlwaysAccounted == ASSUME OneSlot PROVE Spec => []AttemptsAccounted
<1>1. SafeInv => AttemptsAccounted
  BY DEF SafeInv
<1> QED BY <1>1, SafeInit, SafeStep, PTL DEF Spec

-----------------------------------------------------------------------------
(* The lease implements RunOwnership, where a worker executes one run at a
   time.  The refinement reads who is at work from the slots and from the
   leases a worker remembers, so it needs what relates them to the row. *)

\* An execution that wrote its outcome does not own the run any more.
SettledLetGo ==
    \A t \in Tasks, r \in Runs :
        task[t].pc = "settled" /\ task[t].run = r =>
            ~(row[r].status = "running" /\ row[r].worker = t[1])

\* Only a run that exists is cancelled.
CancelSeen == \A r \in cancelling : row[r].status # "absent"

RefInv == ColumnsInv /\ SettledLetGo /\ CancelSeen

\* Nothing is held, executed or cancelled before anything happens.
LEMMA RefInit == Init => RefInv
<1> SUFFICES ASSUME Init PROVE RefInv
  OBVIOUS
<1>1. ColumnsInv
  BY TypeInit, ColumnsInit DEF ColumnsInv
<1>2. SettledLetGo
  BY DEF Init, SettledLetGo, Idle
<1>3. CancelSeen
  BY DEF Init, CancelSeen
<1> QED BY <1>1, <1>2, <1>3 DEF RefInv

\* A run that exists does not cease to.
LEMMA NeverUncreated ==
  ASSUME TypeInv, [Next]_vars, NEW r \in Runs, row[r].status # "absent"
  PROVE  row'[r].status # "absent"
<1>1. row[r] \in Row
  BY DEF TypeInv, TypeOK
<1>2. CASE Outside(r)
  BY <1>1, <1>2 DEF Outside, Timed, Cancelled, NoRow, Row
<1>3. ASSUME NEW t \in Tasks, ByTask(r, t) PROVE row'[r].status # "absent"
  BY <1>1, <1>3, Writes DEF ByTask, Tasks, Terminal, Row
<1>4. ASSUME NEW w \in Workers, ByLoop(r, w) PROVE row'[r].status # "absent"
  BY <1>1, <1>4, Writes, RefundedNat DEF ByLoop
<1> QED BY <1>2, <1>3, <1>4, RowChanges DEF Changes

\* A cancel request has read the row it will write.
LEMMA CancelSeenStep ==
  ASSUME TypeInv, CancelSeen, [Next]_vars
  PROVE  CancelSeen'
<1> SUFFICES ASSUME NEW r \in cancelling' PROVE row'[r].status # "absent"
  BY DEF CancelSeen
<1>1. r \in Runs
  BY TypeStep DEF TypeInv, TypeOK
<1>2. r \in cancelling \/ RequestCancel(r)
  <2>1. ASSUME NEW q \in Runs, ApiStep(q) PROVE r \in cancelling \/ RequestCancel(r)
    BY <2>1 DEF ApiStep, Create, RequestCancel, CommitCancel, AbandonCancel
  <2>2. ASSUME NEW q \in Runs, TimeStep(q) PROVE cancelling' = cancelling
    BY <2>2 DEF TimeStep, GracePasses, BackoffPasses, LeaseExpires, DispatchForgotten
  <2>3. ASSUME NEW sender \in Workers \cup {API}, QueueStep(sender) PROVE cancelling' = cancelling
    BY <2>3 DEF QueueStep, Enqueue, EnqueueFails
  <2>4. ASSUME NEW t \in Tasks, ClaimStep(t) \/ ExecStep(t) PROVE cancelling' = cancelling
    BY <2>4 DEF ClaimStep, ExecStep, Reserve, Claim, ClaimFails, Begin, Advance, Complete,
           StopCancelled, Retry, GiveUp, Settle, Return, TaskCancelled, TaskDies
  <2>5. ASSUME NEW w \in Workers, LoopStep(w) \/ DrainStep(w) PROVE cancelling' = cancelling
    BY <2>5 DEF LoopStep, DrainStep, Start, Sweep, Crash, BeginDrain, CancelPending, HandBack,
           HandBackFails, Exit
  <2>6. CASE QueueLost \/ UNCHANGED vars
    BY <2>6 DEF QueueLost, vars
  <2> QED BY <2>1, <2>2, <2>3, <2>4, <2>5, <2>6 DEF Next
<1>3. row[r].status # "absent"
  BY <1>2 DEF CancelSeen, RequestCancel
<1> QED BY <1>1, <1>3, NeverUncreated

\* An execution settles with a statement that does not leave its worker owning
\* the run.
LEMMA SettleLetsGo ==
  ASSUME ColumnsInv, NEW t \in Tasks, NEW x, Settle(t, x), x.status # "running"
  PROVE  ~(row'[task[t].run].status = "running" /\ row'[task[t].run].worker = t[1])
<1> DEFINE r == task[t].run
<1>1. r \in Runs /\ row \in [Runs -> Row]
  BY DEF Settle, Executing, ColumnsInv, TypeInv, TypeOK, TasksWellFormed
<1>2. CASE Holds(row[r], t[1])
  BY <1>1, <1>2 DEF Settle, SetRow
<1>3. CASE ~Holds(row[r], t[1])
  BY <1>3 DEF Settle, Holds, Terminal
<1> QED BY <1>2, <1>3

\* A slot is settled because it was, or because its execution has just let go.
LEMMA SettledTasks ==
  ASSUME ColumnsInv, [Next]_vars, NEW t \in Tasks, task'[t].pc = "settled"
  PROVE  /\ task'[t].run = task[t].run
         /\ \/ task[t].pc = "settled"
            \/ LET r == task[t].run IN ~(row'[r].status = "running" /\ row'[r].worker = t[1])
<1> USE DEF ColumnsInv, TypeInv, TypeOK
<1>1. CASE task' = task
  BY <1>1
<1>2. ASSUME NEW u \in Tasks, ClaimStep(u)
      PROVE  task'[t] = task[t]
  <2>1. CASE Begin(u)
    <3>1. t # u
      BY <2>1 DEF Begin, Task
    <3> QED BY <2>1, <3>1 DEF Begin
  <2> QED BY <1>2, <2>1 DEF ClaimStep, Reserve, Claim, ClaimFails, FreeSlot, Idle
<1>3. ASSUME NEW u \in Tasks, Advance(u) \/ Return(u) \/ TaskCancelled(u) \/ TaskDies(u)
      PROVE  task'[t] = task[t]
  BY <1>3 DEF Advance, Return, TaskCancelled, TaskDies, FreeSlot, Idle
<1>4. ASSUME NEW u \in Tasks, NEW x, Settle(u, x), x.status # "running"
      PROVE  /\ task'[t].run = task[t].run
             /\ \/ task[t].pc = "settled"
                \/ LET r == task[t].run IN
                      ~(row'[r].status = "running" /\ row'[r].worker = t[1])
  <2>1. task' = [task EXCEPT ![u] = [task[u] EXCEPT !.pc = "settled"]]
    BY <1>4 DEF Settle
  <2>2. task'[t].run = task[t].run
    BY <2>1 DEF Task
  <2>3. CASE t = u
    BY <1>4, <2>2, <2>3, SettleLetsGo
  <2>4. CASE t # u
    BY <2>1, <2>4
  <2> QED BY <2>2, <2>3, <2>4
<1>5. ASSUME NEW u \in Tasks, Complete(u) \/ StopCancelled(u) \/ GiveUp(u) \/ Retry(u)
      PROVE  \E x : Settle(u, x) /\ x.status # "running"
  <2> DEFINE y == row[task[u].run]
  <2>1. y \in Row /\ y.attempts \in Nat
    BY <1>5 DEF Complete, StopCancelled, GiveUp, Retry, Settle, Executing, TasksWellFormed, Row
  <2>2. /\ \A o \in Terminal : Finished(y, o).status # "running"
        /\ Released(y, "future", y.attempts).status # "running"
    BY <2>1 DEF Finished, Released, Terminal, Row
  <2> QED BY <1>5, <2>2 DEF Complete, StopCancelled, GiveUp, Retry, Terminal
<1>6. ASSUME NEW w \in Workers, LoopStep(w) \/ DrainStep(w)
      PROVE  task'[t] = task[t]
  <2>1. CASE Crash(w) \/ CancelPending(w)
    BY <2>1 DEF Crash, CancelPending, Idle
  <2> QED BY <1>6, <2>1 DEF LoopStep, DrainStep, Start, Sweep, BeginDrain, HandBack,
                           HandBackFails, Exit
<1>7. CASE QueueLost \/ (\E p \in Workers \cup {API} : QueueStep(p))
           \/ (\E r \in Runs : ApiStep(r) \/ TimeStep(r)) \/ UNCHANGED vars
  <2>1. task' = task
    BY <1>7 DEF QueueLost, QueueStep, Enqueue, EnqueueFails, ApiStep, TimeStep, Create,
           RequestCancel, CommitCancel, AbandonCancel, GracePasses, BackoffPasses,
           LeaseExpires, DispatchForgotten, vars
  <2> QED BY <1>1, <2>1
<1> QED BY <1>2, <1>3, <1>4, <1>5, <1>6, <1>7 DEF Next, ExecStep

\* Nothing gives a run back to a worker whose only execution has settled.
LEMMA SettledStep ==
  ASSUME OneSlot, ColumnsInv, SettledLetGo, [Next]_vars
  PROVE  SettledLetGo'
<1> SUFFICES ASSUME NEW t \in Tasks, NEW r \in Runs,
                    task'[t].pc = "settled", task'[t].run = r,
                    row'[r].status = "running", row'[r].worker = t[1]
             PROVE  FALSE
  BY DEF SettledLetGo
<1>1. task[t].pc = "settled" /\ task[t].run = r
  BY SettledTasks
<1>2. ~(row[r].status = "running" /\ row[r].worker = t[1])
  BY <1>1 DEF SettledLetGo
<1>3. TypeInv /\ row[r] \in Row /\ t[1] \in Workers /\ ColumnsAgree(row[r])
  BY DEF ColumnsInv, LeaseColumnsAgree, TypeInv, TypeOK, Tasks
<1>4. CASE row'[r] = row[r]
  BY <1>2, <1>4
<1>5. CASE Outside(r)
  BY <1>2, <1>3, <1>5 DEF Outside, Timed, Cancelled, NoRow, Row
<1>6. ASSUME NEW u \in Tasks, ByTask(r, u) PROVE FALSE
  <2>1. u[1] \in Workers
    BY DEF Tasks
  <2>2. u # t
    BY <1>1, <1>6 DEF ByTask
  <2>3. u[1] # t[1]
    BY <2>2, OneTaskPerWorker
  <2>4. row'[r] # Claimed(row[r], u[1])
    BY <1>3, <2>1, <2>3, Writes
  <2>5. ASSUME Holds(row[r], u[1]) PROVE row'[r] # Advanced(row[r])
    BY <1>3, <2>1, <2>3, <2>5, Writes DEF Holds
  <2>6. \A o \in Terminal : row'[r] # Finished(row[r], o)
    BY <1>3, Writes, Distinct
  <2>7. row'[r] # Released(row[r], "future", row[r].attempts)
    BY <1>3, Writes DEF Row
  <2> QED BY <1>6, <2>4, <2>5, <2>6, <2>7 DEF ByTask, Terminal
<1>7. ASSUME NEW w \in Workers, ByLoop(r, w) PROVE FALSE
  BY <1>2, <1>3, <1>7, Writes, RefundedNat DEF ByLoop
<1> QED BY <1>3, <1>4, <1>5, <1>6, <1>7, RowChanges DEF Changes

\* RefInv is inductive.
LEMMA RefStep == ASSUME OneSlot PROVE RefInv /\ [Next]_vars => RefInv'
<1> SUFFICES ASSUME RefInv, [Next]_vars PROVE RefInv'
  OBVIOUS
<1>1. TypeInv /\ ColumnsInv'
  BY ColumnsStep DEF RefInv, ColumnsInv
<1>2. SettledLetGo'
  BY SettledStep DEF RefInv
<1>3. CancelSeen'
  BY <1>1, CancelSeenStep DEF RefInv
<1> QED BY <1>1, <1>2, <1>3 DEF RefInv

-----------------------------------------------------------------------------
(* The steps of RunOwnership, stated run by run. *)

\* Who is at work on a run are workers.
LEMMA WorkersOnTypes == \A r \in Runs : WorkersOn(r)' \in SUBSET Workers
  BY DEF WorkersOn

\* A step that concludes nothing and gives no owner its work back is a Drift.
LEMMA Drifts ==
  ASSUME \A r \in Runs : Stage(r)' = Stage(r) /\ Owner(r)' = Owner(r),
         \A r \in Runs : Owner(r) \in WorkersOn(r)' => Owner(r) \in WorkersOn(r)
  PROVE  Ownership!Next
<1> DEFINE on == [r \in Runs |-> WorkersOn(r)']
<1>1. on \in [Runs -> SUBSET Workers]
  BY WorkersOnTypes
<1>2. Ownership!Drift(on)
  BY DEF Ownership!Drift
<1> QED BY <1>1, <1>2 DEF Ownership!Next

\* A step that takes one run and adds its worker is a Take.
LEMMA Takes ==
  ASSUME NEW r \in Runs, NEW w \in Workers,
         Stage(r) \in {"waiting", "owned"},
         Stage(r)' = "owned", Owner(r)' = w, WorkersOn(r)' = WorkersOn(r) \cup {w},
         \A q \in Runs \ {r} : /\ Stage(q)' = Stage(q) /\ Owner(q)' = Owner(q)
                               /\ WorkersOn(q)' = WorkersOn(q)
  PROVE  Ownership!Next
<1>1. Ownership!Take(r, w)
  BY DEF Ownership!Take
<1> QED BY <1>1 DEF Ownership!Next

\* A step by which the owner ends its work on one run is a Conclude.
LEMMA Concludes ==
  ASSUME NEW r \in Runs, NEW w \in Workers,
         Stage(r) = "owned", Owner(r) = w, w \in WorkersOn(r),
         Stage(r)' \in {"waiting", "ended"}, Owner(r)' = None,
         WorkersOn(r)' = WorkersOn(r) \ {w},
         \A q \in Runs \ {r} : /\ Stage(q)' = Stage(q) /\ Owner(q)' = Owner(q)
                               /\ WorkersOn(q)' = WorkersOn(q)
  PROVE  Ownership!Next
<1>1. Ownership!Conclude(r, w)
  BY DEF Ownership!Conclude
<1> QED BY <1>1 DEF Ownership!Next

\* A step that creates one run, or ends it, whoever works on it.
LEMMA SubmitsOrWithdraws ==
  ASSUME NEW r \in Runs,
         \/ Stage(r) = "absent" /\ Stage(r)' = "waiting" /\ Owner(r)' = Owner(r)
         \/ Stage(r) \in {"waiting", "owned"} /\ Stage(r)' = "ended" /\ Owner(r)' = None,
         \A q \in Runs \ {r} : Stage(q)' = Stage(q) /\ Owner(q)' = Owner(q),
         \A q \in Runs : WorkersOn(q)' = WorkersOn(q)
  PROVE  Ownership!Next
<1>1. CASE Stage(r) = "absent" /\ Stage(r)' = "waiting" /\ Owner(r)' = Owner(r)
  <2>1. Ownership!Submit(r)
    BY <1>1 DEF Ownership!Submit
  <2> QED BY <2>1 DEF Ownership!Next
<1>2. CASE Stage(r) \in {"waiting", "owned"} /\ Stage(r)' = "ended" /\ Owner(r)' = None
  <2>1. Ownership!Withdraw(r)
    BY <1>2 DEF Ownership!Withdraw
  <2> QED BY <2>1 DEF Ownership!Next
<1> QED BY <1>1, <1>2

\* The stage and the owner are read from two columns.
LEMMA SameColumns ==
  ASSUME NEW r \in Runs, row'[r].status = row[r].status, row'[r].worker = row[r].worker
  PROVE  Stage(r)' = Stage(r) /\ Owner(r)' = Owner(r)
  BY DEF Stage, Owner

\* The columns decide the stage.
LEMMA StageOfRow ==
  ASSUME NEW r \in Runs
  PROVE  /\ row[r].status = "absent" => Stage(r) = "absent" /\ Owner(r) = None
         /\ row[r].status \in Waiting => Stage(r) = "waiting" /\ Owner(r) = None
         /\ row[r].status = "running" => Stage(r) = "owned" /\ Owner(r) = row[r].worker
         /\ row[r].status \in Terminal => Stage(r) = "ended" /\ Owner(r) = None
  BY DEF Stage, Owner, Waiting, Terminal

\* And so after a step.
LEMMA StageOfNewRow ==
  ASSUME NEW r \in Runs
  PROVE  /\ row'[r].status = "absent" => Stage(r)' = "absent" /\ Owner(r)' = None
         /\ row'[r].status \in Waiting => Stage(r)' = "waiting" /\ Owner(r)' = None
         /\ row'[r].status = "running" => Stage(r)' = "owned" /\ Owner(r)' = row'[r].worker
         /\ row'[r].status \in Terminal => Stage(r)' = "ended" /\ Owner(r)' = None
  BY DEF Stage, Owner, Waiting, Terminal

-----------------------------------------------------------------------------
(* Each step of the code is a step of RunOwnership. *)

\* Nobody's work changes where the slots and the leases do not.
LEMMA SameWorkers ==
  ASSUME UNCHANGED <<task, held>>
  PROVE  \A q \in Runs : WorkersOn(q)' = WorkersOn(q)
  BY DEF WorkersOn, Working, Settled

\* create submits, cancel withdraws, and the rest of the API and time only drift.
LEMMA OutsideMaps ==
  ASSUME RefInv, NEW r \in Runs, ApiStep(r) \/ TimeStep(r)
  PROVE  Ownership!Next
<1>1. /\ row \in [Runs -> Row] /\ row[r] \in Row
      /\ row[r].status = "absent" => r \notin cancelling
  BY DEF RefInv, ColumnsInv, TypeInv, TypeOK, CancelSeen
<1>2. \A q \in Runs : WorkersOn(q)' = WorkersOn(q)
  <2>1. UNCHANGED <<task, held>>
    BY DEF ApiStep, TimeStep, Create, RequestCancel, CommitCancel, AbandonCancel, GracePasses,
           BackoffPasses, LeaseExpires, DispatchForgotten
  <2> QED BY <2>1, SameWorkers
<1>3. \A q \in Runs \ {r} : row'[q] = row[q]
  BY <1>1 DEF ApiStep, TimeStep, Create, RequestCancel, CommitCancel, AbandonCancel, GracePasses,
              BackoffPasses, LeaseExpires, DispatchForgotten, SetRow
<1>4. \A q \in Runs \ {r} : Stage(q)' = Stage(q) /\ Owner(q)' = Owner(q)
  BY <1>3, SameColumns
<1>5. ASSUME row'[r].status = row[r].status, row'[r].worker = row[r].worker
      PROVE  Ownership!Next
  BY <1>2, <1>4, <1>5, SameColumns, Drifts
<1>6. CASE Create(r)
  <2>1. row[r].status = "absent" /\ row'[r].status = "queued"
    BY <1>1, <1>6 DEF Create, SetRow, NoRow
  <2> QED BY <1>2, <1>4, <2>1, StageOfRow, StageOfNewRow, SubmitsOrWithdraws DEF Waiting
<1>7. CASE CommitCancel(r)
  <2>1. row'[r].status = "cancelled" /\ row[r].status # "absent"
    BY <1>1, <1>7 DEF CommitCancel, SetRow, Cancelled, Row
  <2>2. Stage(r)' = "ended" /\ Owner(r)' = None
    BY <2>1, StageOfNewRow DEF Terminal
  <2>3. CASE row[r].status \in Terminal
    <3>1. Stage(r)' = Stage(r) /\ Owner(r)' = Owner(r)
      BY <2>2, <2>3, StageOfRow
    <3> QED BY <1>2, <1>4, <3>1, Drifts
  <2>4. CASE row[r].status \notin Terminal
    <3>1. Stage(r) \in {"waiting", "owned"}
      BY <1>1, <2>1, <2>4, StageOfRow DEF Row, Status
    <3> QED BY <1>2, <1>4, <2>2, <3>1, SubmitsOrWithdraws
  <2> QED BY <2>3, <2>4
<1>8. CASE RequestCancel(r) \/ AbandonCancel(r)
  BY <1>5, <1>8 DEF RequestCancel, AbandonCancel
<1>9. CASE TimeStep(r)
  BY <1>1, <1>5, <1>9 DEF TimeStep, GracePasses, BackoffPasses, LeaseExpires, DispatchForgotten,
                         SetRow, Row
<1> QED BY <1>6, <1>7, <1>8, <1>9 DEF ApiStep

\* With one slot, a worker is at work on what that slot has.
LEMMA AtWork ==
  ASSUME OneSlot, NEW t \in Tasks, NEW r \in Runs
  PROVE  /\ t[1] \in WorkersOn(r) <=> \/ Working(t) /\ task[t].run = r
                                      \/ r \in held[t[1]] /\ ~Settled(t, r)
         /\ t[1] \in WorkersOn(r)' <=> \/ Working(t)' /\ task'[t].run = r
                                       \/ r \in held'[t[1]] /\ ~Settled(t, r)'
<1>1. t[1] \in Workers /\ t[2] \in Slots /\ t = <<t[1], t[2]>>
  BY DEF Tasks
<1>2. \A s \in Slots : s = t[2]
  BY <1>1 DEF OneSlot
<1>3. t[1] \in WorkersOn(r) <=> \/ Working(t) /\ task[t].run = r
                                \/ r \in held[t[1]] /\ ~Settled(t, r)
  BY <1>1, <1>2 DEF WorkersOn, Working, Settled
<1>4. t[1] \in WorkersOn(r)' <=> \/ Working(t)' /\ task'[t].run = r
                                 \/ r \in held'[t[1]] /\ ~Settled(t, r)'
  BY <1>1, <1>2 DEF WorkersOn, Working, Settled
<1> QED BY <1>3, <1>4

\* The steps of one slot leave the work of other workers alone.
LEMMA OthersAtWork ==
  ASSUME TypeInv, NEW t \in Tasks, ClaimStep(t) \/ ExecStep(t),
         NEW r \in Runs, NEW v \in Workers \ {t[1]}
  PROVE  v \in WorkersOn(r)' <=> v \in WorkersOn(r)
<1> USE DEF TypeInv, TypeOK
<1>1. \A u \in Tasks \ {t} : task'[u] = task[u]
  BY DEF ClaimStep, Reserve, Claim, ClaimFails, Begin, FreeSlot, ExecStep, Advance, Complete,
         StopCancelled, Retry, GiveUp, Settle, Return, TaskCancelled, TaskDies
<1>2. held'[v] = held[v]
  BY DEF ClaimStep, Reserve, Claim, ClaimFails, Begin, ExecStep, Advance, Complete,
         StopCancelled, Retry, GiveUp, Settle, Return, TaskCancelled, TaskDies, Drop
<1>3. \A s \in Slots : <<v, s>> \in Tasks \ {t}
  BY DEF Tasks
<1> QED BY <1>1, <1>2, <1>3 DEF WorkersOn, Working, Settled

\* A run whose workers are one by one the same has the same workers.
LEMMA SameAtWork ==
  ASSUME NEW q \in Runs, \A v \in Workers : v \in WorkersOn(q)' <=> v \in WorkersOn(q)
  PROVE  WorkersOn(q)' = WorkersOn(q)
<1>1. WorkersOn(q) \in SUBSET Workers /\ WorkersOn(q)' \in SUBSET Workers
  BY DEF WorkersOn
<1> QED BY <1>1

\* A claim that takes the run takes it, whoever had it.
LEMMA ClaimMaps ==
  ASSUME OneSlot, RefInv, NEW t \in Tasks, Claim(t), Claimable(row[task[t].run])
  PROVE  Ownership!Next
<1> DEFINE w == t[1]
<1>0. PICK r \in Runs : r = task[t].run
  BY DEF RefInv, ColumnsInv, TypeInv, TasksWellFormed, Claim
<1>1. /\ TypeInv /\ row \in [Runs -> Row] /\ task \in [Tasks -> Task]
      /\ r \in Runs /\ row[r] \in Row /\ w \in Workers
  BY <1>0 DEF RefInv, ColumnsInv, TypeInv, TypeOK, TasksWellFormed, Claim, Tasks
<1>2. /\ task[t].pc = "reserved" /\ Alive(w)
      /\ row' = [row EXCEPT ![r] = Claimed(row[r], w)]
      /\ task'[t].pc = "claimed" /\ task'[t].run = r
      /\ held' = held
  BY <1>0, <1>1 DEF Claim, SetRow
<1>3. Stage(r) \in {"waiting", "owned"}
  BY <1>0, <1>1, StageOfRow DEF Claimable
<1>4. Stage(r)' = "owned" /\ Owner(r)' = w
  BY <1>1, <1>2, Writes, StageOfNewRow
<1>5. \A q \in Runs \ {r} : Stage(q)' = Stage(q) /\ Owner(q)' = Owner(q)
  BY <1>1, <1>2, SameColumns
<1>6. \A q \in Runs : w \in WorkersOn(q)' <=> q = r \/ w \in WorkersOn(q)
  BY <1>0, <1>2, AtWork DEF Working, Settled
<1>7. \A q \in Runs : \A v \in Workers \ {w} : v \in WorkersOn(q)' <=> v \in WorkersOn(q)
  BY <1>1, OthersAtWork DEF ClaimStep
<1>8. \A q \in Runs : WorkersOn(q) \in SUBSET Workers /\ WorkersOn(q)' \in SUBSET Workers
  BY DEF WorkersOn
<1>9. WorkersOn(r)' = WorkersOn(r) \cup {w}
  BY <1>1, <1>6, <1>7, <1>8
<1>10. \A q \in Runs \ {r} : WorkersOn(q)' = WorkersOn(q)
  BY <1>6, <1>7, SameAtWork
<1> QED BY ONLY <1>1, <1>3, <1>4, <1>5, <1>6, <1>9, <1>10, Takes

\* The last statement of the owner's execution concludes; anybody else's
\* changes nothing but who is at work.
LEMMA SettleMaps ==
  ASSUME OneSlot, RefInv, NEW t \in Tasks, ExecStep(t), NEW x, Settle(t, x),
         Holds(row[task[t].run], t[1]) =>
             x.status \in Terminal \cup {"paused"}
  PROVE  Ownership!Next
<1> DEFINE w == t[1]
<1>0. PICK r \in Runs : r = task[t].run
  BY DEF RefInv, ColumnsInv, TypeInv, TasksWellFormed, Settle, Executing
<1>1. /\ TypeInv /\ row \in [Runs -> Row] /\ task \in [Tasks -> Task]
      /\ r \in Runs /\ row[r] \in Row /\ w \in Workers /\ ColumnsAgree(row[r])
  BY <1>0 DEF RefInv, ColumnsInv, TypeInv, TypeOK, TasksWellFormed, LeaseColumnsAgree, Settle,
         Executing, Tasks
<1>2. /\ task[t].pc = "running" /\ Alive(w)
      /\ task'[t].pc = "settled"
      /\ task'[t].run = r
      /\ held' = held
  BY <1>0, <1>1 DEF Settle, Executing, Task
<1>3. \A q \in Runs : /\ w \in WorkersOn(r)
                      /\ w \in WorkersOn(q)' <=> q # r /\ w \in WorkersOn(q)
  BY <1>0, <1>1, <1>2, AtWork DEF Working, Settled
<1>4. \A q \in Runs : \A v \in Workers \ {w} : v \in WorkersOn(q)' <=> v \in WorkersOn(q)
  BY <1>1, OthersAtWork
<1>5. \A q \in Runs : WorkersOn(q) \in SUBSET Workers /\ WorkersOn(q)' \in SUBSET Workers
  BY DEF WorkersOn
<1>6. \A q \in Runs : WorkersOn(q)' \subseteq WorkersOn(q)
  BY <1>3, <1>4, <1>5
<1>7. CASE ~Holds(row[r], w)
  <2>1. row' = row
    BY <1>0, <1>7 DEF Settle
  <2> QED BY <1>6, <2>1, SameColumns, Drifts
<1>8. CASE Holds(row[r], w)
  <2>1. row' = [row EXCEPT ![r] = x]
    BY <1>0, <1>8 DEF Settle, SetRow
  <2>2. row[r].status = "running" /\ row[r].worker = w
    BY <1>1, <1>8, ColumnsKept DEF Holds
  <2>3. Stage(r) = "owned" /\ Owner(r) = w
    BY <1>1, <2>2, StageOfRow
  <2>4. Stage(r)' \in {"waiting", "ended"} /\ Owner(r)' = None
    <3>1. row'[r].status \in Terminal \cup Waiting
      BY <1>0, <1>1, <1>8, <2>1 DEF Waiting
    <3> QED BY <1>1, <3>1, StageOfNewRow
  <2>5. \A q \in Runs \ {r} : Stage(q)' = Stage(q) /\ Owner(q)' = Owner(q)
    BY <1>1, <2>1, SameColumns
  <2>6. WorkersOn(r)' = WorkersOn(r) \ {w}
    BY <1>1, <1>3, <1>4, <1>5
  <2>7. \A q \in Runs \ {r} : WorkersOn(q)' = WorkersOn(q)
    BY <1>3, <1>4, SameAtWork
  <2>8. w \in WorkersOn(r)
    BY <1>1, <1>3
  <2> QED BY ONLY <1>1, <2>3, <2>4, <2>5, <2>6, <2>7, <2>8, Concludes
<1> QED BY <1>7, <1>8

\* A slot that neither claims its run nor settles it only drifts: it goes on
\* with what it has, or lets go of it.
LEMMA QuietTaskMaps ==
  ASSUME OneSlot, RefInv, NEW t \in Tasks, ClaimStep(t) \/ ExecStep(t),
         ~(Claim(t) /\ Claimable(row[task[t].run])),
         \A q \in Runs : row'[q].status = row[q].status /\ row'[q].worker = row[q].worker
  PROVE  Ownership!Next
<1> SUFFICES ASSUME NEW q \in Runs, Owner(q) \in WorkersOn(q)'
             PROVE  Owner(q) \in WorkersOn(q)
  BY SameColumns, Drifts
<1>1. TypeInv /\ TypeInv' /\ Next
  BY TypeStep DEF RefInv, ColumnsInv, Next
<1>2. Owner(q) \in Workers
  BY DEF WorkersOn
<1>3. CASE Owner(q) # t[1]
  BY <1>1, <1>2, <1>3, OthersAtWork
<1>4. CASE Owner(q) = t[1]
  <2>1. CASE Working(t)' /\ task'[t].run = q
    <3>1. Working(t) /\ task[t].run = q
      BY <1>1, <2>1, TaskKeepsLease DEF Working
    <3> QED BY <1>4, <3>1, AtWork
  <2>2. CASE q \in held'[t[1]] /\ ~(Working(t)' /\ task'[t].run = q)
    <3>1. q \in held[t[1]]
      BY <1>1, <2>2 DEF TypeInv, TypeOK, Working, Task, ClaimStep, Reserve, Claim, ClaimFails,
         Begin, ExecStep, Advance, Complete, StopCancelled, Retry, GiveUp, Settle, Return,
         TaskCancelled, TaskDies, Drop
    <3>2. row[q].status = "running" /\ row[q].worker = t[1]
      BY <1>2, <1>4, Distinct DEF Owner
    <3>3. ~Settled(t, q)
      BY <3>2 DEF RefInv, SettledLetGo, Settled
    <3> QED BY <1>4, <3>1, <3>3, AtWork
  <2> QED BY <1>4, <2>1, <2>2, AtWork
<1> QED BY <1>3, <1>4

\* The steps of a slot.
LEMMA TaskMaps ==
  ASSUME OneSlot, RefInv, NEW t \in Tasks, ClaimStep(t) \/ ExecStep(t)
  PROVE  Ownership!Next
<1>1. /\ TypeInv /\ row \in [Runs -> Row]
      /\ task[t].pc # "free" => task[t].run \in Runs
      /\ t[1] \in Workers
  BY DEF RefInv, ColumnsInv, TypeInv, TypeOK, TasksWellFormed, Tasks
<1>2. CASE Claim(t) /\ Claimable(row[task[t].run])
  BY <1>2, ClaimMaps
<1>3. ASSUME row' = row, ~(Claim(t) /\ Claimable(row[task[t].run])) PROVE Ownership!Next
  BY <1>3, QuietTaskMaps
<1>4. CASE ClaimStep(t) /\ ~(Claim(t) /\ Claimable(row[task[t].run]))
  BY <1>3, <1>4 DEF ClaimStep, Reserve, Claim, ClaimFails, Begin
<1>5. CASE Advance(t)
  <2> DEFINE r == task[t].run
  <2>1. r \in Runs /\ row[r] \in Row /\ ColumnsAgree(row[r]) /\ ~Claim(t)
    BY <1>1, <1>5 DEF Advance, Executing, Claim, RefInv, ColumnsInv, LeaseColumnsAgree
  <2>2. CASE ~Holds(row[r], t[1])
    BY <1>3, <1>5, <2>1, <2>2 DEF Advance
  <2>3. CASE Holds(row[r], t[1])
    <3>1. row' = [row EXCEPT ![r] = Advanced(row[r])]
      BY <1>5, <2>3 DEF Advance, SetRow
    <3>2. row[r].status = "running"
      BY <1>1, <2>1, <2>3, ColumnsKept
    <3>3. Advanced(row[r]).status = row[r].status /\ Advanced(row[r]).worker = row[r].worker
      BY <1>1, <2>1, <3>2, Writes
    <3>4. \A q \in Runs : row'[q].status = row[q].status /\ row'[q].worker = row[q].worker
      BY <1>1, <2>1, <3>1, <3>3
    <3> QED BY <1>5, <2>1, <3>4, QuietTaskMaps DEF ExecStep
  <2> QED BY <2>2, <2>3
<1>6. CASE Return(t) \/ TaskCancelled(t) \/ TaskDies(t)
  <2>1. row' = row /\ ~Claim(t)
    BY <1>6 DEF Return, TaskCancelled, TaskDies, Executing, Claim
  <2> QED BY <1>3, <2>1
<1>7. CASE Complete(t) \/ StopCancelled(t) \/ GiveUp(t) \/ Retry(t)
  <2> DEFINE y == row[task[t].run]
  <2>1. y \in Row /\ y.attempts \in Nat
    BY <1>1, <1>7 DEF Complete, StopCancelled, GiveUp, Retry, Settle, Executing, Row
  <2>2. /\ \A o \in Terminal : Finished(y, o).status \in Terminal
        /\ Released(y, "future", y.attempts).status = "paused"
    BY <1>1, <2>1, Writes
  <2> QED BY <1>7, <2>2, SettleMaps
          DEF ExecStep, Complete, StopCancelled, GiveUp, Retry, Terminal
<1> QED BY <1>2, <1>4, <1>5, <1>6, <1>7 DEF ExecStep

\* A released lease is concluded by the worker that gives it back.
LEMMA HandBackMaps ==
  ASSUME RefInv, NEW w \in Workers, NEW r \in Runs, HandBack(w, r)
  PROVE  Ownership!Next
<1>1. /\ row \in [Runs -> Row] /\ row[r] \in Row /\ ColumnsAgree(row[r])
      /\ held \in [Workers -> SUBSET Runs]
  BY DEF RefInv, ColumnsInv, TypeInv, TypeOK, LeaseColumnsAgree
<1>2. /\ phase[w] = "returning" /\ r \in held[w]
      /\ held' = [held EXCEPT ![w] = @ \ {r}]
      /\ task' = task
  BY DEF HandBack, Drop
<1>3. \A s \in Slots : ~Working(<<w, s>>) /\ \A q \in Runs : ~Settled(<<w, s>>, q)
  BY <1>2 DEF RefInv, ColumnsInv, TypeInv, TasksWellFormed, Alive, Working, Settled, Tasks
<1>4. \A q \in Runs, v \in Workers :
          v \in WorkersOn(q)' <=> v \in WorkersOn(q) /\ ~(v = w /\ q = r)
  BY <1>1, <1>2, <1>3 DEF WorkersOn, Working, Settled
<1>5. CASE ~Holds(row[r], w)
  <2>1. row' = row
    BY <1>5 DEF HandBack
  <2>2. \A q \in Runs : Owner(q) \in WorkersOn(q)' => Owner(q) \in WorkersOn(q)
    <3>1. \A q \in Runs : WorkersOn(q)' \in SUBSET Workers
      BY WorkersOnTypes
    <3> QED BY <1>4, <3>1
  <2> QED BY <2>1, <2>2, SameColumns, Drifts
<1>6. CASE Holds(row[r], w)
  <2>1. row' = [row EXCEPT ![r] = Released(row[r], "none", Refunded(row[r]))]
    BY <1>6 DEF HandBack, SetRow
  <2>2. row[r].status = "running" /\ row[r].worker = w
    BY <1>1, <1>6, ColumnsKept DEF Holds
  <2>3. Stage(r) = "owned" /\ Owner(r) = w
    BY <2>2, StageOfRow
  <2>4. row'[r].status = "paused"
    BY <1>1, <2>1, Writes, RefundedNat
  <2>5. Stage(r)' \in {"waiting", "ended"} /\ Owner(r)' = None
    BY <2>4, StageOfNewRow DEF Waiting
  <2>6. \A q \in Runs \ {r} : Stage(q)' = Stage(q) /\ Owner(q)' = Owner(q)
    BY <1>1, <2>1, SameColumns
  <2>7. w \in WorkersOn(r)
    BY <1>2, <1>3 DEF WorkersOn
  <2>8. WorkersOn(r)' = WorkersOn(r) \ {w}
    <3>1. WorkersOn(r) \in SUBSET Workers /\ WorkersOn(r)' \in SUBSET Workers
      BY DEF WorkersOn
    <3> QED BY <1>4, <3>1
  <2>9. \A q \in Runs \ {r} : WorkersOn(q)' = WorkersOn(q)
    BY <1>4, SameAtWork
  <2> QED BY ONLY <2>3, <2>5, <2>6, <2>7, <2>8, <2>9, Concludes
<1> QED BY <1>5, <1>6

\* What a drain cancels was being executed or its outcome was written, and in
\* that case the worker does not own the run any more.
LEMMA DrainMaps ==
  ASSUME RefInv, NEW w \in Workers, CancelPending(w)
  PROVE  Ownership!Next
<1> SUFFICES ASSUME NEW q \in Runs, Owner(q) \in WorkersOn(q)'
             PROVE  Owner(q) \in WorkersOn(q)
  BY SameColumns, Drifts DEF CancelPending
<1>1. TypeInv /\ Owner(q) \in Workers
  BY DEF RefInv, ColumnsInv, WorkersOn
<1>2. CASE Owner(q) # w
  <2>1. \A s \in Slots : task'[<<Owner(q), s>>] = task[<<Owner(q), s>>]
    BY <1>1, <1>2 DEF CancelPending, Tasks
  <2> QED BY <2>1 DEF WorkersOn, Working, Settled, CancelPending
<1>3. CASE Owner(q) = w
  <2>1. q \in held[w]
    BY <1>3 DEF WorkersOn, Working, CancelPending, Tasks, Idle
  <2>2. row[q].status = "running" /\ row[q].worker = w
    BY <1>1, <1>3, Distinct DEF Owner
  <2>3. \A s \in Slots : ~Settled(<<w, s>>, q)
    BY <2>2 DEF RefInv, SettledLetGo, Settled, Tasks
  <2> QED BY <1>3, <2>1, <2>3 DEF WorkersOn
<1> QED BY <1>2, <1>3

\* The steps of a process.
LEMMA LoopMaps ==
  ASSUME RefInv, NEW w \in Workers, LoopStep(w) \/ DrainStep(w)
  PROVE  Ownership!Next
<1>1. TypeInv
  BY DEF RefInv, ColumnsInv
<1>2. ASSUME row' = row \/ (\E picked \in SUBSET Runs : Sweep(w, picked)),
             \A q \in Runs, v \in Workers : v \in WorkersOn(q)' => v \in WorkersOn(q)
      PROVE  Ownership!Next
  <2>1. \A q \in Runs : row'[q].status = row[q].status /\ row'[q].worker = row[q].worker
    <3>1. \A q \in Runs : /\ Stamped(row[q]).status = row[q].status
                          /\ Stamped(row[q]).worker = row[q].worker
      BY <1>1 DEF TypeInv, TypeOK, Row, Stamped
    <3>2. \A q \in Runs : row'[q] = row[q] \/ row'[q] = Stamped(row[q])
      BY <1>2 DEF Sweep
    <3> QED BY <3>1, <3>2
  <2>2. \A q \in Runs : Owner(q) \in WorkersOn(q)' => Owner(q) \in WorkersOn(q)
    <3>1. \A q \in Runs : WorkersOn(q)' \in SUBSET Workers
      BY WorkersOnTypes
    <3> QED BY <1>2, <3>1
  <2> QED BY <2>1, <2>2, SameColumns, Drifts
<1>3. CASE Start(w) \/ BeginDrain(w) \/ Exit(w)
  BY <1>1, <1>2, <1>3 DEF Start, BeginDrain, Exit, WorkersOn, Working, Settled, TypeInv, TypeOK
<1>4. ASSUME NEW picked \in SUBSET Runs, Sweep(w, picked) PROVE Ownership!Next
  BY <1>2, <1>4 DEF Sweep, WorkersOn, Working, Settled
<1>5. CASE Crash(w)
  <2>1. \A q \in Runs, v \in Workers : v \in WorkersOn(q)' => v \in WorkersOn(q)
    <3> SUFFICES ASSUME NEW q \in Runs, NEW v \in Workers, v \in WorkersOn(q)'
                 PROVE  v \in WorkersOn(q)
      OBVIOUS
    <3>1. v # w
      BY <1>1, <1>5 DEF Crash, WorkersOn, Working, Settled, Idle, Tasks, TypeInv, TypeOK
    <3>2. \A s \in Slots : task'[<<v, s>>] = task[<<v, s>>]
      BY <1>5, <3>1 DEF Crash, Tasks
    <3>3. held'[v] = held[v]
      BY <1>1, <1>5, <3>1 DEF Crash, TypeInv, TypeOK
    <3> QED BY <3>2, <3>3 DEF WorkersOn, Working, Settled
  <2> QED BY <1>2, <1>5, <2>1 DEF Crash
<1>6. CASE CancelPending(w)
  BY <1>6, DrainMaps
<1>7. ASSUME NEW r \in Runs, HandBack(w, r) PROVE Ownership!Next
  BY <1>7, HandBackMaps
<1>8. ASSUME NEW r \in Runs, HandBackFails(w, r) PROVE Ownership!Next
  <2>1. \A v \in Workers : held'[v] \subseteq held[v]
    BY <1>1, <1>8 DEF HandBackFails, Drop, TypeInv, TypeOK
  <2> QED BY <1>2, <1>8, <2>1 DEF HandBackFails, WorkersOn, Working, Settled
<1> QED BY <1>3, <1>4, <1>5, <1>6, <1>7, <1>8 DEF LoopStep, DrainStep

\* The queue knows nothing of who owns a run.
LEMMA QueueMaps ==
  ASSUME QueueLost \/ (\E p \in Workers \cup {API} : QueueStep(p)) \/ UNCHANGED vars
  PROVE  Ownership!Next
<1>1. UNCHANGED <<row, task, held>>
  BY DEF QueueLost, QueueStep, Enqueue, EnqueueFails, vars
<1> QED BY <1>1, SameWorkers, SameColumns, Drifts

\* The contract of workers/lifecycle.py, where a process executes one run at a
\* time: through every interleaving of claims, executions, drains, crashes,
\* expiries and lost jobs, a run is concluded only by the work of the worker
\* that owns it, and an ended run stays ended.
THEOREM LeaseImplementsOwnership == ASSUME OneSlot PROVE Spec => ImplementsOwnership
<1>1. Init => Ownership!Init
  <2> SUFFICES ASSUME Init PROVE Ownership!Init
    OBVIOUS
  <2>1. \A r \in Runs : Stage(r) = "absent" /\ Owner(r) = None
    BY StageOfRow DEF Init, NoRow
  <2>2. \A r \in Runs : WorkersOn(r) = {}
    <3>1. \A t \in Tasks : ~Working(t)
      BY DEF Init, Working, Idle
    <3>2. \A w \in Workers : held[w] = {}
      BY DEF Init
    <3> QED BY <3>1, <3>2 DEF WorkersOn, Tasks
  <2> QED BY <2>1, <2>2 DEF Ownership!Init
<1>2. RefInv /\ [Next]_vars => [Ownership!Next]_Ownership!vars
  <2> SUFFICES ASSUME RefInv, [Next]_vars PROVE Ownership!Next
    OBVIOUS
  <2> QED BY OutsideMaps, QueueMaps, TaskMaps, LoopMaps DEF Next
<1> QED BY <1>1, <1>2, RefInit, RefStep, PTL DEF Spec, ImplementsOwnership, Ownership!Spec

-----------------------------------------------------------------------------
(* The sweep remembers what it dispatched *)

\* Nothing but create's own push can have dispatched r yet.
Undispatched(r) ==
    \/ row[r].status = "absent"
    \/ row[r].status = "queued" /\ row[r].dispatch = "owed"

\* The job of such a run is with the API or on the list, once, or nowhere.
OneJob(r) ==
    /\ row[r].status = "absent" => r \notin outbox[API] /\ \A i \in DOMAIN queue : queue[i] # r
    /\ Undispatched(r) =>
          /\ \A w \in Workers : r \notin outbox[w]
          /\ \A i, j \in DOMAIN queue : queue[i] = r /\ queue[j] = r => i = j
          /\ r \in outbox[API] => \A i \in DOMAIN queue : queue[i] # r

JobsInv == ColumnsInv /\ \A r \in Runs : OneJob(r)

\* No write takes a run back to where only create has dispatched it.
LEMMA StaysDispatched ==
  ASSUME TypeInv, [Next]_vars, NEW r \in Runs
  PROVE  /\ Undispatched(r)' => Undispatched(r)
         /\ row'[r].status = "absent" => row[r].status = "absent"
<1>1. row[r] \in Row
  BY DEF TypeInv, TypeOK
<1>2. CASE Outside(r)
  <2>1. CASE row[r].status = "absent"
    BY <2>1 DEF Undispatched
  <2>2. CASE row[r].status # "absent"
    <3>1. \/ row'[r] = Cancelled(row[r]) \/ row'[r] \in Timed(row[r])
          \/ row'[r] = [row[r] EXCEPT !.beat = "stale"]
      BY <1>2, <2>2 DEF Outside
    <3>2. row'[r].status \in {row[r].status, "cancelled"}
      BY <1>1, <3>1 DEF Timed, Cancelled, Row
    <3>3. row'[r].dispatch = "owed" => row'[r].status = "cancelled" \/ row[r].dispatch = "owed"
      BY <1>1, <3>1 DEF Timed, Cancelled, Row
    <3> QED BY <2>2, <3>2, <3>3 DEF Undispatched
  <2> QED BY <2>1, <2>2
<1>3. ASSUME NEW t \in Tasks, ByTask(r, t) PROVE ~Undispatched(r)'
  BY <1>1, <1>3, Writes DEF ByTask, Tasks, Terminal, Row, Undispatched
<1>4. ASSUME NEW w \in Workers, ByLoop(r, w) PROVE ~Undispatched(r)'
  <2>1. CASE Due(row[r]) /\ row'[r] = Stamped(row[r])
    <3>1. row'[r].dispatch = "stamped" /\ row'[r].status = row[r].status
      BY <1>1, <2>1 DEF Stamped, Row
    <3> QED BY <2>1, <3>1 DEF Due, Undispatched
  <2>2. CASE row'[r] = Released(row[r], "none", Refunded(row[r]))
    BY <1>1, <2>2, Writes, RefundedNat DEF Undispatched
  <2> QED BY <1>4, <2>1, <2>2 DEF ByLoop
<1>5. CASE row'[r] = row[r]
  BY <1>5 DEF Undispatched
<1>6. ~Undispatched(r)' => row'[r].status # "absent"
  BY DEF Undispatched
<1> QED BY <1>2, <1>3, <1>4, <1>5, <1>6, RowChanges DEF Changes

\* A step that dispatches nothing of r leaves it with one job at most.
LEMMA NoNewJob ==
  ASSUME TypeInv, [Next]_vars, NEW r \in Runs, OneJob(r),
         \A p \in Workers \cup {API} : r \in outbox'[p] => r \in outbox[p],
         \/ queue' = queue
         \/ queue' = <<>>
         \/ queue # <<>> /\ queue' = Tail(queue)
         \/ \E q \in Runs \ {r} : queue' = Append(queue, q)
  PROVE  OneJob(r)'
<1>1. queue \in Seq(Runs)
  BY DEF TypeInv, TypeOK
<1>2. PICK k \in {0, 1} : \A i \in DOMAIN queue' : queue'[i] = r =>
                             i + k \in DOMAIN queue /\ queue[i + k] = r /\ i \in Nat
  <2>1. CASE queue' = queue \/ queue' = <<>>
    BY <1>1, <2>1
  <2>2. CASE queue # <<>> /\ queue' = Tail(queue)
    BY <1>1, <2>2
  <2>3. ASSUME NEW q \in Runs \ {r}, queue' = Append(queue, q)
        PROVE  \A i \in DOMAIN queue' : queue'[i] = r =>
                  i + 0 \in DOMAIN queue /\ queue[i + 0] = r /\ i \in Nat
    BY <1>1, <2>3
  <2> QED BY <2>1, <2>2, <2>3
<1>3. \A i, j \in DOMAIN queue' : i \in Nat /\ j \in Nat /\ i + k = j + k => i = j
  OBVIOUS
<1>4. /\ Undispatched(r)' => Undispatched(r)
      /\ row'[r].status = "absent" => row[r].status = "absent"
  BY StaysDispatched
<1> QED BY <1>2, <1>3, <1>4 DEF OneJob

\* The steps that dispatch: a creation, a push, a sweep and a hand-back.
LEMMA NewJobs ==
  ASSUME JobsInv, [Next]_vars, NEW r \in Runs,
         \/ Create(r)
         \/ \E p \in Workers \cup {API} : Enqueue(p, r)
         \/ \E w \in Workers, picked \in SUBSET Runs : r \in picked /\ Sweep(w, picked)
         \/ \E w \in Workers : HandBack(w, r) /\ Holds(row[r], w)
  PROVE  OneJob(r)'
<1>1. /\ TypeInv /\ OneJob(r) /\ row \in [Runs -> Row] /\ row[r] \in Row
      /\ ColumnsAgree(row[r]) /\ queue \in Seq(Runs)
      /\ outbox \in [Workers \cup {API} -> SUBSET Runs]
  BY DEF JobsInv, ColumnsInv, LeaseColumnsAgree, TypeInv, TypeOK
<1>2. CASE Create(r)
  <2>1. /\ row'[r].status = "queued" /\ row[r].status = "absent" /\ queue' = queue
        /\ \A w \in Workers : outbox'[w] = outbox[w]
    BY <1>1, <1>2, Distinct DEF Create, SetRow, NoRow
  <2> QED BY <1>1, <2>1 DEF OneJob, Undispatched
<1>3. ASSUME NEW p \in Workers \cup {API}, Enqueue(p, r) PROVE OneJob(r)'
  <2>1. /\ row' = row /\ queue' = Append(queue, r) /\ r \in outbox[p]
        /\ outbox' = [outbox EXCEPT ![p] = @ \ {r}]
    BY <1>3 DEF Enqueue
  <2>2. CASE ~Undispatched(r)
    BY <2>1, <2>2 DEF OneJob, Undispatched
  <2>3. CASE Undispatched(r)
    <3>1. /\ p = API /\ row[r].status # "absent"
          /\ \A i \in DOMAIN queue : queue[i] # r
          /\ \A w \in Workers : r \notin outbox[w]
      BY <1>1, <2>1, <2>3 DEF OneJob
    <3>2. r \notin outbox'[API] /\ \A w \in Workers : r \notin outbox'[w]
      BY <1>1, <2>1, <3>1
    <3>3. \A i \in DOMAIN queue' : queue'[i] = r => i = Len(queue) + 1
      BY <1>1, <2>1, <3>1
    <3> QED BY <2>1, <3>1, <3>2, <3>3 DEF OneJob
  <2> QED BY <2>2, <2>3
<1>4. ASSUME NEW w \in Workers, NEW picked \in SUBSET Runs, r \in picked, Sweep(w, picked)
      PROVE  OneJob(r)'
  <2>1. Due(row[r]) /\ row'[r] = Stamped(row[r])
    BY <1>1, <1>4 DEF Sweep
  <2>2. row'[r].dispatch = "stamped" /\ row'[r].status # "absent"
    BY <1>1, <2>1 DEF Stamped, Row, Due
  <2> QED BY <2>2 DEF OneJob, Undispatched
<1>5. ASSUME NEW w \in Workers, HandBack(w, r), Holds(row[r], w) PROVE OneJob(r)'
  <2>1. row'[r] = Released(row[r], "none", Refunded(row[r]))
    BY <1>1, <1>5 DEF HandBack, SetRow
  <2>2. row'[r].status = "paused"
    BY <1>1, <1>5, <2>1, Writes, RefundedNat
  <2> QED BY <2>2 DEF OneJob, Undispatched
<1> QED BY <1>2, <1>3, <1>4, <1>5

\* OneJob is inductive with the lease columns.
LEMMA JobsStep == JobsInv /\ [Next]_vars => JobsInv'
<1> SUFFICES ASSUME JobsInv, [Next]_vars, NEW r \in Runs PROVE OneJob(r)'
  BY ColumnsStep DEF JobsInv
<1>1. /\ TypeInv /\ OneJob(r)
      /\ outbox \in [Workers \cup {API} -> SUBSET Runs]
  BY DEF JobsInv, ColumnsInv, TypeInv, TypeOK
<1> DEFINE Fewer == \A p \in Workers \cup {API} : r \in outbox'[p] => r \in outbox[p]
<1>2. CASE UNCHANGED <<queue, outbox>>
  BY <1>1, <1>2, NoNewJob
<1>3. ASSUME NEW q \in Runs, ApiStep(q) \/ TimeStep(q) PROVE OneJob(r)'
  <2>1. CASE Create(q) /\ q # r
    <3>1. Fewer /\ queue' = queue
      BY <1>1, <2>1 DEF Create
    <3> QED BY <1>1, <3>1, NoNewJob
  <2>2. CASE Create(q) /\ q = r
    BY <2>2, NewJobs
  <2> QED BY <1>2, <1>3, <2>1, <2>2 DEF ApiStep, TimeStep, RequestCancel, CommitCancel,
             AbandonCancel, GracePasses, BackoffPasses, LeaseExpires, DispatchForgotten
<1>4. ASSUME NEW p \in Workers \cup {API}, QueueStep(p) PROVE OneJob(r)'
  <2>1. ASSUME NEW q \in Runs \ {r}, Enqueue(p, q) PROVE OneJob(r)'
    <3>1. Fewer /\ queue' = Append(queue, q)
      BY <1>1, <2>1 DEF Enqueue
    <3> QED BY <1>1, <3>1, NoNewJob
  <2>2. CASE EnqueueFails(p)
    <3>1. Fewer /\ queue' = queue
      BY <1>1, <2>2 DEF EnqueueFails
    <3> QED BY <1>1, <3>1, NoNewJob
  <2> QED BY <1>4, <2>1, <2>2, NewJobs DEF QueueStep
<1>5. CASE QueueLost
  BY <1>1, <1>5, NoNewJob DEF QueueLost
<1>6. ASSUME NEW t \in Tasks, ClaimStep(t) \/ ExecStep(t) PROVE OneJob(r)'
  <2>1. CASE Reserve(t)
    BY <1>1, <2>1, NoNewJob DEF Reserve
  <2> QED BY <1>2, <1>6, <2>1 DEF ClaimStep, Claim, ClaimFails, Begin, ExecStep, Advance,
             Complete, StopCancelled, Retry, GiveUp, Settle, Return, TaskCancelled, TaskDies
<1>7. ASSUME NEW w \in Workers, LoopStep(w) \/ DrainStep(w) PROVE OneJob(r)'
  <2>1. CASE Crash(w)
    <3>1. Fewer /\ queue' = queue
      BY <1>1, <2>1 DEF Crash
    <3> QED BY <1>1, <3>1, NoNewJob
  <2>2. ASSUME NEW picked \in SUBSET Runs, Sweep(w, picked), r \notin picked PROVE OneJob(r)'
    <3>1. Fewer /\ queue' = queue
      BY <1>1, <2>2 DEF Sweep
    <3> QED BY <1>1, <3>1, NoNewJob
  <2>3. ASSUME NEW q \in Runs, HandBack(w, q), q # r \/ ~Holds(row[r], w) PROVE OneJob(r)'
    <3>1. Fewer /\ queue' = queue
      BY <1>1, <2>3 DEF HandBack
    <3> QED BY <1>1, <3>1, NoNewJob
  <2>4. CASE Start(w) \/ BeginDrain(w) \/ CancelPending(w) \/ Exit(w)
    BY <1>2, <2>4 DEF Start, BeginDrain, CancelPending, Exit
  <2>5. ASSUME NEW q \in Runs, HandBackFails(w, q) PROVE OneJob(r)'
    BY <1>2, <2>5 DEF HandBackFails
  <2> QED BY <1>7, <2>1, <2>2, <2>3, <2>4, <2>5, NewJobs DEF LoopStep, DrainStep
<1>8. CASE UNCHANGED vars
  BY <1>2, <1>8 DEF vars
<1> QED BY <1>3, <1>4, <1>5, <1>6, <1>7, <1>8 DEF Next

\* Nothing is dispatched before anything is created.
LEMMA JobsInit == Init => JobsInv
<1> SUFFICES ASSUME Init PROVE JobsInv
  OBVIOUS
<1>1. ColumnsInv
  BY TypeInit, ColumnsInit DEF ColumnsInv
<1>2. \A r \in Runs : OneJob(r)
  BY DEF Init, OneJob
<1> QED BY <1>1, <1>2 DEF JobsInv

\* A set whose members are all equal has at most one.
LEMMA AtMostOne ==
  ASSUME NEW S, \A x, y \in S : x = y
  PROVE  Cardinality(S) \in {0, 1} /\ (S = {} => Cardinality(S) = 0)
<1>1. CASE S = {}
  BY <1>1, FS_EmptySet
<1>2. CASE S # {}
  <2>1. PICK x \in S : S = {x}
    BY <1>2
  <2> QED BY <2>1, FS_Singleton
<1> QED BY <1>1, <1>2

\* A backlog does not flood the queue: for every number of runs, workers and
\* faults, a queued run that no sweep has dispatched since its last change has
\* at most the job create pushed (db/repositories/worker.py, due).
THEOREM SweepAlwaysRemembers == Spec => []SweepRemembers
<1>1. JobsInv => SweepRemembers
  <2> SUFFICES ASSUME JobsInv, NEW r \in Runs,
                      row[r].status = "queued", row[r].dispatch = "owed"
               PROVE  Jobs(r) <= 1
    BY DEF SweepRemembers
  <2> DEFINE listed == {i \in DOMAIN queue : queue[i] = r}
             pending == {p \in Workers \cup {API} : r \in outbox[p]}
  <2>1. OneJob(r) /\ Undispatched(r)
    BY DEF JobsInv, Undispatched
  <2>2. Cardinality(listed) \in {0, 1} /\ (listed = {} => Cardinality(listed) = 0)
    <3>1. \A i, j \in listed : i = j
      BY <2>1 DEF OneJob
    <3> HIDE DEF listed
    <3> QED BY <3>1, AtMostOne
  <2>3. Cardinality(pending) \in {0, 1} /\ (pending = {} => Cardinality(pending) = 0)
    <3>1. \A p, q \in pending : p = q
      BY <2>1 DEF OneJob
    <3> HIDE DEF pending
    <3> QED BY <3>1, AtMostOne
  <2>4. listed = {} \/ pending = {}
    BY <2>1 DEF OneJob
  <2>5. Jobs(r) = Cardinality(listed) + Cardinality(pending)
    BY DEF Jobs
  <2> HIDE DEF listed, pending
  <2> QED BY <2>2, <2>3, <2>4, <2>5
<1> QED BY <1>1, JobsInit, JobsStep, PTL DEF Spec

-----------------------------------------------------------------------------
(* No run is lost *)

\* What time alone makes of a row: the grace since its creation, its backoff, its
\* lease and the memory of its last dispatch run out.
InTime(x) ==
    [x EXCEPT !.aged = TRUE,
              !.next = IF @ = "future" THEN "past" ELSE @,
              !.beat = IF @ = "fresh" THEN "stale" ELSE @,
              !.dispatch = IF @ = "stamped" THEN "forgotten" ELSE @]

\* A run that was not tried yet has no backoff.
NoBackoff(x) == x.status = "queued" => x.next # "future"

BackoffInv == TypeInv /\ \A r \in Runs : NoBackoff(row[r])

LEMMA BackoffStep == BackoffInv /\ [Next]_vars => BackoffInv'
<1> SUFFICES ASSUME BackoffInv, [Next]_vars, NEW r \in Runs, row'[r].status = "queued"
             PROVE  row'[r].next # "future"
  BY TypeStep DEF BackoffInv, NoBackoff
<1>1. row[r] \in Row /\ NoBackoff(row[r]) /\ TypeInv
  BY DEF BackoffInv, TypeInv, TypeOK
<1>2. CASE Outside(r)
  <2>1. CASE row'[r] = [NoRow EXCEPT !.status = "queued"]
    BY <2>1 DEF NoRow
  <2>2. CASE row'[r] = Cancelled(row[r]) \/ row'[r] = [row[r] EXCEPT !.beat = "stale"]
    BY <1>1, <2>2 DEF Cancelled, Row, NoBackoff
  <2>3. CASE row'[r] \in Timed(row[r])
    BY <1>1, <2>3 DEF Timed, Row, NoBackoff
  <2> QED BY <1>2, <2>1, <2>2, <2>3 DEF Outside
<1>3. ASSUME NEW t \in Tasks PROVE ~ByTask(r, t)
  BY <1>1, Writes DEF ByTask, Tasks, Terminal, Row
<1>4. ASSUME NEW w \in Workers, ByLoop(r, w) PROVE row'[r].next # "future"
  <2>1. CASE row'[r] = Stamped(row[r])
    BY <1>1, <2>1 DEF Stamped, Row, NoBackoff
  <2>2. row'[r] # Released(row[r], "none", Refunded(row[r]))
    BY <1>1, Writes, RefundedNat
  <2> QED BY <1>4, <2>1, <2>2 DEF ByLoop
<1>5. CASE row'[r] = row[r]
  BY <1>1, <1>5 DEF NoBackoff
<1> QED BY <1>1, <1>2, <1>3, <1>4, <1>5, RowChanges DEF Changes

\* Whatever a run that has not ended went through, the sweep selects it once
\* enough time passes, and what the sweep selects a claim takes: no WHERE clause
\* of due and claim leaves a run between them (db/repositories/worker.py).
THEOREM NoRunIsLost ==
    Spec => []\A r \in Runs :
                 /\ row[r].status \in Waiting \cup {"running"} => Due(InTime(row[r]))
                 /\ Due(row[r]) => Claimable(row[r])
<1>1. Init => BackoffInv
  BY TypeInit DEF Init, BackoffInv, NoBackoff, NoRow
<1>2. BackoffInv => \A r \in Runs :
                       /\ row[r].status \in Waiting \cup {"running"} => Due(InTime(row[r]))
                       /\ Due(row[r]) => Claimable(row[r])
  <2> SUFFICES ASSUME BackoffInv, NEW r \in Runs
               PROVE  /\ row[r].status \in Waiting \cup {"running"} => Due(InTime(row[r]))
                      /\ Due(row[r]) => Claimable(row[r])
    OBVIOUS
  <2> DEFINE x == row[r]
  <2>1. x \in Row /\ NoBackoff(x)
    BY DEF BackoffInv, TypeInv, TypeOK
  <2> HIDE DEF x
  <2>2. /\ InTime(x).status = x.status /\ InTime(x).aged
        /\ InTime(x).next \in {"none", "past"} /\ InTime(x).beat # "fresh"
        /\ InTime(x).dispatch # "stamped"
    BY <2>1 DEF InTime, Row
  <2>3. x.status \in Waiting \cup {"running"} => Due(InTime(x))
    BY <2>2 DEF Due, RetryDue, Waiting
  <2>4. Due(x) => Claimable(x)
    BY <2>1 DEF Due, Claimable, RetryDue, Waiting, NoBackoff, Row
  <2> QED BY <2>3, <2>4 DEF x
<1> QED BY <1>1, <1>2, BackoffStep, PTL DEF Spec
=============================================================================
