# Aether Research: TLA+ models

Aether Research answers a question by running an agent graph for minutes in a
worker process. A FastAPI application accepts the question, a Redis list hands
the run to a worker, Postgres arbitrates who owns it, and the worker streams
what it does back to the browser through a durable event log. Paths below are
relative to `src/apps/api/app/` unless they start with `src/`.

## 1. The system

| Part | State it keeps | Operations | Talks to | Model |
|---|---|---|---|---|
| Research service (`research/service.py`) | `research_runs` rows | create, follow_up, cancel, queries | repository, queue, broker | `RunLease`, `RunStory`, `Admission` |
| Run lifecycle (`db/repositories/worker.py`) | lease columns of the row | claim, advance, finish, release, due | Postgres | `RunLease` |
| Job queue (`workers/queue.py`) | one Redis list | enqueue, reserve | Redis | `RunLease` |
| Worker loop (`workers/loop.py`) | slots, tasks, `_held` | serve, reconcile, `_handle`, drain, `_hand_back` | queue, lifecycle, executor | `RunLease` |
| Run executor (`workers/worker.py`) | one lease | execute, `_brief`, `_completed`, `_failed`, advanced | graph runner, lifecycle, emitter, ingestion | `RunLease`, `RunStory`, `Ingestion` |
| Run progress (`workers/progress.py`) | the row's `progress` | `progress_for` | lifecycle | `RunProgress` |
| Run events (`research/eventbus.py`, `workers/events.py`, `api/v1/research.py`) | `research_events`, a sequence per run, subscriptions, the emitter's cursor | publish, subscribe, replay, relay, prime, stepped | Postgres, Redis pub/sub, browser | `EventDelivery`, `RunStory` |
| Research graph (`agents/graph.py`, `runtime.py`, `budget.py`, `state.py`) | the LangGraph state and its checkpoints | one node per step, routing, stop conditions | agents, probe, recorder | `ResearchGraph` |
| Recorder and projections (`research/recorder.py`, `evidence/`, `reports/`, `answers/`) | evidence, report and answer rows | project a state into rows | Postgres | `RunStory` |
| Model gateway (`models/gateway.py`, `budget.py`, `limiter.py`) | what each enrolled run spent, slots | complete, stream, embed; authorise, charge | providers, cache | `ModelGateway` |
| Cache (`cache/`) | entries, the call in flight per key | through, single flight | Redis | `SingleFlight` |
| Researchers (`agents/researchers/`, `tools/`) | nothing between rounds | plan queries, search, extract | gateway, cache | `ResearchRound` |
| Documents (`retrieval/`) | uploads, documents, chunks, vectors | upload, attach, ingest, search | storage, parser process, gateway, Postgres | `Ingestion` |
| Authentication (`auth/`) | sessions, refresh tokens, SSO transactions, the revocation index | start, refresh, verify, revoke, federate | Postgres, Redis, identity providers | `SessionTokens`, `Accounts` |
| Rate limits (`security/ratelimit.py`) | a token bucket per identity and route class | check, consume | Redis | `RateLimit` |

What is hard in it, and what would have to be true:

- **Ownership of a run.** The queue delivers at least once and loses jobs, the
  sweep re-dispatches what it cannot tell is moving, leases expire under
  workers that are alive, processes are killed anywhere. No lock is held:
  every transition is one conditional UPDATE. What must hold: one owner
  decides what becomes of a run, a cancellation sticks, attempts are counted
  and bounded, nothing is lost for ever, a backlog is not dispatched again and
  again.
- **Events.** Rows, log entries and notifications are separate writes of
  separate processes. What must hold: a subscriber sees every event once and in
  order, and the stream ends when the run does.
- **The graph.** Nodes retry, fan out, loop under a budget, stop on
  cancellation, and resume from a checkpoint in another process. What must
  hold: it always ends inside LangGraph's recursion limit, and a resumed run
  does not spend or answer twice.
- **The story.** A resumed run must not tell its reader again what it already
  told, nor skip what it did; an end is a row and an event, written apart, by a
  worker or by the user. What must hold: facts are told once as far as the
  teller could know, an end that is recorded is told, a completed run opens.
- **Money, caches and limits.** Concurrent calls are granted from one allowance
  and queue for one set of slots, share one computation whose leader may be
  cancelled, and count against one bucket that expires. What must hold: a
  ceiling is passed by a bounded amount, nothing is counted twice or held for
  ever, nobody waits for nobody.
- **Documents and sessions.** A run's files may be ingested by two executions
  at once, step by step; refresh tokens rotate under concurrent requests,
  detections and sign-outs that lock the same rows in opposite orders. What must
  hold: a file is one source, and whole; a family has one usable token, and
  whoever ends a session ends its access.

## 2. Plan

| Order | Modules | Abstract specification | Theorems | State |
|---|---|---|---|---|
| 1 | `RunLease`, `MCRunLease`, `RunLeaseProofs` | `RunOwnership` | types, lease columns, cancellation, attempts, jobs, no lost run, the refinement | done |
| 2 | `EventDelivery`, `EventDeliveryProofs`: log, transport, events endpoint, browser | `EventFeed` | types, positions, whole replays, refinement | done |
| 3 | `ResearchGraph`, `ResearchGraphProofs`: nodes, routing, budget, checkpoint and resume | | types, recursion limit, shares, checked report, caveat, cancellation, termination | done |
| 4 | `RunStory`, `RunStoryProofs`: what the emitter says across resumes, what is recorded, the two halves of an ending | | types, no repetition, own work told, endings, their tellers | done |
| 5 | `ModelGateway` and `SingleFlight`, composed by `ResearchRound`; `MCResearchRound`, `ResearchRoundProofs` | | types, slots, the ceiling's bound, costs counted once, waiters have a leader, nobody is stuck | done |
| 6 | `RateLimit`, composed by `Admission`; `AdmissionProofs` | | rate, active runs | done |
| 7 | `SessionTokens`, `SessionTokensProofs` | | the lineage never forks, ends reach the index | done |
| 8 | `Ingestion`, which extends `RunStory`; its theorems are in `RunStoryProofs` | `RunStory` | ingested once, the refinement | done |
| 9 | `RunProgress`, which extends `ResearchGraph` | `ResearchGraph` | where the bar goes back, the refinement | done |
| 10 | `RunStory` under the leases of `RunLease` | | | later |
| 11 | `Accounts`, `MCAccounts`, `AccountsProofs`: sign-in, federation, identities | | types, earned links, sessions, stranded accounts, no circle of waits | done |
| 12 | the uploads endpoint and its deletions | | | later |

The type invariant of every run is proved. `ResearchGraph`, `ResearchRound` and
`Accounts` also have theirs checked by their runs, where a mistake in the counters
shows first. Every safety property that a run expects to hold is a theorem too,
but for the waits of `Accounts`: the run speaks of `ENABLED`, the theorem of the
rows that are waited for.

How the modules depend on each other: `RunLease` treats an execution as
something that succeeds or fails; `RunStory` and `Ingestion` look at what it
leaves for a reader and reduce the lease to an owner; `ResearchGraph` and
`RunProgress` look at the graph inside it; `ResearchRound` looks at one
superstep of that graph with its concurrent calls. `EventDelivery` starts from
the log that `RunStory` ends with. `Admission` is what precedes a run, and
`SessionTokens` and `Accounts` what precedes a request.

## 3. RunLease: the life of a run

`RunLease.tla` models the API's create and cancel, the queue, and any number of
worker processes with their slots.

| In the model | In the code |
|---|---|
| `row[r]` | one row of `research_runs`: `status`, `worker_id` (`worker`), `heartbeat_at` (`beat`), `attempts`, `next_attempt_at` (`next`), `last_queued_at` against `updated_at` (`dispatch`), `created_at` (`aged`) |
| `queue`, `outbox` | the Redis list; the pushes a process owes after a commit |
| `phase[w]`, `task[<<w, s>>]`, `held[w]` | `ResearchWorker`: the loop's state, its tasks, `_held` |
| `cancelling` | cancel requests between `get` and the commit of `update` |
| `Claimable`/`Claimed`, `Holds` with `Advanced`, `Finished`, `Released`, `Due`/`Stamped` | WHERE and SET of `claim`, `advance`, `finish`, `release`, `due` |

Each repository method is one statement in one transaction and hence one step;
whatever happens between two statements is a step of its own. Time is abstract:
a row's heartbeat is fresh or stale, its retry due or not, and separate actions
move those flags (`GracePasses`, `BackoffPasses`, `LeaseExpires`,
`DispatchForgotten`). The five in-flight statuses are one, because
no statement tells them apart. Faults (a failed push, a lost list, a failed
claim, a lost outcome, a failed hand-back, a stall longer than the lease, a
kill) are each counted against `MaxFaults`.

A task can end in two ways that record nothing. If recording its outcome raises,
`_handle` forgets the lease (`TaskDies`). If it is cancelled while the loop goes
on, because a call it waited for was led by a task that was cancelled (section
8), its slot is free and the lease stays in `_held` (`TaskCancelled`,
`loop.py:166`): a later drain hands the run back, or the lease expires and
somebody, perhaps the same worker, claims the run again.

`RunOwnership.tla` is the contract of `workers/lifecycle.py`: a run waits, is
owned, ends; several workers may be working on it, but only the owner's work
concludes it. Who works on a run is who executes it, or remembers its lease and
has not concluded it. `RunLease` implements it under the mapping at the end of the
module.

### Runs

| Run | Checks | Shows |
|---|---|---|
| `lease_safety` | `LeaseMatchesRow`, `AttemptsAccounted`, `SweepRemembers`, `ImplementsOwnership`, `CancelSticks` | one run, two workers, two attempts, two faults: enough for a lease to expire under a worker that wakes up, be taken over, and expire again |
| `lease_liveness` | `EveryRunEnds` | with one fault anywhere, the run still ends |
| `poison_run` | `AttemptsNeverExceedMax` (violated) | the documented bound on a run that kills its workers does not exist: `claim` never compares attempts |

Bounds: `MaxAttempts = 2` distinguishes a retry from giving up; `QueueCap`
keeps the grace period from outlasting more than that many jobs, so the list
stays finite. One run is enough for every property but interference between
runs in one queue, which `SKIP LOCKED`, the per-row statements and FIFO order
exclude by construction. The number of identities is the number of times a
process can be replaced; `Spare` keeps the last one alive, as a deployment does.
The runs may stop when all runs ended, so deadlock is not checked.

Said of the code, and not so. Two statements stand in the module and hold in no
run; naming one of them in a configuration gives TLC's counterexample.
`TerminalIsFinal` is `core/enums.py:36`, "A terminal run will not change again":
`cancel` writes by primary key what it decided from an earlier read, and may
overwrite `completed`; `two_endings` (section 6) shows what the reader sees of
it. `HeldOncePerProcess` is `workers/loop.py:58`, "a job can only be held once":
with `Slots = {1, 2}` a process takes over its own stalled run in its second
slot, because the fencing names the process and not the execution.

Fairness (`Fairness`): timers elapse; a running loop keeps sweeping, reserving,
claiming and pushing (strong fairness for the two that compete, since `serve`
alternates them); an execution ends, because the graph is bounded by its
recursion limit and node timeouts; a draining process exits. Nothing makes a
user cancel, a process stop or a fault happen.

### Proofs

`RunLeaseProofs.tla` proves, for every set of runs, workers, slots and every
bound:

- `TypeCorrect`, `ColumnsAlwaysAgree`, `CancellationSticks`,
  `SweepAlwaysRemembers` and `NoRunIsLost` without further assumptions;
- `LeaseAlwaysMatchesRow`, `AttemptsAlwaysAccounted` and
  `LeaseImplementsOwnership`, the refinement of `RunOwnership`, under `OneSlot`
  (`worker_concurrency = 1`, the default): `HeldOncePerProcess` shows why it is
  needed.

The argument: `TypeInv` adds to the types that a busy slot has a run and a live
process. `RowChanges` classifies every step of `Next` by what it does to one
row (the API or time, a task, a loop), with the WHERE clause it did it under;
every later invariant is then proved over rows instead of over actions. The
inductive invariant `SafeInv` joins the lease columns (a row somebody holds is
in flight, so `Holds` implies `running`), the untouched row of a run that does
not exist, the agreement of leases with rows, and the accounting of attempts:
`_failed` compares the attempt its lease carries, so the bound on the row's
attempts follows only because the two agree whenever the write succeeds.

The refinement rests on `RefInv`, because the mapping reads who is at work from
two places: the slots, and the leases `_held` remembers, which outlive a task
that is cancelled under its worker. An execution that has written its outcome
does not own the run any more (`SettledLetGo`), although its lease is remembered
until `_handle` returns; any other remembered lease is work the worker may still
hand back. With that, a claim is a `Take`, also by a worker that still remembers
an older lease of the run, the last
statement of the owner's execution and its hand-back a `Conclude`, `create` a
`Submit`, `cancel` a `Withdraw` or nothing, and every other step a `Drift`, which
one lemma (`Drifts`) shows from the two columns and from who is at work.
`SweepAlwaysRemembers` rests on `OneJob`: before the first sweep of a run its
job is with the API or on the list, and nothing takes a dispatched run back
there (`StaysDispatched`).

`NoRunIsLost` compares the two WHERE clauses that share a run's life: a row that
has not ended is `Due` as soon as time alone has passed over it (`InTime`: the
grace, the backoff, the lease and the memory of the last dispatch), and what
`due` selects `claim` takes. Only the second half needs an invariant, that a run
that was never tried has no backoff (`BackoffInv`): `due` does not ask a queued
row for one, and `claim` does.

Only model-checked, as liveness is out of the prover's reach: `EveryRunEnds`. To
`NoRunIsLost` it adds that somebody sweeps, claims and concludes.

## 4. EventDelivery: from the log to the page

`EventDelivery.tla` models one run's stream: the processes that publish, the
log, Redis, and one browser that connects, loses its connection and comes back.

| In the model | In the code |
|---|---|
| `log` | `research_events`; the advisory lock makes numbering and inserting one step, so an event's number is its index. Only whether it is terminal is kept |
| `pending[p]` | a publisher between `log.append` and `transport.relay` |
| `buffer` | the capped list beside the channel |
| `conn`, `page`, `sub`, `channel`, `cursor` | one execution of `_event_stream`: where it is, what is left of the replay, the generator of `broker.subscribe`, its unread messages, `delivered` |
| `lastId`, `applied`, `reopenings` | the `EventSource`'s Last-Event-ID and the hook's `seenSeq` and `reopenings` |
| `ended` | the row's status, which the endpoint and the page's polling read |

Nothing constrains what is published when: late workers do publish after a
terminal event, and the row may end before or after its event. Faults (a relay
that fails or whose process dies, a buffer that expires, a database that does
not answer a replay, a dropped connection, a refused reconnect) are counted
against `MaxFaults`. A page that closed its stream stays closed.

Two facts of Python shape the model and are easy to overlook. `subscribe` is an
async generator: calling it runs nothing, and the `SUBSCRIBE` is sent by the
first `anext` (`Listen`), as `tests/test_event_transport.py:75` notes. And a
timeout around `anext` cancels the generator, which is then finished
(`Heartbeat`, `sub = "spent"`).

`EventFeed.tla` is what a watcher is promised: events are numbered by storing
them, only stored events are told, each at most once. Completeness is not part
of it, because the code does not provide it; what follows the runs below lists
the ways it is lost.

### Runs

| Run | Checks | Shows |
|---|---|---|
| `event_delivery` | `ReplayLeavesNoHole`, `ImplementsFeed`, `CatchesUp` | two publishers that overtake each other, three events, a window and a buffer smaller than the log, two faults: pages are whole, only stored events are told and each once, and the browser gets past every stored event |
| `replay_gap` | `NothingLostInTheGap` (violated) | an event published between the replay and the first `anext` is lost |

Bounds: three events outgrow a window and a buffer of two and leave one to be
overtaken; two publishers are enough to reorder a pair; two faults allow a
failed relay or replay and a refused reconnect in one behaviour. The system may
stop when the page is closed and the log full, so deadlock is not checked.

Besides the gap of `replay_gap`, the module states three expectations that no
run checks, because they do not hold; a configuration that names one gives the
counterexample. `UndeliveredIsReplayable`: an event relayed after its successor
is neither delivered nor replayed. `HearsWhileFollowing`: the first heartbeat
ends the subscription. `AppendedInOrder`: a hole filled by a reopened stream is
appended after what followed it.

Fairness: the endpoint's task runs on (`ReadHistory`, `Replay`, `CheckStatus`),
its deadline passes (`Deadline`) and an `EventSource` retries (`Connect`).
Publishing, receiving, heartbeats and faults are not fair: catching up does not
depend on the live channel at all.

### Proofs

`EventDeliveryProofs.tla` proves, for any publishers, window, buffer, log and
number of faults: `TypeCorrect`, `CursorAlwaysLastId`, `ReplayNeverLeavesHole`,
`AlwaysMovesForward`, and `DeliveryImplementsFeed`, the refinement of
`EventFeed`. The inductive invariant `Inv` types everything relative to the log
(`Stored`: a number on its way was stored before) and adds `PageIsAhead`: only
a replaying connection has a page, and the page lies beyond the cursor. From it
a frame's number is above the cursor, the cursor is the browser's position, so
the position only grows; and removing the least number of a page without holes
leaves one without holes. The only assumption is `BoundsAssumption`.

`AlwaysMovesForward` and `CursorAlwaysLastId` are proved alone: a frame below the
cursor would break `ImplementsFeed` as well, so no run repeats them.
Only model-checked: `CatchesUp`.

## 5. ResearchGraph and RunProgress: one run of the agents

`ResearchGraph.tla` models the graph of `agents/graph.py` with its governor
(`agents/budget.py`), its reducers (`agents/state.py`) and the invocations of
the runner (`agents/runtime.py`). `RunLease` treats all of this as one
execution that succeeds or fails; here is what happens inside.

| In the model | In the code |
|---|---|
| `node`, `steps` | the checkpoint's next node; LangGraph's supersteps in this invocation |
| `iteration`, `plan`, `critique`, `answer`, `report`, `check`, `repairs`, `stop` | the channels of `ResearchState` of the same meaning, each cut to what an edge or a later node reads |
| `left`, `share` | the researchers of the round still out, and the allowances of their `SubtaskAssignment`s |
| `sources`, `queries`, `meter` | the totals the ceilings are compared with; `meter` is cost and runtime: below, below but with a call that could not be costed, or over |
| `deep`, `cancelled` | the run's row: its mode, and the status the probe reads |
| `phase`, `faults` | whether an invocation runs, and how many ended with an exception or a crash |

A step is one node: flag, call, update, edge, checkpoint. The four processing
nodes are one action, since `_process` is one function. Researchers share a
superstep, so each is a step but only the last advances `steps`; LangGraph keeps
what a finished researcher of a failed superstep returned, and so does `left`.
Exceptions that leave the graph (first plan, synthesis, validation, a broken
contract) and deaths of the process look alike afterwards and are one action,
`Fails`. A planner may return any plan and a critic any verdict; a researcher
any number of sources up to its allowance, and of searches up to `Overrun` past
it, because the code counts those in full. A process that dies, or a
listener that finds the row no longer its own, ends an invocation; the second
happens to every cancelled run that is not caught inside a node first.

`RunProgress.tla` extends it with the listener: `owed` is the node whose
superstep has not been reported, `bar` the row's progress in hundredths, as
`progress_for` rounds it. The graph does not go on before its listener returned
(`GraphGoesOn`), and what was owed when an invocation ended is never reported.
A cancel request reads the whole run, and its UPDATE sets every column that has
moved since to what it had read (`Cancels`): `before` is the progress before the
worker's last report, which the row may show again. Bound: one report at most
comes between a request's first read and its write; the request has no other
work to do there, and a report takes a superstep. The counts, the usage and the
caveat are written back in the same way; no property is about them.

### Run

| Run | Checks | Shows |
|---|---|---|
| `research_graph` | `TypeOK`, `WithinRecursionLimit`, `SourcesWithinBudget`, `ReturnsCheckedReport`, `StopIsTold`, `LimitEndsDiscovery`, `CancellationEndsWork`, `BarGoesBackOnlyThere`, `RunEnds` | `RunProgress`: both shapes; rounds of up to two researchers, two sources and two searches: every ceiling can be met before, during and after a round |

Bounds: two rounds are the least with a re-plan; two sources and two searches
divide evenly between two researchers in a first round, and leave one between two
in a second that follows a round which used one; one fault falls at every node.
Deadlock is checked, with `Done` for the end. Fairness is weak fairness of the
graph's and the listener's own steps: every call is under a timeout, and
`RunLease` shows that a run that is down is taken up again. Cancellation and
faults are not fair.

What the code says of itself was found right, with one remark: the comment on
`_TAIL_STEPS` counts the planner that stops, synthesis and validation, and not
the answerer that was added between them. The limit holds all the same: a run
whose planner stops has not used its last round, and otherwise no planner
precedes the answerer. `RecursionLimitSuffices` proves that the margin of three
is untouched.

Said of the code, and not so: `BarNeverGoesBack`, `workers/progress.py:14`, "What
the numbers never do is go backwards". A planner that stops, or gives up, before
it starts another round is reported in the round that is over, at that round's
offset of zero, after the critic's ninety-five hundredths of it; and a report
that is written again after a failed check reports 0.85 after 0.92. The test the
comment mentions (`tests/test_worker.py:655`) walks four rounds that do neither.
And a cancel request that read the run before a report, and writes after it, takes
that report back (`TakenBack`). `BarGoesBackOnlyThere` is what does hold: these
three set the bar back, and no restart, failure or lost report does.

### Proofs

`ResearchGraphProofs.tla` proves, for both modes and every budget, width and
number of restarts, from `GraphAssumption` alone: `TypeCorrect`,
`RecursionLimitSuffices`, `SharesNeverOverdrawn`, `ReportIsChecked`,
`CaveatIsTheStops` and `StopIsNeverSilent` (together `ReaderKnowsTheStop`),
`StopEndsDiscovery` and `CancellationStopsWork`. `IInv` has five
parts: types; researchers are out exactly at the researcher node;
`SourcesWithinBudget`, which is inductive because equal shares of what is left
fit what is left; `Endings`, which follows the draft from the synthesizer over
the validator to the end; and `Position`, a bound on the supersteps for each
node in terms of the round and the repairs. `Position` needs `Endings`: only
because a draft's revision equals the repairs granted when it reaches the
validator does a granted repair mean the first one.

`ReportedGraphIsTheGraph` shows that the graph under its listener implements the
graph alone, so all of these hold of it. `BarGoesBackNowhereElse` then follows
from `BarBound`, which bounds the bar, and what it was before the last report, by
the node that is next: it needs the order of the nodes' offsets, and that rounding a larger position does not give a
smaller number (`DivisionKeepsOrder`).

Two theorems are what is safety in `RunEnds`. `RunsOnlyGoForward`: every step
goes forward (`Later`) in a measure that has a bound (`OnlySoFar`), namely, in
this order, the faults, the cancellation, whether the run is down, running or
over, the round, the node's place in it (a repair sets the writing nodes after
where they were) and the researchers still out; so no run takes infinitely many
steps, however plans, verdicts, repairs and restarts fall. `NoRunGetsStuck`: a
run that is not over has a step whose conditions hold (`CanGoOn`), because `IInv`
keeps it below the recursion limit and gives the validator a report.

Only model-checked: `RunEnds`, which adds that such a step is `ENABLED` and that
the runner takes it. The model is not yet joined to `RunLease`, where a cancelled
run is not claimed again and attempts are limited.

## 6. RunStory: what a run leaves for its reader

`RunStory.tla` models the executions of one run, one per claim, as they write
three things a reader sees: the row's status, the events of the log and the rows
the recorder projects. The user's cancel request writes two of them too. The
lease is reduced to an owner, which `RunLease` justifies: a claim takes a run
that waits or whose owner died or stalled, and every later write tests the owner.

| In the model | In the code |
|---|---|
| `row`, `attempt[e]` | status, `worker_id` and attempts of the row; the attempt a lease carries |
| `cancel` | `ResearchService.cancel`: read, UPDATE, event, commit. From the UPDATE on, other writers of the row wait (`Locked`) |
| `checkpoint`, `state[e]`, `start[e]` | supersteps in the last checkpoint, in an execution's graph, and at its resume |
| `reached`, `valued` | the facts that have rows of claims, evidence and answer, and the state whose values they were last given: an upsert by derived ids (`Upsert`) takes no row away, and gives values back as well as on |
| `report` | the revision of the stored report, which each recording of a checked report replaces with its sections and citations (`Replace`), and one without leaves alone |
| `log`, `lost` | `research_events`, and the facts whose publication failed |
| `read[e]`, `seen[e]`, `due[e]` | the page `prime` read, the cursor `_Announced`, and what `stepped` has still to say |
| `held[e]` | the checkpoint that `_record_last_checkpoint` read back |

A fact stands for what one superstep adds (a source, a claim, the answer). Facts
of research are told at any later boundary of research; the answer only at the
answerer's. After the answer come the supersteps of the report, one for each
`Revision` that is written and checked; what the emitter says of those goes by a
count and is left out. Faults are counted: a failed publication, replay, recording or node,
a stall, a death.

### Runs

| Run | Checks | Shows |
|---|---|---|
| `run_story` | `NeverRepeatsWhatItRead`, `TellsItsOwnWork`, `CommittedCancelIsTold`, `CompletedCanBeOpened`, `IngestedOnce`, `EndIsTold` | two executions and a cancel, with two faults, each execution ingesting two files first (section 7) |
| `two_endings` | `OneEnding` (violated) | without any fault, a run that completes while it is being cancelled is told both ends, although a terminal event is documented as the last |

Bounds: two executions are a run and its takeover or retry; two rounds and the
answer give a fact before, at and after a resume; a window of two and a buffer
of one are smaller than the log, so a cursor can miss what was told. Two faults
allow a stall together with a failed publication; two revisions are a report and
its repair, all the code allows. When the run has ended nothing need happen, so
deadlock is not checked. Fairness: while a worker that lives or a request that has
begun can go on, one of them does (`Fairness`). Each has finitely many steps and
none takes another's away for good, so in the end all have gone on; the event loop
and PostgreSQL promise each of them more. `EndIsTold` is asked of behaviours
without a fault, since a failed publication is dropped.

Observations made on the way:

- `emitter.cancelled` is never reached: the graph returns a cancelled state only
  after the row says so, and then the listener raises `LeaseLost` first.
- A worker that dies after a superstep's checkpoint and before `stepped` returns
  leaves facts that no later execution announces when their kind has passed: the
  answer, told at the answerer's boundary only. Hence `TellsItsOwnWork` speaks of
  what an execution did since its `start`.
- `LeaseLost` is an `Exception` and passes the runner's `except Exception`: a
  worker that lost its run still records the checkpoint it reread, possibly after
  the new owner recorded more and completed the run. Its older report then
  replaces the newer one, with sections and citations, and its values those of
  the rows; nothing sets that right. What remains is that a completed run has a
  report and all its rows, and that nobody but such a worker puts an older one
  there (`Late`, `CompletedCanBeOpened`).
- Whether `finish` changed the row is not asked: an execution whose run was taken
  over may announce its end.

### Proofs

`RunStoryProofs.tla`, which extends `Ingestion` and with it `RunStory`, proves
`TypeCorrect`, `NothingReadIsRepeated`,
`CompletedIsReadable`, `CancellationIsTold` and `OwnWorkIsTold` for any
executions, rounds, window, buffer, attempts and faults, from
`BoundsAssumption`. Each has its own invariant: `CursorInv` (the cursor holds what
the execution read or told), `OpenInv` (who is about to complete has recorded
everything: no report goes and no fact loses its row, `Whole`; and after the last
state, only a salvage puts other values there, `Final`, by an execution whose
attempt is over by then, `AttemptsInv`), `CancelInv` (the event precedes the commit) and `WorkInv` (what an
execution has done since it resumed was published, was lost, or is due).

`EndHasItsTeller` is the safety half of `EndIsTold`: while nothing has failed, an
end that no event tells has an execution that is about to tell it, with the
report in place if it is the completion. Its invariant, `OwedInv`, passes from
the write of the row to the phases after it; what `CheckEnd` finds on its page
was told, and for the user's cancellation `CancelInv` has the event before the
row.

Only model-checked: `EndIsTold` itself.

## 7. Ingestion: the files of a run

`Ingestion.tla` extends `RunStory` by what an execution does between `prime` and
its graph: a task per attached file looks whether the file is there already,
copies the raw bytes, parses, stores source, document and chunks under an
advisory lock, and fills in vectors batch by batch.

| In the model | In the code |
|---|---|
| `task[e][u]` | where `DocumentIngestor.ingest` is for one file of one execution |
| `lock[u]`, `saw[e][u]` | the advisory lock of the source, and what `find_source` returned under it |
| `copied`, `sources[u]`, `vectors[u]` | the raw copy, the sources with document and chunks, the chunks with a vector |
| `batch[e][u]`, `passes[e][u]` | the chunks sent for embedding, and the bound of `embed_pending`'s loop |
| `Refuses`, `Fails`, `Abandons` | an `IngestionError`, any other exception, and what the `TaskGroup` or a death does to the other tasks |

Nothing renews the lease here (`FileFails` and a stall are what a takeover
needs), so both executions may be anywhere in the same file.

The run is `run_story`; its bounds for this part are two files, one of them
readable, one chunk, and a batch and a page of two: enough for two executions to
be in one file, for a file to be skipped and for a task to be abandoned by
another's failure. Fairness adds the tasks to what a worker goes on with. It is
one run, and not a second one, because `IngestedOnce` is about executions that
take over from each other.

Observations:

- `EmbeddingResponseInvalid` is an `IngestionError`: a file that is stored and can
  be found by keyword then does not count as ingested.
- `_enrolled` comes after `_brief`, so what ingestion's embeddings cost is charged
  to no ceiling.
- The settings allow a batch of more than 200 chunks, and one read returns at
  most 200 (`db/repositories/documents.py:62`, `:197`). Then the bound of
  `embed_pending`'s loop ends it with chunks pending, so `IngestedOnce` asks for
  complete vectors only where `Batch <= Page`.
- The comment at `db/repositories/documents.py:146` that source count and sources
  cannot disagree is about this one statement: `advance` overwrites the count. The
  count is not modelled.

The last sections of `RunStoryProofs.tla` prove, for any executions, files,
chunks and batches:
`ExecutionsTellTheStory` (an execution that ingests first implements `RunStory`,
so section 6's theorems hold of it), `TypesCorrect` and `IngestionIsOnce`. The
invariant `IngestInv` has the types of the corpus; `Stored`, which says what a
task's place implies about what is stored; and `Covered`: every pass so far was
full, or nothing is left, from which `PassesSuffice` follows by counting.

## 8. ModelGateway, SingleFlight, ResearchRound: money, slots and shared work

`ModelGateway.tla` models model calls of one process: the guard, the queue for a
slot, retries, failover along the chain, charging and cancellation.
`SingleFlight.tla` models one key of the response cache and the call in flight
for it. `ResearchRound.tla` composes them: researchers of several runs, side by
side in one process, call a model, search, call again; a round is a superstep
with its checkpoint and its row; a synthesizer writes at the end.

| In the model | In the code |
|---|---|
| `call`, `model`, `try` | `ModelGateway`'s loop over chain and attempts (`models/gateway.py`) |
| `free`, `queue` | `ConcurrencyLimiter` (`models/limiter.py`), an `asyncio.Semaphore`: first come, first served |
| `spent`, `paid` | the guard's `_runs` (`models/budget.py`), and what the providers were really paid |
| `sought`, `leader`, `stored` | a caller of `ResponseCache.through`, the call registered in `SingleFlight`, the entry |
| `stage`, `round`, `checkpoint`, `row` | what a run does, its LangGraph position, and the cost in its checkpoint and on its row |
| `outcome`, `used` | what each researcher of the round returned, and the usage it reports |

A step is what happens between two awaits. Faults: an error of a provider or a
search, a node's timeout, a death of the process. That LangGraph keeps the
results of a superstep's finished nodes when another fails is taken from how
`agents/graph.py` uses it.

### Runs

| Run | Checks | Shows |
|---|---|---|
| `research_round` | `TypeOK`, `OverspendBounded`, `NothingCountedTwice`, `SlotsAccounted`, `WaitersHaveLeader`, `EveryRunIsWritten` | two runs in one process, one with two researchers for one round, one with one researcher for two: the ceiling is passed by a bounded amount, costs are counted once, slots and waiters are never stranded, both reports are written |

Bounds: one slot makes calls queue; a limit of two with calls of one is met
during a round; two models, one without a price, and two tries reach retry,
failover and pass-over; one fault falls anywhere. The system ends with both runs
written, so deadlock is not checked. Fairness: the event loop runs what can run
and providers answer; that a timeout fires in time is not assumed, nor needed.

Observations:

- A `CancelledError` that reaches a waiter is not an `Exception`: it ends the run's
  task without `_failed`, and the run stays in `_held` until its lease expires or
  the process drains. `Torn` models it, and `EveryRunIsWritten` needs the claim
  that follows.
- The comment at `cache/single_flight.py:21` takes a leader's cancellation for the
  process's shutdown. A researcher's node is under a timeout too
  (`agents/graph.py:802`), and cancels a leader whenever it times out, and with it
  that call's waiters in other runs.
- `authorise` precedes the queue for a slot and is not asked again, hence the
  bound of one call per researcher.
- Failed and cancelled calls cost nothing that is known, a stream closed early
  records no usage, and a researcher that fails or times out loses its own from
  the state, though not from the guard.
- A crash within a superstep forgets what it spent: the resumed run's guard
  starts from the row. `NothingCountedTwice` is the direction that holds.
- Two executions of one run in one process (section 3, `HeldOncePerProcess`) would
  share one entry of `_runs`; this model has one.

### Proofs

`ResearchRoundProofs.tla` proves, for any runs, researchers, chain, slots and
limits, with no hypothesis but the assumptions of `ModelGateway`, `SingleFlight`
and `ResearchRound` on their constants:

- `WaitersFollowALeader`, from `FlightInv` (the call in flight is made by the one
  it is registered for) and `CallInv` (nobody is in a call who is not at work).
- `SlotsHold`. `SlotInv` adds to `SlotsAccounted` that a call queues once
  (`InLine`): a slot that is passed on to whoever is first would otherwise free
  nothing. The hard step is a cancellation of many calls at once, some queued and
  some with a slot; `DropSlots` counts who leaves, who is served and what is
  left.
- `CeilingHolds`, from `Guarded`: for a run in a round, what the guard counted plus
  what it has granted stays within the bound, because it grants only below the
  limit (`Covered`) and a round begins only below it (`Affords`).
- `TypesKept`, from `TypeInv`, which is all of these together with the types of
  calls and the sums in checkpoints (`Summed`).
- `CostsCountedOnce`, from `PaidInv`: a checkpoint, what its researchers report or
  will, and an answer nobody has used yet (`Owed`) never pass what was paid, and a
  cost is only that of a call that was just answered (`Answered`). Neither half is
  inductive without the other: a boundary adds to the checkpoint what the
  researchers report, and cancellation forgets it.

What calls cost is added up by `MapThenSumSet`, and a queue that some leave is a
recursive function (`Without`). The library's induction theorems take an operator
as a parameter, which the provers cannot instantiate, so the lemmas about both
(`AddingExists`, `TotalType`, `TotalMonotone`, `TotalOfOne`, `KeepingExists`,
`WithoutKeeps`) argue from a least number that fails (`Least`), as
`RunStoryProofs` does.

`NobodyIsStuck` is the safety half of `EveryRunIsWritten`: until a run is over,
it, one of its researchers or one of their calls and searches can take its next
step (`RunCan`, `ResearcherCan`, `CallCan`, `SearchCan`), or waits for a call that
holds a slot or a leader that makes the shared search, of whichever run, and
those wait for nobody. It joins `SlotInv`, `FollowInv` and `WriterHeard`: the
guard exempts the synthesizer, so it is never refused, which is the one end of a
call that a writing run would have no step for.

Only model-checked: `EveryRunIsWritten`, which is liveness.

## 9. SessionTokens: one session and its refresh tokens

`SessionTokens.tla` models concurrent refreshes and sign-outs of one session as
transactions at READ COMMITTED: an UPDATE fixes its rows when it starts, takes
them one by one, and tests its WHERE again on a row it waited for. A sign-out is
asked for by the session itself or by another of the same user (`Remote`), which
may end several in one transaction (`revoke_others`).

| In the model | In the code |
|---|---|
| `session`, `minted`, `used`, `revoked` | the session's row; the family's `refresh_tokens` with `used_at` and `revoked_at` |
| `index` | the revocation index in Redis |
| `at`, `token` | `SessionService.refresh` and `revoke`, and the token presented |
| `rows`, `locked`, `guard` | rows an UPDATE has still to take, and those a transaction wrote |
| `Detect` ... `IndexReuse` | `DurableRevocation.revoke_family`, in a transaction of its own, and what follows it |
| `Displace` | the ceiling of sessions per user at a newer sign-in |
| `Deadlocked` | PostgreSQL ends a cycle of waits by failing one transaction |
| `DeadlockedElsewhere`, `undone` | it does so over another session that the transaction ends too, and whether an end the index had been told of was lost that way |

| Run | Checks | Shows |
|---|---|---|
| `session_tokens` | `OneUsable`, `RevokedIsIndexed`, `IndexedIsEnded` | three refreshes of any tokens, a sign-out by the session and one by another, a displacement and a failure, with every interleaving of row locks: one usable token, and the index and the row agree in the end |

Bounds: three refreshes are two racers and a thief; three tokens are a family
with a past; one failure is a rollback, a store that does not answer or an
emptied index. Deadlock is checked: PostgreSQL's detection is what removes it,
since a detection locks tokens and then the session, and a sign-out the session
and then the tokens. When the two are at the same session the survivor ends it
in either case, which is what `IndexedIsEnded` shows.

It does not when the cycle closes over another session. `revoke_others` ends the
user's sessions one after the other in one transaction, and each is in the index
before the next is tried; if a detection in a later session wins the deadlock,
the rows of the earlier ones are rolled back and their index entries stay. Such a
session has its access tokens refused and can still be refreshed, with nobody at
work to end it: `undone` marks it, and `IndexedIsEnded` excuses it. What the
other sessions lose is their own instance of the model.

Observations: the endpoint returns a refusal and does not raise it, so the
transaction that consumed the token commits; a displaced session is not indexed,
and its access token runs out by itself; `mark_used` does not test `revoked_at`,
and the check of the session after it covers that.

`SessionTokensProofs.tla` proves `TypeCorrect`, `LineageNeverForks`,
`EndsReachTheIndex` and `IndexedSessionsEnd` for any requests, tokens and
failures. `IInv` holds types; that only open transactions hold locks, and each
row one (`Clean`, `Exclusive`); `Consuming` and `Chain`, from which whoever mints
holds the newest token; and `Ending`, `Withdrawn` and `Pursued`, which follow the
end of a session to its index and back: of two that deadlock within the family
the other goes on, and one that deadlocks elsewhere is the exception.

## 10. RateLimit and Admission: before a run exists

`RateLimit.tla` is one token bucket, as the script Redis runs, asked by replicas
whose clocks differ; a token is split so that time adds whole parts.
`Admission.tla` puts the creation of a run behind it: limiter, count of active
runs, insert.

| In the model | In the code |
|---|---|
| `tokens`, `stamp`, `touched` | the hash's two fields, and when EXPIRE was set |
| `clock`, `Now` | Redis's time, and what a caller takes for it |
| `step[q]`, `queued`, `running` | where a request to create is; the user's active runs |
| `FailOpen` | Redis cannot be reached |

| Run | Checks | Shows |
|---|---|---|
| `admission` | `WithinRate`, `ActiveBounded` | three requests of a user with at most two active runs, a bucket of three parts, skewed clocks, an outage and an emptied Redis: what was granted is the burst, the refill, and what skew and loss gave back; the limit on runs is passed by at most one per concurrent request |

Bounds: time and calls are bounded by six, twice a refill; the run therefore
stops, and deadlock is not checked. `MaxSkew <= Slack` is assumed: the minute a
bucket is kept beyond its refill absorbs the skew. The comment at
`security/ratelimit.py:157` calls what skew adds bounded by the skew; that is
per change from a faster to a slower replica, and it adds up (`regained`).

`AdmissionProofs.tla` proves `TypeCorrect`, `GrantsWithinRate` and
`ActiveRunsBounded` for any bucket, clocks and number of requests. The bucket's
invariant is `Accounted`: what was granted and what is left came from the burst,
from time up to the stamp, and from the times it was set back. `ActiveBounded` is
inductive as it stands.

## 11. Accounts: who a sign-in makes somebody

`Accounts.tla` models single sign-on and the Supabase password path through
`FederationService`, registration and password sign-in, and the unlinking of an
identity, by concurrent requests. A request is one transaction at READ COMMITTED:
each statement is a step and reads committed rows; an insert under a unique key
that an open transaction has written, and a delete of a row that one is
deleting, wait; what a request wrote becomes visible when it commits.

| In the model | In the code |
|---|---|
| `users`, `identities` | committed rows: an address and whether there is a password; the account of each (provider, subject) |
| `flows`, `Taken` | the store of half-finished sign-ins; its GETDEL |
| `deployment` | `sso_link_by_verified_email` and `auth_backend` |
| `request[q].claims` | what the provider said: subject, address, and whether it verified it |
| `request[q].wrote` | what the transaction has written and holds |
| `Callback`, `Exchange` | `sso_callback`, up to the provider's answer |
| `Adopt` | a password sign-in or sign-up that Supabase admitted |
| `Find`, `Match`, `CreateUser`, `Link` | the rules of `FederationService.resolve`, statement by statement |
| `Unlink`, `DeleteLink` | `unlink_identity`: the count, then the delete |
| `Commit`, `Rollback` | the end of `Database.session`; a handler that returns a refusal commits, one that raises does not |

| Run | Checks | Shows |
|---|---|---|
| `accounts` | `TypeOK`, `LinksAreEarned`, `SessionsAreTheirs`, `StrandedOnlyThere`, `NoCircleOfWaits` | in every interleaving, an identity joins only an account whose address its provider verified, the loser of a race is not let in, one half-finished sign-in is finished once, no wait is for ever, and an account loses its last way in only by two unlinks at once or by a first sign-in that lost its subject |

Bounds: each request is made once. Four are an account, its second identity and
two unlinks at once, or two racers with somebody before and after them; two of
everything else lets an address, a subject and an account be the same or not.
Requests, accounts, addresses and subjects are symmetric. The deployment that
keeps passwords in Supabase and does not link by address is left out: what
single sign-on does there, it does in the local one that does not link. Requests
run out, so deadlock is not checked; `NoCircleOfWaits` says that one of those
that have not ended can go on.

Observations: `unlink_identity` documents that it removes a link "unless it is
the only way in" (`api/v1/sso.py:353`). It counts and then deletes, with no lock
on the account, so two requests that remove different identities of an account
without a password both count two and both commit. `StrandedOnlyThere` says that
this, and one more place, is where an account is left without a way in: an
account that was created by a sign-in whose subject another request took first is
committed, because the callback returns its refusal and does not raise it.
`_adopt` raises, and nothing is left. Nobody is let into such an account by that
sign-in; a later one with the same verified address joins it where the
deployment links by address, and is refused where it does not. Waits end because
a request takes an address before a subject and waits for nothing after that.

Abstractions: a deleted and relinked identity keeps its name here and has a new
id in the code, so the model lets an unlink that waited remove the new row too,
where the code would find nothing. Registration may be closed at any sign-in. A
deployment that changed its `auth_backend` while it had password accounts is not
modelled, and neither are the comparison of `state` (a callback may be refused
there), hashing, confirmation mails and the providers' protocols.

### Proofs

`AccountsProofs.tla` proves, for any accounts, addresses, half-finished sign-ins
and deployments, and any finite number of requests and subjects (`Finitely`: what
`unlink_identity` counts are rows of a table): `AccountTypesKept`,
`LinksStayEarned`, `SessionsStayTheirs`, `StrandedStaysThere` and
`NobodyGetsStuck`. All follow from one invariant, `AccountInv`:

- `RecordOK`: what a request of each kind has at each statement;
- `FactsOK`: what it has found out stays true until it ends. The account it found
  is still there with its address and password, as accounts are never deleted and
  a password is never taken away; the account it created is still nobody else's
  (`HasAccount`); a link to an account it did not create is one by address, and
  only where the deployment allows that (`ByAddress`);
- `WritersApart`, `RowsAsFound`: no two open requests hold one account or one
  subject, so the row a request changes when it commits is as it found it. This is
  what the unique keys do, and the only thing that keeps two first sign-ins apart;
- `TakenOnce`: the handle of a request is gone from the store, and nobody else's;
- `LinksLeft`: an identity is the doing of a request that has ended;
- `WaysLeft`: who has counted two ways in and is about to remove one either still
  sees two, or somebody else's removal has committed since. `StrandedOnlyThere`
  alone is not inductive: it says nothing of a request between the count and the
  delete.

The steps are first reduced to what they do to one request (`Turns`): its record
becomes another in one of nine ways (`Reads`), or it commits (`Ends`).

`NobodyGetsStuck` says that while some request is open, one is open that waits for
no row (`Waits` lists the statements that wait). The run checks the same as
`NoCircleOfWaits`, that some handler is `ENABLED`, which the provers cannot
expand; its instance has an account for every address, without which a creation
would lack an id for want of constants.

## 12. Not modelled

- **Limits of the proofs.** Liveness (`EveryRunEnds`, `CatchesUp`, `RunEnds`,
  `EndIsTold`, `EveryRunIsWritten`) and `ENABLED` (`NoCircleOfWaits`) are
  model-checked only. For all but `CatchesUp` the sections say which theorem is
  their safety half: what is left to the runs is that whoever can go on does.
- **Between the models.** `RunStory` assumes an owner where `RunLease` has leases;
  the two are not composed, nor is `ResearchGraph` with either.
- **Accounts and identities.** Password hashing and its upgrade, confirmation
  mails, the providers' protocols and tokens, listing identities. `Accounts` and
  `SessionTokens` meet where a sign-in starts a session, which is a step of one
  and the initial state of the other.
- **Documents.** The uploads endpoint, parsers, chunker, retrieval and ranking.
- **Streams of text.** The pieces of the answer that are published while it is
  written; embeddings and streamed text in the gateway; the routing table.
- **No state of their own.** Prompts, parsing of model output, HTTP clients, model
  providers, object storage, forwarded addresses.
- **Nothing reads them back.** Metrics, logs and traces; evaluations and load
  tests.
- **Clients and variants.** Beyond the SSE hook the web client renders what the API
  says. The in-memory broker and Redis' own numbering serve tests and
  deployments without persistence.

`PROJECT.json` lists every component with its state.
