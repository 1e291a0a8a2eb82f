---------------------------- MODULE EventDelivery ----------------------------
(* One run's progress stream, from the processes that publish (workers and  *)
(* the API) to one browser that watches: the durable log, the Redis channel *)
(* and buffer, one connection of the events endpoint after another, and the *)
(* web client's EventSource.  An event is its number and whether it is      *)
(* terminal.                                                                *)
EXTENDS Naturals, Sequences, Functions

CONSTANTS
    Publishers,     \* processes that publish events of the run
    Window,         \* rows one replay returns (DEFAULT_REPLAY_LIMIT)
    BufferCap,      \* sse_replay_buffer_size
    MaxReopenings,  \* MAX_REOPENINGS of the web client
    MaxEvents,      \* bound: events stored
    MaxFaults       \* bound: faults, see Faulty

ASSUME BoundsAssumption ==
    /\ Window \in Nat \ {0}
    /\ BufferCap \in Nat \ {0}
    /\ MaxReopenings \in Nat
    /\ MaxEvents \in Nat
    /\ MaxFaults \in Nat

VARIABLES
    log,        \* research_events of the run: log[seq] is the event's kind
    ended,      \* the row's status is terminal
    pending,    \* per publisher: the event stored and not yet relayed, or 0
    buffer,     \* the capped Redis list, oldest first
    conn,       \* where the connection is; "waiting": the browser reconnects
    page,       \* what the replay has still to send
    sub,        \* the subscription generator: unopened, open, spent
    channel,    \* messages of the open subscription not yet read
    cursor,     \* `delivered` of the connection
    lastId,     \* what the EventSource would send as Last-Event-ID
    applied,    \* the events the page has handled, in order (seenSeq)
    reopenings, \* of the web client, without a successful open in between
    faults      \* how many faults happened

server == <<conn, page, sub, channel, cursor>>
browser == <<lastId, applied, reopenings>>
bus == <<pending, buffer, channel>>
vars == <<log, ended, pending, buffer, conn, page, sub, channel, cursor,
          lastId, applied, reopenings, faults>>

-----------------------------------------------------------------------------
(* Types *)

Kinds == {"progress", "terminal"}
Seqs == 1 .. MaxEvents
Streaming == {"opened", "replaying", "salvaging", "following"}
Places == Streaming \cup {"waiting", "closed"}

\* Every variable keeps its type.
TypeOK ==
    /\ log \in Seq(Kinds) /\ Len(log) <= MaxEvents
    /\ ended \in BOOLEAN
    /\ pending \in [Publishers -> 0 .. MaxEvents]
    /\ buffer \in Seq(Seqs)
    /\ conn \in Places
    /\ page \subseteq Seqs
    /\ sub \in {"unopened", "open", "spent"}
    /\ channel \in Seq(Seqs)
    /\ cursor \in 0 .. MaxEvents
    /\ lastId \in 0 .. MaxEvents
    /\ applied \in Seq(Seqs)
    /\ reopenings \in 0 .. MaxReopenings
    /\ faults \in 0 .. MaxFaults

Init ==
    /\ log = <<>>
    /\ ended = FALSE
    /\ pending = [p \in Publishers |-> 0]
    /\ buffer = <<>>
    /\ conn = "waiting"
    /\ page = {}
    /\ sub = "unopened"
    /\ channel = <<>>
    /\ cursor = 0
    /\ lastId = 0
    /\ applied = <<>>
    /\ reopenings = 0
    /\ faults = 0

Faulty ==
    /\ faults < MaxFaults
    /\ faults' = faults + 1

-----------------------------------------------------------------------------
(* Publishing: store, then deliver *)

\* SqlAlchemyEventLog.append: the advisory lock makes number and insert one
\* step.  A publisher awaits one publish before it starts the next.
Store(p) ==
    /\ Len(log) < MaxEvents
    /\ pending[p] = 0
    /\ \E kind \in Kinds : log' = Append(log, kind)
    /\ pending' = [pending EXCEPT ![p] = Len(log) + 1]
    /\ UNCHANGED <<ended, buffer, server, browser, faults>>

Pushed(n) ==
    IF Len(buffer) < BufferCap THEN Append(buffer, n) ELSE Append(Tail(buffer), n)

\* RedisEventBroker.relay: only a subscription that is open hears it.
Relay(p) ==
    /\ pending[p] # 0
    /\ buffer' = Pushed(pending[p])
    /\ channel' = IF sub = "open" THEN Append(channel, pending[p]) ELSE channel
    /\ pending' = [pending EXCEPT ![p] = 0]
    /\ UNCHANGED <<log, ended, conn, page, sub, cursor, browser, faults>>

\* The fan-out throws and is swallowed, or the process dies before it.
RelayFails(p) ==
    /\ Faulty
    /\ pending[p] # 0
    /\ pending' = [pending EXCEPT ![p] = 0]
    /\ UNCHANGED <<log, ended, buffer, server, browser>>

\* The buffer's key expires, or Redis restarts empty.
BufferExpires ==
    /\ Faulty
    /\ buffer # <<>>
    /\ buffer' = <<>>
    /\ UNCHANGED <<log, ended, pending, server, browser>>

\* The row becomes terminal; workers commit that before they publish it,
\* cancel after.
RunEnds ==
    /\ ~ended
    /\ ended' = TRUE
    /\ UNCHANGED <<log, bus, conn, page, sub, cursor, browser, faults>>

-----------------------------------------------------------------------------
(* The browser *)

Seen == Range(applied)

\* Mutant: no seenSeq.
FrameUnchecked(n) ==
    /\ lastId' = n
    /\ applied' = Append(applied, n)
    /\ UNCHANGED reopenings

\* A frame arrives: the EventSource notes its id, handleEvent drops what it
\* has seen.
Frame(n) ==
    /\ lastId' = n
    /\ applied' = IF n \in Seen THEN applied ELSE Append(applied, n)
    /\ UNCHANGED reopenings

\* The server's generator ends and its subscription is closed with it.
HangUp ==
    /\ conn' = "waiting"
    /\ page' = {}
    /\ sub' = "unopened"
    /\ channel' = <<>>
    /\ cursor' = 0

\* Mutant: Last-Event-ID is not read.
ConnectFromStart ==
    /\ conn = "waiting"
    /\ conn' = "opened"
    /\ cursor' = 0
    /\ reopenings' = 0
    /\ UNCHANGED <<log, ended, pending, buffer, page, sub, channel, lastId, applied,
                   faults>>

\* stream_events accepts a (re)connection; broker.subscribe makes a generator
\* that has not run yet.
Connect ==
    /\ conn = "waiting"
    /\ conn' = "opened"
    /\ cursor' = lastId
    /\ reopenings' = 0
    /\ UNCHANGED <<log, ended, pending, buffer, page, sub, channel, lastId, applied,
                   faults>>

\* A reconnect answered with anything but 200 closes the EventSource; the hook
\* renews the session and makes a new one, which has no Last-Event-ID.
Refused ==
    /\ Faulty
    /\ conn = "waiting"
    /\ \/ /\ reopenings < MaxReopenings
          /\ reopenings' = reopenings + 1
          /\ lastId' = 0
          /\ UNCHANGED conn
       \/ /\ conn' = "closed"
          /\ UNCHANGED <<lastId, reopenings>>
    /\ UNCHANGED <<log, ended, bus, page, sub, cursor, applied>>

\* The page stops watching once it knows the run ended, from an event it
\* handled or from its polling of the run.
Dispose ==
    /\ conn # "closed"
    /\ ended \/ \E n \in Seen : log[n] = "terminal"
    /\ conn' = "closed"
    /\ page' = {}
    /\ sub' = "unopened"
    /\ channel' = <<>>
    /\ cursor' = 0
    /\ UNCHANGED <<log, ended, pending, buffer, browser, faults>>

-----------------------------------------------------------------------------
(* _event_stream *)

\* Mutant: the newest rows instead of the oldest.
NewestRows == {n \in 1 .. Len(log) : cursor < n /\ n + Window > Len(log)}

\* The rows after Last-Event-ID, the oldest Window of them.
OldestRows == {n \in 1 .. Len(log) : cursor < n /\ n <= cursor + Window}

ReadHistory ==
    /\ conn = "opened"
    /\ conn' = "replaying"
    /\ page' = OldestRows
    /\ UNCHANGED <<log, ended, bus, sub, cursor, browser, faults>>

\* The database does not answer: what Redis has buffered stands in.
ReadBuffer ==
    /\ Faulty
    /\ conn = "opened"
    /\ conn' = "salvaging"
    /\ page' = {n \in Range(buffer) : n > cursor}
    /\ UNCHANGED <<log, ended, bus, sub, cursor, browser>>

\* The next frame of the replay, in order; a terminal event ends the stream.
Replay ==
    /\ conn \in {"replaying", "salvaging"}
    /\ \E n \in page :
          /\ \A k \in page : n <= k
          /\ Frame(n)
          /\ IF log[n] = "terminal"
             THEN HangUp
             ELSE /\ page' = page \ {n}
                  /\ cursor' = n
                  /\ UNCHANGED <<conn, sub, channel>>
    /\ UNCHANGED <<log, ended, pending, buffer, faults>>

\* The run's status is read after the replay and before the subscription opens.
CheckStatus ==
    /\ conn \in {"replaying", "salvaging"}
    /\ page = {}
    /\ IF ended
       THEN HangUp
       ELSE conn' = "following" /\ UNCHANGED <<page, sub, channel, cursor>>
    /\ UNCHANGED <<log, ended, pending, buffer, browser, faults>>

\* The first anext runs the generator up to its SUBSCRIBE.
Listen ==
    /\ conn = "following"
    /\ sub = "unopened"
    /\ sub' = "open"
    /\ UNCHANGED <<log, ended, bus, conn, page, cursor, browser, faults>>

\* Mutant: no filter on what was delivered.
FreshAlways(n) == TRUE

Fresh(n) == n > cursor

\* anext yields a message; what was already delivered is skipped.
Receive ==
    /\ conn = "following"
    /\ channel # <<>>
    /\ LET n == Head(channel) IN
          IF ~Fresh(n)
          THEN /\ channel' = Tail(channel)
               /\ UNCHANGED <<conn, page, sub, cursor, browser>>
          ELSE /\ Frame(n)
               /\ IF log[n] = "terminal"
                  THEN HangUp
                  ELSE /\ channel' = Tail(channel)
                       /\ cursor' = n
                       /\ UNCHANGED <<conn, page, sub>>
    /\ UNCHANGED <<log, ended, pending, buffer, faults>>

\* The heartbeat's timeout cancels the pending anext, which runs the
\* generator's finally: every later anext raises StopAsyncIteration.
Heartbeat ==
    /\ conn = "following"
    /\ sub # "spent"
    /\ sub' = "spent"
    /\ channel' = <<>>
    /\ UNCHANGED <<log, ended, pending, buffer, conn, page, cursor, browser, faults>>

\* Mutant: the deadline is only looked at between messages.
DeadlineWhileOpen ==
    /\ conn = "following"
    /\ sub = "open"
    /\ HangUp
    /\ UNCHANGED <<log, ended, pending, buffer, browser, faults>>

\* sse_max_connection_seconds have passed.
Deadline ==
    /\ conn = "following"
    /\ HangUp
    /\ UNCHANGED <<log, ended, pending, buffer, browser, faults>>

\* The network, Redis or the API process drops the connection.
Drop ==
    /\ Faulty
    /\ conn \in Streaming
    /\ HangUp
    /\ UNCHANGED <<log, ended, pending, buffer, browser>>

-----------------------------------------------------------------------------

Publish == \E p \in Publishers : Store(p) \/ Relay(p) \/ RelayFails(p)

Next ==
    \/ Publish
    \/ BufferExpires
    \/ RunEnds
    \/ Connect \/ Refused \/ Dispose
    \/ ReadHistory \/ ReadBuffer \/ Replay \/ CheckStatus
    \/ Listen \/ Receive \/ Heartbeat \/ Deadline \/ Drop

Spec == Init /\ [][Next]_vars

\* The endpoint's task runs on, its clock moves, and a browser retries.
Fairness ==
    /\ WF_vars(Connect)
    /\ WF_vars(ReadHistory)
    /\ WF_vars(Replay)
    /\ WF_vars(CheckStatus)
    /\ WF_vars(Deadline)

FairSpec == Spec /\ Fairness

-----------------------------------------------------------------------------
(* Properties *)

\* What the server believes it delivered is what the browser would resume
\* from, at every point of a connection: a drop at any moment neither repeats
\* nor loses a frame (`delivered` against Last-Event-ID).
CursorIsLastId == conn \in Streaming => cursor = lastId

\* A replay from the rows continues exactly where the browser stopped and
\* leaves out nothing up to the event it has reached, whatever was published
\* meanwhile (SqlAlchemyEventLog.replay).
ReplayLeavesNoHole ==
    conn = "replaying" => \A n \in page : cursor + 1 .. n \subseteq page

\* An EventSource never goes back: whatever order events are relayed in, and
\* however often it reconnects, the ids it is sent increase until it is
\* replaced by a new one, which starts at 0.
StreamMovesForward == [][lastId' >= lastId \/ (lastId' = 0 /\ conn = "waiting")]_vars

\* The page is told of stored events only, and handles each at most once.
Feed == INSTANCE EventFeed WITH stored <- Len(log), told <- applied
ImplementsFeed == Feed!Spec

\* Whatever was stored, the browser's position passes it, or the page learnt
\* that the run ended or gave up: no connection waits for ever for an event
\* it will not hear.
CatchesUp ==
    \A n \in Seqs : Len(log) >= n ~> (lastId >= n \/ conn = "closed")

-----------------------------------------------------------------------------
(* What the documents and comments say and the code does not do *)

\* "an event published between the two is delivered rather than lost in the
\* gap" (api/v1/research.py): the browser is told of every event it is past.
NothingLostInTheGap == 1 .. lastId \subseteq Seen

\* "an event stored but not delivered is one the next reconnect replays"
\* (research/eventbus.py): an event still to be relayed was told or lies
\* after the position the browser reconnects from.
UndeliveredIsReplayable ==
    \A p \in Publishers : pending[p] # 0 => pending[p] \in Seen \/ pending[p] > lastId

\* "Live events for one run, until the caller closes the generator"
\* (research/eventbus.py): a connection that follows can hear.
HearsWhileFollowing == conn = "following" => sub # "spent"

\* "A replayed stream delivers these in sequence order, so appending is correct
\* on a reconnect as well as live" (use-research-events.ts): the pieces of the
\* answer are appended in the order the run wrote them.
AppendedInOrder == \A i, j \in DOMAIN applied : i < j => applied[i] < applied[j]
=============================================================================
