------------------------- MODULE EventDeliveryProofs -------------------------
(* Theorems about EventDelivery, for any number of publishers, events and   *)
(* faults, and any size of replay window and buffer.                        *)
EXTENDS EventDelivery, TLAPS

\* The numbers that are somewhere on their way were stored before: the types
\* of the bus, the connection and the browser relative to the log.
Stored ==
    /\ log \in Seq(Kinds) /\ Len(log) <= MaxEvents
    /\ ended \in BOOLEAN
    /\ pending \in [Publishers -> 0 .. Len(log)]
    /\ buffer \in Seq(1 .. Len(log))
    /\ conn \in Places
    /\ page \subseteq 1 .. Len(log)
    /\ sub \in {"unopened", "open", "spent"}
    /\ channel \in Seq(1 .. Len(log))
    /\ cursor \in 0 .. Len(log)
    /\ lastId \in 0 .. Len(log)
    /\ applied \in Seq(1 .. Len(log))
    /\ reopenings \in 0 .. MaxReopenings
    /\ faults \in 0 .. MaxFaults

\* A connection only has a page while it replays, and what is left of the page
\* lies ahead of what was sent.
PageIsAhead ==
    /\ page # {} => conn \in {"replaying", "salvaging"}
    /\ \A n \in page : cursor < n

Inv == Stored /\ PageIsAhead /\ CursorIsLastId /\ ReplayLeavesNoHole

-----------------------------------------------------------------------------
(* Sequences of numbers *)

\* A sequence of stored numbers stays one when more are stored.
LEMMA SeqOfMore ==
  ASSUME NEW S, NEW T, S \subseteq T, NEW s \in Seq(S)
  PROVE  s \in Seq(T)
  OBVIOUS

\* What a sequence holds is of the sequence's type.
LEMMA RangeOfSeq ==
  ASSUME NEW S, NEW s \in Seq(S)
  PROVE  Range(s) \subseteq S
  BY DEF Range

\* The capped list only holds what it held and what is pushed.
LEMMA PushedType ==
  ASSUME NEW S, buffer \in Seq(S), NEW n \in S
  PROVE  Pushed(n) \in Seq(S)
<1>1. BufferCap \in Nat \ {0}
  BY BoundsAssumption
<1>2. CASE Len(buffer) < BufferCap
  BY <1>2 DEF Pushed
<1>3. CASE ~ Len(buffer) < BufferCap
  <2>1. buffer # <<>>
    BY <1>1, <1>3
  <2>2. Tail(buffer) \in Seq(S)
    BY <2>1
  <2> QED BY <1>3, <2>2 DEF Pushed
<1> QED BY <1>2, <1>3

\* A frame is handled at most once and only adds itself to what was handled.
LEMMA FrameType ==
  ASSUME NEW S, applied \in Seq(S), NEW n \in S, Frame(n)
  PROVE  applied' \in Seq(S) /\ lastId' = n /\ reopenings' = reopenings
  BY DEF Frame

\* The types relative to the log imply the types.
LEMMA StoredTypes == Stored => TypeOK
<1> SUFFICES ASSUME Stored PROVE TypeOK
  OBVIOUS
<1>1. Len(log) \in Nat /\ MaxEvents \in Nat /\ Len(log) <= MaxEvents
  BY BoundsAssumption DEF Stored
<1>2. 1 .. Len(log) \subseteq Seqs
  BY <1>1 DEF Seqs
<1>3. 0 .. Len(log) \subseteq 0 .. MaxEvents
  BY <1>1
<1>4. buffer \in Seq(Seqs) /\ channel \in Seq(Seqs) /\ applied \in Seq(Seqs)
  BY <1>2, SeqOfMore DEF Stored
<1>5. pending \in [Publishers -> 0 .. MaxEvents]
  BY <1>3 DEF Stored
<1> QED BY <1>1, <1>2, <1>3, <1>4, <1>5 DEF Stored, TypeOK

-----------------------------------------------------------------------------
(* The inductive invariant *)

\* Nothing is stored or on its way at first.
LEMMA InitInv == Init => Inv
<1> SUFFICES ASSUME Init PROVE Inv
  OBVIOUS
<1>1. MaxEvents \in Nat /\ MaxReopenings \in Nat /\ MaxFaults \in Nat
  BY BoundsAssumption
<1>2. log = <<>> /\ Len(log) = 0
  BY DEF Init
<1>3. Stored
  <2>1. <<>> \in Seq(Kinds) /\ <<>> \in Seq(1 .. Len(log))
    OBVIOUS
  <2>2. pending \in [Publishers -> 0 .. Len(log)]
    BY <1>2 DEF Init
  <2>3. conn \in Places
    BY DEF Init, Places
  <2>4. Len(log) <= MaxEvents /\ cursor \in 0 .. Len(log) /\ lastId \in 0 .. Len(log)
    BY <1>1, <1>2 DEF Init
  <2>5. reopenings \in 0 .. MaxReopenings /\ faults \in 0 .. MaxFaults
    BY <1>1 DEF Init
  <2>6. page \subseteq 1 .. Len(log) /\ ended \in BOOLEAN /\ sub = "unopened"
    BY DEF Init
  <2>7. log \in Seq(Kinds) /\ buffer \in Seq(1 .. Len(log))
        /\ channel \in Seq(1 .. Len(log)) /\ applied \in Seq(1 .. Len(log))
    BY <2>1 DEF Init
  <2> QED BY <2>2, <2>3, <2>4, <2>5, <2>6, <2>7 DEF Stored
<1>4. PageIsAhead /\ CursorIsLastId /\ ReplayLeavesNoHole
  BY DEF Init, PageIsAhead, CursorIsLastId, ReplayLeavesNoHole, Streaming
<1> QED BY <1>3, <1>4 DEF Inv

\* Storing an event only makes more numbers storable.
LEMMA StoreInv ==
  ASSUME Inv, NEW p \in Publishers, Store(p)
  PROVE  Inv'
<1>1. PICK kind \in Kinds : log' = Append(log, kind)
  BY DEF Store
<1>2. /\ log' \in Seq(Kinds) /\ Len(log) \in Nat /\ Len(log') = Len(log) + 1
      /\ Len(log') <= MaxEvents
  BY <1>1, BoundsAssumption DEF Inv, Stored, Store
<1>3. 1 .. Len(log) \subseteq 1 .. Len(log') /\ 0 .. Len(log) \subseteq 0 .. Len(log')
  BY <1>2
<1>4. pending' \in [Publishers -> 0 .. Len(log')]
  <2>1. pending' = [pending EXCEPT ![p] = Len(log')]
    BY <1>2 DEF Store
  <2>2. Len(log') \in 0 .. Len(log')
    BY <1>2
  <2> QED BY <1>3, <2>1, <2>2 DEF Inv, Stored
<1>5. /\ buffer' \in Seq(1 .. Len(log'))
      /\ channel' \in Seq(1 .. Len(log'))
      /\ applied' \in Seq(1 .. Len(log'))
  BY <1>3, SeqOfMore DEF Inv, Stored, Store, server, browser
<1>6. Stored'
  BY <1>2, <1>3, <1>4, <1>5 DEF Inv, Stored, Store, server, browser
<1>7. PageIsAhead' /\ CursorIsLastId' /\ ReplayLeavesNoHole'
  BY DEF Inv, Store, server, browser, PageIsAhead, CursorIsLastId, ReplayLeavesNoHole
<1> QED BY <1>6, <1>7 DEF Inv

\* A hang-up leaves nothing of the connection.
LEMMA HangUpInv ==
  ASSUME Inv, HangUp, UNCHANGED <<log, ended, pending, buffer>>,
         lastId' \in 0 .. Len(log), applied' \in Seq(1 .. Len(log)),
         reopenings' = reopenings, faults' \in 0 .. MaxFaults
  PROVE  Inv'
<1>1. Stored'
  BY DEF Inv, Stored, HangUp, Places
<1>2. PageIsAhead' /\ CursorIsLastId' /\ ReplayLeavesNoHole'
  BY DEF HangUp, PageIsAhead, CursorIsLastId, ReplayLeavesNoHole, Streaming
<1> QED BY <1>1, <1>2 DEF Inv

\* Relays touch the bus and nothing else.
LEMMA BusInv ==
  ASSUME Inv, \/ \E p \in Publishers : Relay(p) \/ RelayFails(p)
              \/ BufferExpires \/ RunEnds
  PROVE  Inv'
<1>1. ASSUME NEW p \in Publishers, Relay(p) PROVE Inv'
  <2>1. pending[p] \in 1 .. Len(log)
    BY <1>1 DEF Relay, Inv, Stored
  <2>2. buffer' \in Seq(1 .. Len(log))
    BY <1>1, <2>1, PushedType DEF Relay, Inv, Stored
  <2>3. channel' \in Seq(1 .. Len(log))
    <3>1. channel \in Seq(1 .. Len(log))
      BY DEF Inv, Stored
    <3>2. Append(channel, pending[p]) \in Seq(1 .. Len(log))
      BY <2>1, <3>1
    <3> QED BY <1>1, <3>1, <3>2 DEF Relay
  <2>4. pending' \in [Publishers -> 0 .. Len(log)]
    BY <1>1 DEF Relay, Inv, Stored
  <2>5. Stored'
    BY <1>1, <2>2, <2>3, <2>4 DEF Relay, Inv, Stored, browser
  <2> QED BY <1>1, <2>5 DEF Relay, Inv, browser, PageIsAhead, CursorIsLastId,
                            ReplayLeavesNoHole
<1>2. ASSUME NEW p \in Publishers, RelayFails(p) PROVE Inv'
  <2>1. pending' \in [Publishers -> 0 .. Len(log)]
    BY <1>2 DEF RelayFails, Inv, Stored
  <2>2. faults' \in 0 .. MaxFaults
    BY <1>2, BoundsAssumption DEF RelayFails, Faulty, Inv, Stored
  <2>3. Stored'
    BY <1>2, <2>1, <2>2 DEF RelayFails, Inv, Stored, server, browser
  <2> QED BY <1>2, <2>3 DEF RelayFails, Inv, server, browser, PageIsAhead, CursorIsLastId,
                            ReplayLeavesNoHole
<1>3. CASE BufferExpires
  <2>1. faults' \in 0 .. MaxFaults
    BY <1>3, BoundsAssumption DEF BufferExpires, Faulty, Inv, Stored
  <2>2. Stored'
    BY <1>3, <2>1 DEF BufferExpires, Inv, Stored, server, browser
  <2> QED BY <1>3, <2>2 DEF BufferExpires, Inv, server, browser, PageIsAhead,
                            CursorIsLastId, ReplayLeavesNoHole
<1>4. CASE RunEnds
  <2>1. Stored'
    BY <1>4 DEF RunEnds, Inv, Stored, bus, browser
  <2> QED BY <1>4, <2>1 DEF RunEnds, Inv, bus, browser, PageIsAhead, CursorIsLastId,
                            ReplayLeavesNoHole
<1> QED BY <1>1, <1>2, <1>3, <1>4

\* The browser's own steps start a connection at its position, or none.
LEMMA BrowserInv ==
  ASSUME Inv, Connect \/ Refused \/ Dispose
  PROVE  Inv'
<1>1. CASE Connect
  <2>1. page = {}
    BY <1>1 DEF Connect, Inv, PageIsAhead
  <2>2. Stored'
    BY <1>1, BoundsAssumption DEF Connect, Inv, Stored, Places, Streaming
  <2> QED BY <1>1, <2>1, <2>2 DEF Connect, Inv, PageIsAhead, CursorIsLastId,
                                  ReplayLeavesNoHole
<1>2. CASE Refused
  <2>1. page = {}
    BY <1>2 DEF Refused, Inv, PageIsAhead
  <2>2. /\ faults' \in 0 .. MaxFaults /\ reopenings' \in 0 .. MaxReopenings
        /\ lastId' \in 0 .. Len(log) /\ conn' \in {"waiting", "closed"}
    <3>1. faults' \in 0 .. MaxFaults
      BY <1>2, BoundsAssumption DEF Refused, Faulty, Inv, Stored
    <3>2. /\ (reopenings' = reopenings + 1 /\ reopenings < MaxReopenings) \/ reopenings' = reopenings
          /\ lastId' = 0 \/ lastId' = lastId
          /\ conn = "waiting" /\ conn' \in {conn, "closed"}
      BY <1>2 DEF Refused
    <3>3. reopenings' \in 0 .. MaxReopenings
      BY <3>2, BoundsAssumption DEF Inv, Stored
    <3>4. lastId' \in 0 .. Len(log)
      BY <3>2 DEF Inv, Stored
    <3> QED BY <3>1, <3>2, <3>3, <3>4
  <2>3. Stored'
    BY <1>2, <2>2 DEF Refused, Inv, Stored, Places, bus
  <2> QED BY <1>2, <2>1, <2>2, <2>3 DEF Refused, Inv, PageIsAhead, CursorIsLastId,
                                        ReplayLeavesNoHole, Streaming
<1>3. CASE Dispose
  <2>1. Stored'
    BY <1>3 DEF Dispose, Inv, Stored, Places, browser
  <2> QED BY <1>3, <2>1 DEF Dispose, Inv, PageIsAhead, CursorIsLastId,
                            ReplayLeavesNoHole, Streaming
<1> QED BY <1>1, <1>2, <1>3

\* A replay sends its page from the smallest number on, so that what is left
\* continues what was sent.
LEMMA ReplayInv ==
  ASSUME Inv, ReadHistory \/ ReadBuffer \/ Replay \/ CheckStatus
  PROVE  Inv'
<1>1. CASE ReadHistory
  <2>1. /\ page' = OldestRows /\ cursor' = cursor /\ lastId' = lastId
        /\ cursor \in Nat /\ Len(log) \in Nat /\ Window \in Nat
        /\ conn' = "replaying" /\ conn = "opened"
    BY <1>1, BoundsAssumption DEF ReadHistory, Inv, Stored, browser
  <2>2. Stored'
    BY <1>1, <2>1 DEF ReadHistory, Inv, Stored, OldestRows, Places, Streaming, bus, browser
  <2>3. PageIsAhead' /\ ReplayLeavesNoHole'
    BY <2>1 DEF OldestRows, PageIsAhead, ReplayLeavesNoHole
  <2>4. CursorIsLastId'
    BY <2>1 DEF Inv, CursorIsLastId, Streaming
  <2> QED BY <2>2, <2>3, <2>4 DEF Inv
<1>2. CASE ReadBuffer
  <2>1. /\ page' = {n \in Range(buffer) : n > cursor} /\ cursor' = cursor
        /\ lastId' = lastId /\ conn' = "salvaging" /\ conn = "opened"
        /\ cursor \in Nat /\ Len(log) \in Nat
    BY <1>2 DEF ReadBuffer, Inv, Stored, browser
  <2>2. page' \subseteq 1 .. Len(log)
    BY <2>1, RangeOfSeq DEF Inv, Stored
  <2>3. faults' \in 0 .. MaxFaults
    BY <1>2, BoundsAssumption DEF ReadBuffer, Faulty, Inv, Stored
  <2>4. Stored'
    BY <1>2, <2>1, <2>2, <2>3 DEF ReadBuffer, Inv, Stored, Places, Streaming, bus, browser
  <2>5. PageIsAhead' /\ ReplayLeavesNoHole'
    BY <2>1, <2>2 DEF PageIsAhead, ReplayLeavesNoHole
  <2>6. CursorIsLastId'
    BY <2>1 DEF Inv, CursorIsLastId, Streaming
  <2> QED BY <2>4, <2>5, <2>6 DEF Inv
<1>3. CASE Replay
  <2>1. PICK n \in page : /\ \A k \in page : n <= k
                          /\ Frame(n)
                          /\ IF log[n] = "terminal"
                             THEN HangUp
                             ELSE /\ page' = page \ {n}
                                  /\ cursor' = n
                                  /\ UNCHANGED <<conn, sub, channel>>
    BY <1>3 DEF Replay
  <2>2. n \in 1 .. Len(log) /\ cursor < n /\ cursor \in Nat /\ Len(log) \in Nat
    BY <2>1 DEF Inv, Stored, PageIsAhead
  <2>3. applied' \in Seq(1 .. Len(log)) /\ lastId' = n /\ reopenings' = reopenings
    BY <2>1, <2>2, FrameType DEF Inv, Stored
  <2>4. UNCHANGED <<log, ended, pending, buffer, faults>>
    BY <1>3 DEF Replay
  <2>5. CASE log[n] = "terminal"
    <3>1. HangUp /\ lastId' \in 0 .. Len(log) /\ faults' \in 0 .. MaxFaults
      BY <2>1, <2>2, <2>3, <2>4, <2>5 DEF Inv, Stored
    <3> QED BY <2>3, <2>4, <3>1, HangUpInv
  <2>6. CASE log[n] # "terminal"
    <3>1. page' = page \ {n} /\ cursor' = n /\ UNCHANGED <<conn, sub, channel>>
      BY <2>1, <2>6
    <3>2. Stored'
      BY <2>2, <2>3, <2>4, <3>1 DEF Inv, Stored
    <3>3. PageIsAhead'
      BY <2>1, <2>2, <3>1 DEF Inv, Stored, PageIsAhead
    <3>4. ReplayLeavesNoHole'
      <4>1. ASSUME conn' = "replaying", NEW m \in page', NEW k \in cursor' + 1 .. m
            PROVE  k \in page'
        <5>1. m \in page /\ cursor + 1 .. m \subseteq page
          BY <3>1, <4>1 DEF Inv, ReplayLeavesNoHole
        <5>2. k \in cursor + 1 .. m /\ k # n
          BY <2>2, <3>1, <4>1
        <5> QED BY <3>1, <5>1, <5>2
      <4> QED BY <4>1 DEF ReplayLeavesNoHole
    <3>5. CursorIsLastId'
      BY <2>3, <3>1 DEF CursorIsLastId
    <3> QED BY <3>2, <3>3, <3>4, <3>5 DEF Inv
  <2> QED BY <2>5, <2>6
<1>4. CASE CheckStatus
  <2>1. UNCHANGED <<log, ended, pending, buffer, lastId, applied, reopenings, faults>>
    BY <1>4 DEF CheckStatus, browser
  <2>2. CASE ended
    <3>1. HangUp
      BY <1>4, <2>2 DEF CheckStatus
    <3> QED BY <2>1, <3>1, HangUpInv DEF Inv, Stored
  <2>3. CASE ~ended
    <3>1. conn' = "following" /\ page = {} /\ UNCHANGED <<page, sub, channel, cursor>>
          /\ conn \in Streaming
      BY <1>4, <2>3 DEF CheckStatus, Streaming
    <3>2. Stored'
      BY <2>1, <3>1 DEF Inv, Stored, Places, Streaming
    <3> QED BY <2>1, <3>1, <3>2 DEF Inv, PageIsAhead, CursorIsLastId, ReplayLeavesNoHole
  <2> QED BY <2>2, <2>3
<1> QED BY <1>1, <1>2, <1>3, <1>4

\* Following moves the connection's position and the browser's together.
LEMMA FollowInv ==
  ASSUME Inv, Listen \/ Receive \/ Heartbeat \/ Deadline \/ Drop
  PROVE  Inv'
<1>1. CASE Listen
  <2>1. Stored'
    BY <1>1 DEF Listen, Inv, Stored, bus, browser
  <2> QED BY <1>1, <2>1 DEF Listen, Inv, browser, PageIsAhead, CursorIsLastId,
                            ReplayLeavesNoHole
<1>2. CASE Receive
  <2> DEFINE n == Head(channel)
  <2>1. /\ conn = "following" /\ channel # <<>>
        /\ UNCHANGED <<log, ended, pending, buffer, faults>>
    BY <1>2 DEF Receive
  <2>2. n \in 1 .. Len(log) /\ Tail(channel) \in Seq(1 .. Len(log))
    BY <2>1 DEF Inv, Stored
  <2>3. page = {}
    BY <2>1 DEF Inv, PageIsAhead
  <2>4. CASE ~Fresh(n)
    <3>1. channel' = Tail(channel) /\ UNCHANGED <<conn, page, sub, cursor, browser>>
      BY <1>2, <2>4 DEF Receive
    <3>2. Stored'
      BY <2>1, <2>2, <3>1 DEF Inv, Stored, browser
    <3> QED BY <2>1, <3>1, <3>2 DEF Inv, browser, PageIsAhead, CursorIsLastId,
                                    ReplayLeavesNoHole
  <2>5. CASE Fresh(n)
    <3>1. Frame(n)
      BY <1>2, <2>5 DEF Receive
    <3>2. applied' \in Seq(1 .. Len(log)) /\ lastId' = n /\ reopenings' = reopenings
      BY <2>2, <3>1, FrameType DEF Inv, Stored
    <3>3. CASE log[n] = "terminal"
      <4>1. HangUp /\ lastId' \in 0 .. Len(log) /\ faults' \in 0 .. MaxFaults
        BY <1>2, <2>1, <2>2, <2>5, <3>2, <3>3 DEF Receive, Inv, Stored
      <4> QED BY <2>1, <3>2, <4>1, HangUpInv
    <3>4. CASE log[n] # "terminal"
      <4>1. channel' = Tail(channel) /\ cursor' = n /\ UNCHANGED <<conn, page, sub>>
        BY <1>2, <2>5, <3>4 DEF Receive
      <4>2. Stored'
        <5>1. channel' \in Seq(1 .. Len(log)) /\ cursor' \in 0 .. Len(log) /\ lastId' \in 0 .. Len(log)
          BY <2>2, <3>2, <4>1
        <5>2. UNCHANGED <<log, ended, pending, buffer, faults, conn, page, sub, reopenings>>
          BY <2>1, <3>2, <4>1
        <5> QED BY <3>2, <5>1, <5>2 DEF Inv, Stored
      <4>3. PageIsAhead' /\ ReplayLeavesNoHole'
        BY <2>3, <4>1 DEF PageIsAhead, ReplayLeavesNoHole
      <4>4. CursorIsLastId'
        BY <3>2, <4>1 DEF CursorIsLastId
      <4> QED BY <4>2, <4>3, <4>4 DEF Inv
    <3> QED BY <3>3, <3>4
  <2> QED BY <2>4, <2>5
<1>3. CASE Heartbeat
  <2>1. Stored'
    BY <1>3 DEF Heartbeat, Inv, Stored, browser
  <2> QED BY <1>3, <2>1 DEF Heartbeat, Inv, browser, PageIsAhead, CursorIsLastId,
                            ReplayLeavesNoHole
<1>4. CASE Deadline
  BY <1>4, HangUpInv DEF Deadline, Inv, Stored, browser
<1>5. CASE Drop
  <2>1. faults' \in 0 .. MaxFaults
    BY <1>5, BoundsAssumption DEF Drop, Faulty, Inv, Stored
  <2> QED BY <1>5, <2>1, HangUpInv DEF Drop, Inv, Stored, browser
<1> QED BY <1>1, <1>2, <1>3, <1>4, <1>5

\* A step that changes nothing keeps everything.
LEMMA StutterInv == Inv /\ UNCHANGED vars => Inv'
  BY DEF vars, Inv, Stored, PageIsAhead, CursorIsLastId, ReplayLeavesNoHole

\* The invariant is inductive.
THEOREM Invariance == Spec => []Inv
<1>1. Inv /\ [Next]_vars => Inv'
  BY StoreInv, BusInv, BrowserInv, ReplayInv, FollowInv, StutterInv DEF Next, Publish
<1> QED BY InitInv, <1>1, PTL DEF Spec

-----------------------------------------------------------------------------
(* What follows *)

\* Log, bus, connection and browser keep their types.
THEOREM TypeCorrect == Spec => []TypeOK
<1>1. Inv => TypeOK
  BY StoredTypes DEF Inv
<1> QED BY <1>1, Invariance, PTL

\* `delivered` and Last-Event-ID agree at every point of every connection.
THEOREM CursorAlwaysLastId == Spec => []CursorIsLastId
<1>1. Inv => CursorIsLastId
  BY DEF Inv
<1> QED BY <1>1, Invariance, PTL

\* A replay from the rows never leaves out an event it is past.
THEOREM ReplayNeverLeavesHole == Spec => []ReplayLeavesNoHole
<1>1. Inv => ReplayLeavesNoHole
  BY DEF Inv
<1> QED BY <1>1, Invariance, PTL

\* One step's worth of StreamMovesForward.
Forward == lastId' >= lastId \/ (lastId' = 0 /\ conn = "waiting")

\* No step takes the EventSource back, except for one that replaces it: the
\* numbers a connection sends lie beyond its cursor, which is the browser's.
THEOREM AlwaysMovesForward == Spec => StreamMovesForward
<1>1. Inv /\ [Next]_vars => [Forward]_vars
  <2> SUFFICES ASSUME Inv, [Next]_vars PROVE Forward
    OBVIOUS
  <2>1. lastId \in Nat /\ cursor \in Nat
    BY DEF Inv, Stored
  <2>2. ASSUME lastId' = lastId PROVE Forward
    BY <2>1, <2>2 DEF Forward
  <2>3. CASE Replay
    <3>1. PICK n \in page : Frame(n)
      BY <2>3 DEF Replay
    <3>2. cursor < n /\ cursor = lastId /\ n \in Nat
      BY <2>3, <3>1 DEF Replay, Inv, Stored, PageIsAhead, CursorIsLastId, Streaming
    <3> QED BY <2>1, <3>1, <3>2 DEF Frame, Forward
  <2>4. CASE Receive
    <3>1. CASE Fresh(Head(channel))
      <4>1. Frame(Head(channel)) /\ conn = "following" /\ channel # <<>>
        BY <2>4, <3>1 DEF Receive
      <4>2. cursor < Head(channel) /\ cursor = lastId /\ Head(channel) \in Nat
        BY <3>1, <4>1 DEF Fresh, Inv, Stored, CursorIsLastId, Streaming
      <4> QED BY <2>1, <4>1, <4>2 DEF Frame, Forward
    <3>2. CASE ~Fresh(Head(channel))
      BY <2>2, <2>4, <3>2 DEF Receive, browser
    <3> QED BY <3>1, <3>2
  <2>5. CASE Refused
    BY <2>2, <2>5 DEF Refused, Forward
  <2>6. CASE Publish
    BY <2>2, <2>6 DEF Publish, Store, Relay, RelayFails, browser
  <2>7. CASE BufferExpires \/ RunEnds \/ Connect \/ Dispose
    BY <2>2, <2>7 DEF BufferExpires, RunEnds, Connect, Dispose, browser
  <2>8. CASE ReadHistory \/ ReadBuffer \/ CheckStatus
    BY <2>2, <2>8 DEF ReadHistory, ReadBuffer, CheckStatus, browser
  <2>9. CASE Listen \/ Heartbeat \/ Deadline \/ Drop
    BY <2>2, <2>9 DEF Listen, Heartbeat, Deadline, Drop, browser
  <2>10. CASE UNCHANGED vars
    BY <2>2, <2>10 DEF vars
  <2> QED BY <2>3, <2>4, <2>5, <2>6, <2>7, <2>8, <2>9, <2>10 DEF Next
<1>2. [][Next]_vars /\ []Inv => [][Forward]_vars
  BY <1>1, PTL
<1>3. StreamMovesForward <=> [][Forward]_vars
  BY DEF StreamMovesForward, Forward
<1> QED BY <1>2, <1>3, Invariance, PTL DEF Spec

\* A frame tells the watcher of one stored event it was not told of, or of none.
LEMMA FrameTells ==
  ASSUME Inv, NEW n \in 1 .. Len(log), Frame(n), log' = log
  PROVE  [Feed!Next]_Feed!vars
<1>1. CASE n \in Range(applied)
  BY <1>1 DEF Frame, Seen, Feed!vars
<1>2. CASE n \notin Range(applied)
  <2>1. n \in (1 .. Len(log)) \ Range(applied)
    BY <1>2
  <2>2. applied' = Append(applied, n)
    BY <1>2 DEF Frame, Seen
  <2>3. Len(log') = Len(log)
    OBVIOUS
  <2>4. Feed!Tell
    BY <2>1, <2>2, <2>3 DEF Feed!Tell, Range, Feed!Range
  <2> QED BY <2>4 DEF Feed!Next
<1> QED BY <1>1, <1>2

\* EventDelivery implements EventFeed: storing an event stores one, a frame
\* tells of one, and every other step is invisible to the watcher.
THEOREM DeliveryImplementsFeed == Spec => ImplementsFeed
<1>1. Init => Feed!Init
  BY DEF Init, Feed!Init
<1>2. Inv /\ [Next]_vars => [Feed!Next]_Feed!vars
  <2> SUFFICES ASSUME Inv, [Next]_vars PROVE [Feed!Next]_Feed!vars
    OBVIOUS
  <2>1. ASSUME UNCHANGED <<log, applied>> PROVE [Feed!Next]_Feed!vars
    BY <2>1 DEF Feed!vars
  <2>2. ASSUME NEW p \in Publishers, Store(p) PROVE [Feed!Next]_Feed!vars
    <3>1. Len(log') = Len(log) + 1
      BY <2>2 DEF Store, Inv, Stored
    <3>2. applied' = applied
      BY <2>2 DEF Store, browser
    <3> QED BY <3>1, <3>2 DEF Feed!Next, Feed!Store
  <2>3. CASE Replay
    <3>1. PICK n \in page : Frame(n)
      BY <2>3 DEF Replay
    <3>2. n \in 1 .. Len(log) /\ log' = log
      BY <2>3, <3>1 DEF Replay, Inv, Stored
    <3> QED BY <3>1, <3>2, FrameTells
  <2>4. CASE Receive
    <3>1. CASE Fresh(Head(channel))
      <4>1. Frame(Head(channel)) /\ Head(channel) \in 1 .. Len(log) /\ log' = log
        BY <2>4, <3>1 DEF Receive, Inv, Stored
      <4> QED BY <4>1, FrameTells
    <3>2. CASE ~Fresh(Head(channel))
      BY <2>1, <2>4, <3>2 DEF Receive, browser
    <3> QED BY <3>1, <3>2
  <2>5. ASSUME NEW p \in Publishers, Relay(p) \/ RelayFails(p) PROVE [Feed!Next]_Feed!vars
    BY <2>1, <2>5 DEF Relay, RelayFails, browser
  <2>6. CASE BufferExpires \/ RunEnds \/ Connect \/ Refused \/ Dispose
    BY <2>1, <2>6 DEF BufferExpires, RunEnds, Connect, Refused, Dispose, browser
  <2>7. CASE ReadHistory \/ ReadBuffer \/ CheckStatus
    BY <2>1, <2>7 DEF ReadHistory, ReadBuffer, CheckStatus, browser
  <2>8. CASE Listen \/ Heartbeat \/ Deadline \/ Drop
    BY <2>1, <2>8 DEF Listen, Heartbeat, Deadline, Drop, browser
  <2>9. CASE UNCHANGED vars
    BY <2>1, <2>9 DEF vars
  <2> QED BY <2>2, <2>3, <2>4, <2>5, <2>6, <2>7, <2>8, <2>9 DEF Next, Publish
<1> QED BY <1>1, <1>2, Invariance, PTL DEF Spec, ImplementsFeed, Feed!Spec
=============================================================================
