--------------------------- MODULE AdmissionProofs ---------------------------
(***************************************************************************)
(* Admission, for any bucket, clocks, limit and number of requests: a      *)
(* bucket grants what it held and what time added, and the count that is   *)
(* not under a lock is passed by at most one run per request.              *)
(***************************************************************************)
EXTENDS Admission, FiniteSetTheorems, TLAPS

-----------------------------------------------------------------------------
(* The bucket *)

\* The part of TypeOK that is the limiter's.
LimiterOK ==
    /\ clock \in 0 .. MaxTime /\ touched \in 0 .. clock
    /\ tokens \in 0 .. Capacity /\ stamp \in 0 .. touched + MaxSkew
    /\ spent \in Nat /\ regained \in Nat /\ lost \in Nat
    /\ calls \in 0 .. MaxCalls /\ losses \in 0 .. MaxLosses

\* What was granted and what is left came from the burst, from time up to the
\* stamp, and from the times the stamp was set back.
Accounted == spent + tokens <= Capacity + stamp + regained + lost

LimiterInv == LimiterOK /\ Accounted

RequestsOK ==
    /\ step \in [Requests -> Steps]
    /\ queued \in Nat /\ running \in Nat
    /\ outages \in 0 .. MaxOutages

\* What the script computes at a caller's time: at most the bucket, and at most
\* what was there and what the stamp moved forward.  An expired bucket is full,
\* and its owner's clock agrees (ratelimit.py:76-80).
LEMMA LevelBounds ==
    ASSUME LimiterOK, NEW now \in Now
    PROVE  /\ now \in Nat /\ now \in clock .. clock + MaxSkew
           /\ Level(now) \in 0 .. Capacity
           /\ Level(now) <= tokens + Greater(0, now - stamp)
<1> USE RateAssumption DEF LimiterOK
<1>1. now \in Nat /\ now \in clock .. clock + MaxSkew
  BY SMT DEF Now
<1>2. Greater(0, now - stamp) \in Nat /\ Greater(0, now - stamp) >= now - stamp
  BY <1>1, SMT DEF Greater
<1>3. CASE Expired
  <2>1. now - stamp >= Capacity
    BY <1>1, <1>3, SMT DEF Expired, Ttl
  <2>2. Level(now) = Capacity
    BY <1>3 DEF Level
  <2> QED
    BY <1>1, <1>2, <2>1, <2>2, SMT
<1>4. CASE ~Expired
  <2>1. Level(now) = Lesser(Capacity, tokens + Greater(0, now - stamp))
    BY <1>4 DEF Level
  <2> QED
    BY <1>1, <1>2, <2>1, SMT DEF Lesser
<1> QED
  BY <1>3, <1>4

\* A write of the bucket that takes nothing off, or Cost.
LEMMA WritesKeep ==
    ASSUME LimiterInv, NEW now \in Now, NEW cost \in {0, Cost},
           Level(now) >= cost, Writes(now, Level(now) - cost), spent' = spent + cost
    PROVE  LimiterInv'
<1> USE RateAssumption
<1>1. LimiterOK /\ Accounted
  BY DEF LimiterInv
<1> DEFINE ahead == Greater(0, now - stamp)
           back == Greater(0, stamp - now)
<1>2. /\ now \in Nat /\ now \in clock .. clock + MaxSkew
      /\ Level(now) \in 0 .. Capacity /\ Level(now) <= tokens + ahead
  BY <1>1, LevelBounds
<1>3. ahead \in Nat /\ back \in Nat /\ now + back = stamp + ahead
  BY <1>1, <1>2, SMT DEF Greater, LimiterOK
<1>4. cost \in Nat
  OBVIOUS
<1>5. /\ tokens' = Level(now) - cost /\ stamp' = now /\ touched' = clock
      /\ regained' = regained + back /\ calls < MaxCalls /\ calls' = calls + 1
      /\ lost' = lost /\ losses' = losses /\ clock' = clock
  BY DEF Writes
<1> HIDE DEF ahead, back
<1>6. LimiterOK'
  BY <1>1, <1>2, <1>3, <1>4, <1>5, SMT DEF LimiterOK
<1>7. Accounted'
  <2> DEFINE level == Level(now)
  <2>1. level \in Nat /\ level <= tokens + ahead
    BY <1>2
  <2> HIDE DEF level
  <2>2. tokens' = level - cost
    BY <1>5 DEF level
  <2> QED
    BY <1>1, <1>2, <1>3, <1>4, <1>5, <2>1, <2>2, SMT DEF Accounted, LimiterOK
<1> QED
  BY <1>6, <1>7 DEF LimiterInv

LEMMA GrantKeeps == LimiterInv /\ Grant => LimiterInv'
<1> SUFFICES ASSUME LimiterInv, Grant PROVE LimiterInv'
  OBVIOUS
<1> PICK now \in Now : Level(now) >= Cost /\ Writes(now, Level(now) - Cost) /\ spent' = spent + Cost
  BY DEF Grant
<1> QED
  BY WritesKeep

LEMMA DenyKeeps == LimiterInv /\ Deny => LimiterInv'
<1> SUFFICES ASSUME LimiterInv, Deny PROVE LimiterInv'
  OBVIOUS
<1> PICK now \in Now : Writes(now, Level(now)) /\ spent' = spent
  BY DEF Deny
<1>1. Level(now) \in Nat
  BY LevelBounds, RateAssumption DEF LimiterInv
<1>2. Level(now) - 0 = Level(now) /\ Level(now) >= 0
  BY <1>1
<1>3. spent' = spent + 0
  BY DEF LimiterInv, LimiterOK
<1>4. Writes(now, Level(now) - 0)
  BY <1>2
<1> QED
  BY <1>2, <1>3, <1>4, WritesKeep

LEMMA LoseKeeps == LimiterInv /\ LoseBucket => LimiterInv'
  BY RateAssumption, SMT DEF LimiterInv, LimiterOK, Accounted, LoseBucket

LEMMA TickKeeps == LimiterInv /\ Tick => LimiterInv'
  BY RateAssumption, SMT DEF LimiterInv, LimiterOK, Accounted, Tick, bucket

LEMMA LimiterStutters == LimiterInv /\ UNCHANGED limiter => LimiterInv'
  BY DEF LimiterInv, LimiterOK, Accounted, limiter, bucket

\* Every step leaves the limiter alone or is one of its own.
LEMMA LimiterSteps == LimiterInv /\ [Next]_vars => LimiterInv'
<1> SUFFICES ASSUME LimiterInv, [Next]_vars PROVE LimiterInv'
  OBVIOUS
<1>1. ASSUME NEW q \in Requests, Arrive(q) PROVE LimiterInv'
  BY <1>1, GrantKeeps, DenyKeeps DEF Arrive
<1>2. ASSUME NEW q \in Requests, FailOpen(q) \/ Count(q) \/ Refuse(q) \/ Create(q) PROVE LimiterInv'
  BY <1>2, LimiterStutters DEF FailOpen, Count, Refuse, Create
<1>3. CASE Claim \/ Release \/ End
  BY <1>3, LimiterStutters DEF Claim, Release, End
<1>4. CASE Tick \/ LoseBucket
  BY <1>4, TickKeeps, LoseKeeps
<1>5. CASE UNCHANGED vars
  BY <1>5, LimiterStutters DEF vars
<1> QED
  BY <1>1, <1>2, <1>3, <1>4, <1>5 DEF Next

-----------------------------------------------------------------------------
(* The requests and the runs *)

Inv == LimiterInv /\ RequestsOK /\ ActiveBounded

\* No more requests are between count and insert than there are.
LEMMA CountedAtMost == IsFiniteSet(AtStep("counted")) /\ Cardinality(AtStep("counted")) \in Nat
                           /\ Cardinality(AtStep("counted")) <= Cardinality(Requests)
                           /\ Cardinality(Requests) \in Nat
<1>1. AtStep("counted") \subseteq Requests /\ IsFiniteSet(Requests)
  BY AdmissionAssumption DEF AtStep
<1> QED
  BY <1>1, FS_Subset, FS_CardinalityType

\* A request that leaves the place between count and insert is one fewer there.
LEMMA LeavesCounted ==
    ASSUME RequestsOK, NEW q \in Requests, step[q] = "counted", Goes(q, "idle")
    PROVE  Cardinality(AtStep("counted")') = Cardinality(AtStep("counted")) - 1
<1>1. q \in AtStep("counted") /\ AtStep("counted")' = AtStep("counted") \ {q}
  BY DEF AtStep, Goes, RequestsOK
<1> QED
  BY <1>1, CountedAtMost, FS_RemoveElement

\* One that goes elsewhere from elsewhere is not counted there.
LEMMA PassesCounted ==
    ASSUME RequestsOK, NEW q \in Requests, step[q] # "counted",
           UNCHANGED step \/ Goes(q, "idle") \/ Goes(q, "admitted")
    PROVE  AtStep("counted")' = AtStep("counted")
  BY DEF AtStep, Goes, RequestsOK

LEMMA RequestStep ==
    ASSUME Inv, NEW q \in Requests,
           Arrive(q) \/ FailOpen(q) \/ Count(q) \/ Refuse(q) \/ Create(q)
    PROVE  RequestsOK' /\ ActiveBounded'
<1> USE DEF Inv
<1>1. RequestsOK'
  BY AdmissionAssumption, SMT DEF Arrive, FailOpen, Count, Refuse, Create, RequestsOK, Goes, Steps, runs
<1> SUFFICES ActiveBounded'
  BY <1>1
<1> DEFINE n == Cardinality(AtStep("counted"))
<1>2. n \in Nat /\ Cardinality(Requests) \in Nat
  BY CountedAtMost
<1>3. Cardinality(AtStep("counted")') <= Cardinality(Requests)
  <2>1. AtStep("counted")' \subseteq Requests
    BY DEF AtStep
  <2> QED
    BY <2>1, AdmissionAssumption, FS_Subset
<1>4. CASE Arrive(q) \/ FailOpen(q)
  <2>1. UNCHANGED runs /\ step[q] # "counted" /\ (UNCHANGED step \/ Goes(q, "admitted"))
    BY <1>4 DEF Arrive, FailOpen
  <2>2. AtStep("counted")' = AtStep("counted")
    BY <2>1, PassesCounted
  <2> QED
    BY <2>1, <2>2 DEF ActiveBounded, CountActive, runs
<1>5. CASE Count(q)
  <2>1. UNCHANGED runs /\ step[q] = "admitted"
    BY <1>5 DEF Count
  <2>2. CASE CountActive >= MaxActive
    <3>1. Goes(q, "idle")
      BY <1>5, <2>2 DEF Count
    <3>2. AtStep("counted")' = AtStep("counted")
      BY <2>1, <3>1, PassesCounted
    <3> QED
      BY <2>1, <3>2 DEF ActiveBounded, CountActive, runs
  <2>3. CASE ~(CountActive >= MaxActive)
    <3>1. CountActive \in Nat /\ CountActive <= MaxActive - 1
      BY <2>3, AdmissionAssumption, SMT DEF CountActive, RequestsOK
    <3>2. CountActive' = CountActive
      BY <2>1 DEF CountActive, runs
    <3>3. Cardinality(AtStep("counted")') \in Nat
      <4>1. AtStep("counted")' \subseteq Requests
        BY DEF AtStep
      <4> QED
        BY <4>1, AdmissionAssumption, FS_Subset, FS_CardinalityType
    <3> QED
      BY <1>2, <1>3, <3>1, <3>2, <3>3, AdmissionAssumption, SMT DEF ActiveBounded
  <2> QED
    BY <2>2, <2>3
<1>6. CASE Refuse(q)
  <2>1. Cardinality(AtStep("counted")') = n - 1 /\ CountActive' = CountActive
    BY <1>6, LeavesCounted DEF Refuse, CountActive, runs
  <2>2. CountActive \in Nat
    BY DEF CountActive, RequestsOK
  <2> QED
    BY <1>2, <2>1, <2>2, AdmissionAssumption, SMT DEF ActiveBounded
<1>7. CASE Create(q)
  <2>1. Cardinality(AtStep("counted")') = n - 1
    BY <1>7, LeavesCounted DEF Create
  <2>2. CountActive \in Nat /\ CountActive' = CountActive + 1
    BY <1>7, SMT DEF CountActive, RequestsOK, Create
  <2> QED
    BY <1>2, <2>1, <2>2, AdmissionAssumption, SMT DEF ActiveBounded
<1> QED
  BY <1>4, <1>5, <1>6, <1>7

\* Runs that start, wait again and end are never more than before.
LEMMA RunStep ==
    ASSUME Inv, Claim \/ Release \/ End
    PROVE  RequestsOK' /\ ActiveBounded'
<1> USE DEF Inv
<1>1. RequestsOK'
  BY SMT DEF Claim, Release, End, RequestsOK
<1>2. CountActive \in Nat /\ CountActive' \in Nat /\ CountActive' <= CountActive
  BY SMT DEF Claim, Release, End, RequestsOK, CountActive
<1>3. AtStep("counted")' = AtStep("counted")
  BY DEF Claim, Release, End, AtStep
<1> QED
  BY <1>1, <1>2, <1>3, CountedAtMost, AdmissionAssumption, SMT DEF ActiveBounded

LEMMA RequestsStutter ==
    ASSUME Inv, UNCHANGED <<step, runs, outages>>
    PROVE  RequestsOK' /\ ActiveBounded'
  BY DEF Inv, RequestsOK, ActiveBounded, CountActive, AtStep, runs

LEMMA InvInit == Init => Inv
<1> SUFFICES ASSUME Init PROVE Inv
  OBVIOUS
<1>1. LimiterInv
  BY RateAssumption, SMT DEF Init, RateInit, LimiterInv, LimiterOK, Accounted
<1>2. RequestsOK
  BY AdmissionAssumption DEF Init, RequestsOK, Steps
<1>3. CountActive = 0
  BY DEF Init, CountActive
<1>4. AtStep("counted") = {}
  BY DEF Init, AtStep
<1> QED
  BY <1>1, <1>2, <1>3, <1>4, CountedAtMost, FS_EmptySet, AdmissionAssumption, SMT DEF Inv, ActiveBounded

LEMMA InvNext == Inv /\ [Next]_vars => Inv'
<1> SUFFICES ASSUME Inv, [Next]_vars PROVE RequestsOK' /\ ActiveBounded'
  BY LimiterSteps DEF Inv
<1>1. ASSUME NEW q \in Requests, Arrive(q) \/ FailOpen(q) \/ Count(q) \/ Refuse(q) \/ Create(q)
      PROVE  RequestsOK' /\ ActiveBounded'
  BY <1>1, RequestStep
<1>2. CASE Claim \/ Release \/ End
  BY <1>2, RunStep
<1>3. CASE (Tick \/ LoseBucket) /\ UNCHANGED <<step, runs, outages>>
  BY <1>3, RequestsStutter
<1>4. CASE UNCHANGED vars
  BY <1>4, RequestsStutter DEF vars
<1> QED
  BY <1>1, <1>2, <1>3, <1>4 DEF Next

THEOREM Invariant == Spec => []Inv
  BY InvInit, InvNext, PTL DEF Spec

\* Bucket, clock, requests and counts of runs keep their types.
THEOREM TypeCorrect == Spec => []TypeOK
<1>1. Inv => TypeOK
  BY DEF Inv, LimiterInv, LimiterOK, RequestsOK, TypeOK
<1> QED
  BY Invariant, <1>1, PTL

\* A bucket grants its burst and its refill, and again only what a clock that
\* was behind set back.
THEOREM GrantsWithinRate == Spec => []WithinRate
<1>1. Inv => WithinRate
  BY RateAssumption, SMT DEF Inv, LimiterInv, LimiterOK, Accounted, WithinRate
<1> QED
  BY Invariant, <1>1, PTL

\* Concurrent creates pass the limit by at most one run each.
THEOREM ActiveRunsBounded == Spec => []ActiveBounded
<1>1. Inv => ActiveBounded
  BY DEF Inv
<1> QED
  BY Invariant, <1>1, PTL
=============================================================================
