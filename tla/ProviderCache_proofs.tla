------------------------ MODULE ProviderCache_proofs ------------------------
(***************************************************************************)
(* Proofs about a request-time provider's memory, for any limits that meet *)
(* ProviderAssumption: types, the rate, one request in flight, and that the*)
(* circuit is open exactly after bursts of failures.                       *)
(*                                                                         *)
(* The pruning is lazy, so the induction says what it never throws away:   *)
(* the starts and failures of the window up to now (SlotsKept, FaultsKept) *)
(* and the promises of requests in flight, unless they are evicted or a    *)
(* failure stands in for them longer than they last (Guarded).             *)
(***************************************************************************)
EXTENDS ProviderCache, FiniteSetTheorems, SequenceTheorems, TLAPS

Flying(i) == requests[i].state = "flying"

\* Requests are numbered as they start, and are over in time.
Ordered ==
  /\ \A i \in Ids : requests[i].at <= now /\ requests[i].end <= now
  /\ \A i \in Ids : Flying(i) => now <= requests[i].at + Timeout

SlotsKept == {j \in Ids : requests[j].at > now - Window} \subseteq slots

Guarded ==
  \A i \in Ids : Flying(i) /\ i \notin evicted =>
    i \in cache \/ failedUntil[requests[i].key] > requests[i].at + Timeout

FaultsKept ==
  /\ faults \subseteq Counted
  /\ {i \in Counted : requests[i].end > now - CircuitWindow} \subseteq faults

\* The last pruning was no earlier than the start of what is in flight.
FaultsFresh ==
  \A i \in Ids : Flying(i) =>
    \A f \in faults : requests[f].end > requests[i].at - CircuitWindow

OpenLongEnough ==
  \A F \in SUBSET Counted : \A l \in F :
    Burst(F, CircuitWindow, requests[l].end) => openUntil >= requests[l].end + CircuitOpen

IInv == /\ TypeOK /\ Ordered
        /\ SlotsKept /\ RateBounded
        /\ Guarded /\ OneInFlight
        /\ FaultsKept /\ FaultsFresh /\ OpenLongEnough /\ CircuitFollowsFailures

-----------------------------------------------------------------------------
(* What the steps do to the requests *)

LEMMA NumbersAreFinite ==
  ASSUME TypeOK
  PROVE  \A S \in SUBSET Ids : IsFiniteSet(S) /\ Cardinality(S) \in Nat
<1>1. Len(requests) \in Nat
  BY DEF TypeOK
<1>2. IsFiniteSet(Ids)
  BY <1>1, FS_Interval DEF Ids
<1> QED
  BY <1>2, FS_Subset, FS_CardinalityType

LEMMA Elements ==
  ASSUME TypeOK, NEW i \in Ids
  PROVE  /\ requests[i] \in Request /\ requests[i].key \in Keys
         /\ requests[i].at \in Int /\ requests[i].end \in Int
<1>1. requests[i] \in Request
  BY DEF TypeOK, Ids
<1> QED
  BY <1>1, ProviderAssumption DEF Request, Time

NextId == Len(requests) + 1

\* A request starts.
LEMMA Started ==
  ASSUME TypeOK, NEW k \in Keys, Start(k)
  PROVE  /\ requests' \in Seq(Request) /\ Len(requests') <= MaxRequests
         /\ NextId \notin Ids /\ NextId \in Nat
         /\ Ids' = Ids \cup {NextId} /\ Ids' = 1..NextId
         /\ \A j \in Ids : requests'[j] = requests[j] /\ j < NextId
         /\ requests'[NextId].key = k /\ requests'[NextId].state = "flying"
         /\ requests'[NextId].at = now /\ requests'[NextId].end = now
<1> DEFINE new == [key |-> k, at |-> now, end |-> now, state |-> "flying"]
<1>1. /\ requests \in Seq(Request) /\ new \in Request /\ Len(requests) < MaxRequests
      /\ requests' = Append(requests, new)
  BY DEF TypeOK, Start, Request
<1>4. new.key = k /\ new.at = now /\ new.end = now /\ new.state = "flying"
  OBVIOUS
<1> HIDE DEF new
<1>2. /\ requests' \in Seq(Request) /\ Len(requests') = Len(requests) + 1
      /\ \A j \in Ids : requests'[j] = requests[j]
      /\ requests'[Len(requests) + 1] = new
  BY <1>1 DEF Ids
<1>3. Len(requests) \in Nat /\ MaxRequests \in Nat
  BY <1>1, ProviderAssumption
<1> QED
  BY <1>1, <1>2, <1>3, <1>4 DEF Ids, NextId

\* A request ends.
LEMMA Ended ==
  ASSUME TypeOK, NEW i \in Ids, NEW s \in {"done", "counted", "uncounted"}, NEW e \in Time,
         requests' = [requests EXCEPT ![i] = [requests[i] EXCEPT !.state = s, !.end = e]]
  PROVE  /\ requests' \in Seq(Request) /\ Len(requests') <= MaxRequests /\ Ids' = Ids
         /\ \A j \in Ids : requests'[j].key = requests[j].key /\ requests'[j].at = requests[j].at
         /\ \A j \in Ids : j # i => requests'[j] = requests[j]
         /\ requests'[i].state = s /\ requests'[i].end = e
<1> DEFINE r == [requests[i] EXCEPT !.state = s, !.end = e]
<1>1. requests[i] \in Request
  BY Elements
<1>2. r \in Request /\ r.state = s /\ r.end = e /\ r.key = requests[i].key /\ r.at = requests[i].at
  BY <1>1 DEF Request
<1> HIDE DEF r
<1>3. requests \in Seq(Request) /\ requests' = [requests EXCEPT ![i] = r]
  BY DEF TypeOK, r
<1>4. /\ requests' \in Seq(Request) /\ Len(requests') = Len(requests)
      /\ requests'[i] = r /\ \A j \in Ids : j # i => requests'[j] = requests[j]
  <2>1. i \in 1..Len(requests) /\ r \in Request
    BY <1>2 DEF Ids
  <2>2. /\ requests' \in Seq(Request) /\ Len(requests') = Len(requests)
        /\ \A j \in 1..Len(requests) : requests'[j] = IF j = i THEN r ELSE requests[j]
    BY <1>3, <2>1, ExceptSeq
  <2> QED
    BY <2>1, <2>2 DEF Ids
<1> QED
  BY <1>2, <1>4 DEF Ids, TypeOK

\* All that ends a request, in one form.
LEMMA Endings ==
  ASSUME TypeOK, NEW i \in Ids, Succeed(i) \/ FailCounted(i) \/ FailUncounted(i)
  PROVE  /\ Flying(i)
         /\ \E s \in {"done", "counted", "uncounted"}, e \in Time :
              /\ requests' = [requests EXCEPT ![i] = [requests[i] EXCEPT !.state = s, !.end = e]]
              /\ e \in {requests[i].end, now}
              /\ s = "counted" <=> FailCounted(i)
              /\ FailCounted(i) => e = now
<1>1. requests[i] \in Request /\ requests[i].end \in Time /\ now \in Time
  BY Elements DEF Request, TypeOK
<1>2. CASE Succeed(i)
  <2>1. [requests[i] EXCEPT !.state = "done", !.end = requests[i].end]
          = [requests[i] EXCEPT !.state = "done"]
    BY <1>1 DEF Request
  <2>2. ~FailCounted(i)
    <3>1. CASE FailCounted(i)
      <4>1. /\ requests' = [requests EXCEPT ![i] = [requests[i] EXCEPT !.state = "done", !.end = requests[i].end]]
            /\ requests' = [requests EXCEPT ![i] = [requests[i] EXCEPT !.state = "counted", !.end = now]]
        BY <1>2, <2>1, <3>1 DEF Succeed, FailCounted, Fails
      <4>2. requests'[i].state = "done" /\ requests'[i].state = "counted"
        BY <1>1, <4>1, Ended
      <4> QED
        BY <4>2
    <3> QED
      BY <3>1
  <2> QED
    BY <1>1, <1>2, <2>1, <2>2 DEF Succeed, Flying
<1>3. CASE FailCounted(i)
  BY <1>1, <1>3 DEF FailCounted, Fails, Flying
<1>4. CASE FailUncounted(i) /\ ~FailCounted(i)
  BY <1>1, <1>4 DEF FailUncounted, Fails, Flying
<1> QED
  BY <1>2, <1>3, <1>4

\* The same, as facts about the requests.
LEMMA EndFacts ==
  ASSUME TypeOK, NEW i \in Ids, Succeed(i) \/ FailCounted(i) \/ FailUncounted(i)
  PROVE  /\ requests' \in Seq(Request) /\ Len(requests') <= MaxRequests /\ Ids' = Ids
         /\ \A j \in Ids : requests'[j].key = requests[j].key /\ requests'[j].at = requests[j].at
         /\ \A j \in Ids : j # i => requests'[j] = requests[j]
         /\ Flying(i) /\ requests'[i].state # "flying"
         /\ requests'[i].end \in {requests[i].end, now}
         /\ FailCounted(i) => Counted' = Counted \cup {i} /\ requests'[i].end = now
         /\ ~FailCounted(i) => Counted' = Counted
         /\ i \notin Counted
<1>1. PICK s \in {"done", "counted", "uncounted"}, e \in Time :
         /\ requests' = [requests EXCEPT ![i] = [requests[i] EXCEPT !.state = s, !.end = e]]
         /\ e \in {requests[i].end, now}
         /\ s = "counted" <=> FailCounted(i)
         /\ FailCounted(i) => e = now
  BY Endings
<1>2. /\ requests' \in Seq(Request) /\ Len(requests') <= MaxRequests /\ Ids' = Ids
      /\ \A j \in Ids : requests'[j].key = requests[j].key /\ requests'[j].at = requests[j].at
      /\ \A j \in Ids : j # i => requests'[j] = requests[j]
      /\ requests'[i].state = s /\ requests'[i].end = e
  BY <1>1, Ended
<1>3. Flying(i) /\ i \notin Counted
  BY Endings DEF Flying, Counted
<1>4. s = "counted" => Counted' = Counted \cup {i}
  BY <1>2, <1>3 DEF Counted
<1>5. s # "counted" => Counted' = Counted
  BY <1>2, <1>3 DEF Counted
<1> QED
  BY <1>1, <1>2, <1>3, <1>4, <1>5

LEMMA StartFacts ==
  ASSUME TypeOK, NEW k \in Keys, Start(k)
  PROVE  Counted' = Counted
<1>1. \A j \in Ids : requests'[j].state = requests[j].state
  BY Started
<1>2. requests'[NextId].state = "flying" /\ Ids' = Ids \cup {NextId}
  BY Started
<1> QED
  BY <1>1, <1>2 DEF Counted

-----------------------------------------------------------------------------
(* Types and order *)

LEMMA TypeStep ==
  ASSUME TypeOK, Next
  PROVE  TypeOK'
<1>1. Kept \subseteq cache /\ Unexpired \subseteq cache /\ RecentSlots \subseteq slots
      /\ RecentFaults \subseteq faults
  BY DEF Kept, Unexpired, RecentSlots, RecentFaults
<1>2. ASSUME NEW k \in Keys, AnswerAtOnce(k)
      PROVE  TypeOK'
  BY <1>1, <1>2 DEF AnswerAtOnce, PruneRest, TypeOK, Ids
<1>3. ASSUME NEW k \in Keys, Start(k)
      PROVE  TypeOK'
  <2>1. /\ cache' \subseteq Ids' /\ evicted' \subseteq Ids' /\ slots' \subseteq Ids'
        /\ faults' \subseteq Ids'
    BY <1>1, <1>3, Started DEF Start, PruneRest, TypeOK, NextId
  <2>2. UNCHANGED <<now, failedUntil, openUntil>>
    BY <1>3 DEF Start
  <2> QED
    BY <1>3, <2>1, <2>2, Started DEF TypeOK
<1>4. ASSUME NEW i \in Ids, Succeed(i) \/ FailCounted(i) \/ FailUncounted(i)
      PROVE  TypeOK'
  <2>1. requests' \in Seq(Request) /\ Len(requests') <= MaxRequests /\ Ids' = Ids
    BY <1>4, EndFacts
  <2>2. /\ now' = now /\ evicted' = evicted /\ slots' = slots /\ cache' \subseteq cache
        /\ faults' \subseteq faults \cup {i}
    BY <1>4 DEF Succeed, FailCounted, FailUncounted, Forget, RecordFailure
  <2>3. now + FailureTTL \in 0..(MaxTime + FailureTTL) /\ now + CircuitOpen \in 0..(MaxTime + CircuitOpen)
    BY ProviderAssumption DEF TypeOK, Time
  <2>4. failedUntil' \in [Keys -> 0..(MaxTime + FailureTTL)]
    BY <1>4, <2>3 DEF Succeed, FailCounted, FailUncounted, Forget, TypeOK
  <2>5. openUntil' \in 0..(MaxTime + CircuitOpen)
    BY <1>4, <2>3 DEF Succeed, FailCounted, FailUncounted, RecordFailure, Later, TypeOK
  <2> QED
    BY <2>1, <2>2, <2>4, <2>5 DEF TypeOK
<1>5. CASE Tick
  BY <1>5, ProviderAssumption DEF Tick, TypeOK, Ids, Time
<1> QED
  BY <1>2, <1>3, <1>4, <1>5 DEF Next

LEMMA OrderedStep ==
  ASSUME TypeOK, Ordered, Next
  PROVE  Ordered'
<1>0. now \in Int /\ Timeout \in Nat
  BY ProviderAssumption DEF TypeOK, Time
<1>2. ASSUME NEW k \in Keys, AnswerAtOnce(k)
      PROVE  Ordered'
  BY <1>2 DEF AnswerAtOnce, Ordered, Ids, Flying
<1>3. ASSUME NEW k \in Keys, Start(k)
      PROVE  Ordered'
  <2>1. now' = now
    BY <1>3 DEF Start
  <2> QED
    BY <1>0, <1>3, <2>1, Started DEF Ordered, Flying
<1>4. ASSUME NEW i \in Ids, Succeed(i) \/ FailCounted(i) \/ FailUncounted(i)
      PROVE  Ordered'
  <2>1. now' = now
    BY <1>4 DEF Succeed, FailCounted, FailUncounted
  <2>2. \A j \in Ids : j # i => requests'[j] = requests[j]
    BY <1>4, EndFacts
  <2>3. /\ requests'[i].at = requests[i].at /\ requests'[i].end <= now /\ ~Flying(i)'
        /\ Ids' = Ids
    BY <1>0, <1>4, EndFacts DEF Ordered, Flying
  <2> QED
    BY <2>1, <2>2, <2>3 DEF Ordered, Flying
<1>5. CASE Tick
  <2>1. now' = now + 1 /\ requests' = requests
    BY <1>5 DEF Tick
  <2>2. \A i \in Ids : Flying(i) => now < requests[i].at + Timeout
    BY <1>5 DEF Tick, Flying
  <2>3. \A i \in Ids : requests[i].at \in Int /\ requests[i].end \in Int
    BY Elements
  <2> QED
    BY <1>0, <2>1, <2>2, <2>3 DEF Ordered, Ids, Flying
<1> QED
  BY <1>2, <1>3, <1>4, <1>5 DEF Next

-----------------------------------------------------------------------------
(* The rate *)

\* Whatever else it does, a step that is not a start keeps the counts.
LEMMA RateUntouched ==
  ASSUME RateBounded, Ids' = Ids, Ids \subseteq Nat,
         \A j \in Ids : requests'[j].at = requests[j].at
  PROVE  RateBounded'
<1>1. ASSUME NEW i \in Ids
      PROVE  {j \in 1..i : requests'[j].at > requests'[i].at - Window}
               = {j \in 1..i : requests[j].at > requests[i].at - Window}
  <2>1. \A j \in 1..i : j \in Ids
    BY DEF Ids
  <2> QED
    BY <2>1
<1> QED
  BY <1>1 DEF RateBounded

LEMMA RateStep ==
  ASSUME TypeOK, Ordered, SlotsKept, RateBounded, Next
  PROVE  SlotsKept' /\ RateBounded'
<1>0. /\ now \in Int /\ Window \in Nat /\ RateMax \in Nat /\ Len(requests) \in Nat
      /\ \A i \in Ids : requests[i].at \in Int
  BY ProviderAssumption, Elements DEF TypeOK, Time
<1>1. Ids \subseteq Nat
  BY DEF Ids
<1>2. ASSUME NEW k \in Keys, AnswerAtOnce(k)
      PROVE  SlotsKept' /\ RateBounded'
  BY <1>1, <1>2, RateUntouched DEF AnswerAtOnce, SlotsKept, RecentSlots, Ids
<1>3. ASSUME NEW k \in Keys, Start(k)
      PROVE  SlotsKept' /\ RateBounded'
  <2> DEFINE n == NextId
  <2>1. /\ n \notin Ids /\ n \in Nat /\ Ids' = Ids \cup {n} /\ Ids' = 1..n
        /\ \A j \in Ids : requests'[j] = requests[j]
        /\ requests'[n].at = now
    BY <1>3, Started
  <2>2. now' = now /\ slots' = RecentSlots \cup {n}
    BY <1>3 DEF Start, NextId
  <2>3. {j \in Ids : requests[j].at > now - Window} \subseteq RecentSlots
    BY DEF SlotsKept, RecentSlots
  <2>4. SlotsKept'
    BY <2>1, <2>2, <2>3 DEF SlotsKept
  <2> DEFINE inWindow == {j \in 1..n : requests'[j].at > now - Window}
  <2>5. inWindow \subseteq RecentSlots \cup {n}
    BY <2>1, <2>3
  <2>6. /\ IsFiniteSet(RecentSlots) /\ Cardinality(RecentSlots) \in Nat
        /\ n \notin RecentSlots /\ Cardinality(RecentSlots) < RateMax
    <3>1. RecentSlots \subseteq Ids
      BY DEF RecentSlots, TypeOK
    <3> QED
      BY <1>3, <2>1, <3>1, NumbersAreFinite DEF Start, Asks, MayStart
  <2>7. /\ IsFiniteSet(RecentSlots \cup {n})
        /\ Cardinality(RecentSlots \cup {n}) = Cardinality(RecentSlots) + 1
    BY <2>6, FS_AddElement
  <2>8. Cardinality(inWindow) <= Cardinality(RecentSlots \cup {n})
    BY <2>5, <2>7, FS_Subset
  <2>9. Cardinality(inWindow) \in Nat
    BY <2>5, <2>7, FS_Subset, FS_CardinalityType
  <2>10. Cardinality(inWindow) <= RateMax
    BY <1>0, <2>6, <2>7, <2>8, <2>9
  <2>11. ASSUME NEW i \in Ids'
         PROVE  Cardinality({j \in 1..i : requests'[j].at > requests'[i].at - Window}) <= RateMax
    <3>1. CASE i = n
      BY <2>1, <2>10, <3>1
    <3>2. CASE i # n
      <4>1. i \in Ids /\ \A j \in 1..i : j \in Ids
        BY <2>1, <3>2 DEF Ids
      <4>2. {j \in 1..i : requests'[j].at > requests'[i].at - Window}
              = {j \in 1..i : requests[j].at > requests[i].at - Window}
        BY <2>1, <4>1
      <4> QED
        BY <4>1, <4>2 DEF RateBounded
    <3> QED
      BY <3>1, <3>2
  <2> QED
    BY <2>4, <2>11 DEF RateBounded
<1>4. ASSUME NEW i \in Ids, Succeed(i) \/ FailCounted(i) \/ FailUncounted(i)
      PROVE  SlotsKept' /\ RateBounded'
  <2>1. now' = now /\ slots' = slots
    BY <1>4 DEF Succeed, FailCounted, FailUncounted
  <2>2. Ids' = Ids /\ \A j \in Ids : requests'[j].at = requests[j].at
    BY <1>4, EndFacts
  <2> QED
    BY <1>1, <2>1, <2>2, RateUntouched DEF SlotsKept
<1>5. CASE Tick
  <2>1. now' = now + 1 /\ requests' = requests /\ slots' = slots
    BY <1>5 DEF Tick
  <2> QED
    BY <1>0, <1>1, <2>1, RateUntouched DEF SlotsKept, Ids
<1> QED
  BY <1>2, <1>3, <1>4, <1>5 DEF Next

-----------------------------------------------------------------------------
(* One request of a key *)

\* The pruning throws no promise away that is still out, but for the size limit.
LEMMA PruneKeeps ==
  ASSUME TypeOK, Ordered, Guarded, PruneRest
  PROVE  /\ evicted \subseteq evicted'
         /\ \A i \in Ids : Flying(i) /\ i \notin evicted' =>
              i \in Kept \/ failedUntil[requests[i].key] > requests[i].at + Timeout
<1>1. evicted' = evicted \cup (Unexpired \ Kept)
  BY DEF PruneRest
<1>2. ASSUME NEW i \in Ids, Flying(i), i \in cache
      PROVE  i \in Unexpired
  <2>1. /\ now \in Int /\ requests[i].at \in Int
        /\ Timeout \in Nat /\ CacheTTL \in Nat /\ Timeout < CacheTTL
    BY Elements, ProviderAssumption DEF TypeOK, Time
  <2>2. now <= requests[i].at + Timeout
    BY <1>2 DEF Ordered
  <2> QED
    BY <1>2, <2>1, <2>2 DEF Unexpired
<1> QED
  BY <1>1, <1>2 DEF Guarded

LEMMA FlightStep ==
  ASSUME TypeOK, Ordered, Guarded, OneInFlight, Next
  PROVE  Guarded' /\ OneInFlight'
<1>0. /\ now \in Int /\ Timeout \in Nat /\ FailureTTL \in Nat /\ Timeout < FailureTTL
      /\ failedUntil \in [Keys -> Int]
  BY ProviderAssumption DEF TypeOK, Time
<1>1. ASSUME NEW k \in Keys, AnswerAtOnce(k)
      PROVE  Guarded' /\ OneInFlight'
  <2>1. /\ cache' = Kept /\ PruneRest
        /\ requests' = requests /\ failedUntil' = failedUntil
    BY <1>1 DEF AnswerAtOnce
  <2> QED
    BY <2>1, PruneKeeps DEF Guarded, OneInFlight, Ids, Flying
<1>2. ASSUME NEW k \in Keys, Start(k)
      PROVE  Guarded' /\ OneInFlight'
  <2>1. /\ NextId \notin Ids /\ NextId \in Nat /\ Ids' = Ids \cup {NextId} /\ Ids' = 1..NextId
        /\ \A j \in Ids : requests'[j] = requests[j] /\ j < NextId
        /\ requests'[NextId].key = k
    BY <1>2, Started
  <2>2. cache' = Kept \cup {NextId} /\ PruneRest /\ failedUntil' = failedUntil
    BY <1>2 DEF Start, NextId
  <2>3. /\ evicted \subseteq evicted'
        /\ \A i \in Ids : Flying(i) /\ i \notin evicted' =>
             i \in Kept \/ failedUntil[requests[i].key] > requests[i].at + Timeout
    BY <2>2, PruneKeeps
  <2>4. Guarded'
    BY <2>1, <2>2, <2>3 DEF Guarded, Flying
  <2>5. ASSUME NEW i \in Ids, Flying(i), requests[i].key = k
        PROVE  i \in evicted'
    <3>1. i \notin Kept /\ failedUntil[k] <= now
      BY <1>2, <2>5 DEF Start, Asks, Cached
    <3>2. now <= requests[i].at + Timeout /\ requests[i].at \in Int
      BY <2>5, Elements DEF Ordered
    <3> QED
      BY <1>0, <2>3, <2>5, <3>1, <3>2
  <2>6. ASSUME NEW i \in Ids', NEW j \in Ids', i < j, requests'[i].key = requests'[j].key,
               Flying(i)', Flying(j)'
        PROVE  i \in evicted'
    <3>1. i \in Ids /\ requests'[i] = requests[i]
      BY <2>1, <2>6
    <3>2. CASE j \in Ids
      BY <2>1, <2>3, <2>6, <3>1, <3>2 DEF OneInFlight, Flying
    <3>3. CASE j = NextId
      BY <2>1, <2>5, <2>6, <3>1, <3>3 DEF Flying
    <3> QED
      BY <2>1, <3>2, <3>3
  <2> QED
    BY <2>4, <2>6 DEF OneInFlight, Flying
<1>3. ASSUME NEW i \in Ids, Succeed(i) \/ FailCounted(i) \/ FailUncounted(i)
      PROVE  Guarded' /\ OneInFlight'
  <2>1. /\ Ids' = Ids /\ \A j \in Ids : j # i => requests'[j] = requests[j]
        /\ ~Flying(i)' /\ evicted' = evicted
    BY <1>3, EndFacts DEF Succeed, FailCounted, FailUncounted, Flying
  <2>2. OneInFlight'
    BY <2>1 DEF OneInFlight, Flying
  <2>3. ASSUME NEW j \in Ids, j # i, Flying(j), j \notin evicted
        PROVE  j \in cache' \/ failedUntil'[requests[j].key] > requests[j].at + Timeout
    <3>1. j \in cache \/ failedUntil[requests[j].key] > requests[j].at + Timeout
      BY <2>3 DEF Guarded
    <3>2. CASE Succeed(i)
      BY <3>1, <3>2 DEF Succeed
    <3>3. CASE Forget(i)
      <4>1. /\ cache' = {c \in cache : requests[c].key # requests[i].key}
            /\ failedUntil' = [failedUntil EXCEPT ![requests[i].key] = now + FailureTTL]
        BY <3>3 DEF Forget
      <4>2. /\ requests[j].at \in Int /\ requests[j].at <= now
            /\ requests[i].key \in Keys /\ requests[j].key \in Keys
        BY Elements DEF Ordered
      <4>3. CASE requests[j].key = requests[i].key
        BY <1>0, <4>1, <4>2, <4>3
      <4>4. CASE requests[j].key # requests[i].key
        BY <1>0, <3>1, <4>1, <4>2, <4>4
      <4> QED
        BY <4>3, <4>4
    <3> QED
      BY <1>3, <3>2, <3>3 DEF FailCounted, FailUncounted
  <2> QED
    BY <2>1, <2>2, <2>3 DEF Guarded, Flying
<1>4. CASE Tick
  BY <1>4 DEF Tick, Guarded, OneInFlight, Ids, Flying
<1> QED
  BY <1>1, <1>2, <1>3, <1>4 DEF Next

-----------------------------------------------------------------------------
(* The circuit *)

\* Burst, of the requests before or after a step.
BurstIn(r, F, window, t) ==
  /\ Cardinality(F) >= CircuitFailures
  /\ \A i \in F : r[i].end <= t /\ r[i].end > t - window

\* A step that adds no counted failure, no start and leaves the circuit alone.
LEMMA CircuitUntouched ==
  ASSUME OpenLongEnough, CircuitFollowsFailures,
         openUntil' = openUntil, Ids' = Ids, Counted' = Counted,
         \A j \in Counted : requests'[j].end = requests[j].end,
         \A j \in Ids : requests'[j].at = requests[j].at
  PROVE  OpenLongEnough' /\ CircuitFollowsFailures'
<1>1. OpenLongEnough'
  BY DEF OpenLongEnough, Burst, BurstIn
<1>2. ASSUME NEW F \in SUBSET Counted, NEW l \in F, NEW i \in Ids,
             BurstIn(requests', F, CircuitWindow, requests'[l].end)
      PROVE  ~(requests'[l].end < requests'[i].at /\ requests'[i].at < requests'[l].end + CircuitOpen)
  BY <1>2 DEF CircuitFollowsFailures, Burst, BurstIn
<1>3. openUntil > 0 =>
        \E F \in SUBSET Counted : BurstIn(requests', F, CircuitWindow + Timeout, openUntil - CircuitOpen)
  BY DEF CircuitFollowsFailures, Burst, BurstIn
<1> QED
  BY <1>1, <1>2, <1>3 DEF CircuitFollowsFailures, Burst, BurstIn

LEMMA CircuitStep ==
  ASSUME TypeOK, Ordered, FaultsKept, FaultsFresh, OpenLongEnough, CircuitFollowsFailures, Next
  PROVE  FaultsKept' /\ FaultsFresh' /\ OpenLongEnough' /\ CircuitFollowsFailures'
<1>0. /\ now \in Int /\ openUntil \in Int /\ Timeout \in Nat
      /\ CircuitWindow \in Nat /\ CircuitWindow > 0 /\ CircuitOpen \in Nat /\ CircuitFailures \in Nat
      /\ \A j \in Ids : requests[j].at \in Int /\ requests[j].end \in Int
      /\ Counted \subseteq Ids
  BY ProviderAssumption, Elements DEF TypeOK, Time, Counted
<1>1. ASSUME NEW k \in Keys, AnswerAtOnce(k)
      PROVE  FaultsKept' /\ FaultsFresh' /\ OpenLongEnough' /\ CircuitFollowsFailures'
  <2>1. /\ requests' = requests /\ now' = now /\ openUntil' = openUntil
        /\ faults' = RecentFaults
    BY <1>1 DEF AnswerAtOnce, PruneRest
  <2>2. Ids' = Ids /\ Counted' = Counted
    BY <2>1 DEF Ids, Counted
  <2>3. FaultsKept' /\ FaultsFresh'
    BY <2>1, <2>2 DEF FaultsKept, FaultsFresh, RecentFaults, Flying
  <2> QED
    BY <2>1, <2>2, <2>3, CircuitUntouched
<1>2. ASSUME NEW k \in Keys, Start(k)
      PROVE  FaultsKept' /\ FaultsFresh' /\ OpenLongEnough' /\ CircuitFollowsFailures'
  <2>1. /\ Ids' = Ids \cup {NextId} /\ NextId \notin Ids
        /\ \A j \in Ids : requests'[j] = requests[j]
        /\ requests'[NextId].at = now
    BY <1>2, Started
  <2>2. Counted' = Counted
    BY <1>2, StartFacts
  <2>3. now' = now /\ openUntil' = openUntil /\ faults' = RecentFaults /\ openUntil <= now
    BY <1>2 DEF Start, PruneRest, Asks, MayStart
  <2>4. FaultsKept'
    BY <1>0, <2>1, <2>2, <2>3 DEF FaultsKept, RecentFaults
  <2>5. FaultsFresh'
    <3>1. /\ RecentFaults \subseteq faults /\ RecentFaults \subseteq Ids
          /\ \A f \in RecentFaults : requests[f].end > now - CircuitWindow
      BY DEF RecentFaults, TypeOK
    <3> QED
      BY <2>1, <2>3, <3>1 DEF FaultsFresh, Flying
  <2>6. \A j \in Counted : requests'[j].end = requests[j].end
    BY <1>0, <2>1
  <2>7. OpenLongEnough'
    BY <2>2, <2>3, <2>6 DEF OpenLongEnough, Burst, BurstIn
  <2>8. ASSUME NEW F \in SUBSET Counted, NEW l \in F, NEW i \in Ids',
               Burst(F, CircuitWindow, requests[l].end)
        PROVE  ~(requests[l].end < requests'[i].at /\ requests'[i].at < requests[l].end + CircuitOpen)
    <3>1. CASE i \in Ids
      BY <2>1, <2>8, <3>1 DEF CircuitFollowsFailures
    <3>2. CASE i = NextId
      <4>1. openUntil >= requests[l].end + CircuitOpen
        BY <2>8 DEF OpenLongEnough
      <4>2. requests[l].end \in Int
        BY <1>0
      <4> QED
        BY <1>0, <2>1, <2>3, <3>2, <4>1, <4>2
    <3> QED
      BY <2>1, <3>1, <3>2
  <2>9. openUntil > 0 =>
          \E F \in SUBSET Counted : Burst(F, CircuitWindow + Timeout, openUntil - CircuitOpen)
    BY DEF CircuitFollowsFailures
  <2>10. ASSUME NEW F \in SUBSET Counted, NEW w, NEW t
         PROVE  BurstIn(requests', F, w, t) <=> Burst(F, w, t)
    BY <2>6 DEF Burst, BurstIn
  <2> QED
    BY <2>2, <2>3, <2>4, <2>5, <2>6, <2>7, <2>8, <2>9, <2>10 DEF CircuitFollowsFailures, Burst, BurstIn
<1>3. ASSUME NEW i \in Ids, Succeed(i) \/ FailUncounted(i), ~FailCounted(i)
      PROVE  FaultsKept' /\ FaultsFresh' /\ OpenLongEnough' /\ CircuitFollowsFailures'
  <2>1. /\ Ids' = Ids /\ Counted' = Counted /\ i \notin Counted /\ ~Flying(i)'
        /\ \A j \in Ids : j # i => requests'[j] = requests[j]
        /\ \A j \in Ids : requests'[j].at = requests[j].at
    BY <1>3, EndFacts DEF Flying
  <2>2. now' = now /\ openUntil' = openUntil /\ faults' = faults
    BY <1>3 DEF Succeed, FailUncounted
  <2>3. \A j \in Counted : requests'[j] = requests[j]
    BY <1>0, <2>1
  <2>4. FaultsKept'
    BY <2>1, <2>2, <2>3 DEF FaultsKept
  <2>5. faults \subseteq Counted
    BY DEF FaultsKept
  <2>6. FaultsFresh'
    BY <2>1, <2>2, <2>3, <2>5 DEF FaultsFresh, Flying
  <2> QED
    BY <2>1, <2>2, <2>3, <2>4, <2>6, CircuitUntouched
<1>4. ASSUME NEW i \in Ids, FailCounted(i)
      PROVE  FaultsKept' /\ FaultsFresh' /\ OpenLongEnough' /\ CircuitFollowsFailures'
  <2>1. /\ Ids' = Ids /\ Counted' = Counted \cup {i} /\ i \notin Counted
        /\ Flying(i) /\ ~Flying(i)' /\ requests'[i].end = now
        /\ \A j \in Ids : j # i => requests'[j] = requests[j]
        /\ \A j \in Ids : requests'[j].at = requests[j].at
    BY <1>4, EndFacts DEF Flying
  <2>2. /\ now' = now /\ faults' = faults \cup {i} /\ RecordFailure(i)
    BY <1>4 DEF FailCounted, RecordFailure
  <2>3. \A j \in Counted : requests'[j] = requests[j]
    BY <1>0, <2>1
  <2>4. FaultsKept'
    BY <2>1, <2>2, <2>3 DEF FaultsKept
  <2>5. faults \subseteq Counted /\ faults \subseteq Ids /\ i \notin faults
    BY <2>1 DEF FaultsKept, TypeOK
  <2>6. FaultsFresh'
    <3>1. ASSUME NEW j \in Ids, Flying(j), NEW f \in faults', j # i
          PROVE  requests'[f].end > requests[j].at - CircuitWindow
      <4>1. CASE f = i
        BY <1>0, <2>1, <4>1 DEF Ordered
      <4>2. CASE f \in faults
        BY <2>3, <2>5, <3>1, <4>2 DEF FaultsFresh
      <4> QED
        BY <2>2, <4>1, <4>2
    <3> QED
      BY <2>1, <3>1 DEF FaultsFresh, Flying
  <2>7. IsFiniteSet(faults') /\ Cardinality(faults') \in Nat
    BY <2>2, <2>5, NumbersAreFinite
  <2>8. /\ openUntil' \in {openUntil, now + CircuitOpen} /\ openUntil' >= openUntil
        /\ Cardinality(faults') >= CircuitFailures => openUntil' >= now + CircuitOpen
        /\ Cardinality(faults') < CircuitFailures => openUntil' = openUntil
    BY <1>0, <2>2, <2>7 DEF RecordFailure, Later
  <2>9. \A j \in Counted' : requests'[j].end \in Int /\ requests'[j].end <= now
    BY <1>0, <2>1, <2>3 DEF Ordered
  \* A burst that has the new failure ends with it, and is among the faults.
  <2>10. ASSUME NEW F \in SUBSET Counted', NEW l \in F, i \in F,
                BurstIn(requests', F, CircuitWindow, requests'[l].end)
         PROVE  requests'[l].end = now /\ Cardinality(faults') >= CircuitFailures
    <3>1. /\ Cardinality(F) >= CircuitFailures
          /\ \A f \in F : requests'[f].end <= requests'[l].end
                          /\ requests'[f].end > requests'[l].end - CircuitWindow
      BY <2>10 DEF Burst, BurstIn
    <3>2. requests'[l].end = now
      BY <1>0, <2>1, <2>9, <2>10, <3>1
    <3>3. F \subseteq faults'
      BY <2>1, <2>2, <2>3, <3>1, <3>2 DEF FaultsKept
    <3>4. Cardinality(F) <= Cardinality(faults') /\ Cardinality(F) \in Nat
      BY <2>7, <3>3, FS_Subset, FS_CardinalityType
    <3> QED
      BY <1>0, <2>7, <3>1, <3>2, <3>4
  <2>11. ASSUME NEW F \in SUBSET Counted, NEW w, NEW t
         PROVE  BurstIn(requests', F, w, t) <=> Burst(F, w, t)
    BY <2>3 DEF Burst, BurstIn
  <2>12. ASSUME NEW F \in SUBSET Counted', NEW l \in F,
                BurstIn(requests', F, CircuitWindow, requests'[l].end)
         PROVE  /\ openUntil' >= requests'[l].end + CircuitOpen
                /\ \A j \in Ids :
                     ~(requests'[l].end < requests[j].at /\ requests[j].at < requests'[l].end + CircuitOpen)
    <3>1. CASE i \in F
      <4>1. requests'[l].end = now /\ openUntil' >= now + CircuitOpen
        BY <2>8, <2>10, <2>12, <3>1
      <4> QED
        BY <1>0, <4>1 DEF Ordered
    <3>2. CASE i \notin F
      <4>1. F \in SUBSET Counted /\ requests'[l].end = requests[l].end /\ requests[l].end \in Int
        BY <1>0, <2>1, <2>3, <3>2
      <4>2. Burst(F, CircuitWindow, requests[l].end)
        BY <2>3, <2>12, <4>1 DEF Burst, BurstIn
      <4>3. openUntil >= requests[l].end + CircuitOpen
        BY <4>1, <4>2 DEF OpenLongEnough
      <4>4. \A j \in Ids :
              ~(requests[l].end < requests[j].at /\ requests[j].at < requests[l].end + CircuitOpen)
        BY <4>1, <4>2 DEF CircuitFollowsFailures
      <4> QED
        BY <1>0, <2>8, <4>1, <4>3, <4>4
    <3> QED
      BY <3>1, <3>2
  <2>13. ASSUME openUntil' > 0
         PROVE  \E F \in SUBSET Counted' :
                  BurstIn(requests', F, CircuitWindow + Timeout, openUntil' - CircuitOpen)
    <3>1. CASE openUntil' = openUntil
      <4>1. PICK F \in SUBSET Counted : Burst(F, CircuitWindow + Timeout, openUntil - CircuitOpen)
        BY <2>13, <3>1 DEF CircuitFollowsFailures
      <4>2. F \in SUBSET Counted' /\ BurstIn(requests', F, CircuitWindow + Timeout, openUntil' - CircuitOpen)
        BY <2>1, <2>3, <3>1, <4>1 DEF Burst, BurstIn
      <4> QED
        BY <4>2
    <3>2. CASE openUntil' # openUntil
      <4>1. /\ Cardinality(faults') >= CircuitFailures
            /\ openUntil' - CircuitOpen = now
        <5>1. openUntil' = now + CircuitOpen /\ ~(Cardinality(faults') < CircuitFailures)
          BY <2>8, <3>2
        <5> QED
          BY <1>0, <2>7, <5>1
      <4>2. ASSUME NEW f \in faults'
            PROVE  requests'[f].end <= now /\ requests'[f].end > now - (CircuitWindow + Timeout)
        <5>1. CASE f = i
          BY <1>0, <2>1, <5>1
        <5>2. CASE f \in faults
          <6>1. /\ requests'[f] = requests[f] /\ requests[f].end \in Int
                /\ requests[f].end > requests[i].at - CircuitWindow
                /\ now <= requests[i].at + Timeout /\ requests[f].end <= now
            BY <1>0, <2>1, <2>3, <2>5, <5>2 DEF FaultsFresh, Ordered
          <6> QED
            BY <1>0, <6>1
        <5> QED
          BY <2>2, <5>1, <5>2
      <4>3. faults' \in SUBSET Counted'
        BY <2>1, <2>2, <2>5
      <4>4. BurstIn(requests', faults', CircuitWindow + Timeout, openUntil' - CircuitOpen)
        BY <4>1, <4>2 DEF Burst, BurstIn
      <4> QED
        BY <4>3, <4>4
    <3> QED
      BY <3>1, <3>2
  <2>14. OpenLongEnough'
    BY <2>12 DEF OpenLongEnough, Burst, BurstIn
  <2>15. CircuitFollowsFailures'
    BY <2>1, <2>12, <2>13 DEF CircuitFollowsFailures, Burst, BurstIn
  <2> QED
    BY <2>4, <2>6, <2>14, <2>15
<1>5. CASE Tick
  <2>1. /\ now' = now + 1 /\ requests' = requests /\ faults' = faults /\ openUntil' = openUntil
    BY <1>5 DEF Tick
  <2>2. Ids' = Ids /\ Counted' = Counted
    BY <2>1 DEF Ids, Counted
  <2>3. FaultsKept' /\ FaultsFresh'
    BY <1>0, <2>1, <2>2 DEF FaultsKept, FaultsFresh, Flying
  <2> QED
    BY <2>1, <2>2, <2>3, CircuitUntouched
<1> QED
  BY <1>1, <1>2, <1>3, <1>4, <1>5 DEF Next

-----------------------------------------------------------------------------
(* The invariant *)

LEMMA InitHolds == Init => IInv
<1> SUFFICES ASSUME Init PROVE IInv
  OBVIOUS
<1>1. Ids = {} /\ Counted = {}
  BY DEF Init, Ids, Counted
<1>2. TypeOK
  BY ProviderAssumption DEF Init, TypeOK, Time, Ids
<1>3. Ordered /\ SlotsKept /\ RateBounded /\ Guarded /\ OneInFlight
  BY <1>1 DEF Ordered, SlotsKept, RateBounded, Guarded, OneInFlight
<1>4. FaultsKept /\ FaultsFresh /\ OpenLongEnough /\ CircuitFollowsFailures
  BY <1>1 DEF Init, FaultsKept, FaultsFresh, OpenLongEnough, CircuitFollowsFailures
<1> QED
  BY <1>2, <1>3, <1>4 DEF IInv

LEMMA StepHolds == IInv /\ [Next]_vars => IInv'
<1>1. ASSUME IInv, Next
      PROVE  IInv'
  BY <1>1, TypeStep, OrderedStep, RateStep, FlightStep, CircuitStep DEF IInv
<1>2. ASSUME IInv, UNCHANGED vars
      PROVE  IInv'
  <2>1. /\ requests' = requests /\ now' = now /\ cache' = cache /\ evicted' = evicted
        /\ slots' = slots /\ failedUntil' = failedUntil /\ faults' = faults
        /\ openUntil' = openUntil
    BY <1>2 DEF vars
  <2>2. Ids' = Ids /\ Counted' = Counted
    BY <2>1 DEF Ids, Counted
  <2>3. TypeOK' /\ Ordered' /\ SlotsKept' /\ RateBounded' /\ Guarded' /\ OneInFlight'
    BY <1>2, <2>1, <2>2
    DEF IInv, TypeOK, Ordered, SlotsKept, RateBounded, Guarded, OneInFlight, Flying
  <2>4. FaultsKept' /\ FaultsFresh' /\ OpenLongEnough' /\ CircuitFollowsFailures'
    BY <1>2, <2>1, <2>2, CircuitUntouched DEF IInv, FaultsKept, FaultsFresh, Flying
  <2> QED
    BY <2>3, <2>4 DEF IInv
<1> QED
  BY <1>1, <1>2

LEMMA Invariance == Spec => []IInv
  BY InitHolds, StepHolds, PTL DEF Spec

\* The caches only hold requests that were started, and the clock and the pauses
\* stay within their bounds.
THEOREM TypeCorrect == Spec => []TypeOK
<1>1. IInv => TypeOK
  BY DEF IInv
<1> QED
  BY <1>1, Invariance, PTL

\* No Window has more than RateMax starts (consumeEnturJourneyRequestSlot).
THEOREM RateRespected == Spec => []RateBounded
<1>1. IInv => RateBounded
  BY DEF IInv
<1> QED
  BY <1>1, Invariance, PTL

\* Two requests of a key are out together only after an eviction.
THEOREM OneRequestPerKey == Spec => []OneInFlight
<1>1. IInv => OneInFlight
  BY DEF IInv
<1> QED
  BY <1>1, Invariance, PTL

\* The circuit opens after a burst of failures, keeps everything from starting
\* and never opens without one (recordEnturJourneyFailure).
THEOREM CircuitJust == Spec => []CircuitFollowsFailures
<1>1. IInv => CircuitFollowsFailures
  BY DEF IInv
<1> QED
  BY <1>1, Invariance, PTL
=============================================================================
