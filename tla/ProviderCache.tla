--------------------------- MODULE ProviderCache ---------------------------
(***************************************************************************)
(* A request-time provider behind the server's memory: Entur's journey     *)
(* planner (travel-plan.ts).  The departure board and the place            *)
(* suggestions are the same without the circuit breaker, which is          *)
(* CircuitFailures beyond reach.                                           *)
(*                                                                         *)
(* Callers of one key share one promise, kept CacheTTL from its start and  *)
(* evicted, oldest first, when the cache is too large.  A failure deletes  *)
(* whatever the cache has for its key by then and is remembered for        *)
(* FailureTTL.  No more than RateMax requests start in a Window.  So many  *)
(* failures in CircuitWindow pause all requests for CircuitOpen.  A request*)
(* is aborted after Timeout.                                               *)
(*                                                                         *)
(* What expired is only thrown away when the next caller comes.  The maps  *)
(* and arrays of the code hold requests here, by number in the order they  *)
(* started; all that were ever started are kept, as a history.             *)
(***************************************************************************)
EXTENDS Integers, Sequences, FiniteSets

CONSTANTS
  Keys,             \* what callers ask for
  Timeout, CacheTTL, CacheMax, FailureTTL,
  Window, RateMax,
  CircuitWindow, CircuitFailures, CircuitOpen,
  MaxTime,          \* bound: the clock
  MaxRequests       \* bound: requests started

\* A request is over before its cache entry, and before the memory of a failure
\* that came after its start, is: 4 s against 45 s and 15 s, 3.5 s against 25 s
\* and 10 s, 2.5 s against 300 s and 15 s.
ASSUME ProviderAssumption ==
  /\ {Timeout, CacheTTL, CacheMax, FailureTTL, Window, RateMax, CircuitWindow,
      CircuitFailures, CircuitOpen, MaxTime, MaxRequests} \subseteq Nat
  /\ Timeout < CacheTTL /\ Timeout < FailureTTL
  /\ RateMax > 0 /\ CircuitWindow > 0 /\ CircuitFailures > 0

VARIABLES
  now,
  requests,    \* Seq([key, at, end, state]): end is the time of a failure
  cache,       \* enturJourneyCache
  evicted,     \* history: requests whose promise the size limit threw out
  slots,       \* enturJourneyRequestTimestamps
  failedUntil, \* enturJourneyFailures: [Keys -> expiresAt]
  faults,      \* enturJourneyFailureTimestamps
  openUntil    \* enturJourneyCircuitOpenUntil

vars == <<now, requests, cache, evicted, slots, failedUntil, faults, openUntil>>

Ids == 1..Len(requests)

Time == 0..MaxTime

Request == [key : Keys, at : Time, end : Time,
            state : {"flying", "done", "counted", "uncounted"}]

TypeOK ==
  /\ now \in Time
  /\ requests \in Seq(Request) /\ Len(requests) <= MaxRequests
  /\ cache \subseteq Ids /\ evicted \subseteq Ids
  /\ slots \subseteq Ids /\ faults \subseteq Ids
  /\ failedUntil \in [Keys -> 0..(MaxTime + FailureTTL)]
  /\ openUntil \in 0..(MaxTime + CircuitOpen)

Init ==
  /\ now = 0 /\ requests = << >>
  /\ cache = {} /\ evicted = {} /\ slots = {} /\ faults = {}
  /\ failedUntil = [k \in Keys |-> 0]
  /\ openUntil = 0

-----------------------------------------------------------------------------
(* pruneEnturJourneyCache *)

Unexpired == {i \in cache : requests[i].at + CacheTTL > now}

\* The first entries of the map go while it is larger than its limit.
Kept == {i \in Unexpired : Cardinality({j \in Unexpired : j > i}) < CacheMax}

\* A bug to catch: the window ends a tick early.
RecentSlots_Short == {i \in slots : requests[i].at > now - Window + 1}

RecentSlots == {i \in slots : requests[i].at > now - Window}

RecentFaults == {i \in faults : requests[i].end > now - CircuitWindow}

\* All but the entries of the cache, which each caller says.
PruneRest ==
  /\ evicted' = evicted \cup (Unexpired \ Kept)
  /\ faults' = RecentFaults

-----------------------------------------------------------------------------
(* fetchEnturJourneyItineraries *)

Cached(k) == \E i \in Kept : requests[i].key = k

\* consumeEnturJourneyRequestSlot
MayStart ==
  /\ openUntil <= now
  /\ Cardinality(RecentSlots) < RateMax

Asks(k) ==
  /\ ~Cached(k)
  /\ failedUntil[k] <= now
  /\ MayStart

\* A shared promise, a remembered failure, an open circuit or no slot.
AnswerAtOnce(k) ==
  /\ ~Asks(k)
  /\ cache' = Kept /\ slots' = RecentSlots
  /\ PruneRest
  /\ UNCHANGED <<now, requests, failedUntil, openUntil>>

Start(k) ==
  /\ Asks(k)
  /\ Len(requests) < MaxRequests
  /\ requests' = Append(requests, [key |-> k, at |-> now, end |-> now, state |-> "flying"])
  /\ cache' = Kept \cup {Len(requests) + 1}
  /\ slots' = RecentSlots \cup {Len(requests) + 1}
  /\ PruneRest
  /\ UNCHANGED <<now, failedUntil, openUntil>>

Succeed(i) ==
  /\ requests[i].state = "flying"
  /\ requests' = [requests EXCEPT ![i].state = "done"]
  /\ UNCHANGED <<now, cache, evicted, slots, failedUntil, faults, openUntil>>

\* A bug to catch: the failure is not remembered.
Forget_KeyOnly(i) ==
  /\ cache' = {j \in cache : requests[j].key # requests[i].key}
  /\ UNCHANGED failedUntil

\* What a failure does for its key.
Forget(i) ==
  LET k == requests[i].key IN
  /\ cache' = {j \in cache : requests[j].key # k}
  /\ failedUntil' = [failedUntil EXCEPT ![k] = now + FailureTTL]

\* recordEnturJourneyFailure
Later(s, t) == IF s >= t THEN s ELSE t

\* A bug to catch: the pause lasts from the failure that is one too many.
RecordFailure_Late(i) ==
  /\ faults' = faults \cup {i}
  /\ openUntil' = IF Cardinality(faults) >= CircuitFailures
                  THEN Later(openUntil, now + CircuitOpen)
                  ELSE openUntil

RecordFailure(i) ==
  /\ faults' = faults \cup {i}
  /\ openUntil' = IF Cardinality(faults') >= CircuitFailures
                  THEN Later(openUntil, now + CircuitOpen)
                  ELSE openUntil

Fails(i, state) ==
  /\ requests[i].state = "flying"
  /\ requests' = [requests EXCEPT ![i] = [@ EXCEPT !.state = state, !.end = now]]

\* A timeout, no connection, 429, 5xx or GraphQL errors.
FailCounted(i) ==
  /\ Fails(i, "counted")
  /\ Forget(i)
  /\ RecordFailure(i)
  /\ UNCHANGED <<now, evicted, slots>>

\* Another status code.
FailUncounted(i) ==
  /\ Fails(i, "uncounted")
  /\ Forget(i)
  /\ UNCHANGED <<now, evicted, slots, faults, openUntil>>

\* A request is aborted when its time is up.
Tick ==
  /\ now < MaxTime
  /\ \A i \in Ids : requests[i].state = "flying" => now < requests[i].at + Timeout
  /\ now' = now + 1
  /\ UNCHANGED <<requests, cache, evicted, slots, failedUntil, faults, openUntil>>

Next ==
  \/ \E k \in Keys : AnswerAtOnce(k) \/ Start(k)
  \/ \E i \in Ids : Succeed(i) \/ FailCounted(i) \/ FailUncounted(i)
  \/ Tick

Spec == Init /\ [][Next]_vars

-----------------------------------------------------------------------------

\* The provider is never asked more than RateMax times in a Window that ends
\* with any request, whatever the lazy pruning left or removed, and however
\* many callers or failures there were (consumeEnturJourneyRequestSlot).
RateBounded ==
  \A i \in Ids :
    Cardinality({j \in 1..i : requests[j].at > requests[i].at - Window}) <= RateMax

\* One request of a key at a time, unless the older one lost its place in a full
\* cache: also when that one fails, and takes the newer one's promise with it,
\* no third is started while the second is out (the cache.delete(cacheKey) in
\* the catch, and the failure it leaves behind).
OneInFlight ==
  \A i \in Ids : \A j \in Ids :
    (/\ i < j /\ requests[i].key = requests[j].key
     /\ requests[i].state = "flying" /\ requests[j].state = "flying") => i \in evicted

Counted == {i \in Ids : requests[i].state = "counted"}

\* Failures that came within a window, the last of them at time t.
Burst(F, window, t) ==
  /\ Cardinality(F) >= CircuitFailures
  /\ \A i \in F : requests[i].end <= t /\ requests[i].end > t - window

\* After enough failures in CircuitWindow nothing starts for CircuitOpen; and the
\* circuit is open only because of so many within that window and the time one
\* request may take, by which the pruning before the last one's start is late.
CircuitFollowsFailures ==
  /\ \A F \in SUBSET Counted : \A l \in F : \A i \in Ids :
       Burst(F, CircuitWindow, requests[l].end)
         => ~(requests[l].end < requests[i].at /\ requests[i].at < requests[l].end + CircuitOpen)
  /\ openUntil > 0 =>
       \E F \in SUBSET Counted : Burst(F, CircuitWindow + Timeout, openUntil - CircuitOpen)
=============================================================================
