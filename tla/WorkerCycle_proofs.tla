------------------------- MODULE WorkerCycle_proofs -------------------------
(***************************************************************************)
(* Proofs about the worker's cycle, for any records, keys, snapshots and   *)
(* bounds: its types, that the stored cursor never runs ahead of the stored*)
(* events, and that a record's disappearance never resolves a situation.   *)
(*                                                                         *)
(* The cursor property alone is not inductive.  While a snapshot is being  *)
(* stored, the steps done so far have to say what they stored of it        *)
(* (PartlyStored, WhollyStored), and the snapshot must not be older than   *)
(* the cursor it will replace (SnapIsNewer).                               *)
(***************************************************************************)
EXTENDS WorkerCycle, FiniteSetTheorems, WellFoundedInduction, TLAPS

SnapIsNewer == snap # 0 => cursor <= snap

PartlyStored ==
  (pc = "upserted" /\ snap # 0) =>
    \A r \in Records :
      feed[snap].records[r] # "absent" => rows[r].kind = feed[snap].records[r]

WhollyStored ==
  (pc = "expired" /\ snap # 0) =>
    \A r \in Records : Agrees(rows[r].kind, feed[snap].records[r])

\* A current row is what a publication says that is not older than the cursor.
RowsAreBacked ==
  \A r \in Records : rows[r].kind \in CurrentKinds =>
    \E v \in 1..Len(feed) : v >= cursor /\ feed[v].records[r] = rows[r].kind

ClockCounts == clock - Len(feed) \in 0..MaxOwnerActs

IInv == TypeOK /\ ClockCounts /\ SnapIsNewer /\ PartlyStored /\ WhollyStored
        /\ RowsAreBacked /\ CursorIsStored

-----------------------------------------------------------------------------
(* The rules return situations *)

\* A nonempty set of numbers has a smallest element.
LEMMA HasMinimum ==
  ASSUME NEW T, T \subseteq Nat, T # {}
  PROVE  \E x \in T : \A y \in T : x <= y
<1> DEFINE Less == {ss \in Nat \X Nat : ss[1] < ss[2]}
<1>1. IsWellFoundedOn(Less, Nat)
  BY NatLessThanWellFounded DEF OpToRel
<1> HIDE DEF Less
<1>2. PICK x \in T : \A y \in T : <<y, x>> \notin Less
  BY <1>1, WFMin
<1>3. \A y \in T : ~(y < x)
  BY <1>2 DEF Less
<1> QED
  BY <1>3

\* A nonempty set of numbers below a bound has a greatest element.
LEMMA HasMaximum ==
  ASSUME NEW N \in Nat, NEW T, T \subseteq 0..N, T # {}
  PROVE  \E x \in T : \A y \in T : y <= x
<1> DEFINE U == {N - x : x \in T}
<1>0. \A x \in T : x \in Nat /\ N - x \in Nat
  OBVIOUS
<1>1. U \subseteq Nat /\ U # {}
  BY <1>0
<1>2. PICK u \in U : \A w \in U : u <= w
  BY <1>1, HasMinimum
<1>3. PICK x \in T : u = N - x
  OBVIOUS
<1>4. \A y \in T : u <= N - y
  BY <1>2
<1> QED
  BY <1>3, <1>4

LEMMA FirstType ==
  ASSUME NEW order \in Orders, NEW S, S \subseteq Records, S # {}
  PROVE  First(order, S) \in S
<1> DEFINE T == {order[r] : r \in S}
<1>1. T \subseteq Nat /\ T # {}
  BY RulesAssumption
<1>2. PICK x \in T : \A y \in T : x <= y
  BY <1>1, HasMinimum
<1>3. PICK r \in S : x = order[r]
  OBVIOUS
<1>4. \A q \in S : order[r] <= order[q]
  BY <1>2, <1>3
<1> QED
  BY <1>4 DEF First

LEMMA LatestType ==
  ASSUME NEW rs, NEW k \in GroupedKeys(rs), NEW N \in Nat,
         \A r \in DOMAIN rs : rs[r].at \in 0..N
  PROVE  Latest(rs, k) \in 0..N
<1> DEFINE T == {rs[r].at : r \in Group(rs, k)}
<1>1. T \subseteq 0..N /\ T # {}
  BY DEF GroupedKeys, Group
<1>2. PICK t \in T : \A y \in T : y <= t
  BY <1>1, HasMaximum
<1>3. \A r \in Group(rs, k) : rs[r].at <= t
  BY <1>2
<1>4. Latest(rs, k) \in T
  BY <1>3 DEF Latest
<1> QED
  BY <1>1, <1>4

LEMMA MergeType ==
  ASSUME NEW existing \in Situation \cup {None}, NEW incoming \in Situation
  PROVE  Merge(existing, incoming) \in Situation
<1>1. CASE existing = None
  BY <1>1 DEF Merge
<1>2. CASE existing # None
  <2>1. existing \in Situation
    BY <1>2
  <2>2. Lifecycle(existing, incoming) \in {"preliminary", "active", "resolved", "dismissed"}
    BY <2>1 DEF Lifecycle, Situation, Reopens
  <2> QED
    BY <1>2, <2>2 DEF Merge, Situation
<1> QED
  BY <1>1, <1>2

-----------------------------------------------------------------------------
(* One lemma per action *)

LEMMA InitInv == Init => IInv
<1> SUFFICES ASSUME Init PROVE IInv
  OBVIOUS
<1>1. TypeOK
  BY RulesAssumption, CycleAssumption
     DEF Init, TypeOK, Time, Row, Ids, Situation, None, Publication
<1>2. ClockCounts
  BY CycleAssumption DEF Init, ClockCounts
<1> QED
  BY <1>1, <1>2 DEF IInv, Init, SnapIsNewer, PartlyStored, WhollyStored, RowsAreBacked,
     CursorIsStored, CurrentKinds

LEMMA PublishInv ==
  ASSUME IInv, NEW records \in Snapshots, Publish(records)
  PROVE  IInv'
<1> USE CycleAssumption DEF IInv, Publish, storeVars, cycleVars
<1> DEFINE p == [at |-> clock + 1, records |-> records]
<1>1. /\ clock \in Nat /\ Len(feed) \in Nat /\ clock' \in Time
      /\ feed \in Seq([at : Time, records : Snapshots])
  BY DEF TypeOK, ClockCounts, Time
<1>2. p \in [at : Time, records : Snapshots]
  BY <1>1
<1>3. /\ feed' \in Seq([at : Time, records : Snapshots]) /\ Len(feed') = Len(feed) + 1
      /\ \A v \in 1..Len(feed) : feed'[v] = feed[v]
  BY <1>1, <1>2
<1>4. TypeOK'
  BY <1>1, <1>3 DEF TypeOK
<1>5. ClockCounts'
  BY <1>1, <1>3 DEF ClockCounts
<1>6. SnapIsNewer' /\ PartlyStored' /\ WhollyStored'
  BY <1>1, <1>3 DEF TypeOK, SnapIsNewer, PartlyStored, WhollyStored, Agrees
<1>7. RowsAreBacked'
  BY <1>1, <1>3 DEF RowsAreBacked
<1>8. CursorIsStored'
  <2> SUFFICES ASSUME cursor # 0, NEW r \in Records
               PROVE  \E v \in cursor..Len(feed') : Agrees(rows[r].kind, feed'[v].records[r])
    BY DEF CursorIsStored
  <2>1. PICK v \in cursor..Len(feed) : Agrees(rows[r].kind, feed[v].records[r])
    BY DEF CursorIsStored
  <2>2. v \in 1..Len(feed) /\ v \in cursor..Len(feed')
    BY <1>1, <1>3 DEF TypeOK
  <2> QED
    BY <1>3, <2>1, <2>2
<1> QED
  BY <1>4, <1>5, <1>6, <1>7, <1>8

\* What leaves the feed, the clock, the events' kinds, the cursor and the
\* ingest half of the cycle alone.
LEMMA IngestUnchanged ==
  ASSUME IInv, TypeOK', UNCHANGED feed, clock' - Len(feed) \in 0..MaxOwnerActs,
         \A r \in Records : rows'[r].kind = rows[r].kind, UNCHANGED cursor,
         snap' \in {0, snap},
         pc' = pc \/ pc' \notin {"upserted", "expired"}
  PROVE  IInv'
<1> USE DEF IInv
<1>1. ClockCounts' /\ SnapIsNewer'
  BY DEF ClockCounts, SnapIsNewer
<1>2. PartlyStored' /\ WhollyStored'
  BY DEF PartlyStored, WhollyStored, Agrees
<1>3. RowsAreBacked' /\ CursorIsStored'
  BY DEF RowsAreBacked, CursorIsStored, Agrees
<1> QED
  BY <1>1, <1>2, <1>3

LEMMA LapseInv ==
  ASSUME IInv, NEW r \in Records, Lapse(r)
  PROVE  IInv'
<1>1. TypeOK'
  BY DEF IInv, TypeOK, Lapse, Row, feedVars, cycleVars
<1>2. \A q \in Records : rows'[q].kind = rows[q].kind
  BY DEF IInv, TypeOK, Lapse, Row
<1> QED
  BY <1>1, <1>2, IngestUnchanged DEF IInv, ClockCounts, Lapse, feedVars, cycleVars

LEMMA OwnerInv ==
  ASSUME IInv, NEW s \in Ids, OwnerActs(s),
         NEW status \in {"active", "resolved", "dismissed"},
         \/ sits' = [sits EXCEPT ![s] = [@ EXCEPT !.status = status, !.at = clock + 1]]
         \/ sits' = [sits EXCEPT ![s] = [@ EXCEPT !.at = clock + 1]]
  PROVE  IInv'
<1> USE CycleAssumption DEF OwnerActs, storeVars, cycleVars
<1>1. sits[s] \in Situation /\ clock + 1 \in Nat
  BY DEF IInv, TypeOK, Time
<1>2. [sits[s] EXCEPT !.status = status, !.at = clock + 1] \in Situation
  BY <1>1 DEF Situation
<1>3. [sits[s] EXCEPT !.at = clock + 1] \in Situation
  BY <1>1 DEF Situation
<1>4. sits' \in [Ids -> Situation \cup {None}]
  BY <1>2, <1>3 DEF IInv, TypeOK
<1>5. clock' - Len(feed) \in 0..MaxOwnerActs /\ clock' \in Time
  BY DEF IInv, TypeOK, ClockCounts, Time
<1>6. TypeOK'
  BY <1>4, <1>5 DEF IInv, TypeOK
<1> QED
  BY <1>5, <1>6, IngestUnchanged

LEMMA FetchInv ==
  ASSUME IInv, FetchUnmodified \/ FetchSnapshot \/ FetchFails
  PROVE  IInv'
<1> USE CycleAssumption DEF FetchUnmodified, FetchSnapshot, FetchFails, feedVars, storeVars
<1>1. TypeOK'
  BY DEF IInv, TypeOK
<1>2. ClockCounts' /\ PartlyStored' /\ WhollyStored' /\ RowsAreBacked' /\ CursorIsStored'
  BY DEF IInv, ClockCounts, PartlyStored, WhollyStored, RowsAreBacked, CursorIsStored
<1>3. SnapIsNewer'
  BY DEF IInv, TypeOK, SnapIsNewer
<1> QED
  BY <1>1, <1>2, <1>3 DEF IInv

\* The publication of the cycle.
LEMMA SnapType ==
  ASSUME TypeOK, snap # 0
  PROVE  /\ snap \in 1..Len(feed) /\ feed[snap].at \in Time
         /\ \A r \in Records : feed[snap].records[r] \in Kinds
<1>1. snap \in 1..Len(feed)
  BY DEF TypeOK
<1> DEFINE P == [at : Time, records : Snapshots]
<1>0. feed \in Seq(P)
  BY DEF TypeOK
<1> HIDE DEF P
<1>2. feed[snap] \in P
  BY <1>0, <1>1
<1>3. feed[snap].at \in Time /\ feed[snap].records \in Snapshots
  BY <1>2 DEF P
<1>4. feed[snap].records \in [Records -> Kinds]
  BY <1>3, CycleAssumption
<1> QED
  BY <1>1, <1>3, <1>4

LEMMA UpsertInv ==
  ASSUME IInv, UpsertOfficialEvents
  PROVE  IInv'
<1> USE DEF UpsertOfficialEvents, feedVars
<1>1. CASE snap = 0
  <2>1. \A r \in Records : rows'[r] = rows[r]
    BY <1>1
  <2>2. TypeOK'
    BY <2>1 DEF IInv, TypeOK
  <2> QED
    BY <1>1, <2>1, <2>2 DEF IInv, ClockCounts, SnapIsNewer, PartlyStored, WhollyStored,
       RowsAreBacked, CursorIsStored, Agrees
<1>2. CASE snap # 0
  <2>1. /\ snap \in 1..Len(feed) /\ feed[snap].at \in Time /\ snap >= cursor
        /\ \A r \in Records : feed[snap].records[r] \in Kinds
    BY <1>2, SnapType DEF IInv, TypeOK, SnapIsNewer
  <2>2. \A r \in Records :
          \/ feed[snap].records[r] = "absent" /\ rows'[r] = rows[r]
          \/ /\ feed[snap].records[r] # "absent"
             /\ rows'[r] = [kind |-> feed[snap].records[r], at |-> feed[snap].at, lapsed |-> FALSE]
    BY <1>2
  <2>3. TypeOK'
    <3>1. \A r \in Records : rows'[r] \in Row
      BY <2>1, <2>2 DEF IInv, TypeOK, Row, Kinds
    <3> QED
      BY <3>1 DEF IInv, TypeOK
  <2>4. ClockCounts' /\ SnapIsNewer' /\ PartlyStored' /\ WhollyStored'
    BY <2>2 DEF IInv, ClockCounts, SnapIsNewer, PartlyStored, WhollyStored
  <2>5. RowsAreBacked'
    BY <2>1, <2>2 DEF IInv, RowsAreBacked
  <2>6. CursorIsStored'
    <3> SUFFICES ASSUME cursor # 0, NEW r \in Records
                 PROVE  \E v \in cursor..Len(feed) : Agrees(rows'[r].kind, feed[v].records[r])
      BY DEF CursorIsStored
    <3>1. CASE feed[snap].records[r] = "absent"
      BY <2>2, <3>1 DEF IInv, CursorIsStored
    <3>2. CASE feed[snap].records[r] # "absent"
      <4>1. Agrees(rows'[r].kind, feed[snap].records[r])
        BY <2>1, <2>2, <3>2 DEF Agrees, Kinds, CurrentKinds
      <4> QED
        BY <2>1, <4>1 DEF IInv, TypeOK
    <3> QED
      BY <3>1, <3>2
  <2> QED
    BY <2>3, <2>4, <2>5, <2>6 DEF IInv
<1> QED
  BY <1>1, <1>2

LEMMA ExpireInv ==
  ASSUME IInv, ExpireMissing
  PROVE  IInv'
<1> USE DEF ExpireMissing, feedVars
<1>1. \A r \in Records :
        \/ rows'[r] = rows[r]
        \/ /\ snap # 0 /\ rows[r].kind \in CurrentKinds /\ feed[snap].records[r] = "absent"
           /\ rows'[r] = [rows[r] EXCEPT !.kind = "expired"]
  OBVIOUS
<1>2. TypeOK'
  <2>1. \A r \in Records : rows'[r] \in Row
    BY <1>1 DEF IInv, TypeOK, Row
  <2> QED
    BY <2>1 DEF IInv, TypeOK
<1>3. ClockCounts' /\ SnapIsNewer' /\ PartlyStored'
  BY DEF IInv, ClockCounts, SnapIsNewer, PartlyStored
<1>4. ASSUME snap # 0, NEW r \in Records
      PROVE  Agrees(rows'[r].kind, feed[snap].records[r])
  <2>1. snap \in 1..Len(feed) /\ feed[snap].records[r] \in Kinds
    BY <1>4, SnapType DEF IInv
  <2>2. CASE feed[snap].records[r] # "absent"
    <3>1. rows'[r] = rows[r] /\ rows[r].kind = feed[snap].records[r]
      BY <1>4, <2>2 DEF IInv, TypeOK, PartlyStored
    <3> QED
      BY <2>1, <2>2, <3>1 DEF Agrees, Kinds, CurrentKinds
  <2>3. CASE feed[snap].records[r] = "absent"
    <3>1. rows'[r].kind \notin CurrentKinds
      BY <1>4, <2>3 DEF IInv, TypeOK, Row, CurrentKinds
    <3> QED
      BY <2>3, <3>1 DEF Agrees
  <2> QED
    BY <2>2, <2>3
<1>5. WhollyStored'
  BY <1>4 DEF WhollyStored
<1>6. RowsAreBacked'
  BY <1>1 DEF IInv, TypeOK, Row, RowsAreBacked, CurrentKinds
<1>7. CursorIsStored'
  <2>1. CASE snap = 0
    BY <1>1, <2>1 DEF IInv, CursorIsStored
  <2>2. CASE snap # 0
    <3>1. snap \in cursor..Len(feed)
      BY <2>2 DEF IInv, TypeOK, SnapIsNewer
    <3> QED
      BY <1>4, <2>2, <3>1 DEF CursorIsStored
  <2> QED
    BY <2>1, <2>2
<1> QED
  BY <1>2, <1>3, <1>5, <1>6, <1>7 DEF IInv

LEMMA SaveCursorInv ==
  ASSUME IInv, SaveCursor
  PROVE  IInv'
<1> USE DEF SaveCursor, feedVars
<1>1. TypeOK'
  BY DEF IInv, TypeOK
<1>2. ClockCounts' /\ SnapIsNewer' /\ PartlyStored' /\ WhollyStored'
  BY DEF IInv, TypeOK, ClockCounts, SnapIsNewer, PartlyStored, WhollyStored
<1>3. CASE snap = 0
  BY <1>1, <1>2, <1>3 DEF IInv, RowsAreBacked, CursorIsStored
<1>4. CASE snap # 0
  <2>1. snap \in 1..Len(feed) /\ snap \in cursor'..Len(feed) /\ cursor' = snap
    BY <1>4 DEF IInv, TypeOK
  <2>2. \A r \in Records : Agrees(rows[r].kind, feed[snap].records[r])
    BY <1>4 DEF IInv, WhollyStored
  <2>3. RowsAreBacked'
    BY <2>1, <2>2 DEF IInv, TypeOK, RowsAreBacked, Agrees
  <2>4. CursorIsStored'
    BY <2>1, <2>2 DEF CursorIsStored
  <2> QED
    BY <1>1, <1>2, <2>3, <2>4 DEF IInv
<1> QED
  BY <1>3, <1>4

\* What one cycle queues: upserts of situations.
LEMMA DetectedJobs ==
  ASSUME TypeOK, NEW order \in Orders, NEW adopted \in Adoptions(order), NEW hinted \in HintedItems
  PROVE  /\ \A i \in Incoming(CurrentRows, order, adopted) : i.id \in Ids /\ i.own \in Situation
         /\ \A kind \in CurrentKinds :
              \A i \in ResolvedCopies(CurrentRows, Tracked, kind, adopted, clock) :
                /\ i.id \in Ids /\ i.own \in Situation
                /\ i.own.event \in Records /\ rows[i.own.event].kind = kind
         /\ \A i \in hinted : i.id \in Ids /\ i.own \in Situation
         /\ hints + Cardinality(hinted) \in 0..MaxHints
<1> USE CycleAssumption
<1>1. clock \in Nat /\ MaxPublications + MaxOwnerActs \in Nat
  BY DEF TypeOK, Time
<1>2. /\ \A s \in DOMAIN Tracked : s \in Ids /\ Tracked[s] = sits[s] /\ sits[s] \in Situation
  BY DEF Tracked, TypeOK
<1>3. /\ DOMAIN CurrentRows \subseteq Records
      /\ \A r \in DOMAIN CurrentRows :
           /\ CurrentRows[r] = rows[r] /\ rows[r] \in Row
           /\ CurrentRows[r].at \in 0..(MaxPublications + MaxOwnerActs)
  BY DEF CurrentRows, TypeOK, Row, Time
<1>4. ASSUME NEW i \in Incoming(CurrentRows, order, adopted)
      PROVE  i.id \in Ids /\ i.own \in Situation
  <2>1. adopted \in [GroupedKeys(CurrentRows) -> Ids]
    BY DEF Adoptions
  <2>2. PICK k \in GroupedKeys(CurrentRows) :
          i = [id |-> adopted[k],
               own |-> [status |-> "active", at |-> Latest(CurrentRows, k), sig |-> k,
                        event |-> First(order, Group(CurrentRows, k))]]
    BY <1>4, <2>1 DEF Incoming
  <2>3. k \in Keys /\ Group(CurrentRows, k) \subseteq Records /\ Group(CurrentRows, k) # {}
    BY <1>3 DEF GroupedKeys, Group
  <2>4. First(order, Group(CurrentRows, k)) \in Records
    BY <2>3, FirstType
  <2>5. Latest(CurrentRows, k) \in Nat
    BY <1>1, <1>3, LatestType
  <2> QED
    BY <2>1, <2>2, <2>3, <2>4, <2>5 DEF Situation
<1>5. ASSUME NEW kind \in CurrentKinds,
             NEW i \in ResolvedCopies(CurrentRows, Tracked, kind, adopted, clock)
      PROVE  /\ i.id \in Ids /\ i.own \in Situation
             /\ i.own.event \in Records /\ rows[i.own.event].kind = kind
  <2>1. PICK s \in DOMAIN Tracked :
          /\ i = [id |-> s, own |-> Resolved(Tracked[s], clock)]
          /\ Tracked[s].event \in DOMAIN CurrentRows
          /\ CurrentRows[Tracked[s].event].kind = kind
    BY <1>5 DEF ResolvedCopies
  <2>2. Resolved(sits[s], clock) \in Situation /\ Resolved(sits[s], clock).event = sits[s].event
    BY <1>1, <1>2 DEF Resolved, Situation
  <2> QED
    BY <1>2, <1>3, <2>1, <2>2
<1>6. hinted = {} \/ \E s \in DOMAIN Tracked, t \in {0, clock} :
                       hints # MaxHints /\ hinted = {[id |-> s, own |-> Hinted(sits[s], t)]}
  BY DEF HintedItems
<1>7. ASSUME hinted = {}
      PROVE  hints + Cardinality(hinted) \in 0..MaxHints
  BY <1>7, FS_EmptySet DEF TypeOK
<1>8. ASSUME NEW s \in DOMAIN Tracked, NEW t \in {0, clock}, hints # MaxHints,
             hinted = {[id |-> s, own |-> Hinted(sits[s], t)]}
      PROVE  /\ \A i \in hinted : i.id \in Ids /\ i.own \in Situation
             /\ hints + Cardinality(hinted) \in 0..MaxHints
  <2>1. Hinted(sits[s], t) \in Situation
    BY <1>1, <1>2 DEF Hinted, Situation
  <2>2. Cardinality(hinted) = 1
    BY <1>8, FS_Singleton
  <2> QED
    BY <1>2, <1>8, <2>1, <2>2 DEF TypeOK
<1> QED
  BY <1>4, <1>5, <1>6, <1>7, <1>8

LEMMA QueuedJobs ==
  ASSUME NEW items, NEW kind \in {"official", "merged", "demoted", "hint"},
         \A i \in items : i.id \in Ids /\ i.own \in Situation
  PROVE  Queued(items, kind) \subseteq Job
<1>1. ASSUME NEW i \in items
      PROVE  [id |-> i.id, kind |-> kind, own |-> i.own, phase |-> "queued", seen |-> None,
              live |-> TRUE] \in Job
  BY <1>1 DEF Job
<1> QED
  BY <1>1 DEF Queued

LEMMA DetectInv ==
  ASSUME IInv, NEW order \in Orders, NEW adopted \in Adoptions(order), NEW hinted \in HintedItems,
         DetectSituations(order, adopted, hinted)
  PROVE  IInv'
<1> USE DEF DetectSituations, feedVars, storeVars
<1>1. /\ Queued(Incoming(CurrentRows, order, adopted), "official") \subseteq Job
      /\ Queued(ResolvedCopies(CurrentRows, Tracked, "major", adopted, clock), "merged") \subseteq Job
      /\ Queued(ResolvedCopies(CurrentRows, Tracked, "minor", adopted, clock), "demoted") \subseteq Job
      /\ Queued(hinted, "hint") \subseteq Job
  BY DetectedJobs, QueuedJobs DEF IInv, CurrentKinds
<1>2. hints' \in 0..MaxHints
  BY DetectedJobs DEF IInv
<1>3. TypeOK'
  BY <1>1, <1>2 DEF IInv, TypeOK
<1> QED
  BY <1>3, IngestUnchanged DEF IInv, ClockCounts

LEMMA JobInv ==
  ASSUME IInv, NEW j \in jobs, JobStep(j) \/ DetachedJobFails(j)
  PROVE  IInv'
<1> USE DEF JobStep, LoadSituation, StoreSituation, DetachedJobFails, feedVars, storeVars
<1>1. /\ j \in Job /\ sits[j.id] \in Situation \cup {None}
  BY DEF IInv, TypeOK, Job
<1>2. [j EXCEPT !.phase = "loaded", !.seen = sits[j.id]] \in Job
  BY <1>1 DEF Job
<1>3. Merge(j.seen, j.own) \in Situation
  BY <1>1, MergeType DEF Job
<1>4. TypeOK'
  BY <1>1, <1>2, <1>3 DEF IInv, TypeOK
<1> QED
  BY <1>4, IngestUnchanged DEF IInv, ClockCounts

LEMMA FinishInv ==
  ASSUME IInv, FinishCycle
  PROVE  IInv'
<1>0. booting' \in BOOLEAN
  BY DEF FinishCycle
<1>1. snap' \in 0..Len(feed') /\ pc' = "idle"
  BY CycleAssumption DEF IInv, TypeOK, FinishCycle, feedVars
<1>2. UNCHANGED <<clock, feed, rows, cursor, sits, jobs, hints, failures>>
  BY DEF FinishCycle, feedVars, storeVars
<1>3. TypeOK'
  BY <1>0, <1>1, <1>2 DEF IInv, TypeOK
<1> QED
  BY <1>2, <1>3, IngestUnchanged DEF IInv, ClockCounts, FinishCycle

LEMMA DiesInv ==
  ASSUME IInv, Dies, jobs' \subseteq Job, booting' \in BOOLEAN
  PROVE  IInv'
<1>1. TypeOK'
  BY CycleAssumption DEF IInv, TypeOK, Dies, feedVars, storeVars
<1> QED
  BY <1>1, IngestUnchanged DEF IInv, ClockCounts, Dies, feedVars, storeVars

LEMMA ThrowInv ==
  ASSUME IInv, NEW remaining \in SUBSET jobs, Throw(remaining)
  PROVE  IInv'
<1>1. ASSUME NEW j \in remaining
      PROVE  [j EXCEPT !.live = FALSE] \in Job
  <2>1. j \in Job
    BY DEF IInv, TypeOK
  <2> QED
    BY <2>1 DEF Job
<1>2. jobs' \subseteq Job /\ booting' \in BOOLEAN
  BY <1>1 DEF IInv, TypeOK, Throw
<1> QED
  BY <1>2, DiesInv DEF Throw

LEMMA StepInv == IInv /\ [Next]_vars => IInv'
<1> SUFFICES ASSUME IInv, [Next]_vars PROVE IInv'
  OBVIOUS
<1>1. CASE \E records \in Snapshots : Publish(records)
  BY <1>1, PublishInv
<1>2. CASE \E r \in Records : Lapse(r)
  BY <1>2, LapseInv
<1>3. CASE \E s \in Ids : SetPublicVisibility(s)
  BY <1>3, OwnerInv DEF SetPublicVisibility
<1>4. CASE \E s \in Ids, status \in {"active", "resolved", "dismissed"} : SetStatus(s, status)
  BY <1>4, OwnerInv DEF SetStatus
<1>5. CASE CycleStep
  BY <1>5, FetchInv, UpsertInv, ExpireInv, SaveCursorInv, DetectInv, FinishInv DEF CycleStep
<1>6. CASE \E j \in jobs : JobStep(j) \/ LiveJobFails(j) \/ DetachedJobFails(j)
  <2>1. PICK j \in jobs : JobStep(j) \/ LiveJobFails(j) \/ DetachedJobFails(j)
    BY <1>6
  <2>2. CASE LiveJobFails(j)
    <3>1. jobs \ {j} \in SUBSET jobs
      OBVIOUS
    <3> QED
      BY <2>2, <3>1, ThrowInv DEF LiveJobFails
  <2> QED
    BY <2>1, <2>2, JobInv
<1>7. CASE CycleThrows
  BY <1>7, ThrowInv DEF CycleThrows
<1>8. CASE Crash
  BY <1>8, DiesInv DEF Crash
<1>9. CASE UNCHANGED vars
  BY <1>9 DEF vars, IInv, TypeOK, ClockCounts, SnapIsNewer, PartlyStored, WhollyStored,
     RowsAreBacked, CursorIsStored, Agrees
<1> QED
  BY <1>1, <1>2, <1>3, <1>4, <1>5, <1>6, <1>7, <1>8, <1>9 DEF Next

LEMMA Invariance == Spec => []IInv
<1> QED
  BY InitInv, StepInv, PTL DEF Spec

-----------------------------------------------------------------------------
\* The state of the cycle, of the stored events and situations and of every
\* running upsert is well typed, whatever crashed or threw.
THEOREM TypeCorrect == Spec => []TypeOK
<1>1. IInv => TypeOK
  BY DEF IInv
<1> QED
  BY <1>1, Invariance, PTL

\* datex:lastModified never gets ahead of official_events.
THEOREM CursorNeverAhead == Spec => []CursorIsStored
<1>1. IInv => CursorIsStored
  BY DEF IInv
<1> QED
  BY <1>1, Invariance, PTL

LEMMA EvidenceStep == IInv /\ [Next]_vars => [ResolvedOnEvidence]_vars
<1> SUFFICES ASSUME IInv, Next,
                    NEW j \in jobs' \ jobs, j.live, j.phase = "queued",
                    j.kind \in {"merged", "demoted"}
             PROVE  \E v \in cursor..Len(feed) :
                      v # 0 /\ feed[v].records[j.own.event] \in CurrentKinds
  BY DEF ResolvedOnEvidence
<1>1. PICK order \in Orders, hinted \in HintedItems :
        \E adopted \in Adoptions(order) : DetectSituations(order, adopted, hinted)
  <2>0. \A i \in jobs : i \in Job
    BY DEF IInv, TypeOK
  <2>1. ASSUME NEW i \in jobs, LoadSituation(i)
        PROVE  FALSE
    <3>1. [i EXCEPT !.phase = "loaded", !.seen = sits[i.id]].phase = "loaded"
      BY <2>0 DEF Job
    <3> QED
      BY <2>1, <3>1 DEF LoadSituation
  <2>2. ASSUME NEW i \in jobs, StoreSituation(i) \/ DetachedJobFails(i)
        PROVE  FALSE
    BY <2>2 DEF StoreSituation, DetachedJobFails
  <2>3. ASSUME NEW remaining \in SUBSET jobs, Throw(remaining)
        PROVE  FALSE
    <3>1. \A i \in remaining : [i EXCEPT !.live = FALSE].live = FALSE
      BY <2>0 DEF Job
    <3> QED
      BY <2>3, <3>1 DEF Throw
  <2>4. ASSUME NEW i \in jobs, LiveJobFails(i)
        PROVE  FALSE
    <3>1. jobs \ {i} \in SUBSET jobs
      OBVIOUS
    <3> QED
      BY <2>3, <2>4, <3>1 DEF LiveJobFails
  <2>5. ~CycleThrows /\ ~Crash
    BY <2>3 DEF CycleThrows, Crash
  <2>6. jobs' # jobs
    OBVIOUS
  <2> QED
    BY <2>1, <2>2, <2>4, <2>5, <2>6 DEF JobStep, Next, CycleStep, Publish, Lapse, SetPublicVisibility, SetStatus,
       OwnerActs, FetchUnmodified, FetchSnapshot, FetchFails, UpsertOfficialEvents,
       ExpireMissing, SaveCursor, FinishCycle, cycleVars
<1> PICK adopted \in Adoptions(order) : DetectSituations(order, adopted, hinted)
  BY <1>1
<1>2. \/ j \in Queued(ResolvedCopies(CurrentRows, Tracked, "major", adopted, clock), "merged")
      \/ j \in Queued(ResolvedCopies(CurrentRows, Tracked, "minor", adopted, clock), "demoted")
  BY DEF DetectSituations, Queued
<1>3. j.own.event \in Records /\ rows[j.own.event].kind \in CurrentKinds
  BY <1>2, DetectedJobs DEF IInv, Queued, CurrentKinds
<1>4. PICK v \in 1..Len(feed) :
        v >= cursor /\ feed[v].records[j.own.event] = rows[j.own.event].kind
  BY <1>3 DEF IInv, RowsAreBacked
<1>5. v \in cursor..Len(feed) /\ v # 0
  BY <1>4 DEF IInv, TypeOK
<1> QED
  BY <1>3, <1>4, <1>5

\* No cycle resolves a situation because its record is missing.
THEOREM OmissionResolvesNothing == Spec => DisappearanceNeverResolves
<1> QED
  BY Invariance, EvidenceStep, PTL DEF Spec, DisappearanceNeverResolves
=============================================================================
