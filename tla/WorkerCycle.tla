---------------------------- MODULE WorkerCycle ----------------------------
(***************************************************************************)
(* The worker's collection cycle, as far as DATEX and its situations go.   *)
(*                                                                         *)
(* Vegvesen publishes snapshots.  A cycle asks for the one modified since  *)
(* the stored cursor (datex:lastModified), stores its records as official  *)
(* events, expires those that were current and are not in it, and stores   *)
(* the cursor: three transactions.  Then it reads the current events and   *)
(* the tracked situations, decides what to store, and stores it with up to *)
(* six jobs at a time (all of them at once here), each a SELECT without a  *)
(* lock followed by an upsert of the merge.                                *)
(*                                                                         *)
(* The owner changes situations at any time, under a row lock.  The cycle  *)
(* may throw at any await: during the first one the process ends and its   *)
(* container is started again; later the guard is released for the next    *)
(* tick while the jobs that were running run on.  The process may also     *)
(* just die.                                                               *)
(*                                                                         *)
(* The clock counts publications and owner actions; everything the worker  *)
(* does happens at the time of the last of them.                           *)
(***************************************************************************)
EXTENDS SituationRules, Sequences

CONSTANTS
  Snapshots,        \* what Vegvesen may publish: [Records -> Kinds]
  OldEvent,         \* [Old -> Records]: the records the old situations are about
  MaxPublications,  \* bound: snapshots published
  MaxOwnerActs,     \* bound: owner actions on situations
  MaxHints,         \* bound: AI hints
  MaxFailures       \* bound: failed fetches, throws and crashes

Kinds == {"absent", "major", "minor", "ended"}

ASSUME CycleAssumption ==
  /\ Snapshots \subseteq [Records -> Kinds]
  /\ OldEvent \in [Old -> Records]
  /\ MaxPublications \in Nat /\ MaxOwnerActs \in Nat
  /\ MaxHints \in Nat /\ MaxFailures \in Nat

VARIABLES
  clock,
  feed,       \* the publications: [at, records]
  rows,       \* official_events: [Records -> [kind, at, lapsed]]
  cursor,     \* collector_state "datex:lastModified": a publication, or 0
  sits,       \* situations: [Ids -> Situation \cup {None}]
  pc,         \* where the cycle is
  snap,       \* the publication the cycle fetched; 0: not modified or failed
  booting,    \* no cycle has finished since the process started
  jobs,       \* upsertSituation calls
  hints,      \* AI hints so far
  failures    \* failures so far

feedVars == <<clock, feed>>
storeVars == <<rows, cursor>>
cycleVars == <<pc, snap, booting, jobs>>
vars == <<clock, feed, rows, cursor, sits, pc, snap, booting, jobs, hints, failures>>

Publication == 1..MaxPublications
Time == 0..(MaxPublications + MaxOwnerActs)

\* No row yet is kind "none"; valid_to has passed when lapsed.
Row == [kind : {"none", "major", "minor", "ended", "expired"}, at : Time, lapsed : BOOLEAN]

Job == [id : Ids, kind : {"official", "merged", "demoted", "hint"}, own : Situation,
        phase : {"queued", "loaded"}, seen : Situation \cup {None}, live : BOOLEAN]

TypeOK ==
  /\ clock \in Time
  /\ feed \in Seq([at : Time, records : Snapshots])
  /\ Len(feed) \in 0..MaxPublications
  /\ rows \in [Records -> Row]
  /\ cursor \in 0..Len(feed)
  /\ sits \in [Ids -> Situation \cup {None}]
  /\ pc \in {"idle", "fetched", "upserted", "expired", "saved", "persisting"}
  /\ snap \in 0..Len(feed)
  /\ booting \in BOOLEAN
  /\ jobs \subseteq Job
  /\ hints \in 0..MaxHints
  /\ failures \in 0..MaxFailures

\* The situations of the earlier release are active, one per record.
Init ==
  /\ clock = 0 /\ feed = << >>
  /\ rows = [r \in Records |-> [kind |-> "none", at |-> 0, lapsed |-> FALSE]]
  /\ cursor = 0
  /\ sits = [s \in Ids |->
       IF s \in Old
       THEN [status |-> "active", at |-> 0, sig |-> OldSignature, event |-> OldEvent[s]]
       ELSE None]
  /\ pc = "idle" /\ snap = 0 /\ booting = TRUE
  /\ jobs = {} /\ hints = 0 /\ failures = 0

-----------------------------------------------------------------------------
(* The outside world *)

Publish(records) ==
  /\ Len(feed) < MaxPublications
  /\ clock' = clock + 1
  /\ feed' = Append(feed, [at |-> clock + 1, records |-> records])
  /\ UNCHANGED <<storeVars, sits, cycleVars, hints, failures>>

\* valid_to of a current event passes: the end time it was published with, or
\* else a day after its receipt.
Lapse(r) ==
  /\ rows[r].kind \in CurrentKinds /\ ~rows[r].lapsed
  /\ rows' = [rows EXCEPT ![r].lapsed = TRUE]
  /\ UNCHANGED <<feedVars, cursor, sits, cycleVars, hints, failures>>

OwnerActs(s) ==
  /\ clock - Len(feed) < MaxOwnerActs
  /\ sits[s] # None
  /\ clock' = clock + 1
  /\ UNCHANGED <<feed, storeVars, cycleVars, hints, failures>>

\* PATCH /api/situations/:id/status
SetStatus(s, status) ==
  /\ OwnerActs(s)
  /\ sits' = [sits EXCEPT ![s] = [@ EXCEPT !.status = status, !.at = clock + 1]]

\* PATCH /api/situations/:id/publication
SetPublicVisibility(s) ==
  /\ OwnerActs(s)
  /\ sits' = [sits EXCEPT ![s] = [@ EXCEPT !.at = clock + 1]]

-----------------------------------------------------------------------------
(* The ingest half of a cycle *)

\* 304, or no answer to an If-Modified-Since request for anything newer.
FetchUnmodified ==
  /\ pc = "idle" /\ cursor # 0 /\ cursor = Len(feed)
  /\ pc' = "fetched" /\ snap' = 0
  /\ UNCHANGED <<feedVars, storeVars, sits, booting, jobs, hints, failures>>

\* A bug to catch: the cursor moves before the snapshot is stored.
FetchSnapshot_SavesCursor ==
  /\ pc = "idle" /\ cursor < Len(feed)
  /\ pc' = "fetched" /\ snap' = Len(feed) /\ cursor' = Len(feed)
  /\ UNCHANGED <<feedVars, rows, sits, booting, jobs, hints, failures>>

FetchSnapshot ==
  /\ pc = "idle" /\ cursor < Len(feed)
  /\ pc' = "fetched" /\ snap' = Len(feed)
  /\ UNCHANGED <<feedVars, storeVars, sits, booting, jobs, hints, failures>>

\* The collector's error is caught; the cycle goes on with what is stored.
FetchFails ==
  /\ pc = "idle" /\ failures < MaxFailures
  /\ pc' = "fetched" /\ snap' = 0
  /\ failures' = failures + 1
  /\ UNCHANGED <<feedVars, storeVars, sits, booting, jobs, hints>>

UpsertOfficialEvents ==
  /\ pc = "fetched"
  /\ rows' = [r \in Records |->
       IF snap # 0 /\ feed[snap].records[r] # "absent"
       THEN [kind |-> feed[snap].records[r], at |-> feed[snap].at, lapsed |-> FALSE]
       ELSE rows[r]]
  /\ pc' = "upserted"
  /\ UNCHANGED <<feedVars, cursor, sits, snap, booting, jobs, hints, failures>>

\* Only after a fresh snapshot.
ExpireMissing ==
  /\ pc = "upserted"
  /\ rows' = [r \in Records |->
       IF snap # 0 /\ rows[r].kind \in CurrentKinds /\ feed[snap].records[r] = "absent"
       THEN [rows[r] EXCEPT !.kind = "expired"]
       ELSE rows[r]]
  /\ pc' = "expired"
  /\ UNCHANGED <<feedVars, cursor, sits, snap, booting, jobs, hints, failures>>

SaveCursor ==
  /\ pc = "expired"
  /\ cursor' = IF snap # 0 THEN snap ELSE cursor
  /\ pc' = "saved"
  /\ UNCHANGED <<feedVars, rows, sits, snap, booting, jobs, hints, failures>>

-----------------------------------------------------------------------------
(* The situation half *)

\* currentOfficialEvents
CurrentRows ==
  LET current == {r \in Records : rows[r].kind \in CurrentKinds /\ ~rows[r].lapsed}
  IN  [r \in current |-> rows[r]]

\* trackedSituations: all have a signature.
Tracked ==
  LET stored == {s \in Ids : sits[s] # None} IN [s \in stored |-> sits[s]]

Queued(items, kind) ==
  {[id |-> i.id, kind |-> kind, own |-> i.own, phase |-> "queued", seen |-> None, live |-> TRUE]
     : i \in items}

Adoptions(order) ==
  {f \in [GroupedKeys(CurrentRows) -> Ids] :
     \A k \in DOMAIN f : f[k] \in Adopting(CurrentRows, Tracked, order, k)}

\* The analyzer may hint at one open situation, with an article as old as can be
\* or just published.
HintedItems ==
  {{}} \cup (IF hints = MaxHints THEN {}
             ELSE {{[id |-> s, own |-> Hinted(sits[s], t)]} :
                     s \in {s \in DOMAIN Tracked : ~Closed(sits[s])}, t \in {0, clock}})

DetectSituations(order, adopted, hinted) ==
  /\ pc = "saved"
  /\ jobs' = jobs
       \cup Queued(Incoming(CurrentRows, order, adopted), "official")
       \cup Queued(ResolvedCopies(CurrentRows, Tracked, "major", adopted, clock), "merged")
       \cup Queued(ResolvedCopies(CurrentRows, Tracked, "minor", adopted, clock), "demoted")
       \cup Queued(hinted, "hint")
  /\ hints' = hints + Cardinality(hinted)
  /\ pc' = "persisting"
  /\ UNCHANGED <<feedVars, storeVars, sits, snap, booting, failures>>

\* upsertSituation: SELECT payload, no lock.
LoadSituation(j) ==
  /\ j.phase = "queued"
  /\ jobs' = (jobs \ {j}) \cup {[j EXCEPT !.phase = "loaded", !.seen = sits[j.id]]}
  /\ UNCHANGED <<feedVars, storeVars, sits, pc, snap, booting, hints, failures>>

\* upsertSituation: INSERT ... ON CONFLICT DO UPDATE with the merge, commit.
StoreSituation(j) ==
  /\ j.phase = "loaded"
  /\ sits' = [sits EXCEPT ![j.id] = Merge(j.seen, j.own)]
  /\ jobs' = jobs \ {j}
  /\ UNCHANGED <<feedVars, storeVars, pc, snap, booting, hints, failures>>

LiveJobs == {j \in jobs : j.live}

\* The rest of collectAll, then the guard is released.
FinishCycle ==
  /\ pc = "persisting" /\ LiveJobs = {}
  /\ pc' = "idle" /\ snap' = 0 /\ booting' = FALSE
  /\ UNCHANGED <<feedVars, storeVars, sits, jobs, hints, failures>>

-----------------------------------------------------------------------------
(* Failures *)

Dies ==
  /\ failures < MaxFailures
  /\ failures' = failures + 1
  /\ pc' = "idle" /\ snap' = 0
  /\ UNCHANGED <<feedVars, storeVars, sits, hints>>

\* An exception leaves collectAll.  In the first cycle it leaves runWorker too
\* and the process ends; later the remaining jobs, nobody's now, run on.
Throw(remaining) ==
  /\ Dies
  /\ jobs' = IF booting THEN {} ELSE {[j EXCEPT !.live = FALSE] : j \in remaining}
  /\ UNCHANGED booting

CycleThrows == pc # "idle" /\ Throw(jobs)

\* The transaction of j rolls back.  Promise.all rejects with the first one;
\* nobody hears of those after it.
LiveJobFails(j) == j.live /\ Throw(jobs \ {j})

DetachedJobFails(j) ==
  /\ ~j.live
  /\ jobs' = jobs \ {j}
  /\ UNCHANGED <<feedVars, storeVars, sits, pc, snap, booting, hints, failures>>

\* The process dies and its container is started again.
Crash ==
  /\ Dies
  /\ jobs' = {} /\ booting' = TRUE

-----------------------------------------------------------------------------
CycleStep ==
  \/ FetchUnmodified \/ FetchSnapshot \/ FetchFails
  \/ UpsertOfficialEvents \/ ExpireMissing \/ SaveCursor
  \/ \E order \in Orders, hinted \in HintedItems :
       \E adopted \in Adoptions(order) : DetectSituations(order, adopted, hinted)
  \/ FinishCycle

JobStep(j) == LoadSituation(j) \/ StoreSituation(j)

Next ==
  \/ \E records \in Snapshots : Publish(records)
  \/ \E r \in Records : Lapse(r)
  \/ \E s \in Ids : SetPublicVisibility(s)
  \/ \E s \in Ids, status \in {"active", "resolved", "dismissed"} : SetStatus(s, status)
  \/ CycleStep
  \/ \E j \in jobs : JobStep(j) \/ LiveJobFails(j) \/ DetachedJobFails(j)
  \/ CycleThrows \/ Crash

Spec == Init /\ [][Next]_vars

\* setInterval starts the next cycle, the container restarts, and every await
\* of a cycle that is not cut short returns.
Fairness ==
  /\ WF_vars(CycleStep)
  /\ WF_vars(\E j \in jobs : JobStep(j))

FairSpec == Spec /\ Fairness

-----------------------------------------------------------------------------
(* Properties *)

Agrees(kind, published) ==
  IF kind \in CurrentKinds THEN published = kind ELSE published \in {"absent", "ended"}

\* A stored cursor stands for a stored snapshot: whatever crashed in between,
\* what is stored of a record is what some publication says that is not older
\* than the cursor.  Were the cursor ahead of the rows, Vegvesen would answer
\* 304 and the worker never learn of the difference.
CursorIsStored ==
  cursor # 0 =>
    \A r \in Records : \E v \in cursor..Len(feed) : Agrees(rows[r].kind, feed[v].records[r])

\* Snapshot omission is not evidence that an incident has ended: when a cycle
\* decides to resolve a situation, its record was present, merged or demoted,
\* in a publication at least as new as the cursor.
ResolvedOnEvidence ==
  \A j \in jobs' \ jobs :
    (j.live /\ j.phase = "queued" /\ j.kind \in {"merged", "demoted"}) =>
      \E v \in cursor..Len(feed) : v # 0 /\ feed[v].records[j.own.event] \in CurrentKinds

DisappearanceNeverResolves == [][ResolvedOnEvidence]_vars

\* However a cycle is cut short, the last publication gets stored and stays
\* stored: every record is then current as published, or not current.
FeedReflected ==
  <>[](feed # << >> =>
         \A r \in Records : Agrees(rows[r].kind, feed[Len(feed)].records[r]))

\* The group of k has its incident, and it is active, unless it was dismissed, or
\* resolved at a time that no current record of the group is newer than.
NotBuried(k) ==
  \E s \in Ids :
    /\ sits[s] # None /\ sits[s].sig = k
    /\ \/ sits[s].status \in {"active", "dismissed"}
       \/ sits[s].at >= Latest(CurrentRows, k)

\* No two active situations are about records of the group of k.
Merged(k) ==
  \A s, t \in Ids :
    (/\ sits[s].status = "active" /\ sits[t].status = "active"
     /\ sits[s].event \in Group(CurrentRows, k)
     /\ sits[t].event \in Group(CurrentRows, k)) => s = t

\* In the end every DATEX situation with a current promotable record has one
\* incident.  Stale copies may resolve it over a newer update, move the time of
\* its resolution back or forth, and open duplicates of the old release again:
\* later cycles repair that (mergeSituation, officialTrafficSituationsFromEvents,
\* resolvedDuplicateOfficialTrafficSituationsForMergedDatex).
IncidentsSettle == <>[](\A k \in GroupedKeys(CurrentRows) : NotBuried(k) /\ Merged(k))

\* What docs/ARCHITECTURE.md:61 says of AI hints, "They cannot create new
\* situations, reopen resolved/dismissed situations": storing one leaves a
\* situation closed that the owner resolved or dismissed.  upsertSituation
\* merges the hinted copy with a row it read before the owner did.
HintsNeverReopen ==
  [][\A j \in jobs \ jobs' :
       (j.kind = "hint" /\ Closed(sits[j.id])) => Closed(sits'[j.id])]_vars
=============================================================================
