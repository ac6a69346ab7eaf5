---------------------------- MODULE CoverageLocks ----------------------------
(***************************************************************************)
(* The transactions of CoverageLifecycle taken apart into their statements *)
(* and locks: the worker's persist, the promotion and the owner's          *)
(* corrections, under READ COMMITTED.                                      *)
(*                                                                         *)
(* Three things are locked: the transaction-scoped advisory lock of persist*)
(* and promotion, the row of coverage_projection_revisions, and rows of    *)
(* coverage_bundle_generations.  A statement reads a snapshot, then waits  *)
(* for the rows it locks one by one, and reads the newest version of a row *)
(* it waited for; if that version no longer satisfies the query the row is *)
(* dropped.  PostgreSQL ends a cycle of waits by failing one of its        *)
(* members.  Readers take no locks (CoverageReaders), and only one holder  *)
(* of the advisory lock writes stable rows (CoverageLifecycle).            *)
(***************************************************************************)
EXTENDS Integers, FiniteSets

CONSTANTS
  Request,       \* the owner's requests; each is made once
  MaxGeneration  \* bound: completed generations

Worker == "worker"
Promotion == "promotion"
Process == Request \cup {Worker, Promotion}
Nobody == "nobody"

Generation == 1..MaxGeneration
NoGeneration == 0
Revision == 0..Cardinality(Request)

ASSUME LocksAssumption ==
  MaxGeneration \in Nat /\ IsFiniteSet(Request) /\ Request \cap {Worker, Promotion, Nobody} = {}

VARIABLES
  stored,         \* [Generation -> ...]: mode of a completed generation, or "unused"
  current,        \* the generation with is_current
  revision,       \* coverage_projection_revisions.revision
  corrections,    \* corrections made: by whom, on which generation, from which page
  reverted,       \* those that were undone
  serving,        \* what the deployed flags say
  advisory, revisionRow, generationRow,  \* who holds which lock
  pc,
  found,          \* the generation a process' query selected
  page,           \* the generation and revision the owner's browser shows
  read            \* the revision a request has read under its lock

dataVars == <<stored, current, revision, corrections, reverted>>
lockVars == <<advisory, revisionRow, generationRow>>
requestVars == <<page, read>>
vars == <<dataVars, lockVars, requestVars, serving, pc, found>>

Page == [gen : Generation \cup {NoGeneration}, revision : Revision]
Correction == [by : Request, gen : Generation, page : Page]

Place == {"idle", "reviewing", "advisory", "started", "revision", "generation",
          "storing", "deciding", "promoted", "done", "refused", "failed"}

TypeOK ==
  /\ stored \in [Generation -> {"unused", "shadow", "active"}]
  /\ current \in Generation \cup {NoGeneration}
  /\ revision \in Revision
  /\ corrections \subseteq Correction /\ reverted \subseteq corrections
  /\ serving \in {"legacy", "normalized"}
  /\ advisory \in {Nobody, Worker, Promotion}
  /\ revisionRow \in Process \cup {Nobody}
  /\ generationRow \in [Generation -> Process \cup {Nobody}]
  /\ pc \in [Process -> Place]
  /\ found \in [Process -> Generation \cup {NoGeneration}]
  /\ page \in [Request -> Page] /\ read \in [Request -> Revision]

Init ==
  /\ stored = [g \in Generation |-> "unused"]
  /\ current = NoGeneration /\ revision = 0
  /\ corrections = {} /\ reverted = {}
  /\ serving = "legacy"
  /\ advisory = Nobody /\ revisionRow = Nobody
  /\ generationRow = [g \in Generation |-> Nobody]
  /\ pc = [p \in Process |-> "idle"]
  /\ found = [p \in Process |-> NoGeneration]
  /\ page = [r \in Request |-> [gen |-> NoGeneration, revision |-> 0]]
  /\ read = [r \in Request |-> 0]

-----------------------------------------------------------------------------
(* Locks *)

Goto(p, place) == pc' = [pc EXCEPT ![p] = place]

\* COMMIT or ROLLBACK of every transaction in S.
ReleaseAll(S) ==
  /\ advisory' = IF advisory \in S THEN Nobody ELSE advisory
  /\ revisionRow' = IF revisionRow \in S THEN Nobody ELSE revisionRow
  /\ generationRow' =
       [g \in Generation |-> IF generationRow[g] \in S THEN Nobody ELSE generationRow[g]]

\* Who holds the lock that the statement of p waits for.
WaitsFor(p) ==
  IF pc[p] = "advisory" THEN advisory
  ELSE IF pc[p] = "revision" THEN revisionRow
  ELSE IF pc[p] = "generation" THEN generationRow[found[p]]
  ELSE Nobody

\* Every member of S waits for a member of S, and is waited for.
Cycle(S) == S # {} /\ {WaitsFor(p) : p \in S} = S

InTransaction(p) ==
  pc[p] \in {"advisory", "started", "revision", "generation", "storing", "deciding"}

\* Where a transaction that is rolled back leaves its process.
Aborted(p) == IF p \in Request THEN "failed" ELSE "idle"

-----------------------------------------------------------------------------
(* persistCoverageGeneration: shadow while the API serves the legacy         *)
(* projection, active afterwards.                                            *)

Mode == IF serving = "normalized" THEN "active" ELSE "shadow"

IsNext(g) == stored[g] = "unused" /\ \A h \in Generation : h < g => stored[h] # "unused"

BeginPersist ==
  /\ pc[Worker] = "idle"
  /\ \E g \in Generation : IsNext(g)
  /\ Goto(Worker, "advisory")
  /\ UNCHANGED <<dataVars, lockVars, requestVars, serving, found>>

\* A bug to catch: the promotion does not take the lock.
LockAdvisory_WorkerOnly(p) ==
  /\ pc[p] = "advisory"
  /\ IF p = Worker THEN advisory = Nobody /\ advisory' = p ELSE UNCHANGED advisory
  /\ Goto(p, "started")
  /\ UNCHANGED <<dataVars, revisionRow, generationRow, requestVars, serving, found>>

LockAdvisory(p) ==
  /\ pc[p] = "advisory" /\ advisory = Nobody
  /\ advisory' = p
  /\ Goto(p, "started")
  /\ UNCHANGED <<dataVars, revisionRow, generationRow, requestVars, serving, found>>

\* SELECT the current generation FOR UPDATE, for the volume guard of active mode.
SelectCompared ==
  /\ pc[Worker] = "started"
  /\ LET compared == IF Mode = "active" THEN current ELSE NoGeneration IN
       /\ found' = [found EXCEPT ![Worker] = compared]
       /\ Goto(Worker, IF compared = NoGeneration THEN "revision" ELSE "generation")
  /\ UNCHANGED <<dataVars, lockVars, requestVars, serving>>

LockCompared ==
  /\ pc[Worker] = "generation" /\ generationRow[found[Worker]] = Nobody
  /\ generationRow' = [generationRow EXCEPT ![found[Worker]] = Worker]
  /\ Goto(Worker, "revision")
  /\ UNCHANGED <<dataVars, advisory, revisionRow, requestVars, serving, found>>

\* upsertLegacyCoverageBundles ends with the update of legacy_revision.
UpdateLegacyRevision ==
  /\ pc[Worker] = "revision" /\ revisionRow = Nobody
  /\ revisionRow' = Worker
  /\ Goto(Worker, "storing")
  /\ UNCHANGED <<dataVars, advisory, generationRow, requestVars, serving, found>>

\* The rest of the transaction, and its commit.
CommitPersist ==
  /\ pc[Worker] = "storing"
  /\ \E g \in Generation :
       /\ IsNext(g)
       /\ stored' = [stored EXCEPT ![g] = Mode]
       /\ current' = IF Mode = "active" THEN g ELSE current
  /\ ReleaseAll({Worker})
  /\ Goto(Worker, "idle")
  /\ UNCHANGED <<revision, corrections, reverted, requestVars, serving, found>>

-----------------------------------------------------------------------------
(* promote-coverage-generation.sql, and the flags around it *)

BeginPromotion ==
  /\ pc[Promotion] = "idle" /\ serving = "legacy"
  /\ Goto(Promotion, "advisory")
  /\ UNCHANGED <<dataVars, lockVars, requestVars, serving, found>>

IsLatestShadow(g) == stored[g] = "shadow" /\ \A h \in Generation : stored[h] = "shadow" => h <= g

\* The reviewed generation is locked and found to be the latest shadow.
CheckReviewed ==
  /\ pc[Promotion] = "started"
  /\ \E g \in Generation :
       /\ IsLatestShadow(g) /\ generationRow[g] = Nobody
       /\ found' = [found EXCEPT ![Promotion] = g]
       /\ generationRow' = [generationRow EXCEPT ![g] = Promotion]
  /\ Goto(Promotion, "deciding")
  /\ UNCHANGED <<dataVars, advisory, revisionRow, requestVars, serving>>

CommitPromotion ==
  /\ pc[Promotion] = "deciding"
  /\ stored' = [stored EXCEPT ![found[Promotion]] = "active"]
  /\ current' = found[Promotion]
  /\ ReleaseAll({Promotion})
  /\ Goto(Promotion, "promoted")
  /\ UNCHANGED <<revision, corrections, reverted, requestVars, serving, found>>

\* The target flags: API and worker are replaced, their transactions are rolled back.
GoLive ==
  /\ pc[Promotion] = "promoted"
  /\ serving' = "normalized"
  /\ ReleaseAll({Worker})
  /\ pc' = [pc EXCEPT ![Promotion] = "idle", ![Worker] = "idle"]
  /\ UNCHANGED <<dataVars, requestVars, found>>

CanaryFails ==
  /\ pc[Promotion] = "promoted"
  /\ Goto(Promotion, "idle")
  /\ UNCHANGED <<dataVars, lockVars, requestVars, serving, found>>

\* A bug to catch: the requests of the old container are left to finish.
Rollback_RequestsGoOn ==
  /\ serving = "normalized"
  /\ serving' = "legacy"
  /\ ReleaseAll({Worker})
  /\ Goto(Worker, "idle")
  /\ UNCHANGED <<dataVars, requestVars, found>>

Rollback ==
  /\ serving = "normalized"
  /\ serving' = "legacy"
  /\ ReleaseAll(Process)
  /\ pc' = [p \in Process |-> IF InTransaction(p) THEN Aborted(p) ELSE pc[p]]
  /\ UNCHANGED <<dataVars, requestVars, found>>

-----------------------------------------------------------------------------
(* The owner's request *)

\* The browser shows a page, with the time of its generation and the revision.
Review(r) ==
  /\ pc[r] = "idle" /\ serving = "normalized"
  /\ page' = [page EXCEPT ![r] = [gen |-> current, revision |-> revision]]
  /\ Goto(r, "reviewing")
  /\ UNCHANGED <<dataVars, lockVars, read, serving, found>>

\* loadCurrentCoverageMutationProjection: the snapshot of its first query ...
SelectCurrent(r) ==
  /\ pc[r] = "reviewing" /\ serving = "normalized"
  /\ found' = [found EXCEPT ![r] = current]
  /\ read' = [read EXCEPT ![r] = revision]
  /\ Goto(r, IF current = NoGeneration THEN "refused" ELSE "revision")
  /\ UNCHANGED <<dataVars, lockVars, page, serving>>

\* A bug to catch: FOR UPDATE OF cg alone.
LockRevision_Unlocked(r) ==
  /\ pc[r] = "revision"
  /\ Goto(r, "generation")
  /\ UNCHANGED <<dataVars, lockVars, requestVars, serving, found>>

\* A bug to catch: some requests lock the generation first.
LockRevision_EitherOrder(r) ==
  /\ pc[r] = "revision"
  /\ \/ /\ revisionRow = Nobody /\ revisionRow' = r
        /\ Goto(r, "generation")
        /\ UNCHANGED generationRow
     \/ /\ generationRow[found[r]] = Nobody
        /\ generationRow' = [generationRow EXCEPT ![found[r]] = r]
        /\ UNCHANGED <<revisionRow, pc>>
  /\ read' = [read EXCEPT ![r] = revision]
  /\ UNCHANGED <<dataVars, advisory, page, serving, found>>

\* ... then FOR UPDATE OF revision ...
LockRevision(r) ==
  /\ pc[r] = "revision" /\ revisionRow = Nobody
  /\ revisionRow' = r
  /\ read' = [read EXCEPT ![r] = revision]
  /\ Goto(r, "generation")
  /\ UNCHANGED <<dataVars, advisory, generationRow, page, serving, found>>

\* A bug to catch: FOR UPDATE OF revision alone keeps the snapshot's generation.
LockGeneration_Snapshot(r) ==
  /\ pc[r] = "generation"
  /\ Goto(r, "deciding")
  /\ UNCHANGED <<dataVars, lockVars, requestVars, serving, found>>

\* ... and cg: a row that is not current any more is dropped, and the answer is that
\* there is no active generation.
LockGeneration(r) ==
  /\ pc[r] = "generation" /\ generationRow[found[r]] = Nobody
  /\ \/ /\ found[r] = current
        /\ generationRow' = [generationRow EXCEPT ![found[r]] = r]
        /\ Goto(r, "deciding")
        /\ UNCHANGED <<advisory, revisionRow>>
     \/ /\ found[r] # current
        /\ ReleaseAll({r})
        /\ Goto(r, "refused")
  /\ UNCHANGED <<dataVars, requestVars, serving, found>>

\* splitCurrentCoverageBundle: the page must show the generation and the revision
\* read.  The dialog sends the revision with every card of a normalized projection;
\* a request without one, which the API would take, is left out.
Split(r) ==
  /\ pc[r] = "deciding" /\ page[r] = [gen |-> found[r], revision |-> read[r]]
  /\ corrections' = corrections \cup {[by |-> r, gen |-> found[r], page |-> page[r]]}
  /\ revision' = revision + 1
  /\ ReleaseAll({r})
  /\ Goto(r, "done")
  /\ UNCHANGED <<stored, current, reverted, requestVars, serving, found>>

\* undoCurrentCoverageCorrection asks for no revision.
Undo(r) ==
  /\ pc[r] = "deciding"
  /\ \E c \in corrections \ reverted : reverted' = reverted \cup {c}
  /\ revision' = revision + 1
  /\ ReleaseAll({r})
  /\ Goto(r, "done")
  /\ UNCHANGED <<stored, current, corrections, requestVars, serving, found>>

Refuse(r) ==
  /\ pc[r] = "deciding"
  /\ ReleaseAll({r})
  /\ Goto(r, "refused")
  /\ UNCHANGED <<dataVars, requestVars, serving, found>>

-----------------------------------------------------------------------------
(* Failures *)

\* A bug to catch: withPgTransaction of the server does not roll back.
Abort_KeepsLocks(p) ==
  /\ InTransaction(p)
  /\ IF p \in Request THEN UNCHANGED lockVars ELSE ReleaseAll({p})
  /\ Goto(p, Aborted(p))
  /\ UNCHANGED <<dataVars, requestVars, serving, found>>

\* A statement fails, the volume guard throws, a check of the promotion raises.
Abort(p) ==
  /\ InTransaction(p)
  /\ ReleaseAll({p})
  /\ Goto(p, Aborted(p))
  /\ UNCHANGED <<dataVars, requestVars, serving, found>>

\* deadlock_timeout: one member of the cycle fails.
DetectDeadlock == \E S \in SUBSET Process : Cycle(S) /\ \E p \in S : Abort(p)

Persist == LockAdvisory(Worker) \/ SelectCompared \/ LockCompared
           \/ UpdateLegacyRevision \/ CommitPersist

Promote == LockAdvisory(Promotion) \/ CheckReviewed \/ CommitPromotion

Mutate(r) == LockRevision(r) \/ LockGeneration(r) \/ Split(r) \/ Undo(r) \/ Refuse(r)

Next ==
  \/ BeginPersist \/ Persist
  \/ BeginPromotion \/ Promote \/ GoLive \/ CanaryFails \/ Rollback
  \/ \E r \in Request : Review(r) \/ SelectCurrent(r) \/ Mutate(r)
  \/ \E p \in Process : Abort(p)
  \/ DetectDeadlock

Spec == Init /\ [][Next]_vars

(* Statements run to their end and lock queues are first come, first served, *)
(* so whoever waits for a lock that is released again and again gets it; the *)
(* detector runs whenever somebody has waited for deadlock_timeout.          *)
FairSpec ==
  /\ Spec
  /\ SF_vars(Persist) /\ SF_vars(Promote \/ Abort(Promotion))
  /\ \A r \in Request : SF_vars(Mutate(r))
  /\ WF_vars(DetectDeadlock)

-----------------------------------------------------------------------------
(* Properties *)

(* The only transactions that can wait for each other are an active persist,*)
(* which locks the generation before the revision, and one request of the   *)
(* owner, which locks them the other way round; promotion, shadow persists  *)
(* and two requests never do.                                               *)
OnlyInversionDeadlocks ==
  \A S \in SUBSET Process : Cycle(S) =>
    /\ serving = "normalized"
    /\ \E r \in Request : S = {Worker, r}

(* Two splits made from the same revision never both succeed, even when the *)
(* second waits for the first: it reads the revision the first has written. *)
PagesAreUsedOnce ==
  \A c, d \in corrections : c.page.revision = d.page.revision => c = d

CorrectionStep ==
  \A c \in corrections' \ corrections :
    /\ c.gen = current /\ current' = current
    /\ c.page = [gen |-> current, revision |-> revision]

(* A correction is stored on the generation that is current at its commit,  *)
(* although the request selected it before waiting for a persist, and comes *)
(* from a page that shows this generation with all corrections so far.      *)
CorrectionsLandOnCurrent == [][CorrectionStep]_vars

PromotionStep ==
  \A g \in Generation : stored[g] = "shadow" /\ stored'[g] = "active" => IsLatestShadow(g)

(* What a promotion makes current is the latest shadow generation when it   *)
(* commits, not only when it was checked.                                   *)
LatestIsPromoted == [][PromotionStep]_vars

(* Whatever the statements wait for, every transaction takes effect at one  *)
(* moment, on what is stored then: they implement GenerationStore.          *)
Store == INSTANCE GenerationStore
  WITH corrected <- {c.gen : c \in corrections}

LocksImplementStore == Store!Spec

(* Every transaction ends: nobody waits forever, whoever is made to fail.   *)
EveryTransactionEnds == \A p \in Process : InTransaction(p) ~> ~ InTransaction(p)
=============================================================================
