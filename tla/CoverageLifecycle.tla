------------------------- MODULE CoverageLifecycle -------------------------
(***************************************************************************)
(* The life of coverage generations in PostgreSQL: the worker persists     *)
(* shadow or active generations and prunes old ones, the deployment        *)
(* promotes a reviewed shadow generation and rolls flags back, the owner   *)
(* splits groups and undoes corrections.                                   *)
(*                                                                         *)
(* A transaction that holds the advisory lock (20260713, 7) is one action: *)
(* the persist and the promotion exclude each other by that lock, and the  *)
(* rows the owner's transactions write are none that these two read.       *)
(* CoverageLocks opens the transactions up.  Around them the worker's      *)
(* cycle is taken apart: it analyses, commits or throws, records a failure,*)
(* prunes, and may die between any two of these.                           *)
(*                                                                         *)
(* Generations are numbered in the order of (completed_at, id).  The paired*)
(* v1 serialization and the edges are written from the same input in the   *)
(* same transaction and deleted with their generation; they are left out.  *)
(***************************************************************************)
EXTENDS BundleIdentity

CONSTANTS
  Analyses,         \* what a cycle may find: [articles, groups]
  RequiredShadows,  \* healthy shadow generations a promotion asks for: 7
  ReviewWindow,     \* the age below which they count: 24 hours
  Retention,        \* the age above which a generation is prunable: 30 days
  MinArticles,      \* COVERAGE_ACTIVE_MIN_ARTICLES
  RatioNum,         \* COVERAGE_ACTIVE_MIN_PREVIOUS_RATIO, as a fraction
  RatioDen,
  MaxGeneration,    \* bound: rows of coverage_bundle_generations
  MaxTime,          \* bound: the clock
  MaxRevision,      \* bound: owner mutations
  MaxLegacyRevision \* bound: writes of the public v1 projection

Generation == 1..MaxGeneration
NoGeneration == 0
Modes == {"shadow", "active"}

ASSUME LifecycleAssumption ==
  /\ RequiredShadows \in Nat /\ ReviewWindow \in Nat /\ Retention \in Nat
  /\ MinArticles \in Nat /\ RatioNum \in Nat /\ RatioDen \in Nat \ {0}
  /\ MaxGeneration \in Nat /\ MaxTime \in Nat
  /\ MaxRevision \in Nat /\ MaxLegacyRevision \in Nat
  /\ \A a \in Analyses :
       /\ a.articles \subseteq Article
       /\ IsFiniteSet(a.articles)
       /\ a.groups \subseteq Group
       /\ IsFiniteSet(a.groups)
       /\ \A c \in a.groups : c.members \subseteq a.articles
       /\ DisjointGroups(a.groups)

VARIABLES
  clock,
  status,       \* [Generation -> ...]: "completed", "failed", deleted or not there yet
  mode,         \* [Generation -> Modes]
  completedAt,  \* [Generation -> time]
  articles,     \* [Generation -> set of articles]: coverage_generation_articles
  versions,     \* [Generation -> set of bundles]: coverage_bundle_versions and _members
  current,      \* generations with is_current
  rows,         \* v2 rows of coverage_bundles: the stable bundle rows
  corrections,  \* coverage_bundle_corrections
  revision,     \* coverage_projection_revisions.revision
  legacyRevision,
  config,       \* matcher version and generation mode the worker runs with
  serving,      \* the projection mode the server runs with
  rollout,      \* where the playbook stands
  job           \* the worker's cycle

generationVars == <<status, mode, completedAt, articles, versions>>
ownerVars == <<corrections, revision>>
deployVars == <<config, serving, rollout>>
vars == <<clock, generationVars, current, rows, ownerVars, legacyRevision, deployVars, job>>

Row == [id : BundleId, members : SUBSET Article,
        gen : Generation \cup {NoGeneration}, state : {"shadow", "active", "superseded"}]

Pair == {S \in SUBSET Article : \E a, b \in S : a # b /\ S = {a, b}}

Correction == [pair : Pair, gen : Generation, status : {"active", "reverted"}]

Idle == [pc |-> "idle", articles |-> {}, groups |-> {}, seenAt |-> 0]

Job == [pc : {"idle", "analysed", "failing", "pruning"}, articles : SUBSET Article,
        groups : SUBSET Group, seenAt : 0..MaxTime]

TypeOK ==
  /\ clock \in 0..MaxTime
  /\ status \in [Generation -> {"unused", "completed", "failed", "pruned"}]
  /\ mode \in [Generation -> Modes]
  /\ completedAt \in [Generation -> 0..MaxTime]
  /\ articles \in [Generation -> SUBSET Article]
  /\ versions \in [Generation -> SUBSET Bundle]
  /\ current \subseteq Generation
  /\ rows \subseteq Row
  /\ corrections \subseteq Correction
  /\ revision \in 0..MaxRevision
  /\ legacyRevision \in 0..MaxLegacyRevision
  /\ config \in {"v1", "shadow", "active"}
  /\ serving \in {"legacy", "normalized"}
  /\ rollout \in {"none", "canary"}
  /\ job \in Job

Init ==
  /\ clock = 0
  /\ status = [g \in Generation |-> "unused"]
  /\ mode = [g \in Generation |-> "shadow"]
  /\ completedAt = [g \in Generation |-> 0]
  /\ articles = [g \in Generation |-> {}]
  /\ versions = [g \in Generation |-> {}]
  /\ current = {} /\ rows = {} /\ corrections = {}
  /\ revision = 0 /\ legacyRevision = 0
  /\ config = "shadow" /\ serving = "legacy" /\ rollout = "none"
  /\ job = Idle

Tick ==
  /\ clock < MaxTime
  /\ clock' = clock + 1
  /\ UNCHANGED <<generationVars, current, rows, ownerVars, legacyRevision, deployVars, job>>

-----------------------------------------------------------------------------
(* Queries *)

Completed(m) == {g \in Generation : status[g] = "completed" /\ mode[g] = m}

IsLatest(g, S) == g \in S /\ \A h \in S : h <= g

\* previousRows: the bundles of the latest completed generation of mode m.
PreviousBundles(m) == UNION {versions[g] : g \in {h \in Completed(m) : IsLatest(h, Completed(m))}}

\* previousGenerationId: undefined when that generation has no bundle.
PreviousGenerations(m) ==
  {g \in Completed(m) : IsLatest(g, Completed(m)) /\ versions[g] # {}}

\* The id of a new row.
IsNext(g) == status[g] = "unused" /\ \A h \in Generation : h < g => status[h] # "unused"

\* The row the readers and the owner's mutations select.
ReadableCurrent == {g \in current : status[g] = "completed" /\ mode[g] = "active"}

\* stable_rows of the health query: active rows that still belong to g.
StableRows(g) == {r \in rows : r.gen = g /\ r.state = "active"}

\* The integrity part of coverageProjectionHealthQueryText, for generation g.
Clean(g) ==
  \A b \in versions[g] : \E r \in StableRows(g) : r.id = b.id /\ r.members = b.members

CurrentClean == \A g \in ReadableCurrent : Clean(g)

ActivePairs == {c.pair : c \in {d \in corrections : d.status = "active"}}

-----------------------------------------------------------------------------
(* The worker's cycle *)

\* prepareCollectedArticleCoverageAnalyses; completedAt is the cycle's seenAt.
Analyse ==
  /\ job.pc = "idle"
  /\ \E a \in Analyses :
       job' = [pc |-> "analysed", articles |-> a.articles, groups |-> a.groups, seenAt |-> clock]
  /\ UNCHANGED <<clock, generationVars, current, rows, ownerVars, legacyRevision, deployVars>>

\* A v1-only cycle writes the public v1 rows and nothing else.
PersistV1 ==
  /\ job.pc = "analysed" /\ config = "v1"
  /\ legacyRevision < MaxLegacyRevision
  /\ legacyRevision' = legacyRevision + 1
  /\ job' = Idle
  /\ UNCHANGED <<clock, generationVars, current, rows, ownerVars, deployVars>>

\* The volume guard: enough articles, and enough of what the current generation had.
VolumeAccepted(found) ==
  /\ Cardinality(found) >= MinArticles
  /\ \A g \in ReadableCurrent :
       Cardinality(found) * RatioDen >= Cardinality(articles[g]) * RatioNum

Supersede(r) == [r EXCEPT !.state = "superseded"]

NewRow(g, b, m) == [id |-> b.id, members |-> b.members, gen |-> g, state |-> m]

\* A bug to catch: the conflict update forgets generation_id.
RowsAfter_KeepsGeneration(g, m, bundles) ==
  {[NewRow(g, b, m) EXCEPT !.gen = IF b.id \in Ids(rows)
                                   THEN (CHOOSE r \in rows : r.id = b.id).gen ELSE g] :
     b \in bundles}
  \cup {r \in rows : r.id \notin Ids(bundles)}

\* The stable rows after generation g of mode m has stored its bundles: the rows of the
\* previous generation (and, in active mode, every active row) are superseded, and
\* ON CONFLICT (id) DO UPDATE takes over the row of any bundle that keeps its id.
RowsAfter(g, m, bundles) ==
  LET kept == {r \in rows : r.id \notin Ids(bundles)}
      demoted(r) == r.gen \in PreviousGenerations(m) \/ (m = "active" /\ r.state = "active")
  IN  {IF demoted(r) THEN Supersede(r) ELSE r : r \in kept}
      \cup {NewRow(g, b, m) : b \in bundles}

\* is_current after generation g of mode m is completed.
CurrentAfter(m, g) == IF m = "active" THEN {g} ELSE current

\* persistCoverageGeneration, committed.
Commit(m, g, bundles) ==
  /\ status' = [status EXCEPT ![g] = "completed"]
  /\ mode' = [mode EXCEPT ![g] = m]
  /\ completedAt' = [completedAt EXCEPT ![g] = job.seenAt]
  /\ articles' = [articles EXCEPT ![g] = job.articles]
  /\ versions' = [versions EXCEPT ![g] = bundles]
  /\ rows' = RowsAfter(g, m, bundles)
  /\ current' = CurrentAfter(m, g)
  /\ legacyRevision' = legacyRevision + 1
  /\ job' = [Idle EXCEPT !.pc = "pruning", !.seenAt = job.seenAt]
  /\ UNCHANGED <<clock, ownerVars, deployVars>>

Persist(m) ==
  /\ job.pc = "analysed" /\ config = m
  /\ m = "active" => VolumeAccepted(job.articles)
  /\ legacyRevision < MaxLegacyRevision
  /\ \E g \in Generation :
       /\ IsNext(g)
       /\ \E bundles \in ReuseOutcomes(job.groups, PreviousBundles(m)) : Commit(m, g, bundles)

PersistShadow == Persist("shadow")
PersistActive == Persist("active")

\* A bug to catch: the previous rows are superseded outside the transaction.
PersistThrows_HalfWritten ==
  /\ job.pc = "analysed" /\ config # "v1"
  /\ job' = [Idle EXCEPT !.pc = "failing", !.seenAt = job.seenAt]
  /\ rows' = RowsAfter(0, config, {})
  /\ UNCHANGED <<clock, generationVars, current, ownerVars, legacyRevision, deployVars>>

\* The volume guard or any statement throws: the transaction is rolled back.
PersistThrows ==
  /\ job.pc = "analysed" /\ config # "v1"
  /\ job' = [Idle EXCEPT !.pc = "failing", !.seenAt = job.seenAt]
  /\ UNCHANGED <<clock, generationVars, current, rows, ownerVars, legacyRevision, deployVars>>

\* The failed row, outside the transaction; the cycle ends with the error.
RecordFailure ==
  /\ job.pc = "failing" /\ config # "v1"
  /\ \E g \in Generation :
       /\ IsNext(g)
       /\ status' = [status EXCEPT ![g] = "failed"]
       /\ mode' = [mode EXCEPT ![g] = config]
       /\ completedAt' = [completedAt EXCEPT ![g] = job.seenAt]
  /\ job' = Idle
  /\ UNCHANGED <<clock, articles, versions, current, rows, ownerVars, legacyRevision, deployVars>>

\* A bug to catch: retention forgets the review history.
Prunable_IgnoresCorrections(now) ==
  {g \in Generation :
     /\ status[g] = "completed"
     /\ completedAt[g] + Retention < now
     /\ \A r \in rows : r.state \in {"active", "shadow"} => r.gen # g}

\* A bug to catch: retention protects the shadow rows only.
Prunable_IgnoresActive(now) ==
  {g \in Generation :
     /\ status[g] = "completed"
     /\ completedAt[g] + Retention < now
     /\ \A r \in rows : r.state = "shadow" => r.gen # g
     /\ \A c \in corrections : c.gen # g}

\* The query's own conditions; the key of coverage_bundle_corrections
\* (ON DELETE RESTRICT) would stop what the last one excludes.
Prunable(now) ==
  {g \in Generation :
     /\ status[g] = "completed"
     /\ completedAt[g] + Retention < now
     /\ \A r \in rows : r.state \in {"active", "shadow"} => r.gen # g
     /\ \A c \in corrections : c.gen # g}

\* Delete the generations of P: what they own goes with them (ON DELETE CASCADE),
\* their stable rows stay without a generation (ON DELETE SET NULL).
Delete(P) ==
  /\ status' = [g \in Generation |-> IF g \in P THEN "pruned" ELSE status[g]]
  /\ articles' = [g \in Generation |-> IF g \in P THEN {} ELSE articles[g]]
  /\ versions' = [g \in Generation |-> IF g \in P THEN {} ELSE versions[g]]
  /\ current' = current \ P
  /\ rows' = {IF r.gen \in P THEN [r EXCEPT !.gen = NoGeneration] ELSE r : r \in rows}
  /\ UNCHANGED <<mode, completedAt>>

\* pruneCoverageGenerations(completedAt), after the commit and outside the lock.
Prune ==
  /\ job.pc = "pruning"
  /\ Delete(Prunable(job.seenAt))
  /\ job' = Idle
  /\ UNCHANGED <<clock, ownerVars, legacyRevision, deployVars>>

\* The worker process dies and is started again.
WorkerRestart ==
  /\ job.pc # "idle"
  /\ job' = Idle
  /\ UNCHANGED <<clock, generationVars, current, rows, ownerVars, legacyRevision, deployVars>>

-----------------------------------------------------------------------------
(* The deployment *)

RecentShadows == {g \in Completed("shadow") : completedAt[g] + ReviewWindow > clock}

\* Seven newest shadows, all recent: the newest RequiredShadows of them are recent.
EnoughReviewed ==
  \E newest \in SUBSET Completed("shadow") :
    /\ Cardinality(newest) = RequiredShadows
    /\ \A g \in newest, h \in Completed("shadow") \ newest : h < g
    /\ newest \subseteq RecentShadows

\* A bug to catch: the count of activated rows is not compared.
AllRowsStillThere_Unchecked(g) == TRUE

\* activated_bundle_count = candidate_bundle_count
AllRowsStillThere(g) == Cardinality({r \in rows : r.gen = g}) = Cardinality(versions[g])

\* A bug to catch: foreign active rows are left alone.
PromotedRows_KeepsForeign(g) ==
  {IF r.gen = g THEN [r EXCEPT !.state = "active"] ELSE r : r \in rows}

PromotedRows(g) ==
  {IF r.gen = g THEN [r EXCEPT !.state = "active"]
   ELSE IF r.state = "active" THEN Supersede(r) ELSE r : r \in rows}

\* promote-coverage-generation.sql, run by the playbook while the old worker still runs.
Promote(g) ==
  /\ rollout = "none" /\ serving = "legacy"
  /\ IsLatest(g, Completed("shadow"))
  /\ EnoughReviewed
  /\ AllRowsStillThere(g)
  /\ mode' = [mode EXCEPT ![g] = "active"]
  /\ rows' = PromotedRows(g)
  /\ current' = {g}
  /\ rollout' = "canary"
  /\ UNCHANGED <<clock, status, completedAt, articles, versions, ownerVars, legacyRevision,
                 config, serving, job>>

\* The canary is ready; API and worker are replaced by containers with the target flags:
\* the check of its readiness and the replacement after it are one step.
GoLive ==
  /\ rollout = "canary"
  /\ ReadableCurrent # {} /\ CurrentClean
  /\ rollout' = "none" /\ serving' = "normalized" /\ config' = "active"
  /\ job' = Idle
  /\ UNCHANGED <<clock, generationVars, current, rows, ownerVars, legacyRevision>>

\* The canary failed: the flags go back in the file, the old containers were never stopped.
CanaryFails ==
  /\ rollout = "canary"
  /\ rollout' = "none"
  /\ UNCHANGED <<clock, generationVars, current, rows, ownerVars, legacyRevision, config, serving, job>>

\* The rescue block returns the matcher to v1; the operator's rollback keeps v2 shadow.
Rollback ==
  /\ serving = "normalized"
  /\ serving' = "legacy"
  /\ config' \in {"v1", "shadow"}
  /\ job' = Idle
  /\ UNCHANGED <<clock, generationVars, current, rows, ownerVars, legacyRevision, rollout>>

EnableShadow ==
  /\ config = "v1"
  /\ config' = "shadow"
  /\ job' = Idle
  /\ UNCHANGED <<clock, generationVars, current, rows, ownerVars, legacyRevision, serving, rollout>>

-----------------------------------------------------------------------------
(* The owner *)

\* A story the owner can split: articles of the current generation that the regrouping
\* keeps together.  Which ones do is the matcher's business, but never a rejected pair.
Together(S, g) == S \subseteq articles[g] /\ \A pair \in ActivePairs : ~ pair \subseteq S

\* A bug to catch: the split also takes the articles out of the stored bundle.
Split_RewritesBase(anchor, rejected) ==
  /\ serving = "normalized" /\ revision < MaxRevision
  /\ \E g \in ReadableCurrent :
       /\ Together({anchor} \cup rejected, g)
       /\ corrections' = corrections \cup
            {[pair |-> {anchor, a}, gen |-> g, status |-> "active"] : a \in rejected}
       /\ versions' = [versions EXCEPT ![g] =
            {[b EXCEPT !.members = @ \ rejected] : b \in versions[g]}]
  /\ revision' = revision + 1
  /\ UNCHANGED <<clock, status, mode, completedAt, articles, current, rows, legacyRevision,
                 deployVars, job>>

\* splitCurrentCoverageBundle; a request whose pairs are all rejected already only
\* returns them, and every refusal leaves the database alone.
Split(anchor, rejected) ==
  /\ serving = "normalized" /\ revision < MaxRevision
  /\ \E g \in ReadableCurrent :
       LET fresh == {a \in rejected : {anchor, a} \notin ActivePairs} IN
       /\ fresh # {}
       /\ Together({anchor} \cup fresh, g)
       /\ corrections' = corrections \cup
            {[pair |-> {anchor, a}, gen |-> g, status |-> "active"] : a \in fresh}
  /\ revision' = revision + 1
  /\ UNCHANGED <<clock, generationVars, current, rows, legacyRevision, deployVars, job>>

SplitAny == \E anchor \in Article : \E rejected \in SUBSET (Article \ {anchor}) :
              Split(anchor, rejected)

\* undoCurrentCoverageCorrection: only while both articles are in the current generation.
Undo(c) ==
  /\ serving = "normalized" /\ revision < MaxRevision
  /\ c.status = "active"
  /\ \E g \in ReadableCurrent : c.pair \subseteq articles[g]
  /\ corrections' = (corrections \ {c}) \cup {[c EXCEPT !.status = "reverted"]}
  /\ revision' = revision + 1
  /\ UNCHANGED <<clock, generationVars, current, rows, legacyRevision, deployVars, job>>

UndoAny == \E c \in corrections : Undo(c)

PromoteAny == \E g \in Generation : Promote(g)

Next ==
  \/ Tick
  \/ Analyse \/ PersistV1 \/ PersistShadow \/ PersistActive
  \/ PersistThrows \/ RecordFailure \/ Prune \/ WorkerRestart
  \/ PromoteAny \/ GoLive \/ CanaryFails \/ Rollback \/ EnableShadow
  \/ SplitAny \/ UndoAny

Spec == Init /\ [][Next]_vars

-----------------------------------------------------------------------------
(* Invariants *)

(* Readers pick one row: at most one generation is current, and it is a     *)
(* completed active one, through promotions, rollbacks, failures and prunes.*)
OneCurrent ==
  /\ \A g, h \in current : g = h
  /\ \A g \in current : status[g] = "completed" /\ mode[g] = "active"

(* A stable row says it belongs to a generation only while that generation  *)
(* is stored and still has the bundle, with the row's members; promotion    *)
(* counts rows and relies on it.                                            *)
RowsMirrorVersions ==
  \A r \in rows : r.gen # NoGeneration =>
    /\ status[r.gen] = "completed"
    /\ \E b \in versions[r.gen] : b.id = r.id /\ b.members = r.members

(* No stable row stays active beside the current generation: whatever was   *)
(* current before has been superseded.                                      *)
ActiveRowsAreCurrent == \A r \in rows : r.state = "active" => r.gen \in current

(* The stable rows of the current generation are complete: the readback the *)
(* deployment guide asks for after every active or rollback deploy.         *)
CurrentStaysClean == CurrentClean

-----------------------------------------------------------------------------
(* Action properties: what a step may do, and that every step obeys it *)

NewCurrentStep == current' # current => CurrentClean'

(* Whatever happened before, a step that makes a generation current leaves  *)
(* exactly its rows behind: promotion and active persists repair the        *)
(* projection or abort.                                                     *)
NewCurrentIsClean == [][NewCurrentStep]_vars

TakeRowsStep ==
  CurrentClean /\ current' = current /\ ~ CurrentClean' =>
    \E g \in Generation :
      status[g] = "unused" /\ status'[g] = "completed" /\ mode'[g] = "shadow"

(* The rows of a clean current generation are only ever taken by a shadow   *)
(* generation that reuses their ids; failures, prunes, corrections and flag *)
(* changes leave the projection readable.                                   *)
OnlyShadowTakesRows == [][TakeRowsStep]_vars

ImmutableStep ==
  \A g \in Generation : status[g] = "completed" /\ status'[g] # "pruned" =>
    /\ status'[g] = "completed"
    /\ articles'[g] = articles[g] /\ versions'[g] = versions[g]
    /\ completedAt'[g] = completedAt[g]
    /\ mode[g] = "active" => mode'[g] = "active"

(* Generation facts are immutable: until it is deleted, a completed         *)
(* generation keeps its articles, bundles and completion time, and an       *)
(* active one never becomes shadow again.                                   *)
GenerationsImmutable == [][ImmutableStep]_vars

HistoryStep ==
  \A c \in corrections :
    /\ c \in corrections' \/ [c EXCEPT !.status = "reverted"] \in corrections'
    /\ status'[c.gen] = "completed" /\ c.pair \subseteq articles'[c.gen]

(* Review history survives: a correction stays or is reverted, and the      *)
(* generation it was made on stays stored with both articles.               *)
ReviewHistoryKept == [][HistoryStep]_vars

ShownStep == \A g \in current : Clean(g) /\ versions[g] # {} => status'[g] = "completed"

(* A clean current generation with something to show is never pruned,       *)
(* however old it gets.                                                     *)
ShownGenerationSurvives == [][ShownStep]_vars

(* Retention preserves the current generation (ARCHITECTURE.md), which also *)
(* remains available for diagnosis after a rollback (DEPLOYMENT.md); said of*)
(* a generation that has bundles.                                           *)
CurrentIsPreserved ==
  [][\A g \in current : versions[g] # {} => status'[g] = "completed"]_vars

-----------------------------------------------------------------------------
(* The lifecycle without the contents of the generations *)

StoredAs(g) ==
  IF status[g] = "unused" THEN "unused"
  ELSE IF status[g] = "completed" THEN mode[g] ELSE "gone"

Stored == [g \in Generation |-> StoredAs(g)]

Current == IF current = {} THEN NoGeneration ELSE CHOOSE g \in current : TRUE

(* Crashes, failures, retention and the playbook replace, delete and correct*)
(* generations only as GenerationStore allows, which CoverageLocks shows of *)
(* the same transactions statement by statement.                            *)
Store == INSTANCE GenerationStore
  WITH stored <- Stored, current <- Current, corrected <- {c.gen : c \in corrections}

LifecycleImplementsStore == Store!Spec
=============================================================================
