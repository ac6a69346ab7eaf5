# Nytt Trondheim: specifications, model checking and proofs

TLA+ modules of the parts of Nytt Trondheim where order, concurrency and failure decide whether the
program is right, the TLC configurations that check them on small instances, and TLAPS proofs of
their main invariants for every size. Paths are relative to the repository.

Run from this directory: `tlc -workers 2 -config MCCoverageLocks.cfg MCCoverageLocks.tla` checks a
model, `tlapm CoverageLocks_proofs.tla` checks proofs. `PROJECT.json` lists every run, the lines every
definition models, the hazards the properties are aimed at, and for every checked property a mutant:
a plausible bug, written beside the definition it replaces (`Definition_Variant`, under "A bug to
catch"), with which TLC finds the property violated.

## 1. The system

A TypeScript monorepo for local news and situations around Trondheim.

| part | state | operations | talks to |
|---|---|---|---|
| worker (`src/apps/worker`) | a guard flag per loop; everything else in PostgreSQL | a collection every ten minutes (articles, official events, traffic, coverage, situations, push), Entur vehicles every minute, retention once at start | PostgreSQL, source sites, push services, AI models |
| server (`src/apps/server`) | PostgreSQL through `store.ts`; in the process: the coverage projection cache and its build promise, promise caches of external providers | HTTP API, sessions, readiness | PostgreSQL, providers, browser |
| PostgreSQL (`schema.sql`) | articles, events, situations, coverage generations, bundles, corrections, accounts, push | transactions, row and advisory locks | |
| deployment (`ansible-playbook.yml`, `promote-coverage-generation.sql`) | flags in `.env.production`, containers | migrate, promote a reviewed generation, canary, go live, roll back | PostgreSQL, server, worker |
| browser (`src/apps/frontend`) | pages, pending requests, undo state | read feeds, split and undo, accounts | server |
| shared code (`src/packages/shared`) | none | evidence between articles, clustering, trigger policies, schemas | |

The core of the program is its *coverage projection*: articles about one event are clustered into bundles
with stable identities; the worker stores each grouping as an immutable *generation*, first in shadow
mode beside the legacy projection, later in active mode; a deployment promotes a reviewed shadow
generation; the owner splits bundles and undoes splits; readers see the current generation with the
corrections applied, through a cache, on pages that stay open while all of this changes. Around it stand
*situations* made from official events, *push* notifications about them, *accounts* that decide who sees
more than the public, and *provider requests* made while a page is served.

| component | state | what is hard | what makes it correct | modelled |
|---|---|---|---|---|
| clustering (`article-coverage-clustering.ts`) | groups so far | groups merge over edges and grow by single articles | no group holds a rejected or conflicting pair, or hangs on nothing | `CoverageClustering` |
| bundle identity (`repository.ts` 183-297) | none | merges, splits and swaps of groups | identities distinct, inherited by the best heir | `ReuseBundleIds` |
| generation lifecycle (`repository.ts` 505-933) | generations, versions, members, stable rows, `is_current` | death between commit, failure record and prune; shadow beside active; retention of what is in use | one clean current generation; immutable facts; history kept | `CoverageLifecycle`, `CoverageLocks` |
| promotion and rollback | mode, states, flags | runs beside the old worker and before the canary | what is promoted was reviewed, is the newest, is complete | same |
| corrections (`store.ts` 7774-8119) | corrections, revision | two owners' tabs, waits behind a persist, stale pages | one success per page; on the current generation; undo restores | same |
| effective reads (`store.ts` 7224-7685, 6870-7013) | cache, build promise | awaits, coalescing, relabelling, fallback | a page is one snapshot's, and only a clean one | `CoverageReaders` |
| worker cycle (`index.ts` 1553-1955) | guard flag, jobs in flight | a step throws and its siblings run on; restart | what was published arrives whatever was cut short | `WorkerCycle` |
| DATEX ingest (`datex.ts`, `repository.ts` 1340-1440) | official events, Last-Modified cursor | crash between store, expiry and cursor; partial snapshots | the cursor never runs ahead of the rows | `WorkerCycle` |
| situations (`clusters.ts`, `repository.ts` 2038-2260) | situations | unlocked merge against the owner's action; duplicates; reopening | one situation per incident; absence resolves nothing | `SituationRules`, `WorkerCycle` |
| accounts and sessions (`auth.ts`, `store.ts`) | requests, users, links, sessions | two callbacks of one link; save after commit; revocation against a live request | every session was earned; a revocation takes effect | `Accounts` |
| push (`push-notifications.ts`) | subscriptions, deliveries | crash between claim, send and mark; lost answers | at most once per device and trigger; a true ledger | `PushDelivery` |
| provider requests (`travel-plan.ts` and others) | promises, failures, rate window, circuit | eviction and late failures under running fetches | bounded rate, one request per key, circuit follows failures | `ProviderCache` |
| retention (`retention.ts`) | | | deletes nothing a live row refers to | the part about generations and deliveries |
| story feed of a page (`HomePage.tsx`) | stories, cursor, projection, requests in flight, dialog, undo | late answers, context that changes under a split or an undo, conflicts | answers change only what they were asked for; no wait is endless; the page catches up | `NewsFeed` |
| other frontend requests, HTTP routing, collectors, parsers, text evidence, AI, views | | | | no (section 7) |

`PROJECT.json` lists the components with what each model leaves out, and the hazards with the
properties aimed at them; a hazard without a property has a note that says why.

## 2. Modules

| module | models |
|---|---|
| `BundleIdentity` | vocabulary of groups and identities, and `StableAssignment`: what `reuseCoverageBundleIds` promises |
| `CoverageClustering` | `clusterArticlesByCoverageEdges`, one action per strong edge and per article |
| `ReuseBundleIds` | `reuseCoverageBundleIds`, one action per turn of its loops |
| `CoverageAnalysis` | the two composed: what was clustered is persisted and named, generation after generation |
| `CoverageLifecycle` | worker, promotion, flags, retention and corrections on the tables; one action per transaction |
| `CoverageLocks` | the same transactions taken apart into statements and lock waits |
| `GenerationStore` | abstract: what the tables of generations promise, one action per transaction; implemented by both `CoverageLifecycle` and `CoverageLocks` |
| `CoverageReads` | abstract: a read is atomic and shows only a clean projection |
| `CoverageReaders` | reads in one server process, one action per await, implementing `CoverageReads` |
| `SituationRules` | what a cycle decides about situations, as functions of what it read |
| `WorkerCycle` | the collection cycle: ingest, decisions, concurrent unlocked upserts, failures, owner |
| `Accounts` | access requests, users, login links, sessions, requests in flight |
| `PushDelivery` | subscriptions and the delivery loop, composed with `Accounts` |
| `ProviderCache` | promise cache, failure memory, rate window and circuit breaker under a clock |
| `FeedProjection` | the stories the server computes for its readers, stored and recomputed, over given groups |
| `NewsFeed` | one open page of the story feed against server, worker and another tab |
| `..._proofs` | TLAPS proofs about the module they extend |
| `MC...` | instances for TLC |

They fit together as assumption and guarantee. `CoverageClustering` finds disjoint groups of at least
two, which `ReuseBundleIds` needs; that keeps the promise of `BundleIdentity`; `CoverageLifecycle` uses
any outcome the promise allows, so it does not depend on how ties are broken. `CoverageLocks` justifies
reading a transaction of `CoverageLifecycle` as one action: both implement `GenerationStore`, the one with
the statements and waits of a transaction, the other with its contents. `CoverageLifecycle` shows generations
immutable, on which `CoverageReaders` relies when it identifies a projection's content with its key.

### CoverageClustering, ReuseBundleIds and the code

| state | code |
|---|---|
| `judgement` | `edges` and `options.rejectedPairs`: tier, conflicts, exact traffic bridge, traffic collisions and rejections, as sets and functions of pairs |
| `groups`, `strong`, `unplaced`, `stage` | `groups`, and how far the two loops have come |
| `candidates`, `previous` | the analysis being persisted, and the bundles of the latest completed generation of its mode |
| `assignment`, `options`, `phase` | `assignments` and then `finalIds`, the rest of the loop's options, which loop |

An article is a number in publication order. How a pair is judged (text, places, times) is not
modelled: every judgement in which a conflict excludes the edge, as `articleCoverageEdge` guarantees, is
a possible input. `Blocked` is `containsBlockingPair` with the exception for reports of one traffic
collision (`Lifted`). Scores only order the strong edges; here they come in any order, as do the options
that `localeCompare` alone orders. An identity is the record of what was hashed (32-bit collisions are
not modelled).

Two things the model shows in passing, which no property forbids: an article whose only candidate group
is blocked ends in no group at all (`article-coverage-clustering.ts:113`), which its readers treat like a
group of its own; and the anchor of a group is its newest member, also when that was admitted by one
moderate edge, while `docs/superpowers/specs/2026-07-13-siste-nytt-similar-case-redesign-design.md:188`
speaks of the newest strongly connected article.

### CoverageLifecycle and the code

| state | code |
|---|---|
| `status`, `mode`, `completedAt`, `articles`, `versions` by generation | `coverage_bundle_generations`, `coverage_generation_articles`, `coverage_bundle_versions`, `coverage_bundle_members` |
| `current` | rows with `is_current` |
| `rows` | v2 rows of `coverage_bundles`, the stable bundle rows |
| `corrections`, `revision`, `legacyRevision` | `coverage_bundle_corrections`, `coverage_projection_revisions` |
| `config`, `serving`, `rollout` | the worker's and server's flags, and where the playbook stands |
| `job` | the worker's cycle: analysis in memory, then failing, then pruning |

`Analyse`, `PersistV1`, `PersistShadow`, `PersistActive`, `PersistThrows`, `RecordFailure`, `Prune` and
`WorkerRestart` are the coverage part of `collectAll` with `persistCoverageGeneration` and
`pruneCoverageGenerations`; the worker may die between any two. `Promote` is the SQL script, `GoLive`,
`CanaryFails`, `Rollback` and `EnableShadow` the playbook; `Split` and `Undo` the store's mutations.

Abstractions: the paired v1 serialization, edges and diagnostics are written from the same input in the
same transaction and are left out, with the promotion's parity check on them; so is the operator's
override of the volume guard. Generations are numbered in the order of `(completed_at, id)`. The
matcher's regrouping is nondeterministic except that it never keeps a rejected pair together. An
article is a number in publication order, an identity is the record of what was hashed (32-bit
collisions are not modelled).

### CoverageLocks and the code

Locks: the advisory lock `(20260713, 7)` of persist and promotion, the row of
`coverage_projection_revisions`, rows of `coverage_bundle_generations`. PostgreSQL's READ COMMITTED
rules for `FOR UPDATE` are modelled as the code relies on them: the query's snapshot selects a row
(`SelectCurrent`), the locks are awaited one after another, the newest version of a row is read after
the wait (`LockRevision`), and a row that no longer satisfies the query is dropped (`LockGeneration`);
a cycle of waits ends by failing one member (`DetectDeadlock`). An active persist locks the current
generation (`repository.ts:521`) before the revision row (`repository.ts:137`); the owner's query locks
them in the opposite order (`store.ts:7791`). `Refuse` stands for every answer that writes nothing.
The API and the worker change flags at one moment (`GoLive`), although the containers are replaced
within seconds of each other.

A consequence that no property forbids: an owner's request that waited for an active persist is told
that no active generation exists (`store.ts:7794`), although a new one does, and gets no replacement
stories with the refusal.

### CoverageReaders and the code

| state | code |
|---|---|
| `db` | what a snapshot sees: generation, revision, legacy revision, and whether the health query is clean |
| `cache`, `build` | `activeCoverageProjectionCache` (its key, and the snapshot it was built in), `activeCoverageProjectionBuild` |
| `pc`, `waitsFor`, `snap`, `page`, `label` | a request: its await, the promise it awaits, its snapshot, what it is given, the revision its page is stamped with |

What runs between two awaits is one action. A read is one REPEATABLE READ transaction, so its final
health query sees the snapshot of the first and the recheck of the key never fails; what does happen
there is that the installed cache, whoever built it, is relabelled (`Seal`). Article payloads are told
apart only by the legacy revision.

### WorkerCycle and the code

| state | code |
|---|---|
| `feed` | what Vegvesen has published so far (external) |
| `rows`, `cursor` | `official_events` with `valid_to` passed or not, `collector_state` `datex:lastModified` |
| `sits` | `situations`: status, updatedAt, incident signature, primary event |
| `pc`, `snap`, `booting` | where `collectAll` is, the snapshot it holds, whether it is `runWorker`'s first |
| `jobs` | calls of `upsertSituation`: what each wants to store, and the row it read |

`FetchUnmodified`, `FetchSnapshot`, `FetchFails`, `UpsertOfficialEvents`, `ExpireMissing` and `SaveCursor`
are the DATEX collector and the ingest half; `DetectSituations` computes everything a cycle wants to
store (`SituationRules` holds the functions of `clusters.ts` and `mergeSituation`); `LoadSituation` and
`StoreSituation` are the two statements of an upsert, between which anybody may write. `SetStatus` and
`SetPublicVisibility` are the owner's. `CycleThrows` and `LiveJobFails` end a cycle with its siblings left
running (`Promise.all`), or the process when it is the first one; `Crash` ends both.

Left out: situations from articles and Politiloggen (text classification), MET, NVE and the other
collectors, importance, features and timeline, which no rule here reads. The cycle's coverage half is in
`CoverageLifecycle`, its push half in `PushDelivery`.

What a reader of the model should know of the code: a DATEX record with an explicit ended state does not
resolve its situation, because only current records are looked at (`clusters.ts:433`); a record is current
until its end time, or without one for a day after it was last received, so a day of 304 answers lets it
lapse (`Lapse`, for any record at any time); the records of an incident are ordered by kind, title and
publication time, which change with the publications, so a cycle may find them in any of `Orders`;
`updatedAt` may move backwards in a merge, also of a situation that stays resolved, and the next update is
then compared with that time (`IncidentsSettle` says that nothing stays closed wrongly, not that nothing
is opened wrongly); and the copy a job holds overwrites the owner's `publicVisibility` and status of the
meantime, as in `HintReopens.cfg` (section 6).

### Accounts, PushDelivery and the code

| state | code |
|---|---|
| `request`, `verifiable` | `access_requests` (status, `email_verified_at`), live `access_verify` tokens |
| `user`, `tokens` | `users.status`, `auth_tokens` of kind invite and login |
| `login`, `session`, `handling` | callbacks between their statements, session rows, requests in flight with the user they read |
| `subs`, `deliveries` | `push_subscriptions`, `push_notification_deliveries` |
| `list`, `todo`, `sending` | `activePushSubscriptions`' answer, what the loop has left, where it is |
| `redeemed`, `received` | history: whom a link logged in, what a device got |

`TakeToken` and `LoginUser` are the two statements of the callback's transaction (a second callback waits
for the token's row), `SaveSession` is `req.login` after the commit. `FinishRequest` may write a session
row again that was deleted meanwhile, as the session store does when the request changed the session.
`Send` may deliver, fail, find the endpoint gone, or deliver and lose the answer; `MarkSentThrows` is the
failing UPDATE inside the `try`. `DeliveryAborts` is a crash or any other throw.

Left out: the owner's GitHub login, CSRF tokens, rate limits of the login routes. Which triggers exist is
nondeterministic. Known consequences that no property states: a message claimed before a crash is lost,
and a failed one is never tried again; a delivered message may be recorded as failed
(`push-notifications.ts:124`). `RevocationTakesEffect` speaks only of revocations that stand; what a
reactivation revives, `ReactivationRevives.cfg` shows (section 6).

### ProviderCache and the code

The variables are the module-level maps and arrays of `travel-plan.ts`; each holds requests, by number,
where the code holds promises and time stamps, so an entry can be compared with what really happened.
Pruning is lazy as in the code: only a caller prunes (`AnswerAtOnce`, `Start`). A failure deletes whatever
its key has by then (`Forget`). The journey planner is the richest instance; departures and place
suggestions are the same without the circuit. The departures' cache is smaller (80) than the requests
its window may start (120), so the eviction of a promise in flight, which `OneInFlight` excepts, can
happen there. A restart of the process forgets everything, the limits too.

### FeedProjection, NewsFeed and the code

| state | code |
|---|---|
| `generation`, `revision`, `active` | the current generation, `coverage_projection_revisions`, active corrections |
| `page` | `feedKey`, `stories`, `nextCursor`, `storyProjection`, `loadedAdditionalPagesRef`; `mixed` is history: a later page once gave a story on display other articles |
| `saved` | `liveData`: the last page of the default feed, which the interval replaces |
| `reads`, `loading`, `loadingMore` | requests for pages: the feed, more of it, a refresh; and their flags |
| `dialog`, `pending`, `splits` | `correctionDialog`, `correctionPending`, split requests (`store.ts:7774`) |
| `toast`, `undo` | `undoState`, and the undo in flight with the stories it was clicked on |

`SwitchFeed`, `Refresh`, `LoadMore`, `OpenDialog`, `CloseDialog`, `Submit` and `ClickUndo` are the
owner's handlers, `Serve`, `SplitServed`, `ReloadServed` and `UndoServed` the server at the moment it
reads or commits, `FeedArrives`, `RefreshArrives`, `MoreArrives`, `SplitArrives` and `UndoArrives` the
continuations. A handler between two awaits is one action, with the render and the effects that follow
(`Render`, `Feed`): they drop a dialog or a toast of another context (`InContext`) and cancel its request.
`Publish` and `OtherTab` are the worker and a second session. A request another has taken the place of is
dropped at once, as its answer would change nothing; a split nobody waits for is still served.

`FeedProjection` takes as given which groups clustering makes of a generation and the rejected pairs
(`Groups`); it assumes of them what `CoverageAnalysis` proves, that they part the articles and keep
rejected pairs apart (an article in no group is read as a group of its own). From them it makes stories as
`recomputeCoverageStories` does. It keeps the differences between a stored bundle and a recomputed one that
matter to the page: a stored one has an inherited id, a recomputed one is named for its oldest article, and
the first carries the time of the analysis, the second the completion of the generation. An undo may go
through its corrections in any order, which allows more than the code does.

Left out: the legacy projection, saved articles and their overrides, reports of missed groups,
`useApiResource.ts`, the delay of a typed query, whether the tab is visible. Known consequences that no
property states: the answer of an undo in another context also takes a newer toast away; a late answer for
more after the interval's reset leaves a gap until the next refresh; loading more after a publication can
show an article twice; a split on a filtered feed adds stories the filter does not let through; and the
undo's answer, like the split's in `LoadedPageLost.cfg`, replaces what was loaded since the click.

## 3. Runs

| run | instance | states | shows |
|---|---|---|---|
| `identity` | four articles, two kinds, every judgement of their pairs with at most one blocking pair, then every sequence of groupings | 420,397 | groups hold, the greedy loops keep the promise, an unchanged group keeps its id, every call returns |
| `lifecycle` | three articles, three generations | 5.0 million | the lifecycle's invariants and step properties |
| `locks` | two requests, three generations | 66,184 | which deadlocks exist; what is still true after a wait; every transaction takes effect at one moment, and ends |
| `readers` | two feeds and an audit, two generations, one correction, two v1 writes | 569,462 | reads are atomic, dirty projections are never shown, every request ends |
| `worker_cycle` | two records of one incident, an old duplicate situation, two publications, one owner action, one failure | 726,367 | the cursor is honest, absence resolves nothing, the feed arrives, incidents settle, none stays closed over a newer update |
| `access_and_push` | one person, two browsers, one device, one trigger, two links | 156,253 | logins are earned, one message per row, a true ledger, revocation takes effect |
| `provider_requests` | two keys, five requests, seven ticks | 4.6 million | rate, one request per key, circuit |
| `feed_reads` | two feeds, three articles, two generations; two reads, one failure | 5,208 | answers stay in their feed, the default feed catches up, waits end |
| `feed_context` | two generations, a correction made before; pages of two; revisions to 3, the first may be the other tab's | 1.2 million | splits and undos stay in their context, revisions are the server's, conflicts leave no duplicates |
| `feed_undo` | four articles of which three are a group, starts on the filtered feed; revisions to 4 | 3,694 | an undo of several corrections joins again, every split and undo ends |
| `current_pruned`, `current_card_refused` | as above | until violated | section 6 |

Bounds and why they are enough.

- *Identity*: four articles make two pairs that a third edge joins, with the blocking pair across; a
  triple that admits a fourth; two groups that exchange members; and an overlap of exactly half.
  `MCMarks` limits the judgements to one blocking pair (of each sort), one bridge and three plain strong
  edges; articles are collisions all four, or all but the newest.
- *Lifecycle*: three generations are what the hazards need (a promoted one, a shadow that takes its rows,
  and one more active or failed); three articles make pairs and a triple, so groups can merge, split and
  swap; one healthy shadow stands for seven (`RequiredShadows` is a parameter of the proofs),
  `Retention` 0 makes a generation prunable one tick after it completed, two owner mutations are a split
  and its undo or two splits.
- *Readers*: a registered build, a waiter, and a third that arrives after the first settled; two
  generations and one revision so that a cache can be stale in each component of its key.
- *Locks*: two requests and three generations, so that a request can wait behind a persist that replaces
  the generation it selected, and behind another request.
- *Worker cycle*: two records of one incident, in either order, and an old situation about the second give
  adoption, merging and demotion; two publications out of three snapshots (both promotable, one absent, one
  ended and one demoted) give expiry, demotion and promotion again, and a cursor that could lag or lead; one
  owner action changes a row between the two statements of an upsert, and one failure cuts a cycle short, so
  that its jobs run on beside the next cycle, or ends the process. AI hints are off (`MaxHints` 0), as
  production forces them (`docs/ARCHITECTURE.md:57`); `HintReopens.cfg` allows one.
- *Access and push*: with two browsers a link can be followed twice and a session can outlive a
  revocation; persons do not interact except by taking over a device, which the proofs cover; two links
  are an invitation and another.
- *Provider*: the durations keep the order they have in the code (a request ends before its cache entry
  and the memory of its failure), scaled to `Timeout` 2, `CacheTTL` and `FailureTTL` 3, `Window` 2,
  `CircuitWindow` 3, `CircuitOpen` 2; two keys share one cache entry so that eviction happens, and five
  requests fill the window twice and open the circuit. Keys are symmetric.
- *Feed*: a page of one story gives a next page, pages of two show overlaps; a feed that hides the
  newest article gives another context with other pages. Three concerns have an instance each, since
  together they are too large: two reads at once and a failure (`feed_reads`); a split, an undo, two reads
  and a failure while feeds are switched (`feed_context`); and undos of two corrections, which need a group of
  three beside a correction, so four articles (`feed_undo`; there only what the server refuses fails). The
  first correction may be another tab's, so a page may be behind when it sends its own. A card must be
  recomputed to be split at all (finding 2), so the instances about splits start with a correction.

The bounds stand in the guards, each a constant named `Max...`. `readers`, `locks` and
`provider_requests` are checked without the deadlock check, as their requests, writers or clock are
bounded: those systems may stop. So is `feed_undo`, whose page opens on a feed without an interval: an
owner who does nothing there is no error. The others never stop and are checked for deadlock.
Type invariants are proved (section 5), so no run spends time on one. Nor does `lifecycle` check that it
implements `GenerationStore`, which would double its time; `LifecycleStore.cfg`, which is not among the
runs, does so on the same instance in three minutes.

### Properties worth a word

- `GroupsHold`: the test for a blocking pair looks at the whole group that would result, also when an
  exception that held for a part no longer holds for the whole; and no part of a group is without
  accepted evidence for the rest.
- `KeepsPromise`: nobody is passed over for an identity except for a better claim.
- `RowsMirrorVersions`, `NewCurrentIsClean`: the promotion compares only *counts* of stable rows;
  counting is enough because a row never names a generation that does not have its bundle.
- `OnlyShadowTakesRows`, `ShownGenerationSurvives`: the exact limits within which the two documented
  guarantees of section 6 do hold.
- `ReviewHistoryKept`: retention, rollback and undo never lose a correction, its generation or articles.
- `ReadsAreAtomic`: a refinement, from which `DirtyIsNeverShown` follows, which is also proved;
  `PagesAreEffective` is the safety half of it said directly.
- `OnlyInversionDeadlocks`: the lock-order inversion is the only deadlock; promotions, shadow persists
  and two requests never wait for each other in a circle.
- `PagesAreUsedOnce`, `CorrectionsLandOnCurrent`, `LatestIsPromoted`: what was read before a wait or a
  check still holds at the commit that relies on it.
- `LocksImplementStore`: a refinement. No transaction is seen half done or judged by what has been
  replaced, and none of a stopped container goes on: a commit is allowed by what is stored, shown and
  served at that moment alone.
- `CursorIsStored`, `FeedReflected`: three transactions store a snapshot; cut short anywhere, they never
  leave a cursor that makes Vegvesen answer 304 for what is not stored, and in the end all is.
- `DisappearanceNeverResolves`: a situation is resolved only on a record that was there.
- `IncidentsSettle`: whatever stale copies were stored, every incident with a current promotable
  record ends with one situation. A copy may resolve it over a newer update, and the time of the resolution
  moves both ways in merges; still a later cycle opens what is current and newer.
- `LoginsAreEarned`, `RevocationTakesEffect`: sessions saved after commits and after revocations make no
  access out of nothing, and access does not outlast the requests in flight.
- `SentOnce`, `LedgerIsHonest`: together they say what an UPDATE that fails after a send may do.
- `OneInFlight`: a failure may throw away a newer request's promise, and still no third is started.
- `CircuitFollowsFailures`: both ways, with the slack the lazy pruning has: failures up to `Timeout` older
  than the window may count.
- `AnswersOfThisFeed`: an effect that leaves the number of the newest request as it is relies on the
  comparison of feeds alone.
- `CorrectionsStayInContext`: the dialog, its request, the toast and the undo each carry the context they
  began in, and it may change at every await between click and answer.
- `ProjectionWasServed`: the page may count a revision by itself, and never runs ahead of the server,
  unless it has merged two answers into one story (`PageAhead.cfg`, section 6), and then by one.
- `ConflictLeavesNoDuplicates`: three sources of three moments, the display, the conflict's answer and the
  page loaded after it, are merged by ids that are not stable under recomputation.
- `UndoRejoins`: an undo of several corrections is applied to stories captured at the click, one answer
  after another; where the page then claims to be current, it must show the groups the server has.

## 4. Fairness and liveness

`EveryAnalysisIsNamed` assumes only that the functions keep running. `EveryRequestEnds` assumes weak
fairness of a request's next await: pool checkout and every query run under the 1.5 s deadline
(`store.ts` 285-343), and node runs the continuations of settled promises; no fairness is assumed of
writers or failures. `EveryTransactionEnds` assumes that statements finish (strong fairness, because a
lock may be released and taken again between two steps: PostgreSQL's lock queues are first come, first
served) and that the deadlock detector runs; the promotion may also end by raising.

`FeedReflected` and `IncidentsSettle` assume weak fairness of the cycle's next step
and of the jobs taken together: `setInterval` starts cycles, the container is restarted, fetches have
timeouts and queries return. Publications, owner actions and failures are finitely many, by their bounds;
none of them is assumed to happen. A collection that hangs for ever keeps the guard taken and every later
tick is skipped (`index.ts:812`): nothing in the code excludes it, so the fairness is an assumption about
PostgreSQL here. `RevocationTakesEffect` assumes that requests end and that the awaits of the delivery loop
return; the send of the web-push library has no timeout of its own, so that too is an assumption about the
push services.

`FeedCatchesUp` assumes the interval that refreshes the default feed (only that feed has one), that the
server answers requests somebody waits for and answers arrive; its premise is that the page stays on the
default feed. `ReadsEnd` says of a feed that it loads once no newer one is asked for, and of a request
for more that its flag is cleared; `CorrectionsEnd` that a split and an undo release their controls. Failures
are bounded; nothing is fair about the owner, the other tab, the worker, or a split nobody waits for.

The lifecycle and the provider have no liveness property: the code does not make a promotion
or a recovery happen.

## 5. Proofs

Everything below is proved by TLAPS for any articles, requests, persons, records, limits and bounds, from
the named assumptions on the constants only (`ArticleAssumption`, `JudgementAssumption`,
`GroupingsAssumption`, `LifecycleAssumption`, `ReadersAssumption`, `LocksAssumption`, `RulesAssumption`,
`CycleAssumption`, `AccountsAssumption`, `ProviderAssumption`: the bounds are natural numbers, articles
are finitely many, analyses put an article in one group, ranks are distinct, a request is over before the
memory of it is; and `ProjectionAssumption`, `FeedAssumption`: articles are finitely many, the groups of a
generation part them and keep rejected pairs apart, bundle names are distinct, a page has room for a
story). Every invariant a run checks, every action property and every refinement, but those of section 6,
is a theorem; so are the type invariant of every module, `BuildIsRunning`, `DirtyIsNeverShown` and
`LifecycleImplementsStore`, on which no run spends time.

- `CoverageAnalysis_proofs`. That a group hangs together is said of its cuts,
  so that joining groups is a matter of finding a part that a cut of the whole goes through; with that
  `GroupsHold` is nearly inductive (the first loop must also know that its edges are accepted). For the
  promise, `Settled` says that an option that is gone was taken or lost to a better claim; it needs
  `OwnFirst` (in the first loop everyone named has its own id), `Descending` (in the second whoever was
  named shares at least as much as what is still to come) and `ByRight` (an id was inherited, or is
  fresh: what the same call gave away before does not decide what is fresh). A group found again keeps
  its id because no other bundle is eligible for it. That a group has an oldest article is the
  well-foundedness of strict inclusion. Theorems: `TypeCorrect`, `GroupsAlwaysHold`, `PromiseKept`,
  `UnchangedGroupNamed`.
- `CoverageLifecycle_proofs`. The invariants the run checks are not inductive alone: rows and
  corrections need `CorrectionsAnchored` (a correction's generation is completed and has both
  articles), and counting needs `RowKeys`, `VersionKeys` and `FiniteVersions` (ids are keys on both
  sides). Then equal counts and an injection from rows to versions give the bijection behind
  `NewCurrentClean`. Theorems: `TypeCorrect`, `ProjectionSafe`, `NewCurrentClean`, `Immutable`,
  `HistoryKept`, `ShownSurvives`, `OnlyShadowTakes`, `OneIsCurrent`, `NoRowLeftActive`. The
  promise of `BundleIdentity` enters only through distinct identities. `LifecycleImplementsTheStore` needs,
  beside these, that the worker's and the server's flags change together (`Flags`): commits, promotion
  and the owner's requests map to the actions of `GenerationStore` of the same name, `RecordFailure` to
  `Fail`, `Prune` to `Prune`, analyses and crashes to stuttering.
- `CoverageReaders_proofs`. The cache may carry a wrong legacy revision, so "the key is right" is not
  invariant; `CacheIsHonest` says that its generation and revision are, which is all a reader that
  compares the full key needs. Theorems: `ReadersTypeCorrect`, `PagesEffective`, `BuildRuns`, `DirtyHidden`, and
  `ReadsImplementAtomicReads`: commits map to `Change`, `Begin` to `Ask`, `Look` to `Look`, `Close` and
  `Stamp` to `Answer` or `Refuse`, `Fail` and a rejected wait to `Refuse`, the rest to stuttering.
- `CoverageLocks_proofs`. `LocksKnown` ties each lock to the statement its holder has reached,
  `Regimes` separates promotions from corrections, and `WorkerKnows`, `RequestKnows`, `PromotionKnows`
  say which reads stay true under which lock; `RevisionsCounted` bounds the revision by the requests
  that succeeded. `InversionIsTheOnlyDeadlock` argues on an arbitrary cycle: the holder of the revision
  row must be in it, it waits for the worker, and any other request in it would hold nothing.
  Also `LocksTypeCorrect`, `PagesUsedOnce`, `CorrectionsOnCurrent`, `LatestShadowPromoted`, and
  `LocksImplementTheStore`: a transaction maps to one step at its commit, everything else to stuttering.
  It rests on the same invariants, which say of each commit that what it has read is still so, and on
  `ShownIsActive` for the flags.
- `WorkerCycle_proofs`. While a snapshot is being stored the steps done so far must say what they stored
  (`PartlyStored`, `WhollyStored`), the snapshot is not older than the cursor it replaces
  (`SnapIsNewer`), and current rows are backed by a publication from the cursor on (`RowsAreBacked`).
  Theorems: `TypeCorrect`, `CursorNeverAhead`, `OmissionResolvesNothing`.
- `PushDelivery_proofs`. `LinksHold` says what a callback between its statements, and between commit and
  save, may rely on; `SendingIsClaimed` what is known of the delivery the worker is at. Theorems:
  `TypeCorrect`, `ApprovalsAreVerified`, `SessionsAreEarned`, `AtMostOnce`, `LedgerTrue`.
- `ProviderCache_proofs`. Pruning is lazy, so the invariant says what it never throws away: the starts and
  failures of the window up to now (`SlotsKept`, `FaultsKept`), the promise of a request in flight
  unless it was evicted or a remembered failure outlasts it (`Guarded`); and `FaultsFresh` how late the
  pruning can be. Theorems: `TypeCorrect`, `RateRespected`, `OneRequestPerKey`, `CircuitJust`.
- `NewsFeed_proofs`. The page holds stories of many moments: on display, of the last default feed, in
  answers on their way, in a dialog's card, in what a split and an undo remember. Each must be `Honest` in
  the world as it is now, which only gets `Later`: it is of a projection the server has had, and if of the
  newest revision then free of rejected pairs. That is why counting one up from the card is right when
  the server answers a split with single articles only, which carry no revision: the pair that was split
  was together in the card, so the card's revision was older (`Ungrouped` in `SplitOK`). It fails for a
  card that got articles of another moment, hence the exception for `page.mixed`. For an undo `AnswerOf`
  says of which revision its answer is; one that makes the page current must be of the newest one, and
  its stories touch the corrections it did before, because these share an anchor (`SharedAnchor`).
  Theorems: `TypeCorrect`, `ProjectionIsServed`, `AnswersStayInFeed`, `CorrectionsInContext`,
  `ConflictsLeaveNoDuplicates`, `UndosRejoin`.

Only model-checked: the liveness properties `EveryAnalysisIsNamed`, `EveryRequestEnds`,
`EveryTransactionEnds`, `FeedReflected`, `IncidentsSettle`, `RevocationTakesEffect`,
`FeedCatchesUp`, `ReadsEnd` and `CorrectionsEnd` (the prover has no fairness or ENABLED); and that the
groups the `feed_...` instances use, a fold over edges, are what `ProjectionAssumption` asks for: TLC
evaluates it on each, a proof for all edges would be an induction over the fold. `OneIsCurrent` is only
proved: the database's unique index on `is_current` (`schema.sql:62`) would stop a second marker anyway, so
no run spends time on it.

## 6. Where code and documentation differ

Two are runs that TLC ends with a violation.

1. `current_pruned`: after a promotion, a shadow generation persisted by the old worker, or by the worker
   after a rollback, takes over stable rows of the current generation whose ids recur
   (`repository.ts:598`, `:650`). The current generation is then no longer protected from retention
   (`repository.ts:907`), against `docs/ARCHITECTURE.md:40`.
2. `current_card_refused`, a bug: a split is refused unless the card's `generatedAt` is that of the story
   the server recomputes, which is the generation's completion (`store.ts:7930`). A card of a projection
   without corrections carries the stored bundle's time, taken before the analysis (worker
   `index.ts:1554`, `:1571`, `repository.ts:709`), so such a card is always refused as outdated, however
   current it is, against `docs/ARCHITECTURE.md:42`. The smoke test seeds both with one value.

The others are less grave, or follow from these. Each has a configuration of its own, which is not among
the runs, with which TLC finds the documented property violated.

- `CurrentRowsTaken.cfg`: the first half of 1 alone. The readback of `docs/DEPLOYMENT.md:448` "must be
  zero" on every rollback deploy and is not; readers fall back to legacy, as `DirtyIsNeverShown` says.
- `CacheRelabelled.cfg`: a reader relabels the legacy revision of a cache another reader built
  (`store.ts:7318`), against `docs/ARCHITECTURE.md:44`. Articles of an older cycle are then served
  under the newer key; generation and corrections stay right (`PagesAreEffective`).
- `FeedMislabelled.cfg`: a feed page is stamped with the revision of whatever cache is installed after
  its last await (`store.ts:7011`), not that of its stories.
- `HintReopens.cfg`: an AI hint is attached to a copy of an open situation; `upsertSituation`
  (`repository.ts:2038`) merges the copy with a row it read without a lock, so a situation that the owner
  resolved or dismissed in between is open again, against `docs/ARCHITECTURE.md:61`. The copies of
  official events overwrite the owner's status in the same way; `IncidentsSettle` says
  only what later cycles repair.
- `ReactivationRevives.cfg`: the callback saves its session after the transaction that checked the user
  (`app.ts:1240`), and a request may save its own when it ends; a row saved after a revocation deleted the
  user's rows is valid again when the user is reactivated, against
  `docs/plans/2026-07-12-audit-findings-remediation.md:83`.
- `SplitCardStays.cfg`: a split that another session has made already is replayed with no story to remove
  (`store.ts:7906`); recomputed stories have other ids than the card's inherited one, so the card that
  was split may stay beside its replacements, against line 240 of the redesign specification
  (`2026-07-13-siste-nytt-similar-case-redesign-design.md`).
- `LoadedPageLost.cfg`: the answer to a split is applied to the stories of the render that sent it
  (`HomePage.tsx:2776`), so a page loaded meanwhile disappears, and the cursor has passed it, against
  line 7 of `docs/superpowers/plans/2026-07-13-similar-case-seamless-ux-rollout.md`.
- `PageAhead.cfg`: a page loaded after a publication adds its articles to a story on display, which keeps
  the projection it came with (`HomePage.tsx:1902-1914`). When that card is split and no group is left, the
  page counts one up from the newest revision although the server, which had those pairs rejected already,
  did not (`HomePage.tsx:152-160`, `:2776-2781`). The page is then one revision ahead, until the next
  refresh. No document promises otherwise; `ProjectionWasServed` has the exact exception.

## 7. Not modelled, and the plan

Next, in this order:

1. Deterministic and Politiloggen situations in `WorkerCycle`, with the classification of an article as an
   input, and the dismissal by evidence identity.
2. Article payloads in `CoverageReaders`: payloads are committed before the generation's transaction, so a
   throw in between leaves new payloads under an old legacy revision (`index.ts:253`).
3. The owner's GitHub login and session regeneration in `Accounts`; several replicas of a provider cache.
4. A proof that the persist of `CoverageLifecycle` is the composition of `CoverageAnalysis` with its tables,
   and the contents of the owner's corrections in `CoverageLocks`.
5. The remaining requests of the frontend: `useApiResource.ts` (an abort controller per request), overrides
   of saved articles, and the map's layers (`TrafficMapPage.tsx`), each state of one component.

Left out for good: parsing of external documents, the signals and scores of text evidence
(`article-coverage-evidence.ts`, which the model of clustering takes as an arbitrary judgement), AI calls,
rendering, HTTP routing and validation. They are functions of text, or I/O, without state that two actors
share; of the large files of the repository most lines are of this kind.
