-------------------------- MODULE CoverageReaders --------------------------
(***************************************************************************)
(* Concurrent reads of the current normalized projection in one server     *)
(* process: the snapshot read, the process-wide projection cache, the      *)
(* promise that cold reads coalesce on, and the City Pulse feed that       *)
(* composes its page from what a read returned and from the cache.         *)
(*                                                                         *)
(* Every await is a step boundary; what runs between two awaits is one     *)
(* action.  A read runs in one REPEATABLE READ transaction, whose snapshot *)
(* is taken by its first query, so everything it queries later, the final  *)
(* recheck of the key included, sees that snapshot.  The content built     *)
(* from a snapshot is that snapshot's key: generation facts are immutable  *)
(* and every correction bumps the revision (CoverageLifecycle).  Article   *)
(* payloads are rewritten by a worker's cycle in a transaction before the  *)
(* one that bumps legacy_revision; what they say is not told apart beyond  *)
(* that revision.                                                          *)
(***************************************************************************)
EXTENDS Integers, FiniteSets

CONSTANTS
  Reader,     \* requests; each reader makes one
  Feed,       \* those that come from the City Pulse feed; the others from the audit
  MaxGeneration, MaxRevision, MaxLegacyRevision  \* bounds on what the writers do

ASSUME ReadersAssumption ==
  /\ Feed \subseteq Reader
  /\ MaxGeneration \in Nat /\ MaxRevision \in Nat /\ MaxLegacyRevision \in Nat

VARIABLES
  db,       \* the committed projection: its key, and whether the health query finds it clean
  made,     \* generations made so far
  mutating, \* the owner's transaction holds the revision row; its update is not committed
  cache,    \* activeCoverageProjectionCache: its key, and the snapshot it was built in
  build,    \* activeCoverageProjectionBuild: the reader whose promise is registered
  pc, waitsFor, snap, page, label  \* per reader

readerVars == <<pc, waitsFor, snap, page, label>>
vars == <<db, made, mutating, cache, build, readerVars>>

NoGeneration == 0
Key == [gen : 0..MaxGeneration, rev : 0..MaxRevision, legacy : 0..MaxLegacyRevision]
Database == [key : Key, clean : BOOLEAN]

NoReader == "none"
NoCache == [used |-> FALSE]
NoKey == [gen |-> NoGeneration, rev |-> 0, legacy |-> 0]
Cached(key, from) == [used |-> TRUE, key |-> key, from |-> from]

TypeOK ==
  /\ db \in Database
  /\ made \in 0..MaxGeneration
  /\ mutating \in BOOLEAN
  /\ cache = NoCache \/ \E key \in Key, from \in Key : cache = Cached(key, from)
  /\ build \in Reader \cup {NoReader}
  /\ pc \in [Reader -> {"idle", "waiting", "starting", "building", "querying", "published",
                        "closing", "joining", "answered", "failed"}]
  /\ waitsFor \in [Reader -> Reader \cup {NoReader}]
  /\ snap \in [Reader -> Database]
  /\ page \in [Reader -> Key]
  /\ label \in [Reader -> 0..MaxRevision]

Init ==
  /\ db = [key |-> NoKey, clean |-> FALSE]
  /\ made = 0 /\ mutating = FALSE
  /\ cache = NoCache /\ build = NoReader
  /\ pc = [r \in Reader |-> "idle"]
  /\ waitsFor = [r \in Reader |-> NoReader]
  /\ snap = [r \in Reader |-> [key |-> NoKey, clean |-> FALSE]]
  /\ page = [r \in Reader |-> NoKey]
  /\ label = [r \in Reader |-> 0]

-----------------------------------------------------------------------------
(* The writers.  A mutation holds the revision row and the current          *)
(* generation's row from its first query to its commit; every other commit  *)
(* below updates one of the two and waits.                                  *)

PersistActive ==
  /\ ~ mutating
  /\ made < MaxGeneration /\ db.key.legacy < MaxLegacyRevision
  /\ made' = made + 1
  /\ db' = [key |-> [db.key EXCEPT !.gen = made + 1, !.legacy = @ + 1], clean |-> TRUE]
  /\ UNCHANGED <<mutating, cache, build, readerVars>>

\* A v1 cycle, or a shadow persist that may take rows of the current generation.
PersistOther ==
  /\ ~ mutating
  /\ db.key.legacy < MaxLegacyRevision
  /\ \E clean \in {FALSE, db.clean} :
       db' = [key |-> [db.key EXCEPT !.legacy = @ + 1], clean |-> clean]
  /\ UNCHANGED <<made, mutating, cache, build, readerVars>>

\* Retention deletes a current generation whose rows were taken.
PruneCurrent ==
  /\ ~ mutating
  /\ db.key.gen # NoGeneration /\ ~ db.clean
  /\ db' = [db EXCEPT !.key.gen = NoGeneration]
  /\ UNCHANGED <<made, mutating, cache, build, readerVars>>

\* splitCurrentCoverageBundle and undoCurrentCoverageCorrection drop the cache
\* inside their transaction.
Mutate ==
  /\ ~ mutating
  /\ db.key.gen # NoGeneration /\ db.key.rev < MaxRevision
  /\ mutating' = TRUE
  /\ cache' = NoCache
  /\ UNCHANGED <<db, made, build, readerVars>>

CommitMutation ==
  /\ mutating
  /\ mutating' = FALSE
  /\ db' = [db EXCEPT !.key.rev = @ + 1]
  /\ UNCHANGED <<made, cache, build, readerVars>>

AbortMutation ==
  /\ mutating
  /\ mutating' = FALSE
  /\ UNCHANGED <<db, made, cache, build, readerVars>>

-----------------------------------------------------------------------------
(* A read *)

Goto(r, place) == pc' = [pc EXCEPT ![r] = place]

Settled(r) == pc[r] \in {"joining", "answered", "failed"}

\* listNormalizedCoverageBundles: register the build, or wait for the registered one.
Begin(r) ==
  /\ pc[r] = "idle"
  /\ IF build = NoReader
     THEN build' = r /\ Goto(r, "starting") /\ UNCHANGED waitsFor
     ELSE /\ waitsFor' = [waitsFor EXCEPT ![r] = build]
          /\ Goto(r, "waiting")
          /\ UNCHANGED build
  /\ UNCHANGED <<db, made, mutating, cache, snap, page, label>>

\* A bug to catch: whoever waited takes the page of the build.
WaitOver_SharesPage(r) ==
  /\ pc[r] = "waiting" /\ Settled(waitsFor[r])
  /\ IF pc[waitsFor[r]] = "failed"
     THEN Goto(r, "failed") /\ UNCHANGED <<snap, page>>
     ELSE /\ Goto(r, "closing")
          /\ snap' = [snap EXCEPT ![r] = snap[waitsFor[r]]]
          /\ page' = [page EXCEPT ![r] = page[waitsFor[r]]]
  /\ UNCHANGED <<db, made, mutating, cache, build, waitsFor, label>>

\* A bug to catch: a rejected build is swallowed and never wakes those who wait.
WaitOver_OnlyResolved(r) ==
  /\ pc[r] = "waiting" /\ pc[waitsFor[r]] \in {"joining", "answered"}
  /\ Goto(r, "starting")
  /\ UNCHANGED <<db, made, mutating, cache, build, waitsFor, snap, page, label>>

\* The awaited build settled; its rejection is the waiter's too.
WaitOver(r) ==
  /\ pc[r] = "waiting" /\ Settled(waitsFor[r])
  /\ Goto(r, IF pc[waitsFor[r]] = "failed" THEN "failed" ELSE "starting")
  /\ UNCHANGED <<db, made, mutating, cache, build, waitsFor, snap, page, label>>

\* A bug to catch: the correction revision is left out of the key.
CacheHits_AnyRevision(key) ==
  cache.used /\ cache.key.gen = key.gen /\ cache.key.legacy = key.legacy

CacheHits(key) == cache.used /\ cache.key = key

Readable(p) == p.key.gen # NoGeneration /\ p.clean

\* The first health query of listActiveCoverageBundlesSnapshot.
Look(r) ==
  /\ pc[r] = "starting"
  /\ snap' = [snap EXCEPT ![r] = db]
  /\ \/ ~ Readable(db) /\ Goto(r, "closing") /\ UNCHANGED page
     \/ /\ Readable(db) /\ CacheHits(db.key)
        /\ page' = [page EXCEPT ![r] = cache.from]
        /\ Goto(r, "closing")
     \/ Readable(db) /\ ~ CacheHits(db.key) /\ Goto(r, "building") /\ UNCHANGED page
  /\ UNCHANGED <<db, made, mutating, cache, build, waitsFor, label>>

\* listNormalizedCoverageBundlesUncoalesced looks at the cache once more.
Recheck(r) ==
  /\ pc[r] = "building"
  /\ IF CacheHits(snap[r].key)
     THEN page' = [page EXCEPT ![r] = cache.from] /\ Goto(r, "published")
     ELSE UNCHANGED page /\ Goto(r, "querying")
  /\ UNCHANGED <<db, made, mutating, cache, build, waitsFor, snap, label>>

\* Bundles, articles and corrections of the snapshot: the cache and the page.
Publish(r) ==
  /\ pc[r] = "querying"
  /\ cache' = Cached(snap[r].key, snap[r].key)
  /\ page' = [page EXCEPT ![r] = snap[r].key]
  /\ Goto(r, "published")
  /\ UNCHANGED <<db, made, mutating, build, waitsFor, snap, label>>

\* The final health query: in the same snapshot its key never differs.  Whatever the
\* cache holds by now, its legacy revision is set to this reader's.
Seal(r) ==
  /\ pc[r] = "published"
  /\ cache' = IF cache.used
              THEN Cached([cache.key EXCEPT !.legacy = snap[r].key.legacy], cache.from)
              ELSE cache
  /\ Goto(r, "closing")
  /\ UNCHANGED <<db, made, mutating, build, waitsFor, snap, page, label>>

Unregister(r) == build' = IF build = r THEN NoReader ELSE build

\* The cache still holds an article list for the feed's generation.
CacheServes(r) == cache.used /\ cache.key.gen = snap[r].key.gen

\* COMMIT returned: the page is delivered.  The feed goes on with the articles of the
\* cache, or falls back when there is no page or no such articles.
Close(r) ==
  /\ pc[r] = "closing"
  /\ Unregister(r)
  /\ IF r \in Feed /\ page[r] # NoKey
     THEN /\ Goto(r, IF CacheServes(r) THEN "joining" ELSE "answered")
          /\ page' = IF CacheServes(r) THEN page ELSE [page EXCEPT ![r] = NoKey]
     ELSE Goto(r, "answered") /\ UNCHANGED page
  /\ UNCHANGED <<db, made, mutating, cache, waitsFor, snap, label>>

\* Saved articles, situations and events were queried: the page is stamped and returned.
Stamp(r) ==
  /\ pc[r] = "joining"
  /\ label' = [label EXCEPT ![r] = IF cache.used THEN cache.key.rev ELSE 0]
  /\ Goto(r, "answered")
  /\ UNCHANGED <<db, made, mutating, cache, build, waitsFor, snap, page>>

\* A query fails or runs into the deadline.  After the read itself the feed falls back.
Fail(r) ==
  /\ pc[r] \in {"starting", "building", "querying", "published", "closing", "joining"}
  /\ page' = [page EXCEPT ![r] = NoKey]
  /\ Goto(r, IF pc[r] = "joining" THEN "answered" ELSE "failed")
  /\ Unregister(r)
  /\ UNCHANGED <<db, made, mutating, cache, waitsFor, snap, label>>

Advance(r) == WaitOver(r) \/ Look(r) \/ Recheck(r) \/ Publish(r) \/ Seal(r) \/ Close(r) \/ Stamp(r)

Next ==
  \/ PersistActive \/ PersistOther \/ PruneCurrent
  \/ Mutate \/ CommitMutation \/ AbortMutation
  \/ \E r \in Reader : Begin(r) \/ Advance(r) \/ Fail(r)

Spec == Init /\ [][Next]_vars

(* Every await of a read ends: the pool checkout and each query have a       *)
(* deadline, and the node process runs the continuations of settled promises.*)
FairSpec == Spec /\ \A r \in Reader : WF_vars(Advance(r))

-----------------------------------------------------------------------------
(* Properties *)

(* What a reader is shown was built from the generation and the correction  *)
(* revision of that reader's own snapshot, whoever built it and however the *)
(* cache was dropped, replaced and relabelled meanwhile.                    *)
PagesAreEffective ==
  \A r \in Reader : page[r] # NoKey =>
    page[r].gen = snap[r].key.gen /\ page[r].rev = snap[r].key.rev

(* A projection that the health query finds dirty is shown to nobody, not   *)
(* even from a cache that was filled while it was clean.                    *)
DirtyIsNeverShown == \A r \in Reader : page[r] # NoKey => snap[r].clean

(* A promise that has settled is not waited for: the registered build is    *)
(* one that still runs, or every later reader would share its fate.         *)
BuildIsRunning ==
  build # NoReader => pc[build] \in {"starting", "building", "querying", "published", "closing"}

(* Every request ends, with a page or a failure, also when the build it     *)
(* waits for fails.                                                         *)
EveryRequestEnds == \A r \in Reader : pc[r] # "idle" ~> pc[r] \in {"answered", "failed"}

(* What a caller sees of a read, for the atomic reads it should implement.  *)
Stored == [gen |-> db.key.gen, rev |-> db.key.rev, clean |-> db.clean]

PhaseAt(place) ==
  IF place = "idle" THEN "idle"
  ELSE IF place \in {"waiting", "starting"} THEN "asked"
  ELSE IF place \in {"answered", "failed"} THEN "answered" ELSE "looked"

Phase == [r \in Reader |-> PhaseAt(pc[r])]

Seen == [r \in Reader |->
           [gen |-> snap[r].key.gen, rev |-> snap[r].key.rev, clean |-> snap[r].clean]]

Given(place, key) ==
  IF PhaseAt(place) = "answered" THEN [gen |-> key.gen, rev |-> key.rev]
  ELSE [gen |-> 0, rev |-> 0]

Answers == [r \in Reader |-> Given(pc[r], page[r])]

(* Reads are atomic: they implement CoverageReads.                          *)
Reads == INSTANCE CoverageReads
  WITH stored <- Stored, phase <- Phase, seen <- Seen, answer <- Answers

ReadsAreAtomic == Reads!Spec

(* The cached projection is keyed by the snapshot it was built in           *)
(* (ARCHITECTURE.md); violated in the legacy revision.                      *)
CacheKeyedBySnapshot == cache.used => cache.key = cache.from

(* A feed page is stamped with the revision of the stories it carries;      *)
(* violated, the stamp is read from the cache after further queries.        *)
FeedRevisionIsTrue ==
  \A r \in Feed : pc[r] = "answered" /\ page[r] # NoKey => label[r] = page[r].rev
=============================================================================
