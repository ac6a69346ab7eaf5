---------------------- MODULE CoverageReaders_proofs ----------------------
(***************************************************************************)
(* Proofs about CoverageReaders, for any number of concurrent requests and *)
(* any number of generations, corrections and cycles: what a reader is     *)
(* given belongs to that reader's snapshot, and reads implement the atomic *)
(* reads of CoverageReads.                                                 *)
(*                                                                         *)
(* The argument is that a key never lies about the generation and the      *)
(* revision of what it labels (CacheIsHonest).  Relabelling the legacy     *)
(* revision of another reader's cache breaks the third component of the    *)
(* key only, so a reader that finds its own key in the cache still gets    *)
(* its own generation and revision.                                        *)
(***************************************************************************)
EXTENDS CoverageReaders, TLAPS

\* A mutation has left room for the revision it is about to write.
RevisionHasRoom == mutating => db.key.rev < MaxRevision

\* The label of the cached projection has the generation and revision it was built from.
CacheIsHonest ==
  cache.used => cache.from.gen = cache.key.gen /\ cache.from.rev = cache.key.rev

\* Readers that have not looked yet have no page; those that build have looked at a
\* readable projection; those that go on to stamp have a page.
LookedFirst ==
  \A r \in Reader :
    /\ pc[r] \in {"idle", "waiting", "starting"} => page[r] = NoKey
    /\ pc[r] \in {"building", "querying", "published"} => Readable(snap[r])
    /\ pc[r] = "joining" => page[r] # NoKey

\* A page is given for a readable snapshot only, and agrees with it.
PagesAreHonest ==
  \A r \in Reader : page[r] # NoKey =>
    /\ Readable(snap[r])
    /\ page[r].gen = snap[r].key.gen
    /\ page[r].rev = snap[r].key.rev

IInv == TypeOK /\ RevisionHasRoom /\ CacheIsHonest /\ LookedFirst /\ PagesAreHonest /\ BuildIsRunning

-----------------------------------------------------------------------------

LEMMA NoKeyIsKey == NoKey \in Key
<1> QED BY ReadersAssumption DEF NoKey, Key, NoGeneration

(* The cache is either empty or a labelled projection; stated with its fields *)
(* because the provers see records only through them.                        *)
LEMMA CacheFields ==
  ASSUME TypeOK, cache.used
  PROVE  /\ cache.key \in Key /\ cache.from \in Key
         /\ cache = Cached(cache.key, cache.from)
<1>1. PICK key \in Key, from \in Key : cache = Cached(key, from)
  BY DEF TypeOK, NoCache
<1> QED BY <1>1 DEF Cached

LEMMA InitInv == Init => IInv
<1> SUFFICES ASSUME Init PROVE IInv
  OBVIOUS
<1>1. TypeOK
  <2>1. db \in Database
    BY NoKeyIsKey DEF Init, Database
  <2>5. made \in 0..MaxGeneration
    BY ReadersAssumption DEF Init
  <2>6. mutating \in BOOLEAN
    BY DEF Init
  <2>2. cache = NoCache /\ build = NoReader
    BY DEF Init
  <2>3. /\ pc = [r \in Reader |-> "idle"] /\ waitsFor = [r \in Reader |-> NoReader]
        /\ snap \in [Reader -> Database] /\ page \in [Reader -> Key]
    BY NoKeyIsKey DEF Init, Database
  <2>4. label \in [Reader -> 0..MaxRevision]
    BY ReadersAssumption DEF Init
  <2> QED BY <2>1, <2>2, <2>3, <2>4, <2>5, <2>6 DEF TypeOK
<1>2. RevisionHasRoom
  BY DEF Init, RevisionHasRoom
<1>3. CacheIsHonest
  BY DEF Init, CacheIsHonest, NoCache
<1>4. LookedFirst /\ PagesAreHonest
  BY DEF Init, LookedFirst, PagesAreHonest
<1>5. BuildIsRunning
  BY DEF Init, BuildIsRunning
<1> QED BY <1>1, <1>2, <1>3, <1>4, <1>5 DEF IInv

-----------------------------------------------------------------------------
(* The writers leave the readers alone. *)

LEMMA WritersInv ==
  ASSUME IInv,
         PersistActive \/ PersistOther \/ PruneCurrent \/ Mutate \/ CommitMutation \/ AbortMutation
  PROVE  IInv'
<1> USE ReadersAssumption
<1>1. readerVars' = readerVars /\ build' = build
  BY DEF PersistActive, PersistOther, PruneCurrent, Mutate, CommitMutation, AbortMutation
<1>2. LookedFirst' /\ PagesAreHonest' /\ BuildIsRunning'
  BY <1>1 DEF IInv, LookedFirst, PagesAreHonest, BuildIsRunning, readerVars, Readable
<1>3. CacheIsHonest' /\ (cache' = cache \/ cache' = NoCache)
  BY DEF IInv, PersistActive, PersistOther, PruneCurrent, Mutate, CommitMutation, AbortMutation,
         CacheIsHonest, NoCache
<1>4. db' \in Database /\ made' \in 0..MaxGeneration /\ mutating' \in BOOLEAN /\ RevisionHasRoom'
  <2>0. /\ db = [key |-> db.key, clean |-> db.clean] /\ db.clean \in BOOLEAN
        /\ db.key = [gen |-> db.key.gen, rev |-> db.key.rev, legacy |-> db.key.legacy]
        /\ db.key.gen \in 0..MaxGeneration /\ db.key.rev \in 0..MaxRevision
        /\ db.key.legacy \in 0..MaxLegacyRevision
        /\ made \in 0..MaxGeneration /\ mutating \in BOOLEAN
    BY DEF IInv, TypeOK, Database, Key
  <2>1. CASE PersistActive
    <3>1. db' = [key |-> [gen |-> made + 1, rev |-> db.key.rev, legacy |-> db.key.legacy + 1],
                 clean |-> TRUE]
      BY <2>0, <2>1 DEF PersistActive
    <3>2. /\ made + 1 \in 0..MaxGeneration /\ db.key.legacy + 1 \in 0..MaxLegacyRevision
          /\ made' = made + 1 /\ mutating' = mutating /\ ~ mutating
      BY <2>0, <2>1 DEF PersistActive
    <3> QED BY <2>0, <3>1, <3>2 DEF Database, Key, RevisionHasRoom
  <2>2. CASE PersistOther
    <3>1. PICK clean \in {FALSE, db.clean} :
            db' = [key |-> [db.key EXCEPT !.legacy = @ + 1], clean |-> clean]
      BY <2>2 DEF PersistOther
    <3>3. clean \in BOOLEAN
      BY <2>0
    <3>4. [db.key EXCEPT !.legacy = @ + 1] =
            [gen |-> db.key.gen, rev |-> db.key.rev, legacy |-> db.key.legacy + 1]
      BY <2>0
    <3>2. /\ db.key.legacy + 1 \in 0..MaxLegacyRevision
          /\ made' = made /\ mutating' = mutating /\ ~ mutating
      BY <2>0, <2>2 DEF PersistOther
    <3> QED BY <2>0, <3>1, <3>2, <3>3, <3>4 DEF Database, Key, RevisionHasRoom
  <2>3. CASE PruneCurrent
    BY <2>3 DEF IInv, TypeOK, PruneCurrent, RevisionHasRoom, Database, Key, NoGeneration
  <2>4. CASE Mutate
    BY <2>4 DEF IInv, TypeOK, Mutate, RevisionHasRoom, Database, Key
  <2>5. CASE CommitMutation
    <3>1. db' = [key |-> [gen |-> db.key.gen, rev |-> db.key.rev + 1, legacy |-> db.key.legacy],
                 clean |-> db.clean]
      BY <2>0, <2>5 DEF CommitMutation
    <3>2. db.key.rev + 1 \in 0..MaxRevision /\ made' = made /\ mutating' = FALSE
      BY <2>0, <2>5 DEF IInv, RevisionHasRoom, CommitMutation
    <3> QED BY <2>0, <3>1, <3>2 DEF Database, Key, RevisionHasRoom
  <2>6. CASE AbortMutation
    BY <2>6 DEF IInv, TypeOK, AbortMutation, RevisionHasRoom
  <2> QED BY <2>1, <2>2, <2>3, <2>4, <2>5, <2>6
<1>5. TypeOK'
  BY <1>1, <1>3, <1>4 DEF IInv, TypeOK, readerVars
<1> QED BY <1>2, <1>3, <1>4, <1>5 DEF IInv

-----------------------------------------------------------------------------
(* The steps of a read *)

LEMMA BeginInv ==
  ASSUME IInv, NEW r \in Reader, Begin(r)
  PROVE  IInv'
<1>1. TypeOK'
  BY DEF IInv, TypeOK, Begin, Goto
<1>2. RevisionHasRoom' /\ CacheIsHonest'
  BY DEF IInv, Begin, RevisionHasRoom, CacheIsHonest
<1>3. LookedFirst' /\ PagesAreHonest'
  BY DEF IInv, TypeOK, Begin, Goto, LookedFirst, PagesAreHonest, Readable
<1>4. BuildIsRunning'
  BY DEF IInv, TypeOK, Begin, Goto, BuildIsRunning
<1> QED BY <1>1, <1>2, <1>3, <1>4 DEF IInv

LEMMA WaitOverInv ==
  ASSUME IInv, NEW r \in Reader, WaitOver(r)
  PROVE  IInv'
<1>1. TypeOK'
  BY DEF IInv, TypeOK, WaitOver, Goto
<1>2. RevisionHasRoom' /\ CacheIsHonest'
  BY DEF IInv, WaitOver, RevisionHasRoom, CacheIsHonest
<1>3. LookedFirst' /\ PagesAreHonest'
  BY DEF IInv, TypeOK, WaitOver, Goto, LookedFirst, PagesAreHonest, Readable
<1>4. BuildIsRunning'
  BY DEF IInv, TypeOK, WaitOver, Goto, BuildIsRunning
<1> QED BY <1>1, <1>2, <1>3, <1>4 DEF IInv

\* A hit gives the reader its own generation and revision.
LEMMA HitIsHonest ==
  ASSUME IInv, NEW key \in Key, CacheHits(key)
  PROVE  cache.from \in Key /\ cache.from.gen = key.gen /\ cache.from.rev = key.rev
<1> QED BY CacheFields DEF IInv, CacheHits, CacheIsHonest

LEMMA LookInv ==
  ASSUME IInv, NEW r \in Reader, Look(r)
  PROVE  IInv'
<1>1. db \in Database /\ db.key \in Key
  BY DEF IInv, TypeOK, Database
<1>2. page[r] = NoKey
  BY DEF IInv, LookedFirst, Look
<1>3. CacheHits(db.key) =>
        cache.from \in Key /\ cache.from.gen = db.key.gen /\ cache.from.rev = db.key.rev
  BY <1>1, HitIsHonest
<1>4. TypeOK'
  BY <1>1, <1>3 DEF IInv, TypeOK, Look, Goto
<1>5. RevisionHasRoom' /\ CacheIsHonest'
  BY DEF IInv, Look, RevisionHasRoom, CacheIsHonest
<1>6. LookedFirst'
  BY DEF IInv, TypeOK, Look, Goto, LookedFirst, Readable
<1>7. PagesAreHonest'
  BY <1>2, <1>3 DEF IInv, TypeOK, Look, PagesAreHonest, Readable
<1>8. BuildIsRunning'
  BY DEF IInv, TypeOK, Look, Goto, BuildIsRunning
<1> QED BY <1>4, <1>5, <1>6, <1>7, <1>8 DEF IInv

LEMMA RecheckInv ==
  ASSUME IInv, NEW r \in Reader, Recheck(r)
  PROVE  IInv'
<1>1. snap[r] \in Database /\ snap[r].key \in Key /\ Readable(snap[r])
  BY DEF IInv, TypeOK, Database, Recheck, LookedFirst
<1>2. CacheHits(snap[r].key) =>
        /\ cache.from \in Key
        /\ cache.from.gen = snap[r].key.gen /\ cache.from.rev = snap[r].key.rev
  BY <1>1, HitIsHonest
<1>3. TypeOK'
  BY <1>2 DEF IInv, TypeOK, Recheck, Goto
<1>4. RevisionHasRoom' /\ CacheIsHonest'
  BY DEF IInv, Recheck, RevisionHasRoom, CacheIsHonest
<1>5. LookedFirst'
  BY <1>1 DEF IInv, TypeOK, Recheck, Goto, LookedFirst, Readable
<1>6. PagesAreHonest'
  BY <1>1, <1>2 DEF IInv, TypeOK, Recheck, PagesAreHonest, Readable
<1>7. BuildIsRunning'
  BY DEF IInv, TypeOK, Recheck, Goto, BuildIsRunning
<1> QED BY <1>3, <1>4, <1>5, <1>6, <1>7 DEF IInv

LEMMA PublishInv ==
  ASSUME IInv, NEW r \in Reader, Publish(r)
  PROVE  IInv'
<1>1. snap[r] \in Database /\ snap[r].key \in Key /\ Readable(snap[r])
  BY DEF IInv, TypeOK, Database, Publish, LookedFirst
<1>2. TypeOK'
  BY <1>1 DEF IInv, TypeOK, Publish, Goto
<1>3. RevisionHasRoom' /\ CacheIsHonest'
  BY DEF IInv, Publish, RevisionHasRoom, CacheIsHonest, Cached
<1>4. LookedFirst'
  BY <1>1 DEF IInv, TypeOK, Publish, Goto, LookedFirst, Readable
<1>5. PagesAreHonest'
  BY <1>1 DEF IInv, TypeOK, Publish, PagesAreHonest, Readable
<1>6. BuildIsRunning'
  BY DEF IInv, TypeOK, Publish, Goto, BuildIsRunning
<1> QED BY <1>2, <1>3, <1>4, <1>5, <1>6 DEF IInv

\* Relabelling touches nothing but the legacy revision.
LEMMA Relabelled ==
  ASSUME NEW key \in Key, NEW n
  PROVE  [key EXCEPT !.legacy = n] = [gen |-> key.gen, rev |-> key.rev, legacy |-> n]
BY DEF Key

LEMMA SealInv ==
  ASSUME IInv, NEW r \in Reader, Seal(r)
  PROVE  IInv'
<1> DEFINE n == snap[r].key.legacy
<1>1. n \in 0..MaxLegacyRevision
  BY DEF IInv, TypeOK, Database, Key
<1>2. TypeOK' /\ CacheIsHonest'
  <2>1. CASE cache.used
    <3>1. PICK key \in Key, from \in Key : cache = Cached(key, from)
      BY <2>1, CacheFields DEF IInv
    <3> DEFINE new == [gen |-> key.gen, rev |-> key.rev, legacy |-> n]
    <3>2. cache' = Cached(new, from)
      <4>1. cache' = Cached([key EXCEPT !.legacy = n], from)
        BY <2>1, <3>1 DEF Seal, Cached
      <4> QED BY <4>1, Relabelled
    <3>3. new \in Key /\ new.gen = key.gen /\ new.rev = key.rev
      BY <1>1 DEF Key
    <3>4. from.gen = key.gen /\ from.rev = key.rev
      BY <3>1, <2>1 DEF IInv, CacheIsHonest, Cached
    <3>5. CacheIsHonest'
      BY <3>2, <3>3, <3>4 DEF CacheIsHonest, Cached
    <3>6. TypeOK'
      BY <3>2, <3>3 DEF IInv, TypeOK, Seal, Goto
    <3> QED BY <3>5, <3>6
  <2>2. CASE ~ cache.used
    BY <2>2 DEF IInv, TypeOK, CacheIsHonest, Seal, Goto
  <2> QED BY <2>1, <2>2
<1>3. RevisionHasRoom'
  BY DEF IInv, Seal, RevisionHasRoom
<1>4. LookedFirst' /\ PagesAreHonest'
  BY DEF IInv, TypeOK, Seal, Goto, LookedFirst, PagesAreHonest, Readable
<1>5. BuildIsRunning'
  BY DEF IInv, TypeOK, Seal, Goto, BuildIsRunning
<1> QED BY <1>2, <1>3, <1>4, <1>5 DEF IInv

LEMMA CloseInv ==
  ASSUME IInv, NEW r \in Reader, Close(r)
  PROVE  IInv'
<1>1. TypeOK'
  BY NoKeyIsKey DEF IInv, TypeOK, Close, Goto, Unregister
<1>2. RevisionHasRoom' /\ CacheIsHonest'
  BY DEF IInv, Close, RevisionHasRoom, CacheIsHonest
<1>3. LookedFirst' /\ PagesAreHonest'
  BY DEF IInv, TypeOK, Close, Goto, LookedFirst, PagesAreHonest, Readable
<1>4. BuildIsRunning'
  BY DEF IInv, TypeOK, Close, Goto, Unregister, BuildIsRunning
<1> QED BY <1>1, <1>2, <1>3, <1>4 DEF IInv

LEMMA StampInv ==
  ASSUME IInv, NEW r \in Reader, Stamp(r)
  PROVE  IInv'
<1>1. cache.used => cache.key.rev \in 0..MaxRevision
  BY CacheFields DEF IInv, Key
<1>2. TypeOK'
  BY <1>1, ReadersAssumption DEF IInv, TypeOK, Stamp, Goto
<1>3. RevisionHasRoom' /\ CacheIsHonest'
  BY DEF IInv, Stamp, RevisionHasRoom, CacheIsHonest
<1>4. LookedFirst' /\ PagesAreHonest'
  BY DEF IInv, TypeOK, Stamp, Goto, LookedFirst, PagesAreHonest, Readable
<1>5. BuildIsRunning'
  BY DEF IInv, TypeOK, Stamp, Goto, BuildIsRunning
<1> QED BY <1>2, <1>3, <1>4, <1>5 DEF IInv

LEMMA FailInv ==
  ASSUME IInv, NEW r \in Reader, Fail(r)
  PROVE  IInv'
<1>1. TypeOK'
  BY NoKeyIsKey DEF IInv, TypeOK, Fail, Goto, Unregister
<1>2. RevisionHasRoom' /\ CacheIsHonest'
  BY DEF IInv, Fail, RevisionHasRoom, CacheIsHonest
<1>3. LookedFirst' /\ PagesAreHonest'
  BY DEF IInv, TypeOK, Fail, Goto, LookedFirst, PagesAreHonest, Readable
<1>4. BuildIsRunning'
  BY DEF IInv, TypeOK, Fail, Goto, Unregister, BuildIsRunning
<1> QED BY <1>1, <1>2, <1>3, <1>4 DEF IInv

LEMMA StutterInv ==
  ASSUME IInv, UNCHANGED vars
  PROVE  IInv'
<1> QED BY DEF IInv, vars, readerVars, TypeOK, RevisionHasRoom, CacheIsHonest, LookedFirst,
               PagesAreHonest, BuildIsRunning, Readable

LEMMA NextInv == IInv /\ [Next]_vars => IInv'
<1> SUFFICES ASSUME IInv, [Next]_vars PROVE IInv'
  OBVIOUS
<1>1. CASE PersistActive \/ PersistOther \/ PruneCurrent
           \/ Mutate \/ CommitMutation \/ AbortMutation
  BY <1>1, WritersInv
<1>2. ASSUME NEW r \in Reader, Begin(r) \/ Advance(r) \/ Fail(r) PROVE IInv'
  BY <1>2, BeginInv, WaitOverInv, LookInv, RecheckInv, PublishInv, SealInv, CloseInv, StampInv,
     FailInv DEF Advance
<1>3. CASE UNCHANGED vars
  BY <1>3, StutterInv
<1> QED BY <1>1, <1>2, <1>3 DEF Next

LEMMA Inductive == Spec => []IInv
<1> QED BY InitInv, NextInv, PTL DEF Spec

-----------------------------------------------------------------------------
(* The state of CoverageReaders is well typed, whatever the bounds.         *)
THEOREM ReadersTypeCorrect == Spec => []TypeOK
<1>1. IInv => TypeOK
  BY DEF IInv
<1> QED BY <1>1, Inductive, PTL

(* Whoever built what a reader is shown, it has the generation and revision *)
(* of that reader's snapshot, and that snapshot was clean.                  *)
THEOREM PagesEffective == Spec => [](PagesAreEffective /\ DirtyIsNeverShown)
<1>1. IInv => PagesAreEffective /\ DirtyIsNeverShown
  BY DEF IInv, PagesAreHonest, PagesAreEffective, DirtyIsNeverShown, Readable
<1> QED BY <1>1, Inductive, PTL

(* No reader is shown a projection that its snapshot found dirty, whichever *)
(* cache or build it came from.                                             *)
THEOREM DirtyHidden == Spec => []DirtyIsNeverShown
<1>1. PagesAreEffective /\ DirtyIsNeverShown => DirtyIsNeverShown
  OBVIOUS
<1> QED BY <1>1, PagesEffective, PTL

(* The registered build is one that still runs.                             *)
THEOREM BuildRuns == Spec => []BuildIsRunning
<1>1. IInv => BuildIsRunning
  BY DEF IInv
<1> QED BY <1>1, Inductive, PTL

-----------------------------------------------------------------------------
(* Refinement: the writers change what is stored, a step of a reader is one  *)
(* of the abstract reader's or invisible to it.                              *)

\* One reader moves to another place.
LEMMA PhaseMoves ==
  ASSUME TypeOK, NEW r \in Reader, NEW place, Goto(r, place)
  PROVE  /\ Phase[r] = PhaseAt(pc[r])
         /\ Phase' = [Phase EXCEPT ![r] = PhaseAt(place)]
<1>1. \A s \in Reader : pc'[s] = (IF s = r THEN place ELSE pc[s])
  BY DEF Goto, TypeOK
<1>2. \A s \in Reader : PhaseAt(pc'[s]) = (IF s = r THEN PhaseAt(place) ELSE PhaseAt(pc[s]))
  BY <1>1
<1>3. Phase' = [s \in Reader |-> PhaseAt(pc'[s])]
  BY DEF Phase
<1>4. [Phase EXCEPT ![r] = PhaseAt(place)]
        = [s \in Reader |-> IF s = r THEN PhaseAt(place) ELSE PhaseAt(pc[s])]
  BY DEF Phase
<1> QED BY <1>2, <1>3, <1>4 DEF Phase

\* Its answer follows from where it goes and the page it then holds.
LEMMA AnswerMoves ==
  ASSUME TypeOK, NEW r \in Reader, NEW place, Goto(r, place), NEW key,
         page' = [page EXCEPT ![r] = key]
  PROVE  /\ Answers[r] = Given(pc[r], page[r])
         /\ Answers' = [Answers EXCEPT ![r] = Given(place, key)]
<1>1. \A s \in Reader : /\ pc'[s] = (IF s = r THEN place ELSE pc[s])
                         /\ page'[s] = (IF s = r THEN key ELSE page[s])
  BY DEF Goto, TypeOK
<1>2. \A s \in Reader : Given(pc'[s], page'[s])
                           = (IF s = r THEN Given(place, key) ELSE Given(pc[s], page[s]))
  BY <1>1
<1>3. Answers' = [s \in Reader |-> Given(pc'[s], page'[s])]
  BY DEF Answers
<1>4. [Answers EXCEPT ![r] = Given(place, key)]
        = [s \in Reader |-> IF s = r THEN Given(place, key) ELSE Given(pc[s], page[s])]
  BY DEF Answers
<1> QED BY <1>2, <1>3, <1>4 DEF Answers

LEMMA AnswerKept ==
  ASSUME TypeOK, NEW r \in Reader, NEW place, Goto(r, place), NEW key,
         page' = [page EXCEPT ![r] = key], Given(place, key) = Given(pc[r], page[r])
  PROVE  Answers' = Answers
<1>1. Answers' = [Answers EXCEPT ![r] = Answers[r]]
  BY AnswerMoves
<1>2. Answers = [Answers EXCEPT ![r] = Answers[r]]
  BY DEF Answers
<1> QED BY <1>1, <1>2

LEMMA WritersChange ==
  ASSUME IInv, IInv', PersistActive \/ PersistOther \/ PruneCurrent \/ CommitMutation
  PROVE  Reads!Change
<1>1. Stored' \in Reads!Projection
  BY ReadersAssumption DEF IInv, TypeOK, Database, Key, Stored, Reads!Projection
<1>2. UNCHANGED readerVars
  BY DEF PersistActive, PersistOther, PruneCurrent, CommitMutation
<1>3. UNCHANGED <<Phase, Seen, Answers>>
  BY <1>2 DEF readerVars, Phase, Seen, Answers
<1> QED BY <1>1, <1>3 DEF Reads!Change

\* A step that leaves the reader's phase and what it has looked at alone is invisible.
LEMMA Invisible ==
  ASSUME TypeOK, NEW r \in Reader, NEW place, Goto(r, place), NEW key,
         page' = [page EXCEPT ![r] = key], UNCHANGED <<db, snap>>,
         PhaseAt(place) = PhaseAt(pc[r]), PhaseAt(place) # "answered"
  PROVE  UNCHANGED Reads!vars
<1>1. Stored' = Stored /\ Seen' = Seen
  BY DEF Stored, Seen
<1>2. Phase' = Phase
  BY PhaseMoves DEF Phase
<1>3. Given(place, key) = Given(pc[r], page[r])
  BY DEF Given
<1>4. Answers' = Answers
  BY <1>3, AnswerKept
<1> QED BY <1>1, <1>2, <1>4 DEF Reads!vars

\* A reader that ends without a page was refused.
LEMMA Refused ==
  ASSUME TypeOK, NEW r \in Reader, NEW place, Goto(r, place),
         page' = [page EXCEPT ![r] = NoKey], UNCHANGED <<db, snap>>,
         PhaseAt(pc[r]) \in {"asked", "looked"}, PhaseAt(place) = "answered"
  PROVE  Reads!Refuse(r)
<1>1. Stored' = Stored /\ Seen' = Seen
  BY DEF Stored, Seen
<1>2. Given(place, NoKey) = Given(pc[r], page[r])
  BY DEF Given, NoKey, NoGeneration
<1>3. Answers' = Answers
  BY <1>2, AnswerKept
<1> QED BY <1>1, <1>3, PhaseMoves DEF Reads!Refuse

\* A reader that ends with a page was given the projection of its snapshot.
LEMMA Answered ==
  ASSUME TypeOK, PagesAreHonest, NEW r \in Reader, NEW place, Goto(r, place),
         page[r] # NoKey, UNCHANGED <<db, snap, page>>,
         PhaseAt(pc[r]) = "looked", PhaseAt(place) = "answered"
  PROVE  Reads!Answer(r)
<1>1. Stored' = Stored /\ Seen' = Seen
  BY DEF Stored, Seen
<1>2. /\ Seen[r].gen # 0 /\ Seen[r].clean
      /\ Seen[r].gen = page[r].gen /\ Seen[r].rev = page[r].rev
  BY DEF PagesAreHonest, Seen, Readable, NoGeneration
<1>3. Given(place, page[r]) = Reads!Shown(Seen[r])
  BY <1>2 DEF Given, Reads!Shown
<1>4. page' = [page EXCEPT ![r] = page[r]]
  BY DEF TypeOK
<1>5. Answers' = [Answers EXCEPT ![r] = Reads!Shown(Seen[r])]
  BY <1>3, <1>4, AnswerMoves
<1> QED BY <1>1, <1>2, <1>5, PhaseMoves DEF Reads!Answer

LEMMA LookLooks ==
  ASSUME TypeOK, NEW r \in Reader, Look(r)
  PROVE  Reads!Look(r)
<1>1. PICK place, key : /\ Goto(r, place) /\ place \in {"closing", "building"}
                        /\ page' = [page EXCEPT ![r] = key]
  <2>1. page = [page EXCEPT ![r] = page[r]]
    BY DEF TypeOK
  <2> QED BY <2>1 DEF Look
<1>2. pc[r] = "starting" /\ snap' = [snap EXCEPT ![r] = db] /\ UNCHANGED db
  BY DEF Look
<1>3. PhaseAt(pc[r]) = "asked" /\ PhaseAt(place) = "looked"
  BY <1>1, <1>2 DEF PhaseAt
<1>4. Given(place, key) = Given(pc[r], page[r])
  BY <1>3 DEF Given
<1>5. Answers' = Answers
  BY <1>1, <1>4, AnswerKept
<1>6. Phase[r] = "asked" /\ Phase' = [Phase EXCEPT ![r] = "looked"]
  BY <1>1, <1>3, PhaseMoves
<1>7. Seen' = [Seen EXCEPT ![r] = Stored]
  BY <1>2 DEF Seen, Stored, TypeOK
<1>8. Stored' = Stored
  BY <1>2 DEF Stored
<1> QED BY <1>5, <1>6, <1>7, <1>8 DEF Reads!Look

\* The places of a read and the phases they stand for.
LEMMA Phases ==
  /\ PhaseAt("idle") = "idle"
  /\ \A place \in {"waiting", "starting"} : PhaseAt(place) = "asked"
  /\ \A place \in {"building", "querying", "published", "closing", "joining"} :
       PhaseAt(place) = "looked"
  /\ \A place \in {"answered", "failed"} : PhaseAt(place) = "answered"
<1> QED BY DEF PhaseAt

LEMMA BeginAsks ==
  ASSUME TypeOK, NEW r \in Reader, Begin(r)
  PROVE  Reads!Ask(r)
<1>1. PICK place \in {"waiting", "starting"} : Goto(r, place)
  BY DEF Begin
<1>2. pc[r] = "idle" /\ page' = [page EXCEPT ![r] = page[r]] /\ UNCHANGED <<db, snap>>
  BY DEF Begin, TypeOK
<1>3. PhaseAt(pc[r]) = "idle" /\ PhaseAt(place) = "asked"
  BY <1>1, <1>2, Phases
<1>4. Given(place, page[r]) = Given(pc[r], page[r])
  BY <1>3 DEF Given
<1>5. Answers' = Answers
  BY <1>1, <1>2, <1>4, AnswerKept
<1>6. Phase[r] = "idle" /\ Phase' = [Phase EXCEPT ![r] = "asked"]
  BY <1>1, <1>3, PhaseMoves
<1>7. Stored' = Stored /\ Seen' = Seen
  BY <1>2 DEF Stored, Seen
<1> QED BY <1>5, <1>6, <1>7 DEF Reads!Ask

\* What a reader does between its look and its answer is nobody's business.
LEMMA WorkIsInvisible ==
  ASSUME TypeOK, NEW r \in Reader, Recheck(r) \/ Publish(r) \/ Seal(r)
  PROVE  UNCHANGED Reads!vars
<1>1. page = [page EXCEPT ![r] = page[r]]
  BY DEF TypeOK
<1>2. PICK place \in {"building", "querying", "published", "closing"},
              key \in {page[r], cache.from, snap[r].key} :
        Goto(r, place) /\ page' = [page EXCEPT ![r] = key]
  BY <1>1 DEF Recheck, Publish, Seal
<1>3. pc[r] \in {"building", "querying", "published"} /\ UNCHANGED <<db, snap>>
  BY DEF Recheck, Publish, Seal
<1>4. PhaseAt(pc[r]) = "looked" /\ PhaseAt(place) = "looked"
  BY <1>2, <1>3, Phases
<1> QED BY <1>2, <1>3, <1>4, Invisible

\* A waiter is refused with its build, or looks for itself.
LEMMA WaitOverRefuses ==
  ASSUME TypeOK, LookedFirst, NEW r \in Reader, WaitOver(r)
  PROVE  Reads!Refuse(r) \/ UNCHANGED Reads!vars
<1>1. pc[r] = "waiting" /\ page[r] = NoKey /\ UNCHANGED <<db, snap>>
  BY DEF WaitOver, LookedFirst
<1>2. page' = [page EXCEPT ![r] = NoKey]
  BY <1>1 DEF WaitOver, TypeOK
<1>3. CASE Goto(r, "failed")
  BY <1>1, <1>2, <1>3, Refused, Phases
<1>4. CASE Goto(r, "starting")
  <2>1. PhaseAt("starting") = PhaseAt(pc[r]) /\ PhaseAt("starting") # "answered"
    BY <1>1, Phases
  <2> QED BY <1>1, <1>2, <1>4, <2>1, Invisible
<1> QED BY <1>3, <1>4 DEF WaitOver

\* A page is delivered at COMMIT; the feed delivers it later, or not at all.
LEMMA CloseAnswers ==
  ASSUME TypeOK, PagesAreHonest, NEW r \in Reader, Close(r)
  PROVE  Reads!Answer(r) \/ Reads!Refuse(r) \/ UNCHANGED Reads!vars
<1>1. pc[r] = "closing" /\ UNCHANGED <<db, snap>>
  BY DEF Close
<1>2. PhaseAt(pc[r]) = "looked" /\ PhaseAt("joining") = "looked" /\ PhaseAt("answered") = "answered"
  BY <1>1, Phases
<1>3. CASE r \in Feed /\ page[r] # NoKey /\ CacheServes(r)
  <2>1. Goto(r, "joining") /\ page' = [page EXCEPT ![r] = page[r]]
    BY <1>3 DEF Close, TypeOK
  <2> QED BY <1>1, <1>2, <2>1, Invisible
<1>4. CASE r \in Feed /\ page[r] # NoKey /\ ~ CacheServes(r)
  <2>1. Goto(r, "answered") /\ page' = [page EXCEPT ![r] = NoKey]
    BY <1>4 DEF Close
  <2> QED BY <1>1, <1>2, <2>1, Refused
<1>5. CASE r \notin Feed /\ page[r] # NoKey
  <2>1. Goto(r, "answered") /\ UNCHANGED page
    BY <1>5 DEF Close
  <2> QED BY <1>1, <1>2, <1>5, <2>1, Answered
<1>6. CASE page[r] = NoKey
  <2>1. Goto(r, "answered") /\ page' = [page EXCEPT ![r] = NoKey]
    BY <1>6 DEF Close, TypeOK
  <2> QED BY <1>1, <1>2, <2>1, Refused
<1> QED BY <1>3, <1>4, <1>5, <1>6

LEMMA StampAnswers ==
  ASSUME TypeOK, LookedFirst, PagesAreHonest, NEW r \in Reader, Stamp(r)
  PROVE  Reads!Answer(r)
<1>1. pc[r] = "joining" /\ page[r] # NoKey /\ Goto(r, "answered") /\ UNCHANGED <<db, snap, page>>
  BY DEF Stamp, LookedFirst
<1> QED BY <1>1, Phases, Answered

LEMMA FailRefuses ==
  ASSUME TypeOK, NEW r \in Reader, Fail(r)
  PROVE  Reads!Refuse(r)
<1>1. /\ pc[r] \in {"starting", "building", "querying", "published", "closing", "joining"}
      /\ page' = [page EXCEPT ![r] = NoKey] /\ UNCHANGED <<db, snap>>
  BY DEF Fail
<1>2. PICK place \in {"answered", "failed"} : Goto(r, place)
  BY DEF Fail
<1>3. PhaseAt(pc[r]) \in {"asked", "looked"} /\ PhaseAt(place) = "answered"
  BY <1>1, <1>2, Phases
<1> QED BY <1>1, <1>2, <1>3, Refused

LEMMA InitReads == Init => Reads!Init
<1> SUFFICES ASSUME Init PROVE Reads!Init
  OBVIOUS
<1>1. Stored = Reads!NoProjection
  BY DEF Init, Stored, NoKey, NoGeneration, Reads!NoProjection
<1>2. Phase = [r \in Reader |-> "idle"]
  BY Phases DEF Init, Phase
<1>3. Seen = [r \in Reader |-> Reads!NoProjection]
  BY DEF Init, Seen, NoKey, NoGeneration, Reads!NoProjection
<1>4. Answers = [r \in Reader |-> Reads!Nothing]
  BY DEF Init, Answers, Given, PhaseAt, Reads!Nothing
<1> QED BY <1>1, <1>2, <1>3, <1>4 DEF Reads!Init

LEMMA NextReads == IInv /\ IInv' /\ [Next]_vars => [Reads!Next]_Reads!vars
<1> SUFFICES ASSUME IInv, IInv', [Next]_vars PROVE [Reads!Next]_Reads!vars
  OBVIOUS
<1> USE DEF IInv
<1>1. CASE PersistActive \/ PersistOther \/ PruneCurrent \/ CommitMutation
  BY <1>1, WritersChange DEF Reads!Next
<1>2. CASE Mutate \/ AbortMutation \/ UNCHANGED vars
  <2>1. UNCHANGED <<db, readerVars>>
    BY <1>2 DEF Mutate, AbortMutation, vars
  <2> QED BY <2>1 DEF readerVars, Stored, Phase, Seen, Answers, Reads!vars
<1>3. ASSUME NEW r \in Reader, Begin(r) \/ Look(r) \/ Stamp(r) \/ Fail(r)
      PROVE  Reads!Next
  BY <1>3, BeginAsks, LookLooks, StampAnswers, FailRefuses DEF Reads!Next
<1>4. ASSUME NEW r \in Reader, Recheck(r) \/ Publish(r) \/ Seal(r)
      PROVE  UNCHANGED Reads!vars
  BY <1>4, WorkIsInvisible
<1>5. ASSUME NEW r \in Reader, WaitOver(r) \/ Close(r)
      PROVE  Reads!Next \/ UNCHANGED Reads!vars
  BY <1>5, WaitOverRefuses, CloseAnswers DEF Reads!Next
<1> QED BY <1>1, <1>2, <1>3, <1>4, <1>5 DEF Next, Advance

(* Reads are atomic: whatever other readers, the writers and the cache do,  *)
(* a reader is given the projection of one moment within its request, clean *)
(* at that moment, or nothing.                                              *)
THEOREM ReadsImplementAtomicReads == Spec => ReadsAreAtomic
<1>1. Spec => [][Reads!Next]_Reads!vars
  BY Inductive, NextReads, PTL DEF Spec
<1> QED BY <1>1, InitReads, PTL DEF Spec, ReadsAreAtomic, Reads!Spec
=============================================================================
