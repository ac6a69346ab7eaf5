---------------------- MODULE CoverageLifecycle_proofs ----------------------
(***************************************************************************)
(* Proofs about CoverageLifecycle, for every set of articles, every set of *)
(* analyses and every bound.                                               *)
(***************************************************************************)
EXTENDS CoverageLifecycle, FiniteSetTheorems, TLAPS

LEMMA FreshIdsType ==
  ASSUME NEW c \in Group, NEW taken \in SUBSET BundleId
  PROVE  FreshIds(c, taken) \subseteq BundleId
<1>1. c.members \in SUBSET Article
  BY DEF Group
<1>2. Oldest(c.members) \in SUBSET Article
  BY <1>1 DEF Oldest
<1>3. OwnId(c) \in BundleId
  BY <1>2 DEF OwnId, BundleId
<1>4. Attempts(taken) \subseteq Nat
  BY DEF Attempts, BundleId
<1>5. \A n \in Nat : SplitId(c, n) \in BundleId
  BY <1>2 DEF SplitId, BundleId
<1> QED
  BY <1>3, <1>4, <1>5 DEF FreshIds

(* The generation that a persist stores is made of well-formed bundles. *)
LEMMA ReuseOutcomesType ==
  ASSUME NEW groups \in SUBSET Group, NEW prev \in SUBSET Bundle,
         NEW bundles \in ReuseOutcomes(groups, prev)
  PROVE  bundles \in SUBSET Bundle
<1> DEFINE names == Ids(prev) \cup UNION {FreshIds(c, Ids(prev)) : c \in groups}
<1>1. Ids(prev) \in SUBSET BundleId
  BY DEF Ids, Bundle
<1>2. names \in SUBSET BundleId
  BY <1>1, FreshIdsType
<1>3. PICK id \in [groups -> names] : bundles = Assigned(groups, id)
  BY DEF ReuseOutcomes
<1>4. \A c \in groups :
        [id |-> id[c], kind |-> c.kind, members |-> c.members] \in Bundle
  BY <1>2, <1>3 DEF Bundle, Group
<1> QED
  BY <1>3, <1>4 DEF Assigned

LEMMA PreviousBundlesType ==
  ASSUME TypeOK, NEW m
  PROVE  PreviousBundles(m) \in SUBSET Bundle
BY DEF TypeOK, PreviousBundles, Completed, IsLatest

LEMMA AnalysesType ==
  ASSUME NEW a \in Analyses
  PROVE  a.articles \in SUBSET Article /\ a.groups \in SUBSET Group
BY LifecycleAssumption

LEMMA RowsAfterType ==
  ASSUME TypeOK, NEW g \in Generation, NEW m \in Modes, NEW bundles \in SUBSET Bundle
  PROVE  RowsAfter(g, m, bundles) \in SUBSET Row
<1>1. \A r \in rows : r \in Row
  BY DEF TypeOK
<1>2. \A r \in Row : Supersede(r) \in Row
  BY DEF Row, Supersede
<1>3. \A b \in bundles : NewRow(g, b, m) \in Row
  BY DEF NewRow, Row, Bundle, Modes
<1> QED
  BY <1>1, <1>2, <1>3 DEF RowsAfter

-----------------------------------------------------------------------------
(* Every reachable state is well typed. *)

LEMMA InitType == Init => TypeOK
BY LifecycleAssumption DEF Init, TypeOK, Generation, Modes, Job, Idle

LEMMA PersistType ==
  ASSUME TypeOK, NEW m \in Modes, Persist(m)
  PROVE  TypeOK'
<1>1. PICK g \in Generation : \E bundles \in ReuseOutcomes(job.groups, PreviousBundles(m)) :
        Commit(m, g, bundles)
  BY DEF Persist
<1>2. PICK bundles \in ReuseOutcomes(job.groups, PreviousBundles(m)) : Commit(m, g, bundles)
  BY <1>1
<1>3. job.groups \in SUBSET Group /\ job.articles \in SUBSET Article /\ job.seenAt \in 0..MaxTime
  BY DEF TypeOK, Job
<1>4. bundles \in SUBSET Bundle
  BY <1>2, <1>3, PreviousBundlesType, ReuseOutcomesType
<1>5. RowsAfter(g, m, bundles) \in SUBSET Row
  BY <1>4, RowsAfterType
<1>6. legacyRevision' \in 0..MaxLegacyRevision
  BY <1>2, LifecycleAssumption DEF Persist, Commit, TypeOK
<1>7. current' \subseteq Generation
  BY <1>2 DEF Commit, CurrentAfter, TypeOK
<1>8. job' \in Job
  BY <1>2, <1>3 DEF Commit, Job, Idle
<1> QED
  BY <1>2, <1>3, <1>4, <1>5, <1>6, <1>7, <1>8
     DEF Commit, TypeOK, ownerVars, deployVars, Modes

LEMMA DeleteType ==
  ASSUME TypeOK, NEW P \in SUBSET Generation, Delete(P)
  PROVE  /\ status' \in [Generation -> {"unused", "completed", "failed", "pruned"}]
         /\ articles' \in [Generation -> SUBSET Article]
         /\ versions' \in [Generation -> SUBSET Bundle]
         /\ current' \subseteq Generation
         /\ rows' \subseteq Row
<1>1. \A r \in rows : r \in Row /\ [r EXCEPT !.gen = NoGeneration] \in Row
  BY DEF TypeOK, Row
<1> QED
  BY <1>1 DEF Delete, TypeOK

LEMMA PromoteType ==
  ASSUME TypeOK, NEW g \in Generation, Promote(g)
  PROVE  TypeOK'
<1>1. \A r \in rows : /\ r \in Row
                      /\ [r EXCEPT !.state = "active"] \in Row
                      /\ Supersede(r) \in Row
  BY DEF TypeOK, Row, Supersede
<1>2. rows' \subseteq Row
  BY <1>1 DEF Promote, PromotedRows
<1> QED
  BY <1>2 DEF Promote, TypeOK, ownerVars, Modes

LEMMA OwnerType ==
  ASSUME TypeOK, SplitAny \/ UndoAny
  PROVE  TypeOK'
<1>1. CASE SplitAny
  <2>0. PICK anchor \in Article :
          \E rejected \in SUBSET (Article \ {anchor}) : Split(anchor, rejected)
    BY <1>1 DEF SplitAny
  <2>1. PICK rejected \in SUBSET (Article \ {anchor}) : Split(anchor, rejected)
    BY <2>0
  <2>2. PICK g \in ReadableCurrent :
          corrections' = corrections \cup
            {[pair |-> {anchor, a}, gen |-> g, status |-> "active"] :
               a \in {x \in rejected : {anchor, x} \notin ActivePairs}}
    BY <2>1 DEF Split
  <2>3. g \in Generation
    BY DEF ReadableCurrent, TypeOK
  <2>4. \A a \in rejected : [pair |-> {anchor, a}, gen |-> g, status |-> "active"] \in Correction
    BY <2>3 DEF Correction, Pair
  <2>5. corrections' \subseteq Correction
    BY <2>2, <2>4 DEF TypeOK
  <2>6. revision' \in 0..MaxRevision
    BY <2>1, LifecycleAssumption DEF Split, TypeOK
  <2> QED
    BY <2>1, <2>5, <2>6 DEF Split, TypeOK, generationVars, deployVars
<1>2. CASE UndoAny
  <2>1. PICK c \in corrections : Undo(c)
    BY <1>2 DEF UndoAny
  <2>2. [c EXCEPT !.status = "reverted"] \in Correction
    BY DEF TypeOK, Correction
  <2>3. corrections' \subseteq Correction
    BY <2>1, <2>2 DEF Undo, TypeOK
  <2>4. revision' \in 0..MaxRevision
    BY <2>1, LifecycleAssumption DEF Undo, TypeOK
  <2> QED
    BY <2>1, <2>3, <2>4 DEF Undo, TypeOK, generationVars, deployVars
<1> QED
  BY <1>1, <1>2

LEMMA StepType == TypeOK /\ [Next]_vars => TypeOK'
<1> SUFFICES ASSUME TypeOK, [Next]_vars PROVE TypeOK'
  OBVIOUS
<1> USE DEF generationVars, ownerVars, deployVars
<1>1. CASE Tick
  BY <1>1, LifecycleAssumption DEF Tick, TypeOK
<1>2. CASE Analyse
  <2>1. job' \in Job
    BY <1>2, AnalysesType DEF Analyse, Job, TypeOK
  <2> QED
    BY <1>2, <2>1 DEF Analyse, TypeOK
<1>3. CASE PersistV1
  <2>1. job' \in Job
    BY <1>3, LifecycleAssumption DEF PersistV1, Job, Idle
  <2> QED
    BY <1>3, <2>1, LifecycleAssumption DEF PersistV1, TypeOK
<1>4. CASE PersistShadow \/ PersistActive
  BY <1>4, PersistType DEF PersistShadow, PersistActive, Modes
<1>5. CASE PersistThrows
  <2>1. job' \in Job
    BY <1>5 DEF PersistThrows, Job, Idle, TypeOK
  <2> QED
    BY <1>5, <2>1 DEF PersistThrows, TypeOK
<1>6. CASE RecordFailure
  <2>1. job' \in Job /\ job.seenAt \in 0..MaxTime
    BY <1>6, LifecycleAssumption DEF RecordFailure, Job, Idle, TypeOK
  <2>2. PICK g \in Generation : /\ status' = [status EXCEPT ![g] = "failed"]
                                /\ mode' = [mode EXCEPT ![g] = config]
                                /\ completedAt' = [completedAt EXCEPT ![g] = job.seenAt]
    BY <1>6 DEF RecordFailure
  <2>3. config \in Modes
    BY <1>6 DEF RecordFailure, TypeOK, Modes
  <2> QED
    BY <1>6, <2>1, <2>2, <2>3 DEF RecordFailure, TypeOK
<1>7. CASE Prune
  <2>1. job' \in Job
    BY <1>7, LifecycleAssumption DEF Prune, Job, Idle
  <2>2. Prunable(job.seenAt) \in SUBSET Generation
    BY DEF Prunable
  <2> QED
    BY <1>7, <2>1, <2>2, DeleteType DEF Prune, Delete, TypeOK
<1>8. CASE WorkerRestart
  <2>1. job' \in Job
    BY <1>8, LifecycleAssumption DEF WorkerRestart, Job, Idle
  <2> QED
    BY <1>8, <2>1 DEF WorkerRestart, TypeOK
<1>9. CASE PromoteAny
  BY <1>9, PromoteType DEF PromoteAny
<1>10. CASE GoLive \/ Rollback \/ EnableShadow
  <2>1. job' \in Job
    BY <1>10, LifecycleAssumption DEF GoLive, Rollback, EnableShadow, Job, Idle
  <2> QED
    BY <1>10, <2>1 DEF GoLive, Rollback, EnableShadow, TypeOK
<1>11. CASE CanaryFails
  BY <1>11 DEF CanaryFails, TypeOK
<1>12. CASE SplitAny \/ UndoAny
  BY <1>12, OwnerType
<1>13. CASE UNCHANGED vars
  BY <1>13 DEF vars, TypeOK
<1> QED
  BY <1>1, <1>2, <1>3, <1>4, <1>5, <1>6, <1>7, <1>8, <1>9, <1>10, <1>11, <1>12, <1>13 DEF Next

(* The type invariant of every run, for every value of the constants.       *)
THEOREM TypeCorrect == Spec => []TypeOK
<1> QED
  BY InitType, StepType, PTL DEF Spec

-----------------------------------------------------------------------------
(* The projection invariants.  Together they are inductive:                 *)
(*   - a persist writes a generation whose row is not used yet, which is    *)
(*     therefore neither current nor named by any row or correction;        *)
(*   - retention deletes no generation that an active row or a correction   *)
(*     names, and detaches the other rows;                                  *)
(*   - whatever makes a generation current supersedes all other active rows.*)

(* The generation of a correction is stored, with both articles: what the   *)
(* review history relies on.                                                *)
CorrectionsAnchored ==
  \A c \in corrections : status[c.gen] = "completed" /\ c.pair \subseteq articles[c.gen]

IInv == TypeOK /\ OneCurrent /\ RowsMirrorVersions /\ ActiveRowsAreCurrent /\ CorrectionsAnchored

LEMMA InitInvariant == Init => IInv
<1> SUFFICES ASSUME Init PROVE IInv
  OBVIOUS
<1>1. OneCurrent /\ RowsMirrorVersions /\ ActiveRowsAreCurrent /\ CorrectionsAnchored
  BY DEF Init, OneCurrent, RowsMirrorVersions, ActiveRowsAreCurrent, CorrectionsAnchored
<1> QED
  BY <1>1, InitType DEF IInv

(* Nothing refers to a generation whose number is still free.               *)
LEMMA UnusedIsUnknown ==
  ASSUME IInv, NEW g \in Generation, status[g] = "unused"
  PROVE  /\ g \notin current
         /\ \A r \in rows : r.gen # g
         /\ \A c \in corrections : c.gen # g
<1>1. g # NoGeneration
  BY DEF Generation, NoGeneration
<1> QED
  BY <1>1 DEF IInv, OneCurrent, RowsMirrorVersions, CorrectionsAnchored

(* What taking over and superseding rows does to a row of the projection.   *)
LEMMA RowsAfterMember ==
  ASSUME TypeOK, NEW g \in Generation, NEW m \in Modes, NEW bundles \in SUBSET Bundle,
         NEW r \in RowsAfter(g, m, bundles)
  PROVE  \/ \E b \in bundles : r = NewRow(g, b, m)
         \/ \E q \in rows : /\ r.id = q.id /\ r.members = q.members /\ r.gen = q.gen
                            /\ r.state \in {q.state, "superseded"}
                            /\ m = "active" => r.state # "active"
<1>1. CASE \E b \in bundles : r = NewRow(g, b, m)
  BY <1>1
<1>2. CASE \E q \in rows : /\ r = q
                           /\ ~ (q.gen \in PreviousGenerations(m)
                                   \/ (m = "active" /\ q.state = "active"))
  BY <1>2
<1>3. CASE \E q \in rows : r = Supersede(q)
  <2>1. PICK q \in rows : r = Supersede(q)
    BY <1>3
  <2>2. q \in Row
    BY DEF TypeOK
  <2>3. /\ r.id = q.id /\ r.members = q.members /\ r.gen = q.gen
        /\ r.state = "superseded"
    BY <2>1, <2>2 DEF Supersede, Row
  <2> QED
    BY <2>3
<1> QED
  BY <1>1, <1>2, <1>3 DEF RowsAfter

LEMMA PersistInvariant ==
  ASSUME IInv, NEW m \in Modes, Persist(m)
  PROVE  OneCurrent' /\ RowsMirrorVersions' /\ ActiveRowsAreCurrent' /\ CorrectionsAnchored'
<1>1. TypeOK
  BY DEF IInv
<1>2. PICK g \in Generation : /\ IsNext(g)
                             /\ \E bundles \in ReuseOutcomes(job.groups, PreviousBundles(m)) :
                                  Commit(m, g, bundles)
  BY DEF Persist
<1>3. PICK bundles \in ReuseOutcomes(job.groups, PreviousBundles(m)) : Commit(m, g, bundles)
  BY <1>2
<1>4. bundles \in SUBSET Bundle
  <2>1. job.groups \in SUBSET Group
    BY <1>1 DEF TypeOK, Job
  <2> QED
    BY <1>1, <2>1, PreviousBundlesType, ReuseOutcomesType
<1>5. /\ g \notin current
      /\ \A r \in rows : r.gen # g
      /\ \A c \in corrections : c.gen # g
  BY <1>2, UnusedIsUnknown DEF IsNext
<1>6. /\ status'[g] = "completed" /\ mode'[g] = m /\ versions'[g] = bundles
      /\ \A h \in Generation \ {g} : /\ status'[h] = status[h] /\ mode'[h] = mode[h]
                                      /\ articles'[h] = articles[h]
                                      /\ versions'[h] = versions[h]
  BY <1>1, <1>3 DEF Commit, TypeOK
<1>7. /\ rows' = RowsAfter(g, m, bundles) /\ corrections' = corrections
      /\ current' = IF m = "active" THEN {g} ELSE current
  BY <1>3 DEF Commit, CurrentAfter, ownerVars
<1>8. OneCurrent'
  BY <1>1, <1>5, <1>6, <1>7 DEF IInv, OneCurrent, TypeOK
<1>9. ASSUME NEW r \in rows'
      PROVE  /\ r.gen # NoGeneration =>
                  /\ status'[r.gen] = "completed"
                  /\ \E b \in versions'[r.gen] : b.id = r.id /\ b.members = r.members
             /\ r.state = "active" => r.gen \in current'
  <2>1. CASE \E b \in bundles : r = NewRow(g, b, m)
    BY <2>1, <1>6, <1>7 DEF NewRow
  <2>2. CASE \E q \in rows : /\ r.id = q.id /\ r.members = q.members /\ r.gen = q.gen
                             /\ r.state \in {q.state, "superseded"}
                             /\ m = "active" => r.state # "active"
    <3>1. PICK q \in rows : /\ r.id = q.id /\ r.members = q.members /\ r.gen = q.gen
                            /\ r.state \in {q.state, "superseded"}
                            /\ m = "active" => r.state # "active"
      BY <2>2
    <3>2. q \in Row /\ q.gen # g
      BY <1>1, <1>5 DEF TypeOK
    <3>3. r.gen # NoGeneration => r.gen \in Generation \ {g}
      BY <3>1, <3>2 DEF Row
    <3> QED
      BY <3>1, <3>2, <3>3, <1>6, <1>7 DEF IInv, RowsMirrorVersions, ActiveRowsAreCurrent
  <2> QED
    BY <1>1, <1>4, <1>7, <2>1, <2>2, RowsAfterMember
<1>10. CorrectionsAnchored'
  <2>1. \A c \in corrections : c.gen \in Generation \ {g}
    BY <1>1, <1>5 DEF TypeOK, Correction
  <2> QED
    BY <2>1, <1>6, <1>7 DEF IInv, CorrectionsAnchored
<1> QED
  BY <1>8, <1>9, <1>10 DEF RowsMirrorVersions, ActiveRowsAreCurrent


LEMMA PruneInvariant ==
  ASSUME IInv, Prune
  PROVE  OneCurrent' /\ RowsMirrorVersions' /\ ActiveRowsAreCurrent' /\ CorrectionsAnchored'
<1> DEFINE P == Prunable(job.seenAt)
<1>1. TypeOK /\ P \subseteq Generation /\ Delete(P) /\ corrections' = corrections
  BY DEF IInv, Prune, Prunable, ownerVars
<1>2. \A g \in Generation \ P : /\ status'[g] = status[g] /\ mode'[g] = mode[g]
                               /\ articles'[g] = articles[g] /\ versions'[g] = versions[g]
  BY <1>1 DEF Delete
<1>3. OneCurrent'
  BY <1>1, <1>2 DEF IInv, OneCurrent, Delete, TypeOK
<1>4. ASSUME NEW r \in rows'
      PROVE  /\ r.gen # NoGeneration =>
                  /\ status'[r.gen] = "completed"
                  /\ \E b \in versions'[r.gen] : b.id = r.id /\ b.members = r.members
             /\ r.state = "active" => r.gen \in current'
  <2>1. PICK q \in rows : r = IF q.gen \in P THEN [q EXCEPT !.gen = NoGeneration] ELSE q
    BY <1>1 DEF Delete
  <2>2. q \in Row
    BY <1>1 DEF TypeOK
  <2>3. CASE q.gen \in P
    <3>1. q.state # "active"
      BY <2>3 DEF Prunable
    <3>2. r.gen = NoGeneration /\ r.state = q.state
      BY <2>1, <2>2, <2>3 DEF Row
    <3> QED
      BY <3>1, <3>2
  <2>4. CASE q.gen \notin P
    <3>1. r = q /\ (r.gen # NoGeneration => r.gen \in Generation \ P)
      BY <2>1, <2>2, <2>4 DEF Row
    <3>2. r.gen # NoGeneration =>
            /\ status'[r.gen] = "completed"
            /\ \E b \in versions'[r.gen] : b.id = r.id /\ b.members = r.members
      BY <1>2, <3>1 DEF IInv, RowsMirrorVersions
    <3>3. r.state = "active" => r.gen \in current'
      BY <1>1, <2>4, <3>1 DEF IInv, ActiveRowsAreCurrent, Delete
    <3> QED
      BY <3>2, <3>3
  <2> QED
    BY <2>3, <2>4
<1>5. CorrectionsAnchored'
  <2>1. \A c \in corrections : c.gen \in Generation \ P
    BY <1>1 DEF Prunable, TypeOK, Correction
  <2> QED
    BY <1>1, <1>2, <2>1 DEF IInv, CorrectionsAnchored
<1> QED
  BY <1>3, <1>4, <1>5 DEF RowsMirrorVersions, ActiveRowsAreCurrent

LEMMA PromoteInvariant ==
  ASSUME IInv, NEW g \in Generation, Promote(g)
  PROVE  OneCurrent' /\ RowsMirrorVersions' /\ ActiveRowsAreCurrent' /\ CorrectionsAnchored'
<1>1. TypeOK /\ status[g] = "completed"
  BY DEF IInv, Promote, IsLatest, Completed
<1>2. /\ current' = {g} /\ mode'[g] = "active" /\ rows' = PromotedRows(g)
      /\ status' = status /\ articles' = articles /\ versions' = versions
      /\ corrections' = corrections
  BY <1>1 DEF Promote, TypeOK, Modes, ownerVars
<1>3. OneCurrent'
  BY <1>1, <1>2 DEF OneCurrent
<1>4. ASSUME NEW r \in rows'
      PROVE  \E q \in rows : /\ r.id = q.id /\ r.members = q.members /\ r.gen = q.gen
                             /\ r.state = "active" => q.gen = g
  <2>1. PICK q \in rows : r = IF q.gen = g THEN [q EXCEPT !.state = "active"]
                              ELSE IF q.state = "active" THEN Supersede(q) ELSE q
    BY <1>2 DEF PromotedRows
  <2>2. q \in Row
    BY <1>1 DEF TypeOK
  <2>3. /\ [q EXCEPT !.state = "active"].id = q.id
        /\ [q EXCEPT !.state = "active"].members = q.members
        /\ [q EXCEPT !.state = "active"].gen = q.gen
    BY <2>2 DEF Row
  <2>4. /\ Supersede(q).id = q.id /\ Supersede(q).members = q.members
        /\ Supersede(q).gen = q.gen /\ Supersede(q).state = "superseded"
    BY <2>2 DEF Row, Supersede
  <2> QED
    BY <2>1, <2>3, <2>4
<1>5. RowsMirrorVersions'
  BY <1>2, <1>4 DEF IInv, RowsMirrorVersions
<1>6. ActiveRowsAreCurrent'
  BY <1>2, <1>4 DEF ActiveRowsAreCurrent
<1>7. CorrectionsAnchored'
  BY <1>2 DEF IInv, CorrectionsAnchored
<1> QED
  BY <1>3, <1>5, <1>6, <1>7

LEMMA RecordFailureInvariant ==
  ASSUME IInv, RecordFailure
  PROVE  OneCurrent' /\ RowsMirrorVersions' /\ ActiveRowsAreCurrent' /\ CorrectionsAnchored'
<1>1. TypeOK
  BY DEF IInv
<1>2. PICK g \in Generation : /\ IsNext(g)
                             /\ status' = [status EXCEPT ![g] = "failed"]
                             /\ mode' = [mode EXCEPT ![g] = config]
  BY DEF RecordFailure
<1>3. /\ g \notin current
      /\ \A r \in rows : r.gen # g
      /\ \A c \in corrections : c.gen # g
  BY <1>2, UnusedIsUnknown DEF IsNext
<1>4. \A h \in Generation \ {g} : status'[h] = status[h] /\ mode'[h] = mode[h]
  BY <1>1, <1>2 DEF TypeOK
<1>5. UNCHANGED <<articles, versions, current, rows, corrections>>
  BY DEF RecordFailure, ownerVars
<1>6. /\ \A r \in rows : r.gen # NoGeneration => r.gen \in Generation \ {g}
      /\ \A c \in corrections : c.gen \in Generation \ {g}
      /\ current \subseteq Generation \ {g}
  BY <1>1, <1>3 DEF TypeOK, Row, Correction
<1> QED
  BY <1>4, <1>5, <1>6
     DEF IInv, OneCurrent, RowsMirrorVersions, ActiveRowsAreCurrent, CorrectionsAnchored

LEMMA OwnerInvariant ==
  ASSUME IInv, SplitAny \/ UndoAny
  PROVE  OneCurrent' /\ RowsMirrorVersions' /\ ActiveRowsAreCurrent' /\ CorrectionsAnchored'
<1>1. UNCHANGED <<generationVars, current, rows>>
  BY DEF SplitAny, Split, UndoAny, Undo
<1>2. CASE SplitAny
  <2>0. PICK anchor \in Article :
          \E rejected \in SUBSET (Article \ {anchor}) : Split(anchor, rejected)
    BY <1>2 DEF SplitAny
  <2>1. PICK rejected \in SUBSET (Article \ {anchor}) : Split(anchor, rejected)
    BY <2>0
  <2>2. PICK g \in ReadableCurrent :
          LET fresh == {a \in rejected : {anchor, a} \notin ActivePairs} IN
          /\ Together({anchor} \cup fresh, g)
          /\ corrections' = corrections \cup
               {[pair |-> {anchor, a}, gen |-> g, status |-> "active"] : a \in fresh}
    BY <2>1 DEF Split
  <2>3. status[g] = "completed"
    BY DEF ReadableCurrent
  <2>4. \A a \in {x \in rejected : {anchor, x} \notin ActivePairs} : {anchor, a} \subseteq articles[g]
    BY <2>2 DEF Together
  <2>5. ASSUME NEW c \in corrections'
        PROVE  status[c.gen] = "completed" /\ c.pair \subseteq articles[c.gen]
    <3>1. CASE c \in corrections
      BY <3>1 DEF IInv, CorrectionsAnchored
    <3>2. CASE \E a \in {x \in rejected : {anchor, x} \notin ActivePairs} :
                 c = [pair |-> {anchor, a}, gen |-> g, status |-> "active"]
      BY <3>2, <2>3, <2>4
    <3> QED
      BY <2>2, <3>1, <3>2
  <2>6. CorrectionsAnchored'
    BY <1>1, <2>5 DEF CorrectionsAnchored, generationVars
  <2> QED
    BY <1>1, <2>6
       DEF IInv, OneCurrent, RowsMirrorVersions, ActiveRowsAreCurrent, generationVars
<1>3. CASE UndoAny
  <2>1. PICK c \in corrections : Undo(c)
    BY <1>3 DEF UndoAny
  <2>2. \A d \in corrections' : \E e \in corrections : d.gen = e.gen /\ d.pair = e.pair
    <3>1. c \in Correction
      BY DEF IInv, TypeOK
    <3>2. [c EXCEPT !.status = "reverted"].gen = c.gen /\ [c EXCEPT !.status = "reverted"].pair = c.pair
      BY <3>1 DEF Correction
    <3> QED
      BY <2>1, <3>2 DEF Undo
  <2>3. CorrectionsAnchored'
    BY <1>1, <2>2 DEF IInv, CorrectionsAnchored, generationVars
  <2> QED
    BY <1>1, <2>3
       DEF IInv, OneCurrent, RowsMirrorVersions, ActiveRowsAreCurrent, generationVars
<1> QED
  BY <1>2, <1>3

LEMMA StepInvariant == IInv /\ [Next]_vars => IInv'
<1> SUFFICES ASSUME IInv, [Next]_vars
             PROVE  OneCurrent' /\ RowsMirrorVersions' /\ ActiveRowsAreCurrent' /\ CorrectionsAnchored'
  BY StepType DEF IInv
<1>1. CASE UNCHANGED <<generationVars, current, rows, corrections>>
  BY <1>1 DEF IInv, OneCurrent, RowsMirrorVersions, ActiveRowsAreCurrent, CorrectionsAnchored,
              generationVars
<1>2. CASE PersistShadow \/ PersistActive
  BY <1>2, PersistInvariant DEF PersistShadow, PersistActive, Modes
<1>3. CASE RecordFailure
  BY <1>3, RecordFailureInvariant
<1>4. CASE Prune
  BY <1>4, PruneInvariant
<1>5. CASE PromoteAny
  BY <1>5, PromoteInvariant DEF PromoteAny
<1>6. CASE SplitAny \/ UndoAny
  BY <1>6, OwnerInvariant
<1>7. CASE \/ Tick \/ Analyse \/ PersistV1 \/ PersistThrows \/ WorkerRestart
           \/ GoLive \/ CanaryFails \/ Rollback \/ EnableShadow \/ UNCHANGED vars
  <2>1. UNCHANGED <<generationVars, current, rows, corrections>>
    BY <1>7 DEF Tick, Analyse, PersistV1, PersistThrows, WorkerRestart, GoLive, CanaryFails,
                Rollback, EnableShadow, ownerVars, vars
  <2> QED
    BY <1>1, <2>1
<1> QED
  BY <1>2, <1>3, <1>4, <1>5, <1>6, <1>7 DEF Next

(* The readers and the owner's mutations select one generation, promotion   *)
(* may count rows, and no row of an earlier generation stays active: in     *)
(* every reachable state, whatever order persists, failures, prunes,        *)
(* promotions, rollbacks and corrections come in.                           *)
THEOREM ProjectionSafe == Spec => [](OneCurrent /\ RowsMirrorVersions /\ ActiveRowsAreCurrent)
<1>1. IInv => OneCurrent /\ RowsMirrorVersions /\ ActiveRowsAreCurrent
  BY DEF IInv
<1> QED
  BY <1>1, InitInvariant, StepInvariant, PTL DEF Spec

(* Readers, corrections and retention pick the same generation: there is at *)
(* most one current marker, and it is on a completed active generation.     *)
THEOREM OneIsCurrent == Spec => []OneCurrent
<1>1. OneCurrent /\ RowsMirrorVersions /\ ActiveRowsAreCurrent => OneCurrent
  OBVIOUS
<1> QED
  BY <1>1, ProjectionSafe, PTL

(* A promotion or an active persist leaves no active row of what it replaced. *)
THEOREM NoRowLeftActive == Spec => []ActiveRowsAreCurrent
<1>1. OneCurrent /\ RowsMirrorVersions /\ ActiveRowsAreCurrent => ActiveRowsAreCurrent
  OBVIOUS
<1> QED
  BY <1>1, ProjectionSafe, PTL


-----------------------------------------------------------------------------
(* Keys and finiteness, which counting rows relies on: a stable row is      *)
(* known by its id, a generation stores one bundle per id, and what a cycle *)
(* carries and a generation stores is finite.                               *)

RowKeys == \A r, q \in rows : r.id = q.id => r = q

VersionKeys == \A g \in Generation : \A b, c \in versions[g] : b.id = c.id => b = c

FiniteVersions == IsFiniteSet(job.groups) /\ \A g \in Generation : IsFiniteSet(versions[g])

KInv == IInv /\ RowKeys /\ VersionKeys /\ FiniteVersions

LEMMA OutcomeKeys ==
  ASSUME NEW groups \in SUBSET Group, IsFiniteSet(groups), NEW prev,
         NEW bundles \in ReuseOutcomes(groups, prev)
  PROVE  IsFiniteSet(bundles) /\ \A b, c \in bundles : b.id = c.id => b = c
<1> DEFINE names == Ids(prev) \cup UNION {FreshIds(c, Ids(prev)) : c \in groups}
           bundle(id, c) == [id |-> id[c], kind |-> c.kind, members |-> c.members]
<1>1. PICK id \in [groups -> names] :
        bundles = Assigned(groups, id) /\ StableAssignment(groups, prev, id)
  BY DEF ReuseOutcomes
<1>2. bundles = {bundle(id, c) : c \in groups}
  BY <1>1 DEF Assigned
<1>3. \A b, c \in bundles : b.id = c.id => b = c
  <2>1. \A c, d \in groups : id[c] = id[d] => c = d
    BY <1>1 DEF StableAssignment
  <2> QED
    BY <1>2, <2>1
<1>4. IsFiniteSet(bundles)
  <2> DEFINE f == [c \in groups |-> bundle(id, c)]
  <2>1. f \in Surjection(groups, bundles)
    BY <1>2 DEF Surjection
  <2> HIDE DEF f
  <2> QED
    BY <2>1, FS_Surjection
<1> QED
  BY <1>3, <1>4

LEMMA InitKeys == Init => KInv
<1>1. IsFiniteSet({})
  BY FS_EmptySet
<1> QED
  BY <1>1, InitInvariant DEF KInv, Init, RowKeys, VersionKeys, FiniteVersions, Idle

LEMMA PersistKeys ==
  ASSUME KInv, NEW m \in Modes, Persist(m)
  PROVE  RowKeys' /\ VersionKeys' /\ FiniteVersions'
<1>1. TypeOK /\ job.groups \in SUBSET Group
  BY DEF KInv, IInv, TypeOK, Job
<1>2. PICK g \in Generation : \E bundles \in ReuseOutcomes(job.groups, PreviousBundles(m)) :
        Commit(m, g, bundles)
  BY DEF Persist
<1>3. PICK bundles \in ReuseOutcomes(job.groups, PreviousBundles(m)) : Commit(m, g, bundles)
  BY <1>2
<1>4. IsFiniteSet(bundles) /\ \A b, c \in bundles : b.id = c.id => b = c
  BY <1>1, OutcomeKeys DEF KInv, FiniteVersions
<1>5. /\ versions' = [versions EXCEPT ![g] = bundles]
      /\ rows' = RowsAfter(g, m, bundles)
      /\ job'.groups = {}
  BY <1>3 DEF Commit, Idle
<1>6. VersionKeys' /\ FiniteVersions'
  BY <1>1, <1>4, <1>5, FS_EmptySet DEF KInv, VersionKeys, FiniteVersions, TypeOK
<1>7. ASSUME NEW r \in rows', NEW q \in rows', r.id = q.id
      PROVE  r = q
  <2> DEFINE kept == {x \in rows : x.id \notin Ids(bundles)}
             after(x) == IF x.gen \in PreviousGenerations(m) \/ (m = "active" /\ x.state = "active")
                         THEN Supersede(x) ELSE x
  <2>1. rows' = {after(x) : x \in kept} \cup {NewRow(g, b, m) : b \in bundles}
    BY <1>5 DEF RowsAfter
  <2>2. \A x \in kept : after(x).id = x.id
    BY <1>1 DEF TypeOK, Row, Supersede
  <2>3. \A b \in bundles : NewRow(g, b, m).id = b.id /\ b.id \in Ids(bundles)
    BY DEF NewRow, Ids
  <2>4. \A x, y \in kept : x.id = y.id => x = y
    BY DEF KInv, RowKeys
  <2> HIDE DEF after
  <2>5. CASE \E x, y \in kept : r = after(x) /\ q = after(y)
    BY <2>5, <2>2, <2>4, <1>7
  <2>6. CASE \E b, c \in bundles : r = NewRow(g, b, m) /\ q = NewRow(g, c, m)
    BY <2>6, <2>3, <1>4, <1>7
  <2>7. CASE \E x \in kept, b \in bundles : {r, q} = {after(x), NewRow(g, b, m)}
    BY <2>7, <2>2, <2>3, <1>7
  <2> QED
    BY <2>1, <2>5, <2>6, <2>7
<1> QED
  BY <1>6, <1>7 DEF RowKeys

(* Promotion and retention change rows one by one and never their id.       *)
LEMMA MappedRowKeys ==
  ASSUME TypeOK, RowKeys, NEW P, NEW g
  PROVE  /\ \A r, q \in PromotedRows(g) : r.id = q.id => r = q
         /\ \A r, q \in {IF x.gen \in P THEN [x EXCEPT !.gen = NoGeneration] ELSE x : x \in rows} :
              r.id = q.id => r = q
<1> DEFINE promoted(x) == IF x.gen = g THEN [x EXCEPT !.state = "active"]
                          ELSE IF x.state = "active" THEN Supersede(x) ELSE x
           detached(x) == IF x.gen \in P THEN [x EXCEPT !.gen = NoGeneration] ELSE x
<1>1. \A x \in rows : promoted(x).id = x.id /\ detached(x).id = x.id
  BY DEF TypeOK, Row, Supersede
<1>2. PromotedRows(g) = {promoted(x) : x \in rows}
  BY DEF PromotedRows
<1> HIDE DEF promoted, detached
<1>3. \A r, q \in {promoted(x) : x \in rows} : r.id = q.id => r = q
  BY <1>1 DEF RowKeys
<1>4. \A r, q \in {detached(x) : x \in rows} : r.id = q.id => r = q
  BY <1>1 DEF RowKeys
<1> QED
  BY <1>2, <1>3, <1>4 DEF detached

LEMMA StepKeys == KInv /\ [Next]_vars => KInv'
<1> SUFFICES ASSUME KInv, [Next]_vars
             PROVE  RowKeys' /\ VersionKeys' /\ FiniteVersions'
  BY StepInvariant DEF KInv
<1> USE DEF generationVars, ownerVars, deployVars
<1>0. TypeOK
  BY DEF KInv, IInv
<1>1. CASE UNCHANGED <<versions, rows>> /\ job'.groups \in {{}, job.groups}
  BY <1>1, FS_EmptySet DEF KInv, RowKeys, VersionKeys, FiniteVersions
<1>2. CASE PersistShadow \/ PersistActive
  BY <1>2, PersistKeys DEF PersistShadow, PersistActive, Modes
<1>3. CASE Analyse
  <2>1. PICK a \in Analyses : job'.groups = a.groups
    BY <1>3 DEF Analyse
  <2>2. IsFiniteSet(job'.groups)
    BY <2>1, LifecycleAssumption
  <2> QED
    BY <1>3, <2>2 DEF Analyse, KInv, RowKeys, VersionKeys, FiniteVersions
<1>4. CASE Prune
  <2>1. Delete(Prunable(job.seenAt)) /\ job'.groups = {}
    BY <1>4 DEF Prune, Idle
  <2>2. \A g \in Generation : versions'[g] \in {{}, versions[g]}
    BY <2>1 DEF Delete
  <2>3. RowKeys'
    BY <1>0, <2>1, MappedRowKeys DEF Delete, KInv, RowKeys
  <2> QED
    <3>1. VersionKeys'
      BY <2>2 DEF KInv, VersionKeys
    <3>2. FiniteVersions'
      BY <2>1, <2>2, FS_EmptySet DEF KInv, FiniteVersions
    <3> QED
      BY <2>3, <3>1, <3>2
<1>5. CASE PromoteAny
  <2>1. PICK g \in Generation : Promote(g)
    BY <1>5 DEF PromoteAny
  <2>2. RowKeys'
    BY <1>0, <2>1, MappedRowKeys DEF Promote, KInv, RowKeys
  <2> QED
    BY <2>1, <2>2 DEF Promote, KInv, VersionKeys, FiniteVersions
<1>6. CASE \/ Tick \/ PersistV1 \/ PersistThrows \/ RecordFailure \/ WorkerRestart
           \/ GoLive \/ CanaryFails \/ Rollback \/ EnableShadow
           \/ SplitAny \/ UndoAny \/ UNCHANGED vars
  <2>1. UNCHANGED <<versions, rows>>
    BY <1>6 DEF Tick, PersistV1, PersistThrows, RecordFailure, WorkerRestart, GoLive, CanaryFails,
                Rollback, EnableShadow, SplitAny, Split, UndoAny, Undo, vars
  <2>2. job' = job \/ job'.groups = {}
    <3>1. CASE Tick \/ CanaryFails \/ SplitAny \/ UndoAny \/ UNCHANGED vars
      BY <3>1 DEF Tick, CanaryFails, SplitAny, Split, UndoAny, Undo, vars
    <3>2. CASE \/ PersistV1 \/ RecordFailure \/ WorkerRestart
               \/ GoLive \/ Rollback \/ EnableShadow
      <4>1. job' = Idle
        BY <3>2 DEF PersistV1, RecordFailure, WorkerRestart, GoLive, Rollback, EnableShadow
      <4> QED
        BY <4>1 DEF Idle
    <3>3. CASE PersistThrows
      BY <3>3 DEF PersistThrows, Idle
    <3> QED
      BY <1>6, <3>1, <3>2, <3>3
  <2> QED
    BY <1>1, <2>1, <2>2
<1> QED
  BY <1>2, <1>3, <1>4, <1>5, <1>6 DEF Next

-----------------------------------------------------------------------------
(* Promotion and active persists leave the new current generation clean.    *)

LEMMA PersistActiveIsClean ==
  ASSUME TypeOK, PersistActive
  PROVE  CurrentClean'
<1>1. PICK g \in Generation : \E bundles \in ReuseOutcomes(job.groups, PreviousBundles("active")) :
        Commit("active", g, bundles)
  BY DEF PersistActive, Persist
<1>2. PICK bundles \in ReuseOutcomes(job.groups, PreviousBundles("active")) :
        Commit("active", g, bundles)
  BY <1>1
<1>3. current' = {g} /\ versions'[g] = bundles
  BY <1>2 DEF Commit, CurrentAfter, TypeOK
<1>4. \A b \in bundles : NewRow(g, b, "active") \in rows'
  BY <1>2 DEF Commit, RowsAfter
<1>5. \A b \in bundles : \E r \in rows' : /\ r.gen = g /\ r.state = "active"
                                         /\ r.id = b.id /\ r.members = b.members
  BY <1>4 DEF NewRow
<1> QED
  BY <1>3, <1>5 DEF CurrentClean, ReadableCurrent, Clean, StableRows

(* Counting is enough: the rows of g mirror its bundles one to one, so as   *)
(* many rows as bundles means a row for every bundle.                       *)
LEMMA PromoteIsClean ==
  ASSUME KInv, NEW g \in Generation, Promote(g)
  PROVE  CurrentClean'
<1> DEFINE R == {r \in rows : r.gen = g}
           V == versions[g]
           f == [r \in R |-> CHOOSE b \in V : b.id = r.id /\ b.members = r.members]
<1>1. TypeOK
  BY DEF KInv, IInv
<1>2. \A r \in R : \E b \in V : b.id = r.id /\ b.members = r.members
  BY DEF KInv, IInv, RowsMirrorVersions, Generation, NoGeneration
<1>3. \A r \in R : f[r] \in V /\ f[r].id = r.id /\ f[r].members = r.members
  BY <1>2
<1>4. f \in Injection(R, V)
  <2>1. f \in [R -> V]
    BY <1>3
  <2> HIDE DEF f
  <2>2. \A r, q \in R : f[r] = f[q] => r = q
    BY <1>3 DEF KInv, RowKeys
  <2> QED
    BY <2>1, <2>2 DEF Injection, IsInjective
<1>5. IsFiniteSet(V) /\ Cardinality(R) = Cardinality(V)
  BY DEF KInv, FiniteVersions, Promote, AllRowsStillThere
<1>6. f \in Surjection(R, V)
  <2> HIDE DEF f, R, V
  <2> QED
    BY <1>4, <1>5, FS_Injection
<1>7. \A b \in V : \E r \in R : r.id = b.id /\ r.members = b.members
  <2>1. \A b \in V : \E r \in R : f[r] = b
    BY <1>6 DEF Surjection
  <2> HIDE DEF f
  <2> QED
    BY <1>3, <2>1
<1>8. \A r \in R : \E q \in rows' : /\ q.gen = g /\ q.state = "active"
                                   /\ q.id = r.id /\ q.members = r.members
  <2> SUFFICES ASSUME NEW r \in R
               PROVE  \E q \in rows' : /\ q.gen = g /\ q.state = "active"
                                      /\ q.id = r.id /\ q.members = r.members
    OBVIOUS
  <2>1. [r EXCEPT !.state = "active"] \in rows'
    BY DEF Promote, PromotedRows
  <2>2. r \in Row
    BY <1>1 DEF TypeOK
  <2> QED
    BY <2>1, <2>2 DEF Row
<1>9. current' = {g} /\ versions' = versions
  BY DEF Promote
<1>10. \A b \in V : \E q \in rows' : /\ q.gen = g /\ q.state = "active"
                                    /\ q.id = b.id /\ q.members = b.members
  BY <1>7, <1>8
<1> QED
  BY <1>9, <1>10 DEF CurrentClean, ReadableCurrent, Clean, StableRows

LEMMA NewCurrentPreserved == KInv /\ [Next]_vars => [NewCurrentStep]_vars
<1> SUFFICES ASSUME KInv, [Next]_vars, current' # current
             PROVE  CurrentClean'
  BY DEF NewCurrentStep
<1>1. CASE PersistActive
  BY <1>1, PersistActiveIsClean DEF KInv, IInv
<1>2. CASE PromoteAny
  BY <1>2, PromoteIsClean DEF PromoteAny
<1>3. CASE Prune
  <2>1. current' = {}
    BY <1>3 DEF Prune, Delete, KInv, IInv, OneCurrent
  <2> QED
    BY <2>1 DEF CurrentClean, ReadableCurrent
<1>4. CASE \/ Tick \/ Analyse \/ PersistV1 \/ PersistShadow \/ PersistThrows \/ RecordFailure
           \/ WorkerRestart \/ GoLive \/ CanaryFails \/ Rollback \/ EnableShadow
           \/ SplitAny \/ UndoAny \/ UNCHANGED vars
  <2>1. current' = current
    BY <1>4 DEF Tick, Analyse, PersistV1, PersistShadow, Persist, Commit, CurrentAfter,
                PersistThrows, RecordFailure, WorkerRestart, GoLive, CanaryFails, Rollback,
                EnableShadow, SplitAny, Split, UndoAny, Undo, vars
  <2> QED
    BY <2>1
<1> QED
  BY <1>1, <1>2, <1>3, <1>4 DEF Next

(* Whenever a generation becomes current, by an active persist or by a      *)
(* promotion that only compares two counts, its stable rows are exactly its *)
(* bundles: promotion never exposes a generation another one took rows of.  *)
THEOREM NewCurrentClean == Spec => NewCurrentIsClean
<1> QED
  BY InitKeys, StepKeys, NewCurrentPreserved, PTL DEF Spec, NewCurrentIsClean

-----------------------------------------------------------------------------
(* What no step does to stored generations and review history.              *)

(* Every step leaves the facts of completed generations alone or deletes    *)
(* the generation whole.                                                    *)
LEMMA ImmutablePreserved == IInv /\ [Next]_vars => ImmutableStep
<1> SUFFICES ASSUME IInv, [Next]_vars, NEW g \in Generation,
                    status[g] = "completed", status'[g] # "pruned"
             PROVE  /\ status'[g] = "completed"
                    /\ articles'[g] = articles[g] /\ versions'[g] = versions[g]
                    /\ completedAt'[g] = completedAt[g]
                    /\ mode[g] = "active" => mode'[g] = "active"
  BY DEF ImmutableStep
<1> USE DEF generationVars
<1>1. TypeOK
  BY DEF IInv
<1>2. CASE PersistShadow \/ PersistActive
  <2>1. PICK m \in Modes : Persist(m)
    BY <1>2 DEF PersistShadow, PersistActive, Modes
  <2>2. PICK h \in Generation : IsNext(h) /\ \E bundles : Commit(m, h, bundles)
    BY <2>1 DEF Persist
  <2>3. g # h
    BY <2>2 DEF IsNext
  <2> QED
    BY <1>1, <2>2, <2>3 DEF Commit, TypeOK
<1>3. CASE RecordFailure
  <2>1. PICK h \in Generation : /\ IsNext(h)
                               /\ status' = [status EXCEPT ![h] = "failed"]
                               /\ mode' = [mode EXCEPT ![h] = config]
                               /\ completedAt' = [completedAt EXCEPT ![h] = job.seenAt]
    BY <1>3 DEF RecordFailure
  <2>2. g # h
    BY <2>1 DEF IsNext
  <2> QED
    BY <1>1, <1>3, <2>1, <2>2 DEF RecordFailure, TypeOK
<1>4. CASE Prune
  BY <1>1, <1>4 DEF Prune, Delete, TypeOK
<1>5. CASE PromoteAny
  <2>1. PICK h \in Generation : Promote(h)
    BY <1>5 DEF PromoteAny
  <2> QED
    BY <1>1, <2>1 DEF Promote, TypeOK
<1>6. CASE UNCHANGED generationVars
  BY <1>6
<1>7. CASE \/ Tick \/ Analyse \/ PersistV1 \/ PersistThrows \/ WorkerRestart \/ GoLive
           \/ CanaryFails \/ Rollback \/ EnableShadow \/ SplitAny \/ UndoAny \/ UNCHANGED vars
  <2>1. UNCHANGED generationVars
    BY <1>7 DEF Tick, Analyse, PersistV1, PersistThrows, WorkerRestart, GoLive, CanaryFails,
                Rollback, EnableShadow, SplitAny, Split, UndoAny, Undo, vars
  <2> QED
    BY <1>6, <2>1
<1> QED
  BY <1>2, <1>3, <1>4, <1>5, <1>7 DEF Next

(* Readers and owner mutations may use what they read about a completed     *)
(* generation for as long as it exists.                                     *)
THEOREM Immutable == Spec => GenerationsImmutable
<1>1. IInv /\ [Next]_vars => [ImmutableStep]_vars
  BY ImmutablePreserved
<1> QED
  BY <1>1, InitInvariant, StepInvariant, PTL DEF Spec, GenerationsImmutable

(* A step that prunes a generation is the worker's retention.               *)
LEMMA OnlyPrunePrunes ==
  ASSUME IInv, [Next]_vars, NEW g \in Generation,
         status[g] = "completed", status'[g] # "completed"
  PROVE  Prune /\ g \in Prunable(job.seenAt)
<1> USE DEF generationVars
<1>1. TypeOK
  BY DEF IInv
<1>2. CASE PersistShadow \/ PersistActive
  <2>1. PICK m \in Modes : Persist(m)
    BY <1>2 DEF PersistShadow, PersistActive, Modes
  <2>2. PICK h \in Generation : IsNext(h) /\ \E bundles : Commit(m, h, bundles)
    BY <2>1 DEF Persist
  <2> QED
    BY <1>1, <2>2 DEF Commit, TypeOK
<1>3. CASE RecordFailure
  BY <1>1, <1>3 DEF RecordFailure, IsNext, TypeOK
<1>4. CASE Prune
  BY <1>4 DEF Prune, Delete
<1>5. CASE UNCHANGED status
  BY <1>5
<1>6. CASE \/ Tick \/ Analyse \/ PersistV1 \/ PersistThrows \/ WorkerRestart \/ GoLive
           \/ PromoteAny \/ CanaryFails \/ Rollback \/ EnableShadow \/ SplitAny \/ UndoAny
           \/ UNCHANGED vars
  <2>1. UNCHANGED status
    BY <1>6 DEF Tick, Analyse, PersistV1, PersistThrows, WorkerRestart, GoLive, PromoteAny, Promote,
                CanaryFails, Rollback, EnableShadow, SplitAny, Split, UndoAny, Undo, vars
  <2> QED
    BY <1>5, <2>1
<1> QED
  BY <1>2, <1>3, <1>4, <1>6 DEF Next

LEMMA HistoryPreserved == IInv /\ [Next]_vars => HistoryStep
<1> SUFFICES ASSUME IInv, [Next]_vars, NEW c \in corrections
             PROVE  /\ c \in corrections' \/ [c EXCEPT !.status = "reverted"] \in corrections'
                    /\ status'[c.gen] = "completed" /\ c.pair \subseteq articles'[c.gen]
  BY DEF HistoryStep
<1>1. /\ c.gen \in Generation /\ status[c.gen] = "completed" /\ c.pair \subseteq articles[c.gen]
  BY DEF IInv, TypeOK, Correction, CorrectionsAnchored
<1>2. status'[c.gen] = "completed"
  BY <1>1, OnlyPrunePrunes DEF Prunable
<1>3. articles'[c.gen] = articles[c.gen]
  BY <1>1, <1>2, ImmutablePreserved DEF ImmutableStep
<1>4. c \in corrections' \/ [c EXCEPT !.status = "reverted"] \in corrections'
  <2>1. CASE corrections' = corrections
    BY <2>1
  <2>2. CASE SplitAny
    BY <2>2 DEF SplitAny, Split
  <2>3. CASE UndoAny
    BY <2>3 DEF UndoAny, Undo
  <2>4. CASE \/ Tick \/ Analyse \/ PersistV1 \/ PersistShadow \/ PersistActive \/ PersistThrows
             \/ RecordFailure \/ Prune \/ WorkerRestart \/ GoLive \/ PromoteAny \/ CanaryFails
             \/ Rollback \/ EnableShadow \/ UNCHANGED vars
    <3>1. corrections' = corrections
      BY <2>4 DEF Tick, Analyse, PersistV1, PersistShadow, PersistActive, Persist, Commit,
                  PersistThrows, RecordFailure, Prune, WorkerRestart, GoLive, PromoteAny, Promote,
                  CanaryFails, Rollback, EnableShadow, ownerVars, vars
    <3> QED
      BY <2>1, <3>1
  <2> QED
    BY <2>2, <2>3, <2>4 DEF Next
<1> QED
  BY <1>1, <1>2, <1>3, <1>4

(* Whatever retention deletes, an owner's correction and the generation it  *)
(* was made on remain.                                                      *)
THEOREM HistoryKept == Spec => ReviewHistoryKept
<1>1. IInv /\ [Next]_vars => [HistoryStep]_vars
  BY HistoryPreserved
<1> QED
  BY <1>1, InitInvariant, StepInvariant, PTL DEF Spec, ReviewHistoryKept

(* The generation the public projection shows outlives the retention period *)
(* for as long as it is clean and has a bundle.                             *)
THEOREM ShownSurvives == Spec => ShownGenerationSurvives
<1>1. IInv /\ [Next]_vars => [ShownStep]_vars
  <2> SUFFICES ASSUME IInv, [Next]_vars, NEW g \in current, Clean(g), versions[g] # {}
               PROVE  status'[g] = "completed"
    BY DEF ShownStep
  <2>1. g \in Generation /\ status[g] = "completed"
    BY DEF IInv, TypeOK, OneCurrent
  <2>2. PICK r \in rows : r.gen = g /\ r.state = "active"
    BY DEF Clean, StableRows
  <2>3. g \notin Prunable(job.seenAt)
    BY <2>2 DEF Prunable
  <2> QED
    BY <2>1, <2>3, OnlyPrunePrunes
<1> QED
  BY <1>1, InitInvariant, StepInvariant, PTL DEF Spec, ShownGenerationSurvives

-----------------------------------------------------------------------------
(* Who can damage the projection.                                           *)

(* A current generation whose facts and rows are left alone stays clean.    *)
LEMMA StaysClean ==
  ASSUME KInv, CurrentClean, current' = current,
         \A g \in current : /\ status'[g] = status[g] /\ mode'[g] = mode[g]
                           /\ versions'[g] = versions[g] /\ StableRows(g) \subseteq StableRows(g)'
  PROVE  CurrentClean'
<1> SUFFICES ASSUME NEW g \in ReadableCurrent', NEW b \in versions'[g]
             PROVE  \E r \in StableRows(g)' : r.id = b.id /\ r.members = b.members
  BY DEF CurrentClean, Clean
<1>1. g \in ReadableCurrent /\ b \in versions[g]
  BY DEF ReadableCurrent
<1>2. \E r \in StableRows(g) : r.id = b.id /\ r.members = b.members
  BY <1>1 DEF CurrentClean, Clean
<1> QED
  BY <1>1, <1>2 DEF ReadableCurrent

LEMMA TakeRowsPreserved == KInv /\ [Next]_vars => TakeRowsStep
<1> SUFFICES ASSUME KInv, [Next]_vars, CurrentClean, current' = current, ~ CurrentClean'
             PROVE  \E g \in Generation :
                      status[g] = "unused" /\ status'[g] = "completed" /\ mode'[g] = "shadow"
  BY DEF TakeRowsStep
<1> USE DEF generationVars
<1>1. TypeOK
  BY DEF KInv, IInv
<1>2. CASE PersistShadow
  <2>1. PICK g \in Generation : IsNext(g) /\ \E bundles : Commit("shadow", g, bundles)
    BY <1>2 DEF PersistShadow, Persist
  <2> QED
    BY <1>1, <2>1 DEF IsNext, Commit, TypeOK
<1>3. CASE PersistActive
  BY <1>1, <1>3, PersistActiveIsClean
<1>4. CASE PromoteAny
  BY <1>4, PromoteIsClean DEF PromoteAny
<1>5. CASE RecordFailure
  <2>1. PICK h \in Generation : /\ IsNext(h)
                               /\ status' = [status EXCEPT ![h] = "failed"]
                               /\ mode' = [mode EXCEPT ![h] = config]
    BY <1>5 DEF RecordFailure
  <2>2. h \notin current
    BY <2>1, UnusedIsUnknown DEF IsNext, KInv
  <2>3. \A g \in current : status'[g] = status[g] /\ mode'[g] = mode[g]
    BY <1>1, <2>1, <2>2 DEF TypeOK
  <2> QED
    BY <1>5, <2>3, StaysClean DEF RecordFailure, StableRows
<1>6. CASE Prune
  <2> DEFINE P == Prunable(job.seenAt)
  <2>1. Delete(P) /\ current \cap P = {}
    BY <1>6 DEF Prune, Delete
  <2>2. \A g \in current : /\ status'[g] = status[g] /\ mode'[g] = mode[g]
                          /\ versions'[g] = versions[g]
    BY <1>1, <2>1 DEF Delete, TypeOK
  <2>3. \A g \in current : StableRows(g) \subseteq StableRows(g)'
    BY <2>1 DEF Delete, StableRows
  <2> QED
    BY <2>2, <2>3, StaysClean
<1>7. CASE UNCHANGED <<status, mode, versions, current, rows>>
  BY <1>7, StaysClean DEF StableRows
<1>8. CASE \/ Tick \/ Analyse \/ PersistV1 \/ PersistThrows \/ WorkerRestart \/ GoLive
           \/ CanaryFails \/ Rollback \/ EnableShadow \/ SplitAny \/ UndoAny \/ UNCHANGED vars
  <2>1. UNCHANGED <<status, mode, versions, current, rows>>
    BY <1>8 DEF Tick, Analyse, PersistV1, PersistThrows, WorkerRestart, GoLive, CanaryFails,
                Rollback, EnableShadow, SplitAny, Split, UndoAny, Undo, vars
  <2> QED
    BY <1>7, <2>1
<1> QED
  BY <1>2, <1>3, <1>4, <1>5, <1>6, <1>8 DEF Next

(* If the readback finds foreign rows behind a generation that was clean, a *)
(* shadow persist is the only step that can have taken them.                *)
THEOREM OnlyShadowTakes == Spec => OnlyShadowTakesRows
<1>1. KInv /\ [Next]_vars => [TakeRowsStep]_vars
  BY TakeRowsPreserved
<1> QED
  BY <1>1, InitKeys, StepKeys, PTL DEF Spec, OnlyShadowTakesRows

-----------------------------------------------------------------------------
(* The lifecycle implements GenerationStore.                                *)

\* The worker's flag and the server's change together.
Flags ==
  /\ config = "active" <=> serving = "normalized"
  /\ rollout = "canary" => serving = "legacy"

LEMMA InitFlags == Init => Flags
BY DEF Init, Flags

LEMMA FlagsStep == Flags /\ [Next]_vars => Flags'
<1> SUFFICES ASSUME Flags, [Next]_vars PROVE Flags'
  OBVIOUS
<1>1. CASE UNCHANGED deployVars
  BY <1>1 DEF Flags, deployVars
<1>2. CASE PromoteAny
  BY <1>2 DEF PromoteAny, Promote, Flags
<1>3. CASE GoLive \/ CanaryFails \/ Rollback \/ EnableShadow
  BY <1>3 DEF GoLive, CanaryFails, Rollback, EnableShadow, Flags
<1>4. CASE \/ Tick \/ Analyse \/ PersistV1 \/ PersistShadow \/ PersistActive \/ PersistThrows
           \/ RecordFailure \/ Prune \/ WorkerRestart \/ SplitAny \/ UndoAny \/ UNCHANGED vars
  <2>1. UNCHANGED deployVars
    BY <1>4 DEF Tick, Analyse, PersistV1, PersistShadow, PersistActive, Persist, Commit,
                PersistThrows, RecordFailure, Prune, WorkerRestart, SplitAny, Split, UndoAny,
                Undo, vars
  <2> QED BY <1>1, <2>1
<1> QED
  BY <1>2, <1>3, <1>4 DEF Next

LEMMA AlwaysFlags == Spec => []Flags
<1> QED BY InitFlags, FlagsStep, PTL DEF Spec

LEMMA AlwaysInvariant == Spec => []IInv
<1> QED BY InitInvariant, StepInvariant, PTL DEF Spec

\* One current generation is the one that is picked.
LEMMA CurrentPicked ==
  ASSUME IInv
  PROVE  /\ \A g \in current : Current = g /\ g # NoGeneration /\ Stored[g] = "active"
         /\ current = {} => Current = NoGeneration
<1>1. current \subseteq Generation
  BY DEF IInv, TypeOK
<1>2. \A g \in current : Current = g
  BY DEF IInv, OneCurrent, Current
<1> QED
  BY <1>1, <1>2
     DEF IInv, OneCurrent, Current, Stored, StoredAs, Generation, NoGeneration

\* Readers find something: the generation that is shown.
LEMMA ReadableIsShown ==
  ASSUME IInv, NEW g \in ReadableCurrent
  PROVE  Store!Shown /\ Current = g
BY CurrentPicked DEF ReadableCurrent, Store!Shown, Store!NoGeneration, NoGeneration

LEMMA FreeNumber ==
  ASSUME IInv, NEW g \in Generation
  PROVE  IsNext(g) <=> Store!IsNext(g)
BY DEF IsNext, Store!IsNext, Stored, StoredAs, IInv, TypeOK, Generation, Modes

Corrected == {c.gen : c \in corrections}

LEMMA PersistStores ==
  ASSUME IInv, Flags, NEW m \in Modes, Persist(m)
  PROVE  \E g \in Generation : Store!Persist(g)
<1>1. PICK g \in Generation : IsNext(g) /\ \E bundles : Commit(m, g, bundles)
  BY DEF Persist
<1>2. Stored' = [Stored EXCEPT ![g] = m]
  BY <1>1 DEF Commit, Stored, StoredAs, IInv, TypeOK, Modes
<1>3. Current' = IF m = "active" THEN g ELSE Current
  <2>1. current' = CurrentAfter(m, g)
    BY <1>1 DEF Commit
  <2>2. CASE m = "active"
    BY <2>1, <2>2 DEF CurrentAfter, Current
  <2>3. CASE m # "active"
    BY <2>1, <2>3 DEF CurrentAfter, Current
  <2> QED BY <2>2, <2>3
<1>4. m = IF serving = "normalized" THEN "active" ELSE "shadow"
  BY DEF Persist, Flags, Modes
<1>5. UNCHANGED <<Corrected, revision, serving>>
  BY <1>1 DEF Commit, ownerVars, deployVars, Corrected
<1>6. Store!IsNext(g)
  BY <1>1, FreeNumber
<1> QED
  BY <1>2, <1>3, <1>4, <1>5, <1>6 DEF Store!Persist, Corrected

LEMMA FailureStores ==
  ASSUME IInv, RecordFailure
  PROVE  \E g \in Generation : Store!Fail(g)
<1>1. PICK g \in Generation :
        IsNext(g) /\ status' = [status EXCEPT ![g] = "failed"] /\ mode' = [mode EXCEPT ![g] = config]
  BY DEF RecordFailure
<1>2. Stored' = [Stored EXCEPT ![g] = "gone"]
  BY <1>1 DEF Stored, StoredAs, IInv, TypeOK
<1>3. UNCHANGED <<Current, Corrected, revision, serving>>
  BY DEF RecordFailure, Current, Corrected, ownerVars, deployVars
<1>4. Store!IsNext(g)
  BY <1>1, FreeNumber
<1> QED
  BY <1>2, <1>3, <1>4 DEF Store!Fail, Corrected

LEMMA PruneStores ==
  ASSUME IInv, Prune
  PROVE  \E old \in SUBSET Store!Old : Store!Prune(old)
<1> DEFINE old == Prunable(job.seenAt)
<1>1. Delete(old) /\ UNCHANGED <<ownerVars, deployVars>>
  BY DEF Prune
<1>2. /\ old \subseteq Generation
      /\ \A g \in old : status[g] = "completed" /\ \A c \in corrections : c.gen # g
  BY DEF Prunable
<1> HIDE DEF old
<1>3. old \subseteq Store!Old
  BY <1>2 DEF Store!Old, Stored, StoredAs, IInv, TypeOK, Modes
<1>4. Stored' = [g \in Generation |-> IF g \in old THEN "gone" ELSE Stored[g]]
  BY <1>1, <1>2 DEF Delete, Stored, StoredAs
<1>5. Current' = IF Current \in old THEN NoGeneration ELSE Current
  <2>1. current' = current \ old
    BY <1>1 DEF Delete
  <2>2. CASE current = {}
    <3>1. Current = NoGeneration /\ NoGeneration \notin Generation
      BY <2>2, CurrentPicked DEF Generation, NoGeneration
    <3> QED
      BY <1>2, <2>1, <2>2, <3>1 DEF Current
  <2>3. CASE current # {}
    <3>1. PICK g \in current : current = {g} /\ Current = g
      BY <2>3, CurrentPicked
    <3> QED
      BY <2>1, <3>1 DEF Current
  <2> QED BY <2>2, <2>3
<1>6. UNCHANGED <<Corrected, revision, serving>>
  BY <1>1 DEF ownerVars, deployVars, Corrected
<1> QED
  BY <1>3, <1>4, <1>5, <1>6 DEF Store!Prune, Store!NoGeneration, NoGeneration, Corrected

LEMMA PromotionStores ==
  ASSUME IInv, NEW g \in Generation, Promote(g)
  PROVE  Store!Promote(g)
<1>1. IsLatest(g, Completed("shadow")) /\ serving = "legacy"
  BY DEF Promote
<1>2. Store!IsLatestShadow(g)
  BY <1>1 DEF IsLatest, Completed, Store!IsLatestShadow, Stored, StoredAs
<1>3. Stored' = [Stored EXCEPT ![g] = "active"]
  BY <1>1 DEF Promote, IsLatest, Completed, Stored, StoredAs, IInv, TypeOK
<1>4. Current' = g
  BY DEF Promote, Current
<1>5. UNCHANGED <<Corrected, revision, serving>>
  BY DEF Promote, ownerVars, Corrected
<1> QED
  BY <1>1, <1>2, <1>3, <1>4, <1>5 DEF Store!Promote, Corrected

\* What neither stores, shows, serves nor corrects.
Silent == UNCHANGED <<Stored, Current, Corrected, revision, serving>>

LEMMA FlagsStore ==
  ASSUME IInv, Flags, GoLive \/ Rollback
  PROVE  Store!GoLive \/ Store!Rollback
<1>1. UNCHANGED <<Stored, Current, Corrected, revision>>
  <2>1. UNCHANGED <<status, mode, current, corrections, revision>>
    BY DEF GoLive, Rollback, generationVars, ownerVars
  <2> QED
    BY <2>1 DEF Stored, StoredAs, Current, Corrected
<1>2. CASE GoLive
  <2>1. PICK g \in ReadableCurrent : TRUE
    BY <1>2 DEF GoLive
  <2>2. Store!Shown
    BY <2>1, ReadableIsShown
  <2> QED
    BY <1>1, <1>2, <2>2 DEF GoLive, Flags, Store!GoLive, Corrected
<1>3. CASE Rollback
  BY <1>1, <1>3 DEF Rollback, Store!Rollback, Corrected
<1> QED BY <1>2, <1>3

LEMMA OwnerStores ==
  ASSUME IInv, SplitAny \/ UndoAny
  PROVE  Store!Split \/ Store!Undo
<1>1. CASE SplitAny
  <2>1. PICK anchor \in Article, rejected \in SUBSET Article : Split(anchor, rejected)
    BY <1>1 DEF SplitAny
  <2>2. PICK g \in ReadableCurrent, fresh \in SUBSET rejected :
          /\ fresh # {}
          /\ corrections' = corrections \cup
               {[pair |-> {anchor, a}, gen |-> g, status |-> "active"] : a \in fresh}
    BY <2>1 DEF Split
  <2> DEFINE made == {[pair |-> {anchor, a}, gen |-> g, status |-> "active"] : a \in fresh}
  <2>3. Corrected' = Corrected \cup {g}
    <3>1. /\ \E c \in made : c.gen = g
          /\ \A c \in made : c.gen = g
      <4>1. PICK a \in fresh : TRUE
        BY <2>2
      <4>2. [pair |-> {anchor, a}, gen |-> g, status |-> "active"] \in made
        BY <4>1
      <4> QED
        BY <4>2
    <3>2. corrections' = corrections \cup made
      BY <2>2
    <3> HIDE DEF made
    <3> QED BY <3>1, <3>2 DEF Corrected
  <2>4. UNCHANGED <<Stored, Current, serving>> /\ serving = "normalized" /\ revision' = revision + 1
    BY <2>1 DEF Split, generationVars, deployVars, Stored, StoredAs, Current
  <2>5. Store!Shown /\ Current = g
    BY <2>2, ReadableIsShown
  <2> QED
    BY <2>3, <2>4, <2>5 DEF Store!Split, Corrected
<1>2. CASE UndoAny
  <2>1. PICK c \in corrections : Undo(c)
    BY <1>2 DEF UndoAny
  <2>2. /\ c \in Correction
        /\ corrections' = (corrections \ {c}) \cup {[c EXCEPT !.status = "reverted"]}
    BY <2>1 DEF Undo, IInv, TypeOK
  <2>3. [c EXCEPT !.status = "reverted"].gen = c.gen
    BY <2>2 DEF Correction
  <2>4. Corrected' = Corrected /\ Corrected # {}
    BY <2>2, <2>3 DEF Corrected
  <2>5. UNCHANGED <<Stored, Current, serving>> /\ serving = "normalized" /\ revision' = revision + 1
    BY <2>1 DEF Undo, generationVars, deployVars, Stored, StoredAs, Current
  <2>6. PICK g \in ReadableCurrent : TRUE
    BY <2>1 DEF Undo
  <2>7. Store!Shown
    BY <2>6, ReadableIsShown
  <2> QED
    BY <2>4, <2>5, <2>7 DEF Store!Undo, Corrected
<1> QED BY <1>1, <1>2

LEMMA NextOfTheStore ==
  IInv /\ Flags /\ [Next]_vars => [Store!Next]_Store!vars
<1> SUFFICES ASSUME IInv, Flags, [Next]_vars PROVE [Store!Next]_Store!vars
  OBVIOUS
<1>1. CASE \/ Tick \/ Analyse \/ PersistV1 \/ PersistThrows \/ WorkerRestart
           \/ CanaryFails \/ EnableShadow \/ UNCHANGED vars
  <2>1. UNCHANGED <<status, mode, current, corrections, revision, serving>>
    BY <1>1 DEF Tick, Analyse, PersistV1, PersistThrows, WorkerRestart, CanaryFails, EnableShadow,
                vars, generationVars, ownerVars, deployVars
  <2>2. Silent
    BY <2>1 DEF Silent, Stored, StoredAs, Current, Corrected
  <2> QED
    BY <2>2 DEF Silent, Store!vars, Corrected
<1>2. CASE PersistShadow \/ PersistActive
  BY <1>2, PersistStores DEF PersistShadow, PersistActive, Modes, Store!Next
<1>3. CASE RecordFailure \/ Prune
  BY <1>3, FailureStores, PruneStores DEF Store!Next
<1>4. CASE PromoteAny
  BY <1>4, PromotionStores DEF PromoteAny, Store!Next
<1>5. CASE GoLive \/ Rollback
  BY <1>5, FlagsStore DEF Store!Next
<1>6. CASE SplitAny \/ UndoAny
  BY <1>6, OwnerStores DEF Store!Next
<1> QED
  BY <1>1, <1>2, <1>3, <1>4, <1>5, <1>6 DEF Next

(* The lifecycle keeps the contract of GenerationStore, which CoverageLocks *)
(* keeps too: persists, promotions, flags and the owner's requests map to   *)
(* its actions, a recorded failure and retention to Fail and Prune, analyses*)
(* and crashes to stuttering.                                               *)
THEOREM LifecycleImplementsTheStore == Spec => LifecycleImplementsStore
<1>1. Init => Store!Init
  BY DEF Init, Stored, StoredAs, Current, Store!Init, Store!NoGeneration, NoGeneration
<1>2. Spec => [][Store!Next]_Store!vars
  BY AlwaysInvariant, AlwaysFlags, NextOfTheStore, PTL DEF Spec
<1> QED
  BY <1>1, <1>2, PTL DEF Spec, LifecycleImplementsStore, Store!Spec
=============================================================================
