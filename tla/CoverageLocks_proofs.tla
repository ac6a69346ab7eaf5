------------------------ MODULE CoverageLocks_proofs ------------------------
(***************************************************************************)
(* Proofs about CoverageLocks, for any number of requests and generations: *)
(* which transactions can deadlock, and what a transaction may rely on     *)
(* after it has waited for a lock.                                         *)
(*                                                                         *)
(* The argument has three parts.  A lock has the holder its statements     *)
(* say (LocksKnown).  Owner requests and promotions never run at the same  *)
(* time (Regimes), so only the worker and the requests meet.  And what a   *)
(* transaction has read stays true while it holds its locks: the current   *)
(* generation of an active persist and of a request, the revision of a     *)
(* request, the latest shadow of a promotion (WorkerKnows, RequestKnows,   *)
(* PromotionKnows).                                                        *)
(***************************************************************************)
EXTENDS CoverageLocks, TLAPS, FiniteSetTheorems

\* The statements of each kind of process.
Places ==
  /\ pc[Worker] \in {"idle", "advisory", "started", "generation", "revision", "storing"}
  /\ pc[Promotion] \in {"idle", "advisory", "started", "deciding", "promoted"}
  /\ \A r \in Request :
       pc[r] \in {"idle", "reviewing", "revision", "generation", "deciding",
                  "done", "refused", "failed"}

\* Who holds a lock, by its place.
LocksKnown ==
  /\ advisory = Worker <=> pc[Worker] \in {"started", "generation", "revision", "storing"}
  /\ advisory = Promotion <=> pc[Promotion] \in {"started", "deciding"}
  /\ revisionRow = Worker <=> pc[Worker] = "storing"
  /\ revisionRow # Promotion
  /\ \A r \in Request : revisionRow = r <=> pc[r] \in {"generation", "deciding"}
  /\ \A g \in Generation :
       /\ generationRow[g] = Worker => pc[Worker] \in {"revision", "storing"}
       /\ generationRow[g] = Promotion => pc[Promotion] = "deciding"
       /\ \A r \in Request : generationRow[g] = r => pc[r] = "deciding"

\* Promotion happens in the legacy regime, corrections in the normalized one.
Regimes ==
  /\ pc[Promotion] # "idle" => serving = "legacy"
  /\ \A r \in Request : InTransaction(r) => serving = "normalized"

\* The generation an active persist compares itself with stays current.
WorkerKnows ==
  /\ pc[Worker] \in {"generation", "revision", "storing"} /\ Mode = "active" =>
       found[Worker] = current
  /\ pc[Worker] \in {"revision", "storing"} /\ Mode = "active" /\ current # NoGeneration =>
       generationRow[current] = Worker
  /\ pc[Worker] = "generation" => Mode = "active" /\ found[Worker] # NoGeneration

\* A request has selected a generation; under its locks it is the current one, at the
\* revision it has read.
RequestKnows ==
  \A r \in Request :
    /\ pc[r] \in {"revision", "generation", "deciding"} => found[r] # NoGeneration
    /\ pc[r] \in {"generation", "deciding"} => read[r] = revision
    /\ pc[r] = "deciding" => found[r] = current /\ generationRow[current] = r

\* What a promotion is about to promote is the latest shadow.
PromotionKnows ==
  pc[Promotion] = "deciding" =>
    found[Promotion] # NoGeneration /\ IsLatestShadow(found[Promotion])

\* Every correction and every undo has raised the revision once.
RevisionsCounted ==
  /\ revision = Cardinality({r \in Request : pc[r] = "done"})
  /\ \A c \in corrections : c.page.revision < revision

IInv == /\ TypeOK /\ Places /\ LocksKnown /\ Regimes /\ WorkerKnows /\ RequestKnows
        /\ PromotionKnows /\ RevisionsCounted /\ PagesAreUsedOnce

-----------------------------------------------------------------------------

LEMMA InitInv == Init => IInv
<1> SUFFICES ASSUME Init PROVE IInv
  OBVIOUS
<1> USE LocksAssumption DEF Init, Generation, NoGeneration, Nobody, Worker, Promotion, Process
<1>1. {r \in Request : pc[r] = "done"} = {}
  OBVIOUS
<1>2. Cardinality({r \in Request : pc[r] = "done"}) = 0
  BY <1>1, FS_EmptySet
<1>3. 0 \in Revision
  BY FS_CardinalityType DEF Revision
<1>4. TypeOK
  BY <1>3 DEF TypeOK, Place, Page
<1>5. Places /\ LocksKnown /\ Regimes
  BY DEF Places, LocksKnown, Regimes, InTransaction
<1>6. WorkerKnows /\ RequestKnows /\ PromotionKnows
  BY DEF WorkerKnows, RequestKnows, PromotionKnows
<1>7. RevisionsCounted /\ PagesAreUsedOnce
  BY <1>2 DEF RevisionsCounted, PagesAreUsedOnce
<1> QED BY <1>4, <1>5, <1>6, <1>7 DEF IInv

(* The worker's persist *)

LEMMA BeginPersistInv ==
  ASSUME IInv, BeginPersist
  PROVE  IInv'
<1> USE LocksAssumption
    DEF dataVars, lockVars, requestVars, Goto, ReleaseAll, Mode, InTransaction, Aborted,
        Process, NoGeneration, Nobody, Worker, Promotion, Generation
<1>1. TypeOK'
  BY DEF IInv, TypeOK, Place, Page, Correction, Revision, LocksKnown, Places,
         BeginPersist
<1>2. Places' /\ LocksKnown' /\ Regimes'
  BY DEF IInv, TypeOK, Places, LocksKnown, Regimes, BeginPersist
<1>3. WorkerKnows' /\ RequestKnows'
  BY DEF IInv, TypeOK, Places, LocksKnown, Regimes, WorkerKnows, RequestKnows,
         BeginPersist
<1>4. PromotionKnows'
  BY DEF IInv, TypeOK, Places, LocksKnown, PromotionKnows, IsLatestShadow, IsNext,
         BeginPersist
<1>5. RevisionsCounted' /\ PagesAreUsedOnce'
  BY DEF IInv, TypeOK, Places, RevisionsCounted, PagesAreUsedOnce, BeginPersist
<1> QED BY <1>1, <1>2, <1>3, <1>4, <1>5 DEF IInv

LEMMA LockAdvisoryInv ==
  ASSUME IInv, NEW p \in {Worker, Promotion}, LockAdvisory(p)
  PROVE  IInv'
<1> USE LocksAssumption
    DEF dataVars, lockVars, requestVars, Goto, ReleaseAll, Mode, InTransaction, Aborted,
        Process, NoGeneration, Nobody, Worker, Promotion, Generation
<1>1. TypeOK'
  BY DEF IInv, TypeOK, Place, Page, Correction, Revision, LocksKnown, Places,
         LockAdvisory
<1>2. Places' /\ LocksKnown' /\ Regimes'
  BY DEF IInv, TypeOK, Places, LocksKnown, Regimes, LockAdvisory
<1>3. WorkerKnows' /\ RequestKnows'
  BY DEF IInv, TypeOK, Places, LocksKnown, Regimes, WorkerKnows, RequestKnows,
         LockAdvisory
<1>4. PromotionKnows'
  BY DEF IInv, TypeOK, Places, LocksKnown, PromotionKnows, IsLatestShadow, IsNext,
         LockAdvisory
<1>5. RevisionsCounted' /\ PagesAreUsedOnce'
  BY DEF IInv, TypeOK, Places, RevisionsCounted, PagesAreUsedOnce, LockAdvisory
<1> QED BY <1>1, <1>2, <1>3, <1>4, <1>5 DEF IInv

LEMMA SelectComparedInv ==
  ASSUME IInv, SelectCompared
  PROVE  IInv'
<1> USE LocksAssumption
    DEF dataVars, lockVars, requestVars, Goto, ReleaseAll, Mode, InTransaction, Aborted,
        Process, NoGeneration, Nobody, Worker, Promotion, Generation
<1>1. TypeOK'
  BY DEF IInv, TypeOK, Place, Page, Correction, Revision, LocksKnown, Places,
         SelectCompared
<1>2. Places' /\ LocksKnown' /\ Regimes'
  BY DEF IInv, TypeOK, Places, LocksKnown, Regimes, SelectCompared
<1>3. WorkerKnows' /\ RequestKnows'
  BY DEF IInv, TypeOK, Places, LocksKnown, Regimes, WorkerKnows, RequestKnows,
         SelectCompared
<1>4. PromotionKnows'
  BY DEF IInv, TypeOK, Places, LocksKnown, PromotionKnows, IsLatestShadow, IsNext,
         SelectCompared
<1>5. RevisionsCounted' /\ PagesAreUsedOnce'
  BY DEF IInv, TypeOK, Places, RevisionsCounted, PagesAreUsedOnce, SelectCompared
<1> QED BY <1>1, <1>2, <1>3, <1>4, <1>5 DEF IInv

LEMMA LockComparedInv ==
  ASSUME IInv, LockCompared
  PROVE  IInv'
<1> USE LocksAssumption
    DEF dataVars, lockVars, requestVars, Goto, ReleaseAll, Mode, InTransaction, Aborted,
        Process, NoGeneration, Nobody, Worker, Promotion, Generation
<1>1. TypeOK'
  BY DEF IInv, TypeOK, Place, Page, Correction, Revision, LocksKnown, Places,
         LockCompared
<1>2. Places' /\ LocksKnown' /\ Regimes'
  BY DEF IInv, TypeOK, Places, LocksKnown, Regimes, LockCompared
<1>3. WorkerKnows' /\ RequestKnows'
  BY DEF IInv, TypeOK, Places, LocksKnown, Regimes, WorkerKnows, RequestKnows,
         LockCompared
<1>4. PromotionKnows'
  BY DEF IInv, TypeOK, Places, LocksKnown, PromotionKnows, IsLatestShadow, IsNext,
         LockCompared
<1>5. RevisionsCounted' /\ PagesAreUsedOnce'
  BY DEF IInv, TypeOK, Places, RevisionsCounted, PagesAreUsedOnce, LockCompared
<1> QED BY <1>1, <1>2, <1>3, <1>4, <1>5 DEF IInv

LEMMA UpdateLegacyRevisionInv ==
  ASSUME IInv, UpdateLegacyRevision
  PROVE  IInv'
<1> USE LocksAssumption
    DEF dataVars, lockVars, requestVars, Goto, ReleaseAll, Mode, InTransaction, Aborted,
        Process, NoGeneration, Nobody, Worker, Promotion, Generation
<1>1. TypeOK'
  BY DEF IInv, TypeOK, Place, Page, Correction, Revision, LocksKnown, Places,
         UpdateLegacyRevision
<1>2. Places' /\ LocksKnown' /\ Regimes'
  BY DEF IInv, TypeOK, Places, LocksKnown, Regimes, UpdateLegacyRevision
<1>3. WorkerKnows' /\ RequestKnows'
  BY DEF IInv, TypeOK, Places, LocksKnown, Regimes, WorkerKnows, RequestKnows,
         UpdateLegacyRevision
<1>4. PromotionKnows'
  BY DEF IInv, TypeOK, Places, LocksKnown, PromotionKnows, IsLatestShadow, IsNext,
         UpdateLegacyRevision
<1>5. RevisionsCounted' /\ PagesAreUsedOnce'
  BY DEF IInv, TypeOK, Places, RevisionsCounted, PagesAreUsedOnce,
         UpdateLegacyRevision
<1> QED BY <1>1, <1>2, <1>3, <1>4, <1>5 DEF IInv

LEMMA CommitPersistInv ==
  ASSUME IInv, CommitPersist
  PROVE  IInv'
<1> USE LocksAssumption
    DEF dataVars, lockVars, requestVars, Goto, ReleaseAll, Mode, InTransaction, Aborted,
        Process, NoGeneration, Nobody, Worker, Promotion, Generation
<1>1. TypeOK'
  BY DEF IInv, TypeOK, Place, Page, Correction, Revision, LocksKnown, Places,
         CommitPersist
<1>2. Places' /\ LocksKnown' /\ Regimes'
  BY DEF IInv, TypeOK, Places, LocksKnown, Regimes, CommitPersist
<1>3. WorkerKnows' /\ RequestKnows'
  BY DEF IInv, TypeOK, Places, LocksKnown, Regimes, WorkerKnows, RequestKnows,
         CommitPersist
<1>4. PromotionKnows'
  BY DEF IInv, TypeOK, Places, LocksKnown, PromotionKnows, IsLatestShadow, IsNext,
         CommitPersist
<1>5. RevisionsCounted' /\ PagesAreUsedOnce'
  BY DEF IInv, TypeOK, Places, RevisionsCounted, PagesAreUsedOnce, CommitPersist
<1> QED BY <1>1, <1>2, <1>3, <1>4, <1>5 DEF IInv

-----------------------------------------------------------------------------
(* The promotion and the flags *)

LEMMA BeginPromotionInv ==
  ASSUME IInv, BeginPromotion
  PROVE  IInv'
<1> USE LocksAssumption
    DEF dataVars, lockVars, requestVars, Goto, ReleaseAll, Mode, InTransaction, Aborted,
        Process, NoGeneration, Nobody, Worker, Promotion, Generation
<1>1. TypeOK'
  BY DEF IInv, TypeOK, Place, Page, Correction, Revision, LocksKnown, Places,
         BeginPromotion
<1>2. Places' /\ LocksKnown' /\ Regimes'
  BY DEF IInv, TypeOK, Places, LocksKnown, Regimes, BeginPromotion
<1>3. WorkerKnows' /\ RequestKnows'
  BY DEF IInv, TypeOK, Places, LocksKnown, Regimes, WorkerKnows, RequestKnows,
         BeginPromotion
<1>4. PromotionKnows'
  BY DEF IInv, TypeOK, Places, LocksKnown, PromotionKnows, IsLatestShadow, IsNext,
         BeginPromotion
<1>5. RevisionsCounted' /\ PagesAreUsedOnce'
  BY DEF IInv, TypeOK, Places, RevisionsCounted, PagesAreUsedOnce, BeginPromotion
<1> QED BY <1>1, <1>2, <1>3, <1>4, <1>5 DEF IInv

LEMMA CheckReviewedInv ==
  ASSUME IInv, CheckReviewed
  PROVE  IInv'
<1> USE LocksAssumption
    DEF dataVars, lockVars, requestVars, Goto, ReleaseAll, Mode, InTransaction, Aborted,
        Process, NoGeneration, Nobody, Worker, Promotion, Generation
<1>1. TypeOK'
  BY DEF IInv, TypeOK, Place, Page, Correction, Revision, LocksKnown, Places,
         CheckReviewed
<1>2. Places' /\ LocksKnown' /\ Regimes'
  BY DEF IInv, TypeOK, Places, LocksKnown, Regimes, CheckReviewed
<1>3. WorkerKnows' /\ RequestKnows'
  BY DEF IInv, TypeOK, Places, LocksKnown, Regimes, WorkerKnows, RequestKnows,
         CheckReviewed
<1>4. PromotionKnows'
  BY DEF IInv, TypeOK, Places, LocksKnown, PromotionKnows, IsLatestShadow, IsNext,
         CheckReviewed
<1>5. RevisionsCounted' /\ PagesAreUsedOnce'
  BY DEF IInv, TypeOK, Places, RevisionsCounted, PagesAreUsedOnce, CheckReviewed
<1> QED BY <1>1, <1>2, <1>3, <1>4, <1>5 DEF IInv

LEMMA CommitPromotionInv ==
  ASSUME IInv, CommitPromotion
  PROVE  IInv'
<1> USE LocksAssumption
    DEF dataVars, lockVars, requestVars, Goto, ReleaseAll, Mode, InTransaction, Aborted,
        Process, NoGeneration, Nobody, Worker, Promotion, Generation
<1>1. TypeOK'
  BY DEF IInv, TypeOK, Place, Page, Correction, Revision, LocksKnown, Places,
         CommitPromotion
<1>2. Places' /\ LocksKnown' /\ Regimes'
  BY DEF IInv, TypeOK, Places, LocksKnown, Regimes, CommitPromotion
<1>3. WorkerKnows' /\ RequestKnows'
  BY DEF IInv, TypeOK, Places, LocksKnown, Regimes, WorkerKnows, RequestKnows,
         CommitPromotion
<1>4. PromotionKnows'
  BY DEF IInv, TypeOK, Places, LocksKnown, PromotionKnows, IsLatestShadow, IsNext,
         CommitPromotion
<1>5. RevisionsCounted' /\ PagesAreUsedOnce'
  BY DEF IInv, TypeOK, Places, RevisionsCounted, PagesAreUsedOnce, CommitPromotion
<1> QED BY <1>1, <1>2, <1>3, <1>4, <1>5 DEF IInv

LEMMA GoLiveInv ==
  ASSUME IInv, GoLive
  PROVE  IInv'
<1> USE LocksAssumption
    DEF dataVars, lockVars, requestVars, Goto, ReleaseAll, Mode, InTransaction, Aborted,
        Process, NoGeneration, Nobody, Worker, Promotion, Generation
<1>1. TypeOK'
  BY DEF IInv, TypeOK, Place, Page, Correction, Revision, LocksKnown, Places, GoLive
<1>2. Places' /\ LocksKnown' /\ Regimes'
  BY DEF IInv, TypeOK, Places, LocksKnown, Regimes, GoLive
<1>3. WorkerKnows' /\ RequestKnows'
  BY DEF IInv, TypeOK, Places, LocksKnown, Regimes, WorkerKnows, RequestKnows, GoLive
<1>4. PromotionKnows'
  BY DEF IInv, TypeOK, Places, LocksKnown, PromotionKnows, IsLatestShadow, IsNext,
         GoLive
<1>5. RevisionsCounted' /\ PagesAreUsedOnce'
  BY DEF IInv, TypeOK, Places, RevisionsCounted, PagesAreUsedOnce, GoLive
<1> QED BY <1>1, <1>2, <1>3, <1>4, <1>5 DEF IInv

LEMMA CanaryFailsInv ==
  ASSUME IInv, CanaryFails
  PROVE  IInv'
<1> USE LocksAssumption
    DEF dataVars, lockVars, requestVars, Goto, ReleaseAll, Mode, InTransaction, Aborted,
        Process, NoGeneration, Nobody, Worker, Promotion, Generation
<1>1. TypeOK'
  BY DEF IInv, TypeOK, Place, Page, Correction, Revision, LocksKnown, Places,
         CanaryFails
<1>2. Places' /\ LocksKnown' /\ Regimes'
  BY DEF IInv, TypeOK, Places, LocksKnown, Regimes, CanaryFails
<1>3. WorkerKnows' /\ RequestKnows'
  BY DEF IInv, TypeOK, Places, LocksKnown, Regimes, WorkerKnows, RequestKnows,
         CanaryFails
<1>4. PromotionKnows'
  BY DEF IInv, TypeOK, Places, LocksKnown, PromotionKnows, IsLatestShadow, IsNext,
         CanaryFails
<1>5. RevisionsCounted' /\ PagesAreUsedOnce'
  BY DEF IInv, TypeOK, Places, RevisionsCounted, PagesAreUsedOnce, CanaryFails
<1> QED BY <1>1, <1>2, <1>3, <1>4, <1>5 DEF IInv

LEMMA RollbackInv ==
  ASSUME IInv, Rollback
  PROVE  IInv'
<1> USE LocksAssumption
    DEF dataVars, lockVars, requestVars, Goto, ReleaseAll, Mode, InTransaction, Aborted,
        Process, NoGeneration, Nobody, Worker, Promotion, Generation
<1>1. TypeOK'
  BY DEF IInv, TypeOK, Place, Page, Correction, Revision, LocksKnown, Places, Rollback
<1>2. Places' /\ LocksKnown' /\ Regimes'
  BY DEF IInv, TypeOK, Places, LocksKnown, Regimes, Rollback
<1>3. WorkerKnows' /\ RequestKnows'
  BY DEF IInv, TypeOK, Places, LocksKnown, Regimes, WorkerKnows, RequestKnows,
         Rollback
<1>4. PromotionKnows'
  BY DEF IInv, TypeOK, Places, LocksKnown, PromotionKnows, IsLatestShadow, IsNext,
         Rollback
<1>5. RevisionsCounted' /\ PagesAreUsedOnce'
  BY DEF IInv, TypeOK, Places, RevisionsCounted, PagesAreUsedOnce, Rollback
<1> QED BY <1>1, <1>2, <1>3, <1>4, <1>5 DEF IInv

-----------------------------------------------------------------------------
(* The owner's requests *)

LEMMA ReviewInv ==
  ASSUME IInv, NEW r \in Request, Review(r)
  PROVE  IInv'
<1> USE LocksAssumption
    DEF dataVars, lockVars, requestVars, Goto, ReleaseAll, Mode, InTransaction, Aborted,
        Process, NoGeneration, Nobody, Worker, Promotion, Generation
<1>1. TypeOK'
  BY DEF IInv, TypeOK, Place, Page, Correction, Revision, LocksKnown, Places, Review
<1>2. Places' /\ LocksKnown' /\ Regimes'
  BY DEF IInv, TypeOK, Places, LocksKnown, Regimes, Review
<1>3. WorkerKnows' /\ RequestKnows'
  BY DEF IInv, TypeOK, Places, LocksKnown, Regimes, WorkerKnows, RequestKnows, Review
<1>4. PromotionKnows'
  BY DEF IInv, TypeOK, Places, LocksKnown, PromotionKnows, IsLatestShadow, IsNext,
         Review
<1>5. RevisionsCounted' /\ PagesAreUsedOnce'
  BY DEF IInv, TypeOK, Places, RevisionsCounted, PagesAreUsedOnce, Review
<1> QED BY <1>1, <1>2, <1>3, <1>4, <1>5 DEF IInv

LEMMA SelectCurrentInv ==
  ASSUME IInv, NEW r \in Request, SelectCurrent(r)
  PROVE  IInv'
<1> USE LocksAssumption
    DEF dataVars, lockVars, requestVars, Goto, ReleaseAll, Mode, InTransaction, Aborted,
        Process, NoGeneration, Nobody, Worker, Promotion, Generation
<1>1. TypeOK'
  BY DEF IInv, TypeOK, Place, Page, Correction, Revision, LocksKnown, Places,
         SelectCurrent
<1>2. Places' /\ LocksKnown' /\ Regimes'
  BY DEF IInv, TypeOK, Places, LocksKnown, Regimes, SelectCurrent
<1>3. WorkerKnows' /\ RequestKnows'
  BY DEF IInv, TypeOK, Places, LocksKnown, Regimes, WorkerKnows, RequestKnows,
         SelectCurrent
<1>4. PromotionKnows'
  BY DEF IInv, TypeOK, Places, LocksKnown, PromotionKnows, IsLatestShadow, IsNext,
         SelectCurrent
<1>5. RevisionsCounted' /\ PagesAreUsedOnce'
  BY DEF IInv, TypeOK, Places, RevisionsCounted, PagesAreUsedOnce, SelectCurrent
<1> QED BY <1>1, <1>2, <1>3, <1>4, <1>5 DEF IInv

LEMMA LockRevisionInv ==
  ASSUME IInv, NEW r \in Request, LockRevision(r)
  PROVE  IInv'
<1> USE LocksAssumption
    DEF dataVars, lockVars, requestVars, Goto, ReleaseAll, Mode, InTransaction, Aborted,
        Process, NoGeneration, Nobody, Worker, Promotion, Generation
<1>1. TypeOK'
  BY DEF IInv, TypeOK, Place, Page, Correction, Revision, LocksKnown, Places,
         LockRevision
<1>2. Places' /\ LocksKnown' /\ Regimes'
  BY DEF IInv, TypeOK, Places, LocksKnown, Regimes, LockRevision
<1>3. WorkerKnows' /\ RequestKnows'
  BY DEF IInv, TypeOK, Places, LocksKnown, Regimes, WorkerKnows, RequestKnows,
         LockRevision
<1>4. PromotionKnows'
  BY DEF IInv, TypeOK, Places, LocksKnown, PromotionKnows, IsLatestShadow, IsNext,
         LockRevision
<1>5. RevisionsCounted' /\ PagesAreUsedOnce'
  BY DEF IInv, TypeOK, Places, RevisionsCounted, PagesAreUsedOnce, LockRevision
<1> QED BY <1>1, <1>2, <1>3, <1>4, <1>5 DEF IInv

LEMMA LockGenerationInv ==
  ASSUME IInv, NEW r \in Request, LockGeneration(r)
  PROVE  IInv'
<1> USE LocksAssumption
    DEF dataVars, lockVars, requestVars, Goto, ReleaseAll, Mode, InTransaction, Aborted,
        Process, NoGeneration, Nobody, Worker, Promotion, Generation
<1>1. CASE /\ found[r] = current
           /\ generationRow' = [generationRow EXCEPT ![found[r]] = r]
           /\ Goto(r, "deciding")
           /\ UNCHANGED <<advisory, revisionRow>>
  <2>1. TypeOK'
    BY <1>1 DEF IInv, TypeOK, Place, Page, Correction, Revision, LocksKnown, Places,
           LockGeneration
  <2>2. Places' /\ LocksKnown' /\ Regimes'
    BY <1>1 DEF IInv, TypeOK, Places, LocksKnown, Regimes, LockGeneration
  <2>3. WorkerKnows' /\ RequestKnows'
    BY <1>1 DEF IInv, TypeOK, Places, LocksKnown, Regimes, WorkerKnows,
           RequestKnows, LockGeneration
  <2>4. PromotionKnows'
    BY <1>1 DEF IInv, TypeOK, Places, LocksKnown, PromotionKnows, IsLatestShadow,
           IsNext, LockGeneration
  <2>5. RevisionsCounted' /\ PagesAreUsedOnce'
    BY <1>1 DEF IInv, TypeOK, Places, RevisionsCounted, PagesAreUsedOnce,
           LockGeneration
  <2> QED BY <2>1, <2>2, <2>3, <2>4, <2>5 DEF IInv
<1>2. CASE found[r] # current /\ ReleaseAll({r}) /\ Goto(r, "refused")
  <2>1. TypeOK'
    BY <1>2 DEF IInv, TypeOK, Place, Page, Correction, Revision, LocksKnown, Places,
           LockGeneration
  <2>2. Places' /\ LocksKnown' /\ Regimes'
    BY <1>2 DEF IInv, TypeOK, Places, LocksKnown, Regimes, LockGeneration
  <2>3. WorkerKnows' /\ RequestKnows'
    BY <1>2 DEF IInv, TypeOK, Places, LocksKnown, Regimes, WorkerKnows,
           RequestKnows, LockGeneration
  <2>4. PromotionKnows'
    BY <1>2 DEF IInv, TypeOK, Places, LocksKnown, PromotionKnows, IsLatestShadow,
           IsNext, LockGeneration
  <2>5. RevisionsCounted' /\ PagesAreUsedOnce'
    BY <1>2 DEF IInv, TypeOK, Places, RevisionsCounted, PagesAreUsedOnce,
           LockGeneration
  <2> QED BY <2>1, <2>2, <2>3, <2>4, <2>5 DEF IInv
<1> QED BY <1>1, <1>2 DEF LockGeneration

(* A request is done once, so the revision stays within the requests made. *)
LEMMA RequestDone ==
  ASSUME IInv, NEW r \in Request, pc[r] = "deciding", Goto(r, "done"), revision' = revision + 1
  PROVE  /\ revision' \in Revision
         /\ revision' = Cardinality({s \in Request : pc'[s] = "done"})
<1> DEFINE Done == {s \in Request : pc[s] = "done"}
<1>1. {s \in Request : pc'[s] = "done"} = Done \cup {r}
  BY DEF IInv, TypeOK, Goto, Process
<1>2. IsFiniteSet(Done) /\ r \notin Done
  BY LocksAssumption, FS_Subset
<1>3. Cardinality(Done \cup {r}) = Cardinality(Done) + 1
  BY <1>2, FS_AddElement
<1>4. Cardinality(Done \cup {r}) <= Cardinality(Request)
  <2>1. Done \cup {r} \subseteq Request
    OBVIOUS
  <2> QED BY <2>1, LocksAssumption, FS_Subset
<1>5. Cardinality(Done) \in Nat /\ Cardinality(Request) \in Nat
  BY <1>2, LocksAssumption, FS_CardinalityType
<1>6. revision = Cardinality(Done)
  BY DEF IInv, RevisionsCounted
<1> QED BY <1>1, <1>3, <1>4, <1>5, <1>6 DEF Revision

LEMMA SplitInv ==
  ASSUME IInv, NEW r \in Request, Split(r)
  PROVE  IInv'
<1> USE LocksAssumption
    DEF dataVars, lockVars, requestVars, Goto, ReleaseAll, Mode, InTransaction, Aborted,
        Process, NoGeneration, Nobody, Worker, Promotion, Generation
<1>0. revision' \in Revision /\ revision' = Cardinality({s \in Request : pc'[s] = "done"})
  BY RequestDone DEF Split
<1>6. found[r] \in Generation /\ page[r] \in Page
  BY DEF IInv, TypeOK, RequestKnows, Split
<1>7. PICK c \in Correction : /\ c = [by |-> r, gen |-> found[r], page |-> page[r]]
                              /\ c.page.revision = revision
                              /\ corrections' = corrections \cup {c}
  <2>1. page[r].revision = revision
    BY DEF IInv, RequestKnows, Split
  <2> QED BY <1>6, <2>1 DEF Split, Correction
<1>1. TypeOK'
  BY <1>0, <1>7 DEF IInv, TypeOK, Place, Split
<1>2. Places' /\ LocksKnown' /\ Regimes'
  BY DEF IInv, TypeOK, Places, LocksKnown, Regimes, Split
<1>3. WorkerKnows' /\ RequestKnows'
  BY DEF IInv, TypeOK, Places, LocksKnown, Regimes, WorkerKnows, RequestKnows, Split
<1>4. PromotionKnows'
  BY DEF IInv, TypeOK, Places, LocksKnown, PromotionKnows, IsLatestShadow, IsNext,
         Split
<1>5. RevisionsCounted' /\ PagesAreUsedOnce'
  <2>1. revision \in Nat /\ revision' = revision + 1
    BY LocksAssumption, FS_CardinalityType DEF IInv, TypeOK, Revision, Split
  <2>2. \A d \in corrections : d.page.revision < revision /\ d.page.revision \in Int
    BY LocksAssumption, FS_CardinalityType DEF IInv, TypeOK, Correction, Page, Revision, RevisionsCounted
  <2>3. \A d \in corrections' : d.page.revision < revision'
    BY <1>7, <2>1, <2>2
  <2>4. PagesAreUsedOnce'
    BY <1>7, <2>1, <2>2 DEF IInv, PagesAreUsedOnce
  <2> QED BY <1>0, <2>3, <2>4 DEF RevisionsCounted
<1> QED BY <1>1, <1>2, <1>3, <1>4, <1>5 DEF IInv

LEMMA UndoInv ==
  ASSUME IInv, NEW r \in Request, Undo(r)
  PROVE  IInv'
<1> USE LocksAssumption
    DEF dataVars, lockVars, requestVars, Goto, ReleaseAll, Mode, InTransaction, Aborted,
        Process, NoGeneration, Nobody, Worker, Promotion, Generation
<1>0. revision' \in Revision /\ revision' = Cardinality({s \in Request : pc'[s] = "done"})
  BY RequestDone DEF Undo
<1>1. TypeOK'
  BY <1>0 DEF IInv, TypeOK, Place, Undo
<1>2. Places' /\ LocksKnown' /\ Regimes'
  BY DEF IInv, TypeOK, Places, LocksKnown, Regimes, Undo
<1>3. WorkerKnows' /\ RequestKnows'
  BY DEF IInv, TypeOK, Places, LocksKnown, Regimes, WorkerKnows, RequestKnows, Undo
<1>4. PromotionKnows'
  BY DEF IInv, TypeOK, Places, LocksKnown, PromotionKnows, IsLatestShadow, IsNext,
         Undo
<1>5. RevisionsCounted' /\ PagesAreUsedOnce'
  <2>1. revision \in Nat /\ revision' = revision + 1 /\ corrections' = corrections
    BY LocksAssumption, FS_CardinalityType DEF IInv, TypeOK, Revision, Undo
  <2>2. \A d \in corrections : d.page.revision < revision /\ d.page.revision \in Int
    BY LocksAssumption, FS_CardinalityType DEF IInv, TypeOK, Correction, Page, Revision, RevisionsCounted
  <2>3. \A d \in corrections' : d.page.revision < revision'
    BY <2>1, <2>2
  <2> QED BY <1>0, <2>1, <2>3 DEF IInv, RevisionsCounted, PagesAreUsedOnce
<1> QED BY <1>1, <1>2, <1>3, <1>4, <1>5 DEF IInv

LEMMA RefuseInv ==
  ASSUME IInv, NEW r \in Request, Refuse(r)
  PROVE  IInv'
<1> USE LocksAssumption
    DEF dataVars, lockVars, requestVars, Goto, ReleaseAll, Mode, InTransaction, Aborted,
        Process, NoGeneration, Nobody, Worker, Promotion, Generation
<1>1. TypeOK'
  BY DEF IInv, TypeOK, Place, Page, Correction, Revision, LocksKnown, Places, Refuse
<1>2. Places' /\ LocksKnown' /\ Regimes'
  BY DEF IInv, TypeOK, Places, LocksKnown, Regimes, Refuse
<1>3. WorkerKnows' /\ RequestKnows'
  BY DEF IInv, TypeOK, Places, LocksKnown, Regimes, WorkerKnows, RequestKnows, Refuse
<1>4. PromotionKnows'
  BY DEF IInv, TypeOK, Places, LocksKnown, PromotionKnows, IsLatestShadow, IsNext,
         Refuse
<1>5. RevisionsCounted' /\ PagesAreUsedOnce'
  BY DEF IInv, TypeOK, Places, RevisionsCounted, PagesAreUsedOnce, Refuse
<1> QED BY <1>1, <1>2, <1>3, <1>4, <1>5 DEF IInv

-----------------------------------------------------------------------------
(* Failures *)

LEMMA AbortInv ==
  ASSUME IInv, NEW p \in Process, Abort(p)
  PROVE  IInv'
<1> USE LocksAssumption
    DEF dataVars, lockVars, requestVars, Goto, ReleaseAll, Mode, InTransaction, Aborted,
        Process, NoGeneration, Nobody, Worker, Promotion, Generation
<1>1. TypeOK'
  BY DEF IInv, TypeOK, Place, Page, Correction, Revision, LocksKnown, Places, Abort
<1>2. Places' /\ LocksKnown' /\ Regimes'
  BY DEF IInv, TypeOK, Places, LocksKnown, Regimes, Abort
<1>3. WorkerKnows' /\ RequestKnows'
  BY DEF IInv, TypeOK, Places, LocksKnown, Regimes, WorkerKnows, RequestKnows, Abort
<1>4. PromotionKnows'
  BY DEF IInv, TypeOK, Places, LocksKnown, PromotionKnows, IsLatestShadow, IsNext,
         Abort
<1>5. RevisionsCounted' /\ PagesAreUsedOnce'
  BY DEF IInv, TypeOK, Places, RevisionsCounted, PagesAreUsedOnce, Abort
<1> QED BY <1>1, <1>2, <1>3, <1>4, <1>5 DEF IInv

LEMMA StutterInv == ASSUME IInv, UNCHANGED vars PROVE IInv'
<1> USE DEF vars, dataVars, lockVars, requestVars
<1>1. TypeOK' /\ Places' /\ LocksKnown' /\ Regimes'
  BY DEF IInv, TypeOK, Places, LocksKnown, Regimes, InTransaction
<1>2. WorkerKnows' /\ RequestKnows' /\ PromotionKnows'
  BY DEF IInv, WorkerKnows, RequestKnows, PromotionKnows, Mode, IsLatestShadow
<1>3. RevisionsCounted' /\ PagesAreUsedOnce'
  BY DEF IInv, RevisionsCounted, PagesAreUsedOnce
<1> QED BY <1>1, <1>2, <1>3 DEF IInv

LEMMA StepInv == ASSUME IInv, [Next]_vars PROVE IInv'
<1>1. CASE BeginPersist \/ Persist
  BY <1>1, BeginPersistInv, LockAdvisoryInv, SelectComparedInv, LockComparedInv,
     UpdateLegacyRevisionInv, CommitPersistInv DEF Persist
<1>2. CASE BeginPromotion \/ Promote \/ GoLive \/ CanaryFails \/ Rollback
  BY <1>2, BeginPromotionInv, LockAdvisoryInv, CheckReviewedInv, CommitPromotionInv,
     GoLiveInv, CanaryFailsInv, RollbackInv DEF Promote
<1>3. CASE \E r \in Request : Review(r) \/ SelectCurrent(r) \/ Mutate(r)
  BY <1>3, ReviewInv, SelectCurrentInv, LockRevisionInv, LockGenerationInv, SplitInv,
     UndoInv, RefuseInv DEF Mutate
<1>4. CASE (\E p \in Process : Abort(p)) \/ DetectDeadlock
  BY <1>4, AbortInv DEF DetectDeadlock
<1>5. CASE UNCHANGED vars
  BY <1>5, StutterInv
<1> QED BY <1>1, <1>2, <1>3, <1>4, <1>5 DEF Next

LEMMA Invariance == Spec => []IInv
<1> QED BY InitInv, StepInv, PTL DEF Spec

-----------------------------------------------------------------------------

(* Type correctness of the transactions and their locks; in particular the  *)
(* revision counts the requests that succeeded.                             *)
THEOREM LocksTypeCorrect == Spec => []TypeOK
<1>1. IInv => TypeOK
  BY DEF IInv
<1> QED BY Invariance, <1>1, PTL

(* Two splits made from the same revision never both succeed: a request     *)
(* reads the revision again when it gets the row's lock, and each success   *)
(* raises it.                                                               *)
THEOREM PagesUsedOnce == Spec => []PagesAreUsedOnce
<1>1. IInv => PagesAreUsedOnce
  BY DEF IInv
<1> QED BY Invariance, <1>1, PTL

(* A cycle of waits is an active persist and one request: a process waits   *)
(* only for a lock whose holder waits too, the holder of the revision row   *)
(* can only wait for the worker, and another request that waits for that    *)
(* row holds nothing.                                                       *)
THEOREM InversionIsTheOnlyDeadlock == Spec => []OnlyInversionDeadlocks
<1>1. ASSUME IInv, NEW S \in SUBSET Process, Cycle(S)
      PROVE  serving = "normalized" /\ \E r \in Request : S = {Worker, r}
  <2> USE LocksAssumption DEF Process, Worker, Promotion, Nobody, Generation, NoGeneration
  <2>1. /\ \A p \in S : WaitsFor(p) \in S
        /\ \A p \in S : \E q \in S : WaitsFor(q) = p
        /\ S # {}
    BY <1>1 DEF Cycle
  <2>2. Nobody \notin S
    OBVIOUS
  <2>3. \A p \in S : pc[p] \in {"advisory", "revision", "generation"}
    BY <2>1, <2>2 DEF WaitsFor
  <2>4. \A g \in Generation : generationRow[g] \in S =>
          generationRow[g] = Worker /\ pc[Worker] = "revision"
    BY <1>1, <2>3 DEF IInv, LocksKnown, Places, TypeOK
  <2>5. revisionRow \in S => revisionRow \in Request /\ pc[revisionRow] = "generation"
    BY <1>1, <2>3 DEF IInv, LocksKnown, Places, TypeOK
  <2>6. advisory \in S => advisory = Worker
    BY <1>1, <2>3 DEF IInv, LocksKnown, Places, TypeOK
  <2>7. \A q \in S : WaitsFor(q) \in {Worker, revisionRow}
    <3> SUFFICES ASSUME NEW q \in S PROVE WaitsFor(q) \in {Worker, revisionRow}
      OBVIOUS
    <3>1. CASE pc[q] = "advisory"
      BY <2>1, <2>6, <3>1 DEF WaitsFor
    <3>2. CASE pc[q] = "revision"
      BY <3>2 DEF WaitsFor
    <3>3. CASE pc[q] = "generation"
      <4>1. found[q] \in Generation
        BY <1>1, <3>3 DEF IInv, TypeOK, Places, WorkerKnows, RequestKnows
      <4> QED BY <2>1, <2>4, <3>3, <4>1 DEF WaitsFor
    <3> QED BY <2>3, <3>1, <3>2, <3>3
  <2>8. S \subseteq {Worker, revisionRow}
    BY <2>1, <2>7
  <2>9. revisionRow \in S
    <3>1. CASE Worker \in S
      <4>1. pc[Worker] \in {"advisory", "revision", "generation"}
        BY <2>3, <3>1
      <4>2. WaitsFor(Worker) # Worker
        BY <1>1, <4>1, <2>4, <3>1, <2>1 DEF WaitsFor, IInv, LocksKnown, Places, TypeOK, WorkerKnows
      <4> QED BY <2>1, <2>7, <3>1, <4>2
    <3>2. CASE Worker \notin S
      <4>1. PICK p \in S : TRUE
        BY <2>1
      <4>2. p = revisionRow
        BY <2>8, <3>2
      <4> QED BY <4>2
    <3> QED BY <3>1, <3>2
  <2>10. revisionRow \in Request /\ WaitsFor(revisionRow) = Worker
    <3>1. revisionRow \in Request /\ pc[revisionRow] = "generation"
      BY <2>5, <2>9
    <3>2. found[revisionRow] \in Generation
      BY <1>1, <3>1 DEF IInv, TypeOK, RequestKnows
    <3> QED BY <2>1, <2>4, <2>9, <3>1, <3>2 DEF WaitsFor
  <2>11. S = {Worker, revisionRow}
    BY <2>1, <2>8, <2>9, <2>10
  <2>12. serving = "normalized"
    BY <1>1, <2>5, <2>9 DEF IInv, Regimes, InTransaction
  <2> QED BY <2>10, <2>11, <2>12
<1>2. IInv => OnlyInversionDeadlocks
  BY <1>1 DEF OnlyInversionDeadlocks
<1> QED BY Invariance, <1>2, PTL

(* A correction is stored on the generation that is current at its commit,  *)
(* from a page that shows it at the newest revision: the request holds that *)
(* generation's row, which an active persist must hold to replace it, and   *)
(* the revision's.                                                          *)
THEOREM CorrectionsOnCurrent == Spec => CorrectionsLandOnCurrent
<1>1. IInv /\ [Next]_vars => [CorrectionStep]_vars
  <2> SUFFICES ASSUME IInv, Next, NEW c \in corrections' \ corrections
               PROVE  /\ c.gen = current /\ current' = current
                      /\ c.page = [gen |-> current, revision |-> revision]
    BY DEF CorrectionStep
  <2>1. PICK r \in Request : Split(r)
    BY DEF Next, Persist, Promote, Mutate, BeginPersist, LockAdvisory, SelectCompared,
           LockCompared, UpdateLegacyRevision, CommitPersist, BeginPromotion, CheckReviewed,
           CommitPromotion, GoLive, CanaryFails, Rollback, Review, SelectCurrent, LockRevision,
           LockGeneration, Undo, Refuse, Abort, DetectDeadlock, dataVars
  <2>2. c.gen = found[r] /\ c.page = [gen |-> found[r], revision |-> read[r]]
    BY <2>1 DEF Split
  <2> QED BY <2>1, <2>2 DEF Split, IInv, RequestKnows
<1> QED BY Invariance, <1>1, PTL DEF Spec, CorrectionsLandOnCurrent

(* What a promotion makes active is the latest shadow when it commits: the  *)
(* advisory lock keeps the worker's commit out since the check.             *)
THEOREM LatestShadowPromoted == Spec => LatestIsPromoted
<1>1. IInv /\ [Next]_vars => [PromotionStep]_vars
  <2> SUFFICES ASSUME IInv, Next,
                      NEW g \in Generation, stored[g] = "shadow", stored'[g] = "active"
               PROVE  IsLatestShadow(g)
    BY DEF PromotionStep
  <2>1. CASE CommitPromotion
    BY <2>1 DEF CommitPromotion, IInv, TypeOK, PromotionKnows
  <2>2. CASE CommitPersist
    BY <2>2 DEF CommitPersist, IInv, TypeOK, IsNext
  <2>3. CASE stored' = stored
    BY <2>3
  <2>4. CommitPromotion \/ CommitPersist \/ stored' = stored
    BY DEF Next, Persist, Promote, Mutate, BeginPersist, LockAdvisory, SelectCompared,
           LockCompared, UpdateLegacyRevision, BeginPromotion, CheckReviewed, GoLive,
           CanaryFails, Rollback, Review, SelectCurrent, LockRevision, LockGeneration, Split,
           Undo, Refuse, Abort, DetectDeadlock, dataVars
  <2> QED BY <2>1, <2>2, <2>3, <2>4
<1> QED BY Invariance, <1>1, PTL DEF Spec, LatestIsPromoted

-----------------------------------------------------------------------------
(* The transactions implement GenerationStore.                              *)

\* What is current was made so by a commit that also made it active.
ShownIsActive ==
  /\ current # NoGeneration => stored[current] = "active"
  /\ pc[Promotion] = "promoted" => current # NoGeneration

\* Four steps change what is stored, shown or served; two change the corrections.
Silent == UNCHANGED <<stored, current, corrections, revision, serving>>

LEMMA StepsOfTheStore ==
  ASSUME Next
  PROVE  \/ CommitPersist \/ CommitPromotion \/ GoLive \/ Rollback
         \/ (\E r \in Request : Split(r) \/ Undo(r))
         \/ Silent
<1>1. CASE BeginPersist \/ Persist
  BY <1>1 DEF BeginPersist, Persist, LockAdvisory, SelectCompared, LockCompared,
              UpdateLegacyRevision, Silent, dataVars
<1>2. CASE BeginPromotion \/ Promote \/ GoLive \/ CanaryFails \/ Rollback
  BY <1>2 DEF BeginPromotion, Promote, LockAdvisory, CheckReviewed, CanaryFails, Silent, dataVars
<1>3. CASE \E r \in Request : Review(r) \/ SelectCurrent(r) \/ Mutate(r)
  BY <1>3 DEF Review, SelectCurrent, Mutate, LockRevision, LockGeneration, Refuse, Silent, dataVars
<1>4. CASE (\E p \in Process : Abort(p)) \/ DetectDeadlock
  BY <1>4 DEF DetectDeadlock, Abort, Silent, dataVars
<1> QED BY <1>1, <1>2, <1>3, <1>4 DEF Next

LEMMA InitShown == Init => ShownIsActive
BY DEF Init, ShownIsActive, Process, Promotion, NoGeneration

\* Only its commit brings the promotion to "promoted".
LEMMA PromotedByCommit ==
  ASSUME IInv, Next, pc'[Promotion] = "promoted"
  PROVE  pc[Promotion] = "promoted" \/ CommitPromotion
BY LocksAssumption
   DEF IInv, TypeOK, Next, BeginPersist, Persist, LockAdvisory, SelectCompared, LockCompared,
       UpdateLegacyRevision, CommitPersist, BeginPromotion, Promote, CheckReviewed, GoLive,
       CanaryFails, Rollback, Review, SelectCurrent, Mutate, LockRevision, LockGeneration, Split,
       Undo, Refuse, Abort, DetectDeadlock, Goto, Aborted, Process, Worker, Promotion

LEMMA ShownStep == IInv /\ ShownIsActive /\ [Next]_vars => ShownIsActive'
<1> SUFFICES ASSUME IInv, ShownIsActive, [Next]_vars PROVE ShownIsActive'
  OBVIOUS
<1> USE DEF NoGeneration
<1>1. CASE CommitPersist
  <2>1. pc'[Promotion] = pc[Promotion]
    BY <1>1 DEF CommitPersist, Goto, IInv, TypeOK, Process, Worker, Promotion
  <2>2. PICK g \in Generation :
          /\ IsNext(g) /\ stored' = [stored EXCEPT ![g] = Mode]
          /\ current' = IF Mode = "active" THEN g ELSE current
    BY <1>1 DEF CommitPersist
  <2>3. g # 0 /\ stored[g] = "unused"
    BY <2>2 DEF IsNext, Generation
  <2> QED
    BY <2>1, <2>2, <2>3 DEF ShownIsActive, IInv, TypeOK
<1>2. CASE CommitPromotion
  <2>1. found[Promotion] \in Generation /\ found[Promotion] # 0
    BY <1>2 DEF CommitPromotion, IInv, TypeOK, PromotionKnows, Process
  <2> QED
    BY <1>2, <2>1 DEF CommitPromotion, ShownIsActive, IInv, TypeOK
<1>3. CASE Next /\ UNCHANGED <<stored, current>> /\ ~CommitPromotion
  BY <1>3, PromotedByCommit DEF ShownIsActive
<1>4. CASE UNCHANGED vars
  BY <1>4 DEF vars, dataVars, ShownIsActive
<1> QED
  BY <1>1, <1>2, <1>3, <1>4, StepsOfTheStore
     DEF GoLive, Rollback, Split, Undo, Silent, dataVars

LEMMA AlwaysShown == Spec => []ShownIsActive
<1> QED BY Invariance, InitShown, ShownStep, PTL DEF Spec

-----------------------------------------------------------------------------

Gens == {c.gen : c \in corrections}

LEMMA PersistIsAtomic ==
  ASSUME IInv, CommitPersist
  PROVE  \E g \in Generation : Store!Persist(g)
<1>1. PICK g \in Generation :
        /\ IsNext(g) /\ stored' = [stored EXCEPT ![g] = Mode]
        /\ current' = IF Mode = "active" THEN g ELSE current
  BY DEF CommitPersist
<1>2. UNCHANGED <<corrections, revision, serving>>
  BY DEF CommitPersist
<1> QED
  BY <1>1, <1>2 DEF Store!Persist, Store!IsNext, IsNext, Mode

LEMMA PromotionIsAtomic ==
  ASSUME IInv, CommitPromotion
  PROVE  \E g \in Generation : Store!Promote(g)
<1>1. found[Promotion] \in Generation /\ IsLatestShadow(found[Promotion])
  BY DEF CommitPromotion, IInv, TypeOK, PromotionKnows, Process
<1>2. serving = "legacy"
  BY DEF CommitPromotion, IInv, Regimes
<1> QED
  BY <1>1, <1>2 DEF CommitPromotion, Store!Promote, Store!IsLatestShadow, IsLatestShadow

LEMMA FlagsAreAtomic ==
  ASSUME IInv, ShownIsActive, GoLive \/ Rollback
  PROVE  Store!GoLive \/ Store!Rollback
<1>1. CASE GoLive
  <2>1. serving = "legacy" /\ current # NoGeneration /\ stored[current] = "active"
    BY <1>1 DEF GoLive, IInv, Regimes, ShownIsActive
  <2> QED
    BY <1>1, <2>1 DEF GoLive, Store!GoLive, Store!Shown, Store!NoGeneration, NoGeneration, dataVars
<1>2. CASE Rollback
  BY <1>2 DEF Rollback, Store!Rollback, dataVars
<1> QED BY <1>1, <1>2

LEMMA RequestIsAtomic ==
  ASSUME IInv, ShownIsActive, NEW r \in Request, Split(r) \/ Undo(r)
  PROVE  Store!Split \/ Store!Undo
<1>1. pc[r] = "deciding"
  BY DEF Split, Undo
<1>2. /\ serving = "normalized"
      /\ found[r] = current /\ current # NoGeneration /\ stored[current] = "active"
  BY <1>1 DEF IInv, Regimes, InTransaction, RequestKnows, ShownIsActive
<1>3. CASE Split(r)
  <2> DEFINE c == [by |-> r, gen |-> found[r], page |-> page[r]]
  <2>1. corrections' = corrections \cup {c} /\ c.gen = current
    BY <1>2, <1>3 DEF Split
  <2> HIDE DEF c
  <2>2. Gens' = Gens \cup {current}
    BY <2>1 DEF Gens
  <2> QED
    BY <1>2, <1>3, <2>2
       DEF Split, Store!Split, Store!Shown, Store!NoGeneration, NoGeneration, Gens
<1>4. CASE Undo(r)
  <2>1. Gens # {}
    BY <1>4 DEF Undo, Gens
  <2> QED
    BY <1>2, <1>4, <2>1
       DEF Undo, Store!Undo, Store!Shown, Store!NoGeneration, NoGeneration, Gens
<1> QED BY <1>3, <1>4

LEMMA NextOfTheStore ==
  IInv /\ ShownIsActive /\ [Next]_vars => [Store!Next]_Store!vars
<1> SUFFICES ASSUME IInv, ShownIsActive, [Next]_vars PROVE [Store!Next]_Store!vars
  OBVIOUS
<1>1. CASE Silent
  BY <1>1 DEF Silent, Store!vars
<1>2. CASE UNCHANGED vars
  BY <1>2 DEF vars, dataVars, Store!vars
<1>3. CASE CommitPersist \/ CommitPromotion
  BY <1>3, PersistIsAtomic, PromotionIsAtomic DEF Store!Next
<1>4. CASE GoLive \/ Rollback
  BY <1>4, FlagsAreAtomic DEF Store!Next
<1>5. CASE \E r \in Request : Split(r) \/ Undo(r)
  BY <1>5, RequestIsAtomic DEF Store!Next
<1> QED BY <1>1, <1>2, <1>3, <1>4, <1>5, StepsOfTheStore

(* Every transaction takes effect at one moment, its commit, on what is     *)
(* stored then, although it read before it waited: the commits map to the   *)
(* actions of GenerationStore, every other statement, wait, failure and     *)
(* deadlock to stuttering.                                                  *)
THEOREM LocksImplementTheStore == Spec => LocksImplementStore
<1>1. Init => Store!Init
  BY DEF Init, Store!Init, Store!NoGeneration, NoGeneration
<1>2. Spec => [][Store!Next]_Store!vars
  BY Invariance, AlwaysShown, NextOfTheStore, PTL DEF Spec
<1> QED BY <1>1, <1>2, PTL DEF Spec, LocksImplementStore, Store!Spec
=============================================================================
