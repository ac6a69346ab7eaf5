-------------------------- MODULE GenerationStore --------------------------
(***************************************************************************)
(* What the tables of coverage generations promise to whoever uses them:   *)
(* each transaction takes effect at one moment, on what is stored at that  *)
(* moment, and what is shown or was corrected is replaced or deleted in no *)
(* other way than here.  CoverageLifecycle, which has the contents of the  *)
(* generations, and CoverageLocks, which has the statements and their      *)
(* waits, both implement it.                                               *)
(***************************************************************************)
EXTENDS Integers

CONSTANT Generation  \* numbers, in the order of completion

VARIABLES
  stored,     \* [Generation -> "unused", "shadow", "active", or "gone": failed or deleted]
  current,    \* the generation that is shown, or none
  corrected,  \* generations that corrections were made on
  revision,   \* how many corrections and undos there were
  serving     \* the projection that is served

vars == <<stored, current, corrected, revision, serving>>

NoGeneration == 0

Init ==
  /\ stored = [g \in Generation |-> "unused"]
  /\ current = NoGeneration /\ corrected = {} /\ revision = 0
  /\ serving = "legacy"

IsNext(g) == stored[g] = "unused" /\ \A h \in Generation : h < g => stored[h] # "unused"

IsLatestShadow(g) == stored[g] = "shadow" /\ \A h \in Generation : stored[h] = "shadow" => h <= g

\* While the legacy projection is served a generation waits in the shadow, then
\* each replaces its predecessor.
Persist(g) ==
  /\ IsNext(g)
  /\ IF serving = "normalized"
     THEN stored' = [stored EXCEPT ![g] = "active"] /\ current' = g
     ELSE stored' = [stored EXCEPT ![g] = "shadow"] /\ UNCHANGED current
  /\ UNCHANGED <<corrected, revision, serving>>

Fail(g) ==
  /\ IsNext(g)
  /\ stored' = [stored EXCEPT ![g] = "gone"]
  /\ UNCHANGED <<current, corrected, revision, serving>>

\* Nothing that was ever corrected is deleted.
Old == {g \in Generation \ corrected : stored[g] \in {"shadow", "active"}}

Prune(old) ==
  /\ stored' = [g \in Generation |-> IF g \in old THEN "gone" ELSE stored[g]]
  /\ current' = IF current \in old THEN NoGeneration ELSE current
  /\ UNCHANGED <<corrected, revision, serving>>

\* Nobody persists between the review of a shadow and its promotion.
Promote(g) ==
  /\ serving = "legacy" /\ IsLatestShadow(g)
  /\ stored' = [stored EXCEPT ![g] = "active"]
  /\ current' = g
  /\ UNCHANGED <<corrected, revision, serving>>

Shown == current # NoGeneration /\ stored[current] = "active"

GoLive ==
  /\ serving = "legacy" /\ Shown
  /\ serving' = "normalized"
  /\ UNCHANGED <<stored, current, corrected, revision>>

Rollback ==
  /\ serving = "normalized"
  /\ serving' = "legacy"
  /\ UNCHANGED <<stored, current, corrected, revision>>

\* A split or an undo belongs to the generation that is shown when it commits.
Split ==
  /\ serving = "normalized" /\ Shown
  /\ corrected' = corrected \cup {current}
  /\ revision' = revision + 1
  /\ UNCHANGED <<stored, current, serving>>

Undo ==
  /\ serving = "normalized" /\ Shown
  /\ corrected # {}
  /\ revision' = revision + 1
  /\ UNCHANGED <<stored, current, corrected, serving>>

Next ==
  \/ \E g \in Generation : Persist(g) \/ Fail(g) \/ Promote(g)
  \/ \E old \in SUBSET Old : Prune(old)
  \/ GoLive \/ Rollback \/ Split \/ Undo

Spec == Init /\ [][Next]_vars
=============================================================================
