-------------------------- MODULE CoverageAnalysis --------------------------
(***************************************************************************)
(* From evidence to named bundles: clusterArticlesByCoverageEdges groups   *)
(* the articles of an analysis, the worker persists the groups, and        *)
(* reuseCoverageBundleIds names them after those of the generation before. *)
(*                                                                         *)
(* The first analysis is clustered from its evidence here.  Of the later   *)
(* ones only the groups they found matter.                                 *)
(***************************************************************************)
EXTENDS ReuseBundleIds, CoverageClustering

vars == <<reuseVars, clusterVars>>

TypeOK == ReuseTypeOK /\ ClusterTypeOK

Init == ReuseInit /\ ClusterInit

\* What a returned call leaves behind of its judgement.
Forgotten ==
  [tier |-> [p \in Pair |-> "none"], conflict |-> [p \in Pair |-> "none"],
   bridges |-> {}, collisions |-> {}, rejected |-> {}]

PersistFound ==
  /\ stage = "found"
  /\ \E cands \in Found : Persist(cands)
  /\ stage' = "none" /\ judgement' = Forgotten /\ groups' = {}
  /\ UNCHANGED <<strong, unplaced>>

PersistNext ==
  /\ stage = "none"
  /\ \E cands \in Groupings : Persist(cands)
  /\ UNCHANGED clusterVars

Next ==
  \/ ClusterNext /\ UNCHANGED reuseVars
  \/ ReuseNext /\ UNCHANGED clusterVars
  \/ PersistFound
  \/ PersistNext

Spec == Init /\ [][Next]_vars

\* The functions run to their ends once called.
FairSpec == Spec /\ WF_vars(Next)

-----------------------------------------------------------------------------

\* Every call returns: the two loops over edges and articles, the loops over
\* options and the re-hash loop of reuseCoverageBundleIds end for every analysis
\* and every history.
EveryAnalysisIsNamed ==
  /\ stage = "seeding" ~> stage = "none"
  /\ phase = "own" ~> phase = "done"
=============================================================================
