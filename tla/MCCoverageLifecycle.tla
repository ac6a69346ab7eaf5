------------------------ MODULE MCCoverageLifecycle ------------------------
(* Three articles of one kind; analyses that regroup them, find nothing, or *)
(* see a fraction of the articles (the volume guard).                       *)
EXTENDS CoverageLifecycle

MCArticle == 1..3
MCKind == {"update"}

Found(arts, memberSets) ==
  [articles |-> arts, groups |-> {[kind |-> "update", members |-> S] : S \in memberSets}]

MCAnalyses == {Found({1, 2, 3}, {{1, 2}}), Found({1, 2, 3}, {{2, 3}}),
               Found({1, 2, 3}, {}), Found({1}, {})}
=============================================================================
