------------------------- MODULE MCCoverageAnalysis -------------------------
(* Four articles.  One analysis for every judgement of their pairs in which *)
(* at most two of them are blocked, then any number of generations of every *)
(* grouping into updates, one group of which may also be an incident.       *)
EXTENDS CoverageAnalysis

MCArticle == 1..4
MCKind == {"incident", "update"}
MCGroup == [kind : {"update"}, members : {S \in SUBSET (1..4) : Cardinality(S) >= 2}]
           \cup {[kind |-> "incident", members |-> {1, 2, 3}]}
MCGroupings ==
  {{}} \cup {gs \in {{c, d} : c, d \in MCGroup} : DisjointGroups(gs)}

\* What is said about one pair.
MCEdges == {"none", "moderate", "strong", "bridge"}
MCBlocks == {"place", "other", "rejected"}

MCJudged(f, collisions) ==
  [tier |-> [p \in Pair |-> CASE f[p] \in {"strong", "bridge", "rejected"} -> "strong"
                              [] f[p] = "moderate" -> "moderate"
                              [] OTHER -> "none"],
   conflict |-> [p \in Pair |-> IF f[p] \in {"place", "other"} THEN f[p] ELSE "none"],
   bridges |-> {p \in Pair : f[p] = "bridge"},
   collisions |-> collisions,
   rejected |-> {p \in Pair : f[p] = "rejected"}]

MCMarks ==
  {f \in [Pair -> MCEdges \cup MCBlocks] :
     /\ Cardinality({p \in Pair : f[p] \in MCBlocks}) <= 1
     /\ Cardinality({p \in Pair : f[p] = "bridge"}) <= 1
     /\ Cardinality({p \in Pair : f[p] = "strong"}) <= 3}

MCJudgements == {MCJudged(f, S) : f \in MCMarks, S \in {1..4, 1..3}}
=============================================================================
