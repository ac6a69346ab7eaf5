------------------------- MODULE CoverageClustering -------------------------
(***************************************************************************)
(* How an analysis groups articles: clusterArticlesByCoverageEdges.        *)
(*                                                                         *)
(* Every pair of articles has been judged: how strong the evidence is that *)
(* they cover one event, whether something speaks against it, and whether  *)
(* the owner rejected the pair.  Strong edges join groups first, one edge  *)
(* at a time; then every article that is still alone, newest first, is     *)
(* admitted to the one group it is close enough to, or starts its own.     *)
(* Nothing is joined that would put a blocking pair into one group.        *)
(*                                                                         *)
(* The code takes strong edges by score.  Scores are left out: the edges   *)
(* come in any order.                                                      *)
(***************************************************************************)
EXTENDS BundleIdentity

\* Two articles.
Pair == {S \in SUBSET Article : \E a, b \in S : a # b /\ S = {a, b}}

\* A conflict is "place" when it is about specific places alone and the evidence
\* of the two collisions does not conflict otherwise; a bridge is an edge with the
\* signal traffic_collision:road_clock_participants.
Judgement ==
  [tier : [Pair -> {"none", "moderate", "strong"}],
   conflict : [Pair -> {"none", "place", "other"}],
   bridges : SUBSET Pair, collisions : SUBSET Article, rejected : SUBSET Pair]

CONSTANT Judgements   \* what an analysis may find out about its pairs

\* articleCoverageEdge: a conflict makes the edge weak, which counts as none.
ASSUME JudgementAssumption ==
  /\ Judgements \subseteq Judgement
  /\ \A j \in Judgements, p \in Pair : j.conflict[p] # "none" => j.tier[p] = "none"

VARIABLES
  judgement,  \* edges and options
  groups,     \* groups
  strong,     \* strong edges the first loop has not reached
  unplaced,   \* articles the second loop has not reached
  stage       \* "seeding", "placing", "found", or "none": no call

clusterVars == <<judgement, groups, strong, unplaced, stage>>

Accepted ==
  {p \in Pair : judgement.tier[p] # "none" /\ judgement.conflict[p] = "none"
                /\ p \notin judgement.rejected}

Strong == {p \in Accepted : judgement.tier[p] = "strong"}

\* The exception for reports of one collision that name its place differently.
Lifted(S, p) ==
  /\ judgement.conflict[p] = "place"
  /\ S \subseteq judgement.collisions
  /\ \E bridge \in Accepted \cap judgement.bridges : bridge \subseteq S

\* containsBlockingPair
Blocked(S) ==
  \E p \in Pair :
    /\ p \subseteq S
    /\ p \in judgement.rejected \/ (judgement.conflict[p] # "none" /\ ~Lifted(S, p))

ClusterTypeOK ==
  /\ judgement \in Judgement
  /\ groups \subseteq SUBSET Article
  /\ strong \subseteq Pair
  /\ unplaced \subseteq Article
  /\ stage \in {"seeding", "placing", "found", "none"}

ClusterInit ==
  /\ judgement \in Judgements
  /\ groups = {}
  /\ strong = Strong
  /\ unplaced = Article
  /\ stage = "seeding"

-----------------------------------------------------------------------------
(* The first loop *)

Touched(edge) == {g \in groups : g \cap edge # {}}

\* A bug to catch: only the edge itself is tested for a blocking pair.
JoinStrong_TestsEdge(edge) ==
  LET candidate == edge \cup UNION Touched(edge) IN
  /\ stage = "seeding" /\ edge \in strong
  /\ strong' = strong \ {edge}
  /\ groups' = IF Blocked(edge) THEN groups ELSE (groups \ Touched(edge)) \cup {candidate}
  /\ UNCHANGED <<judgement, unplaced, stage>>

JoinStrong(edge) ==
  LET candidate == edge \cup UNION Touched(edge) IN
  /\ stage = "seeding" /\ edge \in strong
  /\ strong' = strong \ {edge}
  /\ groups' = IF Blocked(candidate) THEN groups
               ELSE (groups \ Touched(edge)) \cup {candidate}
  /\ UNCHANGED <<judgement, unplaced, stage>>

Seeded ==
  /\ stage = "seeding" /\ strong = {}
  /\ stage' = "placing"
  /\ UNCHANGED <<judgement, groups, strong, unplaced>>

-----------------------------------------------------------------------------
(* The second loop *)

\* The first member in article order, as a singleton.
Anchor(g) == {a \in g : \A b \in g : b <= a}

\* An edge to the anchor, or to two members.
CloseTo(a, g) ==
  \/ \E b \in Anchor(g) : {a, b} \in Accepted
  \/ \E b, c \in g : b # c /\ {a, b} \in Accepted /\ {a, c} \in Accepted

Candidates(a) == {g \in groups : CloseTo(a, g)}

IsNextArticle(a) ==
  /\ stage = "placing" /\ a \in unplaced
  /\ \A b \in unplaced : b <= a

\* An article with one candidate group that may not join it is in no group.
PlaceIn(a, g) == IF Blocked(g \cup {a}) THEN groups ELSE (groups \ {g}) \cup {g \cup {a}}

Place(a) ==
  /\ IsNextArticle(a)
  /\ unplaced' = unplaced \ {a}
  /\ \/ a \in UNION groups /\ groups' = groups
     \/ /\ a \notin UNION groups
        /\ \E g \in groups : Candidates(a) = {g} /\ groups' = PlaceIn(a, g)
     \/ /\ a \notin UNION groups
        /\ ~ \E g \in groups : Candidates(a) = {g}
        /\ groups' = groups \cup {{a}}
  /\ UNCHANGED <<judgement, strong, stage>>

AllPlaced ==
  /\ stage = "placing" /\ unplaced = {}
  /\ stage' = "found"
  /\ UNCHANGED <<judgement, groups, strong, unplaced>>

ClusterNext ==
  \/ \E edge \in strong : JoinStrong(edge)
  \/ Seeded
  \/ \E a \in unplaced : Place(a)
  \/ AllPlaced

\* A group of one article is no bundle; the kind of a bundle is that of its edges.
Bundled == {g \in groups : \E a, b \in g : a # b}

Found == {{[kind |-> k[g], members |-> g] : g \in Bundled} : k \in [Bundled -> Kind]}

-----------------------------------------------------------------------------

\* No part of a group is without accepted evidence for the rest of it.
Connected(g) ==
  \A S \in SUBSET g : S # {} /\ S # g => \E a \in S, b \in g \ S : {a, b} \in Accepted

\* In whatever order edges come, whichever groups they merge and whoever is
\* admitted later: no group holds a pair the owner rejected or one in conflict
\* (but for the collision exception, which must still apply to the whole group),
\* no article is in two groups, and every group hangs together by accepted
\* evidence (containsBlockingPair and the two loops around it).
GroupsHold ==
  /\ \A g \in groups : ~Blocked(g) /\ Connected(g)
  /\ \A g, h \in groups : g # h => g \cap h = {}
=============================================================================
