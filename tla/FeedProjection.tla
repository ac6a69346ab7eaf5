-------------------------- MODULE FeedProjection ---------------------------
(***************************************************************************)
(* The stories of a normalized projection as the server computes them for  *)
(* its readers: effectiveCorrectedCoverageBundleItems for the feed, and    *)
(* recomputeCoverageStories for the answers of split and undo.             *)
(*                                                                         *)
(* An article is a number: the larger, the later it was published.  Every  *)
(* generation has every article.  Which groups clustering makes of them is *)
(* given (CoverageAnalysis is about that), and so are the identities that  *)
(* the stored bundles inherited from earlier generations.  Both functions  *)
(* agree on the groups but not on their names: a recomputed bundle is      *)
(* named for its oldest article.                                           *)
(***************************************************************************)
EXTENDS Integers, FiniteSets, Sequences

CONSTANTS
  Articles,      \* a set of numbers
  Groups(_, _),  \* of a generation and rejected pairs: what clustering makes of Articles
  Generations,   \* a sequence of [name : [stored groups -> bundle ids]]
  Feeds,         \* filters of the story feed
  FeedArticles,  \* [Feeds -> SUBSET Articles]: what a filter lets through
  PageSize,      \* stories per page
  None

ArticlePairs == {pair \in SUBSET Articles : \E a, b \in pair : a # b /\ pair = {a, b}}

Stored(g) == {p \in Groups(g, {}) : Cardinality(p) > 1}

Oldest(articles) == CHOOSE a \in articles : \A b \in articles : a <= b
Latest(articles) == CHOOSE a \in articles : \A b \in articles : a >= b

BundleId(a) == <<"bundle", a>>
BundleIds == {BundleId(a) : a \in Articles}

\* Clustering parts the articles and keeps rejected pairs apart, which is what
\* CoverageClustering shows of it (GroupsHold).
ASSUME ProjectionAssumption ==
  /\ Articles \subseteq Nat /\ IsFiniteSet(Articles)
  /\ FeedArticles \in [Feeds -> SUBSET Articles]
  /\ PageSize \in Nat \ {0}
  /\ \A g \in 1..Len(Generations) :
       /\ Generations[g].name \in [Stored(g) -> BundleIds]
       /\ \A p, q \in Stored(g) :
            Generations[g].name[p] = Generations[g].name[q] => p = q
       /\ \A rejected \in SUBSET ArticlePairs :
            /\ Groups(g, rejected) \subseteq (SUBSET Articles) \ {{}}
            /\ \A a \in Articles : \E p \in Groups(g, rejected) : a \in p
            /\ \A p, q \in Groups(g, rejected) : p = q \/ p \cap q = {}
            /\ \A p \in Groups(g, rejected), pair \in rejected : ~(pair \subseteq p)

\* A projection: a generation and the correction revision on top of it.
Projection == [gen : 1..Len(Generations), rev : Nat]

\* correctionTarget.originalBundleId: the stored bundle with the largest overlap,
\* the story itself where nothing is stored.
Original(g, articles, id) ==
  LET overlap(p) == Cardinality(p \cap articles)
      name(p) == Generations[g].name[p]
      best == CHOOSE p \in Stored(g) : \A q \in Stored(g) :
                \/ overlap(p) > overlap(q)
                \/ overlap(p) = overlap(q) /\ name(p)[2] <= name(q)[2]
  IN IF Stored(g) = {} THEN id ELSE name(best)

\* Only a grouped story carries a correctionTarget and a generatedAt: a stored
\* bundle that of the worker's analysis, a recomputed one the completion of the
\* generation, which is later.
GroupStory(id, articles, at, original, generatedAt) ==
  [id |-> id, articles |-> articles, primary |-> Latest(articles), at |-> at,
   original |-> original, generatedAt |-> generatedAt]
SingleStory(a) ==
  [id |-> <<"article", a>>, articles |-> {a}, primary |-> a, at |-> None,
   original |-> None, generatedAt |-> None]

Pairs(corrections) == {c.pair : c \in corrections}

\* recomputeCoverageStories and coverageStoriesWithCorrectionTargets.
Recomputed(at, corrections) ==
  {IF Cardinality(p) = 1 THEN SingleStory(Oldest(p))
   ELSE LET id == BundleId(Oldest(p))
        IN GroupStory(id, p, at, Original(at.gen, p, id), "completion") :
     p \in Groups(at.gen, Pairs(corrections))}

\* What the feed shows: the stored items as they are while there is no
\* correction, the recomputed ones otherwise.
Effective(at, corrections) ==
  IF corrections = {}
  THEN LET name(p) == Generations[at.gen].name[p]
       IN {IF Cardinality(p) = 1 THEN SingleStory(Oldest(p))
           ELSE GroupStory(name(p), p, at, name(p), "analysis") :
             p \in Groups(at.gen, {})}
  ELSE Recomputed(at, corrections)

Touching(stories, articles) == {s \in stories : s.articles \cap articles # {}}

\* cityPulseStoryPageFromStories: the newest stories before the cursor.
FeedPage(feed, before, at, corrections) ==
  LET listed == {s \in Touching(Effective(at, corrections), FeedArticles[feed]) :
                   before = None \/ Latest(s.articles) < before}
      items == {s \in listed :
                  Cardinality({t \in listed : Latest(t.articles) > Latest(s.articles)})
                    < PageSize}
  IN [items |-> items,
      next |-> IF items = listed THEN None
               ELSE Oldest({Latest(s.articles) : s \in items}),
      at |-> at]
=============================================================================
