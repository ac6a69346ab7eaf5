--------------------------- MODULE NewsFeed_proofs ---------------------------
(***************************************************************************)
(* Proofs about the page of the story feed, for any articles, clustering   *)
(* and generations: types, the projection a page claims, and what answers  *)
(* may change.                                                             *)
(*                                                                         *)
(* The page holds stories of many moments: on display, of the last default *)
(* feed, in answers on their way, in the card of a dialog, in what a split *)
(* and an undo remember.  Each must be Honest in the world as it is now:   *)
(* of a projection the server has had, and if of the newest revision then  *)
(* free of the pairs that are rejected.  That is what makes counting one   *)
(* up from the card right, when the server answers a split without a       *)
(* story that carries a revision.  A world only gets Later, so what was    *)
(* honest stays so; each step answers for the stories it brings.           *)
(***************************************************************************)
EXTENDS NewsFeed, FiniteSetTheorems, WellFoundedInduction, TLAPS

-----------------------------------------------------------------------------
(* The inductive invariant *)

World == [gen |-> generation, rev |-> revision, active |-> active, mixed |-> page.mixed]
Worlds == [gen : 1..Len(Generations), rev : Nat, active : SUBSET Correction, mixed : BOOLEAN]

Later(w, v) ==
  /\ w.gen <= v.gen
  /\ w.rev < v.rev \/ (w.rev = v.rev /\ w.active = v.active)
  /\ w.mixed => v.mixed

\* The newest revision a page may claim.
Limit(w) == IF w.mixed THEN w.rev + 1 ELSE w.rev

Had(at, w) == at.gen <= w.gen /\ at.rev <= w.rev

Honest(t, w) ==
  /\ t \in Story /\ t.primary \in t.articles
  /\ t.at # None =>
       /\ t.original \in BundleIds /\ Had(t.at, w)
       /\ w.mixed \/ t.at.rev < w.rev \/ \A c \in w.active : ~(c.pair \subseteq t.articles)

AllHonest(stories, w) == \A t \in stories : Honest(t, w)

HonestPage(a, w) ==
  /\ a \in Page /\ AllHonest(a.items, w) /\ Had(a.at, w) /\ Disjoint(a.items)

PageState == [feed : Feeds, stories : SUBSET Story, next : Articles \cup {None},
              proj : Projection \cup {None}, older : BOOLEAN, mixed : BOOLEAN]

PageOK(p, w) ==
  /\ p \in PageState /\ AllHonest(p.stories, w)
  /\ p.stories # {} => p.proj \in Projection
  /\ p.proj \in Projection => p.proj.gen <= w.gen /\ p.proj.rev <= Limit(w)

Request == [why : {"refresh", "feed", "more"}, feed : Feeds, before : Articles \cup {None},
            answer : Page \cup {None}]

ReadOK(r, p, w) ==
  /\ r \in Request
  /\ r.answer # None => HonestPage(r.answer, w)
  /\ r.why = "feed" => r.feed = p.feed

Dialog == [card : Story, feed : Feeds, proj : Projection]

DialogOK(d, w) == d # None => d \in Dialog /\ Honest(d.card, w) /\ d.card.at # None

StoryIds == {<<"article", a>> : a \in Articles} \cup BundleIds
SplitAnswer == [removed : SUBSET StoryIds, stories : SUBSET Story,
                corrections : SUBSET Correction]
ReloadAnswer == [stories : SUBSET Story, older : BOOLEAN, page : Page \cup {None}]

Split == [card : Story, anchor : Articles, rejected : SUBSET Articles, feed : Feeds,
          proj : Projection, stories : SUBSET Story, next : Articles \cup {None},
          live : BOOLEAN,
          stage : {"asked", "done", "conflict", "reload", "reloaded", "failed"},
          answer : SplitAnswer \cup ReloadAnswer \cup {None}]

SharedAnchor(corrections) == \E a \in Articles : \A c \in corrections : a \in c.pair

Ungrouped(stories) == \A t \in stories : t.at = None

AskedOK(s, w) ==
  /\ s \in Split
  /\ Honest(s.card, w) /\ s.card.at # None /\ AllHonest(s.stories, w)
  /\ s.anchor \in s.card.articles
  /\ s.rejected \subseteq s.card.articles \ {s.anchor} /\ s.rejected # {}

SplitOK(s, w) ==
  /\ AskedOK(s, w)
  /\ s.stage # "asked" => s.live
  /\ s.stage \in {"done", "conflict"} => s.answer \in SplitAnswer
  /\ s.stage \in {"reload", "reloaded"} => s.answer \in ReloadAnswer
  /\ s.stage \in {"done", "conflict", "reload", "reloaded"} => AllHonest(s.answer.stories, w)
  /\ s.stage \in {"conflict", "reload", "reloaded"} => Disjoint(s.answer.stories)
  /\ s.stage = "reloaded" => HonestPage(s.answer.page, w)
  /\ s.stage = "done" => /\ SharedAnchor(s.answer.corrections)
                         /\ Ungrouped(s.answer.stories) => s.card.at.rev < Limit(w)

\* The owner waits for at most one split, before the dialog it was sent from.
Waiting(requests, d, busy) ==
  /\ busy \in BOOLEAN
  /\ \A s \in requests : s.live => busy /\ d # None /\ s.feed = d.feed /\ s.proj = d.proj
  /\ \A s, t \in requests : s.live /\ t.live => s = t

Toast == [feed : Feeds, proj : Projection, corrections : SUBSET Correction]

ToastOK(t) == t # None => t \in Toast /\ SharedAnchor(t.corrections)

Undo == [feed : Feeds, proj : Projection, corrections : SUBSET Correction,
         left : SUBSET Correction, stories : SUBSET Story, rev : Nat,
         stage : {"asked", "answered", "failed"}, answer : SplitAnswer \cup {None}]

\* The answer of an undo is of a projection, the newest or an older one.
AnswerOf(u, at, w) ==
  /\ u.proj.gen <= at.gen
  /\ u.rev < (IF w.mixed THEN at.rev + 1 ELSE at.rev)
  /\ \A t \in u.answer.stories : t.at # None => t.at = at
  /\ at.gen = w.gen /\ at.rev = w.rev =>
       \E c \in u.corrections : u.answer.stories = Touching(Recomputed(at, w.active), c.pair)

UndoOK(u, w) ==
  u # None =>
    /\ u \in Undo /\ u.left \subseteq u.corrections /\ SharedAnchor(u.corrections)
    /\ AllHonest(u.stories, w) /\ u.proj.gen <= w.gen /\ u.rev <= Limit(w)
    /\ u.stage = "answered" =>
         /\ u.answer \in SplitAnswer /\ AllHonest(u.answer.stories, w)
         /\ \E at \in [gen : 1..w.gen, rev : 0..w.rev] : AnswerOf(u, at, w)

IInv ==
  /\ World \in Worlds /\ revision <= MaxRevision /\ failures \in 0..MaxFailures
  /\ {loading, loadingMore} \subseteq BOOLEAN
  /\ PageOK(page, World)
  /\ HonestPage(saved, World)
  /\ \A r \in reads : ReadOK(r, page, World)
  /\ DialogOK(dialog, World)
  /\ dialog # None => InContext(dialog, page)
  /\ \A s \in splits : SplitOK(s, World)
  /\ Waiting(splits, dialog, pending)
  /\ ToastOK(toast)
  /\ toast # None => InContext(toast, page)
  /\ UndoOK(undo, World)

-----------------------------------------------------------------------------
(* Articles and groups *)

\* In a finite set of numbers the largest is the one with the fewest after it.
LEMMA LargestNumber ==
  ASSUME NEW F \in SUBSET Nat, IsFiniteSet(F), NEW S \in SUBSET F, S # {}
  PROVE  \E m \in S : \A x \in S : m >= x
<1> DEFINE After(x) == {y \in S : y > x}
           Afters == {After(x) : x \in S}
           Ordering == StrictSubsetOrdering(F)
<1>1. S \subseteq Nat
  OBVIOUS
<1>2. IsWellFoundedOn(Ordering, SUBSET F)
  BY FS_StrictSubsetOrderingWellFounded, FS_FiniteSubsetsOfFinite
<1>3. Afters \subseteq SUBSET F /\ Afters # {}
  OBVIOUS
<1>4. PICK T \in Afters : \A U \in Afters : ~(<<U, T>> \in Ordering)
  <2> HIDE DEF Afters, Ordering
  <2> QED
    BY <1>2, <1>3, WFMin
<1>5. PICK x \in S : T = After(x)
  OBVIOUS
<1>6. \A y \in S : x >= y
  <2> SUFFICES ASSUME NEW y \in S, y > x
               PROVE  FALSE
    BY <1>1
  <2>1. After(y) \subseteq After(x) /\ After(y) # After(x)
    <3>1. \A z \in S : z > y => z > x
      BY <1>1
    <3>2. y \in After(x) /\ y \notin After(y)
      BY <1>1
    <3> QED
      BY <3>1, <3>2
  <2>2. <<After(y), After(x)>> \in Ordering
    BY <2>1 DEF StrictSubsetOrdering
  <2> QED
    BY <1>4, <1>5, <2>2
<1> QED
  BY <1>6

LEMMA LeastNumber ==
  ASSUME NEW S \in SUBSET Nat, S # {}
  PROVE  \E m \in S : \A x \in S : m <= x
<1>1. PICK n \in S : TRUE
  OBVIOUS
<1> DEFINE Lower == {n - x : x \in {y \in S : y <= n}}
<1>2. Lower \in SUBSET (0..n) /\ n - n \in Lower
  BY <1>1
<1>3. 0..n \in SUBSET Nat /\ IsFiniteSet(0..n)
  BY <1>1, FS_Interval
<1>4. PICK d \in Lower : \A e \in Lower : d >= e
  <2> HIDE DEF Lower
  <2> QED
    BY <1>2, <1>3, LargestNumber
<1>5. PICK m \in S : m <= n /\ d = n - m
  BY <1>4
<1>6. \A x \in S : x <= n => n - x \in Lower
  OBVIOUS
<1> QED
  BY <1>4, <1>5, <1>6

LEMMA OldestIsOne ==
  ASSUME NEW S \in SUBSET Articles, S # {}
  PROVE  Oldest(S) \in S
<1>1. S \in SUBSET Nat
  BY ProjectionAssumption
<1>2. \E a \in S : \A b \in S : a <= b
  BY <1>1, LeastNumber
<1> QED
  BY <1>2 DEF Oldest

LEMMA LatestIsOne ==
  ASSUME NEW S \in SUBSET Articles, S # {}
  PROVE  Latest(S) \in S /\ \A b \in S : Latest(S) >= b
<1>1. \E a \in S : \A b \in S : a >= b
  BY ProjectionAssumption, LargestNumber
<1> QED
  BY <1>1 DEF Latest

LEMMA RejectedPairs ==
  ASSUME NEW corrections \in SUBSET Correction
  PROVE  Pairs(corrections) \in SUBSET ArticlePairs
BY DEF Pairs, Correction

\* What clustering makes of the articles, as the assumption has it.
LEMMA GroupsPart ==
  ASSUME NEW g \in 1..Len(Generations), NEW rejected \in SUBSET ArticlePairs
  PROVE  /\ \A p \in Groups(g, rejected) : p \subseteq Articles /\ p # {} /\ IsFiniteSet(p)
         /\ \A a \in Articles : \E p \in Groups(g, rejected) : a \in p
         /\ \A p, q \in Groups(g, rejected) : p = q \/ p \cap q = {}
         /\ \A p \in Groups(g, rejected), pair \in rejected : ~(pair \subseteq p)
<1>1. /\ Groups(g, rejected) \subseteq (SUBSET Articles) \ {{}}
      /\ \A a \in Articles : \E p \in Groups(g, rejected) : a \in p
      /\ \A p, q \in Groups(g, rejected) : p = q \/ p \cap q = {}
      /\ \A p \in Groups(g, rejected), pair \in rejected : ~(pair \subseteq p)
  BY ProjectionAssumption
<1>2. \A p \in SUBSET Articles : IsFiniteSet(p)
  BY ProjectionAssumption, FS_Subset
<1> QED
  BY <1>1, <1>2

LEMMA OneArticle ==
  ASSUME NEW p \in SUBSET Articles, Cardinality(p) = 1
  PROVE  Oldest(p) \in Articles /\ p = {Oldest(p)}
<1>1. IsFiniteSet(p)
  BY ProjectionAssumption, FS_Subset
<1>2. PICK x : p = {x}
  BY <1>1, FS_Singleton
<1> QED
  BY <1>2, OldestIsOne

LEMMA StoredNames ==
  ASSUME NEW g \in 1..Len(Generations), NEW p \in Groups(g, {}), Cardinality(p) # 1
  PROVE  Generations[g].name[p] \in BundleIds
<1>1. p # {} /\ IsFiniteSet(p)
  BY GroupsPart
<1>2. Cardinality(p) > 1
  BY <1>1, FS_EmptySet, FS_CardinalityType
<1>3. p \in Stored(g)
  BY <1>2 DEF Stored
<1> QED
  BY <1>3, ProjectionAssumption

\* The best stored bundle exists: of those that overlap most, the first by name.
LEMMA OriginalIsBundle ==
  ASSUME NEW g \in 1..Len(Generations), NEW articles \in SUBSET Articles, NEW id \in BundleIds
  PROVE  Original(g, articles, id) \in BundleIds
<1> DEFINE overlap(p) == Cardinality(p \cap articles)
           name(p) == Generations[g].name[p]
           N == Cardinality(Articles)
           Overlaps == {overlap(p) : p \in Stored(g)}
<1>1. CASE Stored(g) = {}
  BY <1>1 DEF Original
<1>2. CASE Stored(g) # {}
  <2>1. N \in Nat
    BY ProjectionAssumption, FS_CardinalityType
  <2>2. \A p \in Stored(g) : overlap(p) \in Nat /\ overlap(p) <= N
    <3> SUFFICES ASSUME NEW p \in Stored(g)
                 PROVE  overlap(p) \in Nat /\ overlap(p) <= N
      OBVIOUS
    <3>1. p \cap articles \in SUBSET Articles
      OBVIOUS
    <3> QED
      BY <3>1, ProjectionAssumption, FS_Subset, FS_CardinalityType
  <2>3. \A p \in Stored(g) : name(p) \in BundleIds /\ name(p)[2] \in Nat
    BY ProjectionAssumption DEF BundleIds, BundleId
  <2>4. PICK m \in Overlaps : \A x \in Overlaps : m >= x
    <3>1. Overlaps \in SUBSET (0..N) /\ Overlaps # {}
      <4>1. \A p \in Stored(g) : overlap(p) \in 0..N
        BY <2>1, <2>2
      <4> HIDE DEF overlap, N
      <4> QED
        BY <1>2, <4>1
    <3>2. 0..N \in SUBSET Nat /\ IsFiniteSet(0..N)
      BY <2>1, FS_Interval
    <3> HIDE DEF Overlaps, N
    <3> QED
      BY <3>1, <3>2, LargestNumber
  <2> DEFINE Best == {p \in Stored(g) : overlap(p) = m}
             Names == {name(p)[2] : p \in Best}
  <2>5. PICK k \in Names : \A x \in Names : k <= x
    <3>1. Names \in SUBSET Nat /\ Names # {}
      BY <2>3, <2>4
    <3> HIDE DEF Names
    <3> QED
      BY <3>1, LeastNumber
  <2>6. PICK p \in Best : name(p)[2] = k
    BY <2>5
  <2>7. \A q \in Stored(g) : \/ overlap(p) > overlap(q)
                             \/ overlap(p) = overlap(q) /\ name(p)[2] <= name(q)[2]
    <3> SUFFICES ASSUME NEW q \in Stored(g)
                 PROVE  \/ overlap(p) > overlap(q)
                        \/ overlap(p) = overlap(q) /\ name(p)[2] <= name(q)[2]
      OBVIOUS
    <3>1. overlap(p) = m /\ m >= overlap(q)
      BY <2>4, <2>6
    <3>2. overlap(p) \in Nat /\ overlap(q) \in Nat
      BY <2>2, <2>6
    <3>3. overlap(p) = overlap(q) => q \in Best
      BY <3>1
    <3>4. q \in Best => name(p)[2] <= name(q)[2]
      BY <2>5, <2>6
    <3> HIDE DEF overlap, N, name, Best
    <3> QED
      BY <3>1, <3>2, <3>3, <3>4
  <2> DEFINE IsBest(b) == \A q \in Stored(g) :
                            \/ overlap(b) > overlap(q)
                            \/ overlap(b) = overlap(q) /\ name(b)[2] <= name(q)[2]
             best == CHOOSE b \in Stored(g) : IsBest(b)
  <2>8. best \in Stored(g)
    <3>1. IsBest(p) /\ p \in Stored(g)
      BY <2>6, <2>7
    <3> HIDE DEF IsBest
    <3> QED
      BY <3>1
  <2>9. Original(g, articles, id) = name(best)
    BY <1>2 DEF Original
  <2> HIDE DEF best
  <2> QED
    BY <2>3, <2>8, <2>9
<1> QED
  BY <1>1, <1>2
-----------------------------------------------------------------------------
(* Stories that the server makes of a projection *)

MadeOf(stories, at, rejected) ==
  /\ \A t \in stories :
       /\ t \in Story /\ t.primary \in t.articles /\ t.articles \in Groups(at.gen, rejected)
       /\ t.at = None \/ (t.at = at /\ t.original \in BundleIds)
       /\ Cardinality(t.articles) # 1 => t.at = at
  /\ \A p \in Groups(at.gen, rejected) : \E t \in stories : t.articles = p
  /\ \A s, t \in stories : s.articles = t.articles => s = t

LEMMA SingleStoryMade ==
  ASSUME NEW p \in SUBSET Articles, Cardinality(p) = 1
  PROVE  /\ SingleStory(Oldest(p)) \in Story
         /\ SingleStory(Oldest(p)).articles = p
         /\ SingleStory(Oldest(p)).primary \in p
         /\ SingleStory(Oldest(p)).at = None
<1>1. Oldest(p) \in Articles /\ p = {Oldest(p)}
  BY OneArticle
<1> DEFINE a == Oldest(p)
<1> HIDE DEF a
<1>2. SingleStory(a) \in Story
  BY <1>1 DEF SingleStory, Story, a
<1> QED
  BY <1>1, <1>2 DEF SingleStory, a

LEMMA GroupStoryMade ==
  ASSUME NEW p \in SUBSET Articles, p # {}, NEW at \in Projection, NEW id \in BundleIds,
         NEW original \in BundleIds, NEW generatedAt \in {"analysis", "completion"}
  PROVE  LET t == GroupStory(id, p, at, original, generatedAt)
         IN /\ t \in Story /\ t.articles = p /\ t.primary \in p /\ t.at = at
            /\ t.original \in BundleIds
<1>1. Latest(p) \in p
  BY LatestIsOne
<1> QED
  BY <1>1 DEF GroupStory, Story

LEMMA RecomputedMade ==
  ASSUME NEW at \in Projection, NEW corrections \in SUBSET Correction
  PROVE  MadeOf(Recomputed(at, corrections), at, Pairs(corrections))
<1> DEFINE groups == Groups(at.gen, Pairs(corrections))
           id(p) == BundleId(Oldest(p))
           original(p) == Original(at.gen, p, id(p))
           of(p) == IF Cardinality(p) = 1 THEN SingleStory(Oldest(p))
                    ELSE GroupStory(id(p), p, at, original(p), "completion")
<1>1. \A p \in groups : p \in SUBSET Articles /\ p # {}
  BY RejectedPairs, GroupsPart DEF Projection
<1>2. \A p \in groups : /\ of(p) \in Story /\ of(p).articles = p /\ of(p).primary \in p
                        /\ of(p).at = None \/ (of(p).at = at /\ of(p).original \in BundleIds)
                        /\ Cardinality(p) # 1 => of(p).at = at
  <2> SUFFICES ASSUME NEW p \in groups
               PROVE  /\ of(p) \in Story /\ of(p).articles = p /\ of(p).primary \in p
                      /\ of(p).at = None \/ (of(p).at = at /\ of(p).original \in BundleIds)
                      /\ Cardinality(p) # 1 => of(p).at = at
    OBVIOUS
  <2>1. CASE Cardinality(p) = 1
    <3>1. of(p) = SingleStory(Oldest(p))
      BY <2>1
    <3> QED
      BY <1>1, <2>1, <3>1, SingleStoryMade
  <2>2. CASE Cardinality(p) # 1
    <3> DEFINE i == id(p)
               o == original(p)
    <3>1. of(p) = GroupStory(i, p, at, o, "completion")
      BY <2>2
    <3>2. i \in BundleIds
      BY <1>1, OldestIsOne DEF BundleIds
    <3>3. o \in BundleIds
      BY <1>1, <3>2, OriginalIsBundle DEF Projection
    <3>4. p \in SUBSET Articles /\ p # {}
      BY <1>1
    <3> DEFINE t == GroupStory(i, p, at, o, "completion")
    <3> HIDE DEF of, i, o, groups
    <3>5. /\ t \in Story /\ t.articles = p /\ t.primary \in p /\ t.at = at
          /\ t.original \in BundleIds
      BY <3>2, <3>3, <3>4, GroupStoryMade
    <3> HIDE DEF t
    <3>6. of(p) = t
      BY <3>1 DEF t
    <3> QED
      BY <3>5, <3>6
  <2> QED
    BY <2>1, <2>2
<1>3. Recomputed(at, corrections) = {of(p) : p \in groups}
  BY DEF Recomputed
<1> HIDE DEF of, groups
<1>4. MadeOf({of(p) : p \in groups}, at, Pairs(corrections))
  BY <1>2 DEF MadeOf, groups
<1> QED
  BY <1>3, <1>4

LEMMA EffectiveMade ==
  ASSUME NEW at \in Projection, NEW corrections \in SUBSET Correction
  PROVE  MadeOf(Effective(at, corrections), at, Pairs(corrections))
<1>1. CASE corrections # {}
  BY <1>1, RecomputedMade DEF Effective
<1>2. CASE corrections = {}
  <2> DEFINE groups == Groups(at.gen, {})
             name(p) == Generations[at.gen].name[p]
             of(p) == IF Cardinality(p) = 1 THEN SingleStory(Oldest(p))
                      ELSE GroupStory(name(p), p, at, name(p), "analysis")
  <2>1. Pairs(corrections) = {}
    BY <1>2 DEF Pairs
  <2>2. \A p \in groups : p \in SUBSET Articles /\ p # {}
    BY GroupsPart DEF Projection
  <2>3. \A p \in groups : /\ of(p) \in Story /\ of(p).articles = p /\ of(p).primary \in p
                          /\ of(p).at = None \/ (of(p).at = at /\ of(p).original \in BundleIds)
                          /\ Cardinality(p) # 1 => of(p).at = at
    <3> SUFFICES ASSUME NEW p \in groups
                 PROVE  /\ of(p) \in Story /\ of(p).articles = p /\ of(p).primary \in p
                        /\ of(p).at = None \/ (of(p).at = at /\ of(p).original \in BundleIds)
                        /\ Cardinality(p) # 1 => of(p).at = at
      OBVIOUS
    <3>1. CASE Cardinality(p) = 1
      <4>1. of(p) = SingleStory(Oldest(p))
        BY <3>1
      <4> QED
        BY <2>2, <3>1, <4>1, SingleStoryMade
    <3>2. CASE Cardinality(p) # 1
      <4>1. of(p) = GroupStory(name(p), p, at, name(p), "analysis")
        BY <3>2
      <4>2. name(p) \in BundleIds
        BY <3>2, StoredNames DEF Projection
      <4> HIDE DEF of, name
      <4> QED
        BY <2>2, <4>1, <4>2, GroupStoryMade
    <3> QED
      BY <3>1, <3>2
  <2>4. Effective(at, corrections) = {of(p) : p \in groups}
    BY <1>2 DEF Effective
  <2> HIDE DEF of, groups
  <2>5. MadeOf({of(p) : p \in groups}, at, {})
    BY <2>3 DEF MadeOf, groups
  <2> QED
    BY <2>1, <2>4, <2>5
<1> QED
  BY <1>1, <1>2

Here(w) == [gen |-> w.gen, rev |-> w.rev]

\* What the server makes of the newest projection is honest, and parts the articles.
LEMMA MadeHonest ==
  ASSUME NEW w \in Worlds, NEW stories, MadeOf(stories, Here(w), Pairs(w.active))
  PROVE  AllHonest(stories, w) /\ Disjoint(stories)
<1>1. Here(w) \in Projection /\ Here(w).gen = w.gen /\ Here(w).rev = w.rev
  BY DEF Worlds, Here, Projection
<1>2. Had(Here(w), w)
  BY <1>1 DEF Had, Worlds
<1>3. w.gen \in 1..Len(Generations) /\ Pairs(w.active) \in SUBSET ArticlePairs
  BY RejectedPairs DEF Worlds
<1>4. \A p \in Groups(w.gen, Pairs(w.active)) : \A c \in w.active : ~(c.pair \subseteq p)
  <2>1. \A c \in w.active : c.pair \in Pairs(w.active)
    BY DEF Pairs
  <2> QED
    BY <1>3, <2>1, GroupsPart
<1>5. AllHonest(stories, w)
  BY <1>1, <1>2, <1>4 DEF AllHonest, Honest, MadeOf
<1>6. Disjoint(stories)
  BY <1>1, <1>3, GroupsPart DEF Disjoint, MadeOf
<1> QED
  BY <1>5, <1>6

LEMMA PageServed ==
  ASSUME NEW w \in Worlds, NEW feed \in Feeds, NEW before \in Articles \cup {None}
  PROVE  HonestPage(FeedPage(feed, before, Here(w), w.active), w)
<1> DEFINE at == Here(w)
           stories == Effective(at, w.active)
           listed == {s \in Touching(stories, FeedArticles[feed]) :
                        before = None \/ Latest(s.articles) < before}
           later(s) == {t \in listed : Latest(t.articles) > Latest(s.articles)}
           items == {s \in listed : Cardinality(later(s)) < PageSize}
           next == IF items = listed THEN None ELSE Oldest({Latest(s.articles) : s \in items})
<1>1. at \in Projection /\ Had(at, w)
  BY DEF Worlds, Here, Projection, Had
<1>2. w.active \in SUBSET Correction
  BY DEF Worlds
<1>3. MadeOf(stories, at, Pairs(w.active))
  BY <1>1, <1>2, EffectiveMade
<1>4. AllHonest(stories, w) /\ Disjoint(stories)
  BY <1>3, MadeHonest
<1>5. items \subseteq listed /\ listed \subseteq stories
  BY DEF Touching
<1>6. \A s \in listed : Latest(s.articles) \in Articles
  <2> SUFFICES ASSUME NEW s \in listed
               PROVE  Latest(s.articles) \in Articles
    OBVIOUS
  <2>1. s \in Story /\ s.primary \in s.articles
    BY <1>3, <1>5 DEF MadeOf
  <2>2. s.articles \in SUBSET Articles /\ s.articles # {}
    BY <2>1 DEF Story
  <2> QED
    BY <2>2, LatestIsOne
<1>7. items # listed => items # {}
  <2> SUFFICES ASSUME listed # {}
               PROVE  items # {}
    BY <1>5
  <2> DEFINE newest == {Latest(s.articles) : s \in listed}
  <2>1. newest \in SUBSET Articles /\ newest # {}
    BY <1>6
  <2>2. PICK m \in newest : \A b \in newest : m >= b
    <3> HIDE DEF newest
    <3> QED
      BY <2>1, LatestIsOne
  <2>3. PICK s \in listed : m = Latest(s.articles)
    BY <2>2
  <2>4. later(s) = {}
    <3>1. \A t \in listed : Latest(s.articles) >= Latest(t.articles)
      BY <2>2, <2>3
    <3>2. \A t \in listed : Latest(t.articles) \in Nat
      BY <1>6, ProjectionAssumption
    <3> HIDE DEF listed
    <3> QED
      BY <3>1, <3>2
  <2>5. Cardinality(later(s)) < PageSize
    <3>1. PageSize \in Nat /\ PageSize > 0
      BY ProjectionAssumption
    <3>2. Cardinality(later(s)) = 0
      BY <2>4, FS_EmptySet
    <3> HIDE DEF later
    <3> QED
      BY <3>1, <3>2
  <2> QED
    BY <2>3, <2>5
<1>8. next \in Articles \cup {None}
  <2> DEFINE firsts == {Latest(s.articles) : s \in items}
  <2>1. CASE items = listed
    BY <2>1
  <2>2. CASE items # listed
    <3>1. firsts \in SUBSET Articles /\ firsts # {}
      BY <1>5, <1>6, <1>7, <2>2
    <3>2. Oldest(firsts) \in Articles
      <4> HIDE DEF firsts
      <4> QED
        BY <3>1, OldestIsOne
    <3>3. next = Oldest(firsts)
      BY <2>2
    <3> QED
      BY <3>2, <3>3
  <2> QED
    BY <2>1, <2>2
<1>9. FeedPage(feed, before, at, w.active) = [items |-> items, next |-> next, at |-> at]
  BY DEF FeedPage
<1> HIDE DEF items, next, at
<1>10. items \subseteq Story
  BY <1>4, <1>5 DEF AllHonest, Honest
<1>11. [items |-> items, next |-> next, at |-> at] \in Page
  BY <1>1, <1>8, <1>10 DEF Page
<1> HIDE DEF listed, stories
<1>12. AllHonest(items, w) /\ Disjoint(items)
  BY <1>4, <1>5 DEF AllHonest, Disjoint
<1>13. HonestPage([items |-> items, next |-> next, at |-> at], w)
  BY <1>1, <1>11, <1>12 DEF HonestPage
<1> QED
  BY <1>9, <1>13 DEF at

-----------------------------------------------------------------------------
(* A later world *)

LEMMA LaterHonest ==
  ASSUME NEW w \in Worlds, NEW v \in Worlds, Later(w, v), NEW t, Honest(t, w)
  PROVE  Honest(t, v)
<1>1. CASE t.at = None
  BY <1>1 DEF Honest
<1>2. CASE t.at # None
  <2>1. t.at \in Projection
    BY <1>2 DEF Honest, Story
  <2>2. Had(t.at, v)
    BY <1>2, <2>1 DEF Honest, Had, Later, Worlds, Projection
  <2>3. v.mixed \/ t.at.rev < v.rev \/ \A c \in v.active : ~(c.pair \subseteq t.articles)
    <3>1. t.at.rev \in Nat /\ w.rev \in Nat /\ v.rev \in Nat
      BY <2>1 DEF Projection, Worlds
    <3>2. w.mixed \/ t.at.rev < w.rev \/ \A c \in w.active : ~(c.pair \subseteq t.articles)
      BY <1>2 DEF Honest
    <3>3. t.at.rev <= w.rev
      BY <1>2 DEF Honest, Had
    <3> QED
      BY <3>1, <3>2, <3>3 DEF Later
  <2> QED
    BY <1>2, <2>2, <2>3 DEF Honest
<1> QED
  BY <1>1, <1>2

LEMMA LaterLimit ==
  ASSUME NEW w \in Worlds, NEW v \in Worlds, Later(w, v)
  PROVE  Limit(w) \in Nat /\ Limit(v) \in Nat /\ Limit(w) <= Limit(v)
BY DEF Worlds, Later, Limit

LEMMA LaterPage ==
  ASSUME NEW w \in Worlds, NEW v \in Worlds, Later(w, v), NEW a, HonestPage(a, w)
  PROVE  HonestPage(a, v)
<1>1. AllHonest(a.items, v)
  BY LaterHonest DEF HonestPage, AllHonest
<1>2. Had(a.at, v)
  <2>1. a.at \in Projection
    BY DEF HonestPage, Page
  <2> QED
    BY <2>1 DEF HonestPage, Had, Later, Worlds, Projection
<1> QED
  BY <1>1, <1>2 DEF HonestPage

LEMMA LaterPageOK ==
  ASSUME NEW w \in Worlds, NEW v \in Worlds, Later(w, v), NEW p, PageOK(p, w)
  PROVE  PageOK(p, v)
<1>1. AllHonest(p.stories, v)
  BY LaterHonest DEF PageOK, AllHonest
<1>2. p.proj \in Projection => p.proj.gen <= v.gen /\ p.proj.rev <= Limit(v)
  <2> SUFFICES ASSUME p.proj \in Projection
               PROVE  p.proj.gen <= v.gen /\ p.proj.rev <= Limit(v)
    OBVIOUS
  <2>1. p.proj.gen <= w.gen /\ p.proj.rev <= Limit(w)
    BY DEF PageOK
  <2>2. p.proj.gen <= v.gen
    BY <2>1 DEF Later, Worlds, Projection
  <2>3. p.proj.rev <= Limit(v)
    BY <2>1, LaterLimit DEF Projection
  <2> QED
    BY <2>2, <2>3
<1> QED
  BY <1>1, <1>2 DEF PageOK

LEMMA LaterRead ==
  ASSUME NEW w \in Worlds, NEW v \in Worlds, Later(w, v), NEW p, NEW r, ReadOK(r, p, w)
  PROVE  ReadOK(r, p, v)
BY LaterPage DEF ReadOK

LEMMA LaterDialog ==
  ASSUME NEW w \in Worlds, NEW v \in Worlds, Later(w, v), NEW d, DialogOK(d, w)
  PROVE  DialogOK(d, v)
BY LaterHonest DEF DialogOK

LEMMA LaterSplit ==
  ASSUME NEW w \in Worlds, NEW v \in Worlds, Later(w, v), NEW s, SplitOK(s, w)
  PROVE  SplitOK(s, v)
<1>1. AskedOK(s, v)
  BY LaterHonest DEF SplitOK, AskedOK, AllHonest
<1>2. s.stage \in {"done", "conflict", "reload", "reloaded"} => AllHonest(s.answer.stories, v)
  BY LaterHonest DEF SplitOK, AllHonest
<1>3. s.stage = "reloaded" => HonestPage(s.answer.page, v)
  BY LaterPage DEF SplitOK
<1>4. s.card.at.rev < Limit(w) => s.card.at.rev < Limit(v)
  <2>1. s.card.at.rev \in Nat
    BY DEF SplitOK, AskedOK, Honest, Story, Projection
  <2> QED
    BY <2>1, LaterLimit
<1> QED
  BY <1>1, <1>2, <1>3, <1>4 DEF SplitOK

LEMMA LaterUndo ==
  ASSUME NEW w \in Worlds, NEW v \in Worlds, Later(w, v), NEW u, UndoOK(u, w)
  PROVE  UndoOK(u, v)
<1> SUFFICES ASSUME u # None
             PROVE  UndoOK(u, v)
  BY DEF UndoOK
<1>1. u \in Undo
  BY DEF UndoOK
<1>2. u.proj.gen <= v.gen /\ u.rev <= Limit(v)
  <2>1. u.proj.gen \in Nat /\ u.rev \in Nat
    BY <1>1 DEF Undo, Projection
  <2>2. u.proj.gen <= w.gen /\ u.rev <= Limit(w)
    BY DEF UndoOK
  <2> QED
    BY <2>1, <2>2, LaterLimit DEF Later, Worlds
<1>3. AllHonest(u.stories, v)
  BY LaterHonest DEF UndoOK, AllHonest
<1>4. ASSUME u.stage = "answered"
      PROVE  /\ AllHonest(u.answer.stories, v)
             /\ \E at \in [gen : 1..v.gen, rev : 0..v.rev] : AnswerOf(u, at, v)
  <2>1. PICK at \in [gen : 1..w.gen, rev : 0..w.rev] : AnswerOf(u, at, w)
    BY <1>4 DEF UndoOK
  <2>2. /\ at.gen \in Nat /\ at.rev \in Nat /\ at.gen <= w.gen /\ at.rev <= w.rev
        /\ at \in [gen : 1..v.gen, rev : 0..v.rev]
    BY <2>1 DEF Later, Worlds
  <2>3. u.rev < (IF v.mixed THEN at.rev + 1 ELSE at.rev)
    <3>1. u.rev \in Nat
      BY <1>1 DEF Undo
    <3> QED
      BY <2>1, <2>2, <3>1 DEF AnswerOf, Later
  <2>4. at.gen = v.gen /\ at.rev = v.rev =>
          /\ at.gen = w.gen /\ at.rev = w.rev /\ w.active = v.active
    BY <2>2 DEF Later, Worlds
  <2>5. AnswerOf(u, at, v)
    BY <2>1, <2>3, <2>4 DEF AnswerOf
  <2>6. AllHonest(u.answer.stories, v)
    BY <1>4, LaterHonest DEF UndoOK, AllHonest
  <2> QED
    BY <2>2, <2>5, <2>6
<1> QED
  BY <1>1, <1>2, <1>3, <1>4 DEF UndoOK

-----------------------------------------------------------------------------
(* What the page makes of an answer *)

\* A story that gains articles is honest, for the world remembers the mixture.
LEMMA MergedHonest ==
  ASSUME NEW w \in Worlds, NEW v \in Worlds, Later(w, v), NEW stories, NEW more,
         AllHonest(stories, w), AllHonest(more, w), Mixes(stories, more) => v.mixed
  PROVE  AllHonest(Merged(stories, more), v)
<1> SUFFICES ASSUME NEW t \in Merged(stories, more)
             PROVE  Honest(t, v)
  BY DEF AllHonest
<1>1. CASE t \in stories
  BY <1>1, LaterHonest DEF AllHonest
<1>2. ASSUME NEW m \in more, ~(\E s \in stories : s.id = m.id), t = m
      PROVE  Honest(t, v)
  BY <1>2, LaterHonest DEF AllHonest
<1>3. ASSUME NEW m \in more, \E s \in stories : s.id = m.id,
             t = LET s == CHOOSE x \in stories : x.id = m.id
                 IN [s EXCEPT !.articles = @ \cup m.articles]
      PROVE  Honest(t, v)
  <2> DEFINE s == CHOOSE x \in stories : x.id = m.id
  <2>1. s \in stories /\ s.id = m.id
    BY <1>3
  <2>2. t = [s EXCEPT !.articles = @ \cup m.articles]
    BY <1>3
  <2> HIDE DEF s
  <2>3. Honest(s, w) /\ Honest(m, w)
    BY <2>1 DEF AllHonest
  <2>4. Honest(s, v)
    BY <2>3, LaterHonest
  <2>5. s \in Story /\ m.articles \subseteq Articles /\ s.primary \in s.articles
    BY <2>3 DEF Honest, Story
  <2>6. t \in Story /\ t.primary \in t.articles
    BY <2>2, <2>5 DEF Story
  <2>7. t.at = s.at /\ t.original = s.original /\ t.articles = s.articles \cup m.articles
    BY <2>2, <2>5 DEF Story
  <2>8. v.mixed \/ t.articles = s.articles
    BY <2>1, <2>7 DEF Mixes
  <2> QED
    BY <2>4, <2>6, <2>7, <2>8 DEF Honest
<1> QED
  BY <1>1, <1>2, <1>3 DEF Merged

LEMMA ReplacedHonest ==
  ASSUME NEW w, NEW stories, NEW answer, AllHonest(stories, w), AllHonest(answer.stories, w)
  PROVE  AllHonest(Replaced(stories, answer), w)
BY DEF Replaced, AllHonest

LEMMA RevisionCounted ==
  ASSUME NEW w \in Worlds, NEW answer, AllHonest(answer.stories, w), NEW expected \in Nat,
         Ungrouped(answer.stories) => expected < Limit(w)
  PROVE  RevisionAfter(answer, expected) \in Nat /\ RevisionAfter(answer, expected) <= Limit(w)
<1>1. Limit(w) \in Nat /\ w.rev <= Limit(w)
  BY DEF Limit, Worlds
<1>2. CASE Ungrouped(answer.stories)
  <2>1. RevisionAfter(answer, expected) = expected + 1
    BY <1>2 DEF RevisionAfter, Ungrouped
  <2> QED
    BY <1>1, <1>2, <2>1
<1>3. CASE ~Ungrouped(answer.stories)
  <2> DEFINE t == CHOOSE x \in answer.stories : x.at # None
  <2>1. t \in answer.stories /\ t.at # None
    BY <1>3 DEF Ungrouped
  <2>2. RevisionAfter(answer, expected) = t.at.rev
    BY <1>3 DEF RevisionAfter, Ungrouped
  <2> HIDE DEF t
  <2>3. t.at \in Projection /\ t.at.rev <= w.rev
    BY <2>1 DEF AllHonest, Honest, Had, Story
  <2> QED
    BY <1>1, <2>2, <2>3 DEF Projection, Worlds
<1> QED
  BY <1>2, <1>3

LEMMA ReconciledHonest ==
  ASSUME NEW w, NEW s, AllHonest(s.stories, w), AllHonest(s.answer.page.items, w),
         AllHonest(s.answer.stories, w)
  PROVE  AllHonest(Reconciled(s), w)
BY DEF Reconciled, AllHonest, Touching

LEMMA ReconciledDisjoint ==
  ASSUME NEW s, Disjoint(s.stories), Disjoint(s.answer.page.items), Disjoint(s.answer.stories)
  PROVE  Disjoint(Reconciled(s))
<1> DEFINE items == s.answer.page.items
           paged == UNION {t.articles : t \in items}
           rest == {t \in s.stories : t.articles \cap paged = {} /\ t.id # s.card.id}
           overlaid == {t \in rest : \A i \in items : i.id # t.id} \cup items
           wanted == {t \in Touching(s.answer.stories, s.card.articles) :
                        t.articles \cap paged = {}}
           taken == UNION {t.articles : t \in wanted}
           left == {t \in overlaid : t.articles \cap taken = {} /\ \A w \in wanted : w.id # t.id}
<1>1. Reconciled(s) = left \cup wanted
  BY DEF Reconciled
<1>2. \A t \in rest, i \in items : t.articles \cap i.articles = {}
  OBVIOUS
<1>3. \A t, u \in rest : t # u => t.articles \cap u.articles = {}
  BY DEF Disjoint
<1>4. \A t, u \in overlaid : t # u => t.articles \cap u.articles = {}
  <2>1. overlaid \subseteq rest \cup items
    OBVIOUS
  <2> HIDE DEF items, rest, overlaid
  <2>2. \A t, u \in items : t # u => t.articles \cap u.articles = {}
    BY DEF Disjoint, items
  <2> QED
    BY <1>2, <1>3, <2>1, <2>2
<1>5. \A t \in left, u \in wanted : t.articles \cap u.articles = {}
  OBVIOUS
<1>6. \A t, u \in wanted : t # u => t.articles \cap u.articles = {}
  BY DEF Disjoint, Touching
<1>7. left \subseteq overlaid
  OBVIOUS
<1> HIDE DEF items, paged, rest, overlaid, wanted, taken, left
<1> QED
  BY <1>1, <1>4, <1>5, <1>6, <1>7 DEF Disjoint

-----------------------------------------------------------------------------
(* A render *)

\* Nobody waits for the splits that were abandoned.
LEMMA AbandonedSplits ==
  ASSUME NEW w, NEW requests, \A s \in requests : SplitOK(s, w)
  PROVE  \A s \in Abandoned(requests) : SplitOK(s, w) /\ ~s.live
<1> SUFFICES ASSUME NEW u \in requests, u.stage = "asked", NEW s, s = [u EXCEPT !.live = FALSE]
             PROVE  SplitOK(s, w) /\ ~s.live
  BY DEF Abandoned
<1>1. u \in Split /\ SplitOK(u, w)
  BY DEF SplitOK, AskedOK
<1>2. s \in Split /\ ~s.live /\ s.stage = "asked"
  BY <1>1 DEF Split
<1>3. /\ s.card = u.card /\ s.stories = u.stories /\ s.anchor = u.anchor
      /\ s.rejected = u.rejected
  BY <1>1 DEF Split
<1>4. AskedOK(s, w)
  BY <1>1, <1>2, <1>3 DEF SplitOK, AskedOK
<1> QED
  BY <1>2, <1>4 DEF SplitOK

\* What a render leaves of a correction is of the context it shows.
LEMMA RenderKeeps ==
  ASSUME NEW w, NEW p, NEW d, NEW busy, NEW requests, NEW t,
         DialogOK(d, w), \A s \in requests : SplitOK(s, w), Waiting(requests, d, busy), ToastOK(t),
         Render(p, d, busy, requests, t)
  PROVE  /\ page' = p
         /\ DialogOK(dialog', w) /\ (dialog' # None => InContext(dialog', p))
         /\ \A s \in splits' : SplitOK(s, w)
         /\ Waiting(splits', dialog', pending')
         /\ ToastOK(toast') /\ (toast' # None => InContext(toast', p))
<1> DEFINE stale == d # None /\ ~InContext(d, p)
<1>1. /\ page' = p
      /\ dialog' = (IF stale THEN None ELSE d)
      /\ pending' = (busy /\ ~stale)
      /\ splits' = (IF stale THEN Abandoned(requests) ELSE requests)
      /\ toast' = (IF t # None /\ ~InContext(t, p) THEN None ELSE t)
  BY DEF Render
<1>2. ToastOK(toast') /\ (toast' # None => InContext(toast', p))
  BY <1>1 DEF ToastOK
<1>3. DialogOK(dialog', w) /\ (dialog' # None => InContext(dialog', p))
  BY <1>1 DEF DialogOK
<1>4. CASE stale
  <2>1. \A s \in splits' : SplitOK(s, w) /\ ~s.live
    BY <1>1, <1>4, AbandonedSplits
  <2>2. pending' \in BOOLEAN
    BY <1>1
  <2>3. Waiting(splits', dialog', pending')
    BY <2>1, <2>2 DEF Waiting
  <2> QED
    BY <1>1, <1>2, <1>3, <2>1, <2>3
<1>5. CASE ~stale
  <2>1. splits' = requests /\ dialog' = d
    BY <1>1, <1>5
  <2>2. pending' \in BOOLEAN /\ (busy => pending')
    BY <1>1, <1>5 DEF Waiting
  <2>3. Waiting(splits', dialog', pending')
    BY <2>1, <2>2 DEF Waiting
  <2> QED
    BY <1>1, <1>2, <1>3, <2>1, <2>3
<1> QED
  BY <1>4, <1>5

-----------------------------------------------------------------------------
(* Initial states, and what a step keeps *)

LEMMA ServedPageHonest ==
  ASSUME World \in Worlds, NEW feed \in Feeds, NEW before \in Articles \cup {None}
  PROVE  HonestPage(ServedPage(feed, before), World)
<1>1. HonestPage(FeedPage(feed, before, Here(World), World.active), World)
  BY PageServed
<1>2. Here(World) = Now /\ World.active = active
  BY DEF Here, World, Now
<1> QED
  BY <1>1, <1>2 DEF ServedPage

\* A page of a feed as it was answered.
LEMMA ShownPage ==
  ASSUME NEW w \in Worlds, NEW a, HonestPage(a, w),
         NEW p \in PageState, p.stories = a.items, p.proj = a.at
  PROVE  PageOK(p, w)
<1>1. a.at \in Projection
  BY DEF HonestPage, Page
<1>2. a.at.rev <= Limit(w)
  BY <1>1 DEF HonestPage, Had, Limit, Worlds, Projection
<1> QED
  BY <1>1, <1>2 DEF PageOK, HonestPage, Had

LEMMA BlankPage ==
  ASSUME NEW w, NEW p \in PageState, p.stories = {}, p.proj = None
  PROVE  PageOK(p, w)
BY FeedAssumption DEF PageOK, AllHonest

LEMMA InitInv == Init => IInv
<1> SUFFICES ASSUME Init
             PROVE  IInv
  OBVIOUS
<1>1. /\ generation = 1 /\ revision = 0 /\ active = Corrected /\ failures = 0
      /\ dialog = None /\ pending = FALSE /\ splits = {} /\ toast = None /\ undo = None
      /\ saved = ServedPage(Default, None)
      /\ loading = (Start # Default) /\ loadingMore = FALSE
  BY DEF Init
<1>2. page.mixed = FALSE
  BY DEF Init, Show, Blank
<1>3. World \in Worlds
  <2>1. generation \in 1..Len(Generations) /\ revision \in Nat /\ active \subseteq Correction
    BY <1>1, FeedAssumption
  <2> QED
    BY <1>2, <2>1 DEF World, Worlds
<1>4. HonestPage(saved, World)
  BY <1>1, <1>3, ServedPageHonest, FeedAssumption
<1>5. PageOK(page, World) /\ \A r \in reads : ReadOK(r, page, World)
  <2>1. Default \in Feeds /\ Start \in Feeds
    BY FeedAssumption
  <2>2. CASE Start = Default
    <3>1. /\ page = [feed |-> Default, stories |-> saved.items, next |-> saved.next,
                     proj |-> saved.at, older |-> FALSE, mixed |-> FALSE]
          /\ reads = {}
      BY <2>2 DEF Init, Show
    <3>2. saved \in Page
      BY <1>4 DEF HonestPage
    <3>3. page \in PageState /\ page.stories = saved.items /\ page.proj = saved.at
      BY <2>1, <3>1, <3>2 DEF PageState, Page
    <3> QED
      BY <1>3, <1>4, <3>1, <3>3, ShownPage
  <2>3. CASE Start # Default
    <3>1. /\ page = [feed |-> Start, stories |-> {}, next |-> None, proj |-> None,
                     older |-> FALSE, mixed |-> FALSE]
          /\ reads = {Read("feed", Start, None)}
      BY <2>3 DEF Init, Blank
    <3>2. page \in PageState /\ page.feed = Start /\ page.stories = {} /\ page.proj = None
      BY <2>1, <3>1 DEF PageState
    <3>3. PageOK(page, World)
      BY <3>2, BlankPage
    <3>4. ReadOK(Read("feed", Start, None), page, World)
      BY <2>1, <3>2 DEF ReadOK, Read, Request
    <3> QED
      BY <3>1, <3>3, <3>4
  <2> QED
    BY <2>2, <2>3
<1>6. Waiting(splits, dialog, pending)
  BY <1>1 DEF Waiting
<1>7. MaxRevision \in Nat /\ MaxFailures \in Nat
  BY FeedAssumption
<1>8. DialogOK(dialog, World) /\ ToastOK(toast) /\ UndoOK(undo, World)
  BY <1>1 DEF DialogOK, ToastOK, UndoOK
<1>9. {loading, loadingMore} \subseteq BOOLEAN
  BY <1>1
<1>10. revision <= MaxRevision /\ failures \in 0..MaxFailures
  BY <1>1, <1>7
<1> QED
  BY <1>1, <1>3, <1>4, <1>5, <1>6, <1>8, <1>9, <1>10 DEF IInv

\* Everything a step leaves as it is, in the later world.
LEMMA KeptLater ==
  ASSUME IInv, NEW v \in Worlds, Later(World, v)
  PROVE  /\ PageOK(page, v) /\ HonestPage(saved, v)
         /\ \A r \in reads : ReadOK(r, page, v)
         /\ DialogOK(dialog, v)
         /\ \A s \in splits : SplitOK(s, v)
         /\ UndoOK(undo, v)
<1>1. World \in Worlds
  BY DEF IInv
<1>2. PageOK(page, v) /\ HonestPage(saved, v)
  BY <1>1, LaterPageOK, LaterPage DEF IInv
<1>3. \A r \in reads : ReadOK(r, page, v)
  BY <1>1, LaterRead DEF IInv
<1>4. DialogOK(dialog, v)
  BY <1>1, LaterDialog DEF IInv
<1>5. \A s \in splits : SplitOK(s, v)
  BY <1>1, LaterSplit DEF IInv
<1>6. UndoOK(undo, v)
  BY <1>1, LaterUndo DEF IInv
<1> QED
  BY <1>2, <1>3, <1>4, <1>5, <1>6

LEMMA SameWorld ==
  ASSUME IInv, UNCHANGED serverVars, page'.mixed = page.mixed
  PROVE  World' = World
BY DEF World, serverVars

LEMMA CommittedWorld ==
  ASSUME IInv, NEW corrections \in SUBSET Correction, Commit(corrections), UNCHANGED page
  PROVE  /\ World' \in Worlds /\ Later(World, World') /\ revision' <= MaxRevision
         /\ revision' = revision + 1 /\ active' = corrections /\ generation' = generation
         /\ World' = [gen |-> generation, rev |-> revision + 1, active |-> corrections,
                      mixed |-> page.mixed]
<1>1. World \in Worlds /\ generation \in 1..Len(Generations) /\ revision \in Nat
      /\ page.mixed \in BOOLEAN
  BY DEF IInv, World, Worlds
<1>2. revision' = revision + 1 /\ active' = corrections /\ generation' = generation
      /\ revision < MaxRevision
  BY DEF Commit
<1>3. World' = [gen |-> generation, rev |-> revision + 1, active |-> corrections,
                mixed |-> page.mixed]
  BY <1>2 DEF World
<1>4. World' \in Worlds
  BY <1>1, <1>3 DEF Worlds
<1>5. Later(World, World')
  BY <1>1, <1>3 DEF Later, World
<1> QED
  BY <1>1, <1>2, <1>3, <1>4, <1>5, FeedAssumption

-----------------------------------------------------------------------------
(* The server moves on *)

LEMMA ServerMoves ==
  ASSUME IInv, World' \in Worlds, Later(World, World'), revision' <= MaxRevision,
         UNCHANGED <<page, saved, reads, loading, loadingMore, correctionVars, undo, failures>>
  PROVE  IInv'
<1>1. /\ page' = page /\ saved' = saved /\ reads' = reads /\ dialog' = dialog
      /\ pending' = pending /\ splits' = splits /\ toast' = toast /\ undo' = undo
      /\ loading' = loading /\ loadingMore' = loadingMore /\ failures' = failures
  BY DEF correctionVars
<1>2. /\ PageOK(page, World') /\ HonestPage(saved, World')
      /\ \A r \in reads : ReadOK(r, page, World')
      /\ DialogOK(dialog, World')
      /\ \A s \in splits : SplitOK(s, World')
      /\ UndoOK(undo, World')
  BY KeptLater
<1> QED
  BY <1>1, <1>2 DEF IInv

LEMMA PublishStep ==
  ASSUME IInv, Publish
  PROVE  IInv'
<1>1. /\ generation' = generation + 1 /\ generation' \in 1..Len(Generations)
      /\ revision' = revision /\ active' = active
      /\ UNCHANGED <<page, saved, reads, loading, loadingMore, correctionVars, undo, failures>>
  BY FeedAssumption DEF Publish, IInv, World, Worlds
<1>2. World \in Worlds /\ revision <= MaxRevision
  BY DEF IInv
<1>3. World' = [World EXCEPT !.gen = generation + 1]
  BY <1>1 DEF World
<1>4. World' \in Worlds /\ Later(World, World')
  BY <1>1, <1>2, <1>3 DEF World, Worlds, Later
<1> QED
  BY <1>1, <1>2, <1>4, ServerMoves

\* A story of two articles carries the projection and its original bundle.
LEMMA GroupCarries ==
  ASSUME NEW at \in Projection, NEW corrections \in SUBSET Correction,
         NEW t \in Recomputed(at, corrections), NEW a \in t.articles, NEW b \in t.articles, a # b
  PROVE  t.at = at /\ t.original \in BundleIds
<1>1. /\ t \in Story
      /\ t.at = None \/ (t.at = at /\ t.original \in BundleIds)
      /\ Cardinality(t.articles) # 1 => t.at = at
  BY RecomputedMade DEF MadeOf
<1>2. Cardinality(t.articles) # 1
  <2> SUFFICES ASSUME Cardinality(t.articles) = 1
               PROVE  FALSE
    OBVIOUS
  <2>1. t.articles \in SUBSET Articles
    BY <1>1, RecomputedMade DEF MadeOf, Story
  <2>2. t.articles = {Oldest(t.articles)}
    BY <2>1, OneArticle
  <2> QED
    BY <2>2
<1> QED
  BY <1>1, <1>2, FeedAssumption

LEMMA NowIsProjection ==
  ASSUME IInv
  PROVE  /\ Now \in Projection /\ Now = Here(World) /\ active \in SUBSET Correction
         /\ World \in Worlds /\ generation \in 1..Len(Generations) /\ revision \in Nat
         /\ World.gen = generation /\ World.rev = revision /\ World.active = active
BY DEF IInv, World, Worlds, Now, Projection, Here

LEMMA OtherTabStep ==
  ASSUME IInv, OtherTab
  PROVE  IInv'
<1>1. UNCHANGED <<page, saved, reads, loading, loadingMore, correctionVars, undo, failures>>
  BY DEF OtherTab
<1>2. page' = page
  BY <1>1
<1>3. ASSUME NEW corrections \in SUBSET Correction, Commit(corrections)
      PROVE  IInv'
  BY <1>1, <1>2, <1>3, CommittedWorld, ServerMoves
<1>4. ASSUME NEW s \in Recomputed(Now, active), NEW x \in s.articles \ {s.primary},
             Commit(active \cup {[pair |-> {s.primary, x}, original |-> s.original,
                                  made |-> revision + 1]})
      PROVE  IInv'
  <2>1. s \in Story /\ s.primary \in s.articles
    BY NowIsProjection, RecomputedMade DEF MadeOf
  <2>2. s.original \in BundleIds
    BY <2>1, GroupCarries, NowIsProjection
  <2>3. {s.primary, x} \in ArticlePairs
    BY <2>1 DEF Story, ArticlePairs
  <2>4. [pair |-> {s.primary, x}, original |-> s.original, made |-> revision + 1] \in Correction
    BY <2>2, <2>3, NowIsProjection DEF Correction
  <2> QED
    BY <1>3, <1>4, <2>4, NowIsProjection
<1>5. ASSUME NEW c \in active, Commit(active \ {c})
      PROVE  IInv'
  BY <1>3, <1>5, NowIsProjection
<1> QED
  BY <1>4, <1>5 DEF OtherTab

-----------------------------------------------------------------------------
(* Pages asked for and answered *)

\* A page that is drawn anew takes the corrections of another context with it.
LEMMA RedrawKeeps ==
  ASSUME IInv, NEW p, NEW w \in Worlds, Later(World, w), Redraw(p)
  PROVE  /\ page' = p
         /\ DialogOK(dialog', w) /\ (dialog' # None => InContext(dialog', p))
         /\ \A s \in splits' : SplitOK(s, w)
         /\ Waiting(splits', dialog', pending')
         /\ ToastOK(toast') /\ (toast' # None => InContext(toast', p))
<1>1. DialogOK(dialog, w) /\ \A s \in splits : SplitOK(s, w)
  BY KeptLater
<1>2. Waiting(splits, dialog, pending) /\ ToastOK(toast)
  BY DEF IInv
<1>3. Render(p, dialog, pending, splits, toast)
  BY DEF Redraw
<1> QED
  BY <1>1, <1>2, <1>3, RenderKeeps

LEMMA FeedStep ==
  ASSUME IInv, NEW feed \in Feeds, NEW kept, HonestPage(kept, World),
         NEW requests \in SUBSET reads, Feed(feed, kept, requests),
         HonestPage(saved', World), UNCHANGED <<serverVars, undo, failures>>
  PROVE  IInv'
<1>1. /\ World \in Worlds /\ page.mixed \in BOOLEAN /\ kept \in Page
      /\ \A r \in reads : ReadOK(r, page, World)
  BY DEF IInv, World, Worlds, HonestPage
<1>2. loading' \in BOOLEAN /\ loadingMore' = FALSE
  BY DEF Feed
<1>3. ASSUME NEW p, Redraw(p), PageOK(p, World), p.mixed = page.mixed,
             \A r \in reads' : ReadOK(r, p, World)
      PROVE  IInv'
  <2>1. Later(World, World)
    BY <1>1 DEF Later, Worlds
  <2>2. /\ page' = p
        /\ DialogOK(dialog', World) /\ (dialog' # None => InContext(dialog', p))
        /\ \A s \in splits' : SplitOK(s, World)
        /\ Waiting(splits', dialog', pending')
        /\ ToastOK(toast') /\ (toast' # None => InContext(toast', p))
    BY <1>1, <1>3, <2>1, RedrawKeeps
  <2>3. World' = World /\ undo' = undo /\ revision' = revision /\ failures' = failures
    BY <1>3, <2>2, SameWorld DEF serverVars
  <2> QED
    BY <1>1, <1>2, <1>3, <2>2, <2>3 DEF IInv
<1>4. CASE feed = Default
  <2> DEFINE p == [Show(Default, kept) EXCEPT !.mixed = page.mixed]
  <2>1. Redraw(p) /\ reads' = Except(requests, {"feed"}) /\ loading' = FALSE
    BY <1>4 DEF Feed
  <2>2. p.mixed = page.mixed
    BY DEF Show
  <2>3. p \in PageState /\ p.stories = kept.items /\ p.proj = kept.at
    BY <1>1, <1>4 DEF Show, PageState, Page
  <2> HIDE DEF p
  <2>4. PageOK(p, World)
    BY <1>1, <2>3, ShownPage
  <2>5. \A r \in reads' : ReadOK(r, p, World)
    BY <1>1, <2>1 DEF Except, ReadOK
  <2> QED
    BY <1>3, <2>1, <2>2, <2>4, <2>5
<1>5. CASE feed # Default
  <2> DEFINE p == [Blank(feed) EXCEPT !.mixed = page.mixed]
  <2>1. /\ Redraw(p) /\ loading' = TRUE
        /\ reads' = Except(requests, {"feed", "more"}) \cup {Read("feed", feed, None)}
    BY <1>5 DEF Feed
  <2>2. p.mixed = page.mixed
    BY DEF Blank
  <2>3. p \in PageState /\ p.feed = feed /\ p.stories = {} /\ p.proj = None
    BY <1>1 DEF Blank, PageState
  <2> HIDE DEF p
  <2>4. PageOK(p, World)
    BY <2>3, BlankPage
  <2>5. \A r \in Except(requests, {"feed", "more"}) : ReadOK(r, p, World)
    BY <1>1 DEF Except, ReadOK
  <2>6. ReadOK(Read("feed", feed, None), p, World)
    BY <2>3 DEF Read, ReadOK, Request
  <2> QED
    BY <1>3, <2>1, <2>2, <2>4, <2>5, <2>6
<1> QED
  BY <1>4, <1>5

LEMMA SwitchFeedStep ==
  ASSUME IInv, NEW feed \in Feeds, SwitchFeed(feed)
  PROVE  IInv'
<1>1. HonestPage(saved, World) /\ reads \in SUBSET reads
  BY DEF IInv
<1>2. /\ Feed(feed, saved, reads) /\ saved' = saved
      /\ UNCHANGED <<serverVars, undo, failures>>
  BY DEF SwitchFeed
<1> QED
  BY <1>1, <1>2, FeedStep

\* What a step on requests alone has to show.
LEMMA ReadsStep ==
  ASSUME IInv, UNCHANGED <<serverVars, page, saved, correctionVars, undo>>,
         \A r \in reads' : ReadOK(r, page, World),
         {loading', loadingMore'} \subseteq BOOLEAN, failures' \in 0..MaxFailures
  PROVE  IInv'
<1>1. /\ page' = page /\ saved' = saved /\ dialog' = dialog /\ revision' = revision
      /\ pending' = pending /\ splits' = splits /\ toast' = toast /\ undo' = undo
  BY DEF correctionVars, serverVars
<1>2. World' = World
  BY <1>1, SameWorld
<1> QED
  BY <1>1, <1>2 DEF IInv

LEMMA RefreshedOK ==
  ASSUME IInv
  PROVE  \A r \in Refreshed(reads) : ReadOK(r, page, World)
<1>1. Default \in Feeds
  BY FeedAssumption
<1>2. ReadOK(Read("refresh", Default, None), page, World)
  BY <1>1 DEF ReadOK, Read, Request
<1> QED
  BY <1>2 DEF Refreshed, IInv

LEMMA RefreshStep ==
  ASSUME IInv, Refresh
  PROVE  IInv'
<1>1. /\ reads' = Refreshed(reads) /\ loading' = loading /\ loadingMore' = loadingMore
      /\ failures' = failures /\ UNCHANGED <<serverVars, page, saved, correctionVars, undo>>
  BY DEF Refresh
<1>2. {loading', loadingMore'} \subseteq BOOLEAN /\ failures' \in 0..MaxFailures
  BY <1>1 DEF IInv
<1> QED
  BY <1>1, <1>2, RefreshedOK, ReadsStep

LEMMA LoadMoreStep ==
  ASSUME IInv, LoadMore
  PROVE  IInv'
<1>1. /\ reads' = Except(reads, {"more"}) \cup {Read("more", page.feed, page.next)}
      /\ loading' = loading /\ loadingMore' = TRUE
      /\ failures' = failures /\ UNCHANGED <<serverVars, page, saved, correctionVars, undo>>
  BY DEF LoadMore
<1>2. {loading', loadingMore'} \subseteq BOOLEAN /\ failures' \in 0..MaxFailures
  BY <1>1 DEF IInv
<1>3. page.feed \in Feeds /\ page.next \in Articles \cup {None}
  BY DEF IInv, PageOK, PageState
<1>4. ReadOK(Read("more", page.feed, page.next), page, World)
  BY <1>3 DEF ReadOK, Read, Request
<1>5. \A r \in reads' : ReadOK(r, page, World)
  BY <1>1, <1>4 DEF Except, IInv
<1> QED
  BY <1>1, <1>2, <1>5, ReadsStep

LEMMA ServeStep ==
  ASSUME IInv, NEW r \in reads, Serve(r)
  PROVE  IInv'
<1> DEFINE a == ServedPage(r.feed, r.before)
           n == [r EXCEPT !.answer = a]
<1>1. /\ reads' = (reads \ {r}) \cup {n} /\ loading' = loading /\ loadingMore' = loadingMore
      /\ failures' = failures /\ UNCHANGED <<serverVars, page, saved, correctionVars, undo>>
  BY DEF Serve
<1>2. {loading', loadingMore'} \subseteq BOOLEAN /\ failures' \in 0..MaxFailures
  BY <1>1 DEF IInv
<1>3. ReadOK(r, page, World) /\ r \in Request
  BY DEF IInv, ReadOK
<1>4. HonestPage(a, World) /\ a \in Page
  BY <1>3, NowIsProjection, ServedPageHonest DEF Request, HonestPage
<1> HIDE DEF a
<1>5. ReadOK(n, page, World)
  BY <1>3, <1>4 DEF ReadOK, Request
<1>6. \A q \in reads' : ReadOK(q, page, World)
  BY <1>1, <1>5 DEF IInv
<1> QED
  BY <1>1, <1>2, <1>6, ReadsStep

LEMMA ReadFailsStep ==
  ASSUME IInv, NEW r \in reads, ReadFails(r)
  PROVE  IInv'
<1>1. /\ reads' = reads \ {r} /\ failures < MaxFailures /\ failures' = failures + 1
      /\ loading' = (loading /\ r.why # "feed")
      /\ loadingMore' = (loadingMore /\ r.why # "more")
      /\ UNCHANGED <<serverVars, page, saved, correctionVars, undo>>
  BY DEF ReadFails
<1>2. {loading', loadingMore'} \subseteq BOOLEAN
  BY <1>1
<1>3. failures' \in 0..MaxFailures
  <2>1. failures \in 0..MaxFailures /\ MaxFailures \in Nat
    BY FeedAssumption DEF IInv
  <2> QED
    BY <1>1, <2>1
<1>4. \A q \in reads' : ReadOK(q, page, World)
  BY <1>1 DEF IInv
<1> QED
  BY <1>1, <1>2, <1>3, <1>4, ReadsStep

\* An answer that is drawn over the feed on display.
LEMMA DrawnStep ==
  ASSUME IInv, NEW p, Redraw(p), PageOK(p, World'), p.feed = page.feed,
         World' \in Worlds, Later(World, World'),
         UNCHANGED <<serverVars, saved, undo, failures>>, reads' \in SUBSET reads,
         {loading', loadingMore'} \subseteq BOOLEAN
  PROVE  IInv'
<1>1. /\ page' = p
      /\ DialogOK(dialog', World') /\ (dialog' # None => InContext(dialog', p))
      /\ \A s \in splits' : SplitOK(s, World')
      /\ Waiting(splits', dialog', pending')
      /\ ToastOK(toast') /\ (toast' # None => InContext(toast', p))
  BY RedrawKeeps
<1>2. /\ HonestPage(saved, World') /\ UndoOK(undo, World')
      /\ \A r \in reads : ReadOK(r, page, World')
  BY KeptLater
<1>3. /\ saved' = saved /\ undo' = undo /\ revision' = revision /\ failures' = failures
  BY DEF serverVars
<1>4. \A r \in reads' : ReadOK(r, p, World')
  BY <1>2 DEF ReadOK
<1> QED
  BY <1>1, <1>2, <1>3, <1>4 DEF IInv

LEMMA ArrivedAnswer ==
  ASSUME IInv, NEW r \in reads, r.answer # None
  PROVE  HonestPage(r.answer, World) /\ r.answer \in Page /\ World \in Worlds
BY DEF IInv, ReadOK, HonestPage

LEMMA RefreshArrivesStep ==
  ASSUME IInv, NEW r \in reads, r.answer # None, RefreshArrives(r)
  PROVE  IInv'
<1>1. HonestPage(r.answer, World) /\ page.feed \in Feeds /\ reads \ {r} \in SUBSET reads
  BY ArrivedAnswer DEF IInv, PageOK, PageState
<1>2. /\ saved' = r.answer /\ Feed(page.feed, r.answer, reads \ {r})
      /\ UNCHANGED <<serverVars, undo, failures>>
  BY DEF RefreshArrives
<1> QED
  BY <1>1, <1>2, FeedStep

LEMMA FeedArrivesStep ==
  ASSUME IInv, NEW r \in reads, r.answer # None, FeedArrives(r)
  PROVE  IInv'
<1> DEFINE p == [Show(page.feed, r.answer) EXCEPT !.older = page.older, !.mixed = page.mixed]
<1>1. /\ Redraw(p) /\ reads' = reads \ {r} /\ loading' = FALSE /\ loadingMore' = loadingMore
      /\ UNCHANGED <<serverVars, saved, undo, failures>>
  BY DEF FeedArrives
<1>2. HonestPage(r.answer, World) /\ r.answer \in Page /\ World \in Worlds
  BY ArrivedAnswer
<1>3. page \in PageState
  BY DEF IInv, PageOK
<1>4. p.mixed = page.mixed /\ p.feed = page.feed
  BY DEF Show
<1>5. p \in PageState /\ p.stories = r.answer.items /\ p.proj = r.answer.at
  BY <1>2, <1>3 DEF Show, PageState, Page
<1> HIDE DEF p
<1>6. PageOK(p, World)
  BY <1>2, <1>5, ShownPage
<1>7. page' = p
  BY <1>1 DEF Redraw, Render
<1>8. World' = World
  BY <1>1, <1>4, <1>7, SameWorld
<1>9. World' \in Worlds /\ Later(World, World') /\ PageOK(p, World')
  BY <1>2, <1>6, <1>8 DEF Later, Worlds
<1>10. {loading', loadingMore'} \subseteq BOOLEAN /\ reads' \in SUBSET reads
  BY <1>1 DEF IInv
<1> QED
  BY <1>1, <1>4, <1>9, <1>10, DrawnStep

LEMMA MoreArrivesStep ==
  ASSUME IInv, NEW r \in reads, r.answer # None, MoreArrives(r)
  PROVE  IInv'
<1> DEFINE more == r.answer.items
           mixes == page.mixed \/ Mixes(page.stories, more)
           p == [page EXCEPT !.stories = Merged(@, more), !.next = r.answer.next,
                             !.proj = r.answer.at, !.older = TRUE,
                             !.mixed = @ \/ Mixes(page.stories, more)]
<1>1. /\ reads' = reads \ {r} /\ loading' = loading /\ loadingMore' = FALSE
      /\ UNCHANGED <<serverVars, saved, undo, failures>>
      /\ IF r.feed = page.feed THEN Redraw(p) ELSE UNCHANGED <<page, correctionVars>>
  BY DEF MoreArrives
<1>2. {loading', loadingMore'} \subseteq BOOLEAN /\ reads' \in SUBSET reads
  BY <1>1 DEF IInv
<1>3. CASE r.feed # page.feed
  <2>1. \A q \in reads' : ReadOK(q, page, World)
    BY <1>2 DEF IInv
  <2>2. failures' \in 0..MaxFailures
    BY <1>1 DEF IInv
  <2>3. UNCHANGED <<serverVars, page, saved, correctionVars, undo>>
    BY <1>1, <1>3
  <2> QED
    BY <1>2, <2>1, <2>2, <2>3, ReadsStep
<1>4. CASE r.feed = page.feed
  <2>1. HonestPage(r.answer, World) /\ r.answer \in Page /\ World \in Worlds
    BY ArrivedAnswer
  <2>2. page \in PageState /\ AllHonest(page.stories, World)
    BY DEF IInv, PageOK
  <2>3. Redraw(p)
    BY <1>1, <1>4
  <2>4. page' = p
    BY <2>3 DEF Redraw, Render
  <2>5. /\ p.feed = page.feed /\ p.stories = Merged(page.stories, more)
        /\ p.next = r.answer.next /\ p.proj = r.answer.at /\ p.older = TRUE
    BY <2>2 DEF PageState
  <2>6. p.mixed = mixes
    BY <2>2 DEF PageState
  <2>7. World' \in Worlds /\ Later(World, World') /\ World'.rev = World.rev
        /\ World'.gen = World.gen /\ World'.mixed = mixes
    <3>1. World' = [gen |-> generation, rev |-> revision, active |-> active, mixed |-> mixes]
      BY <1>1, <2>4, <2>6 DEF World, serverVars
    <3> HIDE DEF mixes
    <3>2. mixes \in BOOLEAN /\ (page.mixed => mixes)
      BY DEF mixes
    <3> QED
      BY <2>1, <3>1, <3>2 DEF World, Worlds, Later
  <2>8. AllHonest(p.stories, World')
    <3>1. AllHonest(more, World)
      BY <2>1 DEF HonestPage
    <3>2. Mixes(page.stories, more) => World'.mixed
      BY <2>7
    <3> QED
      BY <2>1, <2>2, <2>5, <2>7, <3>1, <3>2, MergedHonest
  <2>9. p \in PageState
    <3>1. Merged(page.stories, more) \subseteq Story
      BY <2>5, <2>8 DEF AllHonest, Honest
    <3> QED
      BY <2>1, <2>2, <3>1 DEF PageState, Page
  <2>10. PageOK(p, World')
    <3>1. r.answer.at \in Projection /\ Had(r.answer.at, World)
      BY <2>1 DEF HonestPage, Page
    <3>2. r.answer.at.gen <= World'.gen /\ r.answer.at.rev <= Limit(World')
      BY <2>1, <2>7, <3>1 DEF Had, Limit, Worlds, Projection
    <3> HIDE DEF p
    <3> QED
      BY <2>5, <2>8, <2>9, <3>1, <3>2 DEF PageOK
  <2> HIDE DEF p
  <2> QED
    BY <1>1, <1>2, <2>3, <2>5, <2>7, <2>10, DrawnStep
<1> QED
  BY <1>3, <1>4

LEMMA ArrivesStep ==
  ASSUME IInv, NEW r \in reads, Arrives(r)
  PROVE  IInv'
BY RefreshArrivesStep, FeedArrivesStep, MoreArrivesStep DEF Arrives

-----------------------------------------------------------------------------
(* A split *)

\* What a step has to show that draws nothing and leaves the server.
LEMMA CorrectionStep ==
  ASSUME IInv, UNCHANGED <<serverVars, page, saved, reads, loading, loadingMore>>,
         DialogOK(dialog', World), dialog' # None => InContext(dialog', page),
         \A s \in splits' : SplitOK(s, World), Waiting(splits', dialog', pending'),
         ToastOK(toast'), toast' # None => InContext(toast', page),
         UndoOK(undo', World), failures' \in 0..MaxFailures
  PROVE  IInv'
<1>1. /\ page' = page /\ saved' = saved /\ reads' = reads /\ revision' = revision
      /\ loading' = loading /\ loadingMore' = loadingMore
  BY DEF serverVars
<1>2. World' = World
  BY <1>1, SameWorld
<1> QED
  BY <1>1, <1>2 DEF IInv

LEMMA OpenDialogStep ==
  ASSUME IInv, NEW card \in page.stories, OpenDialog(card)
  PROVE  IInv'
<1>1. /\ dialog = None /\ card.at # None
      /\ dialog' = [card |-> card, feed |-> page.feed, proj |-> page.proj]
      /\ UNCHANGED <<serverVars, page, saved, reads, loading, loadingMore>>
      /\ pending' = pending /\ splits' = splits /\ toast' = toast /\ undo' = undo
      /\ failures' = failures
  BY DEF OpenDialog
<1>2. page \in PageState /\ Honest(card, World) /\ page.proj \in Projection
  BY DEF IInv, PageOK, AllHonest
<1>3. DialogOK(dialog', World)
  BY <1>1, <1>2 DEF DialogOK, Dialog, PageState, Honest
<1>4. InContext(dialog', page)
  BY <1>1 DEF InContext
<1>5. Waiting(splits', dialog', pending')
  BY <1>1 DEF IInv, Waiting
<1>6. /\ \A s \in splits' : SplitOK(s, World)
      /\ ToastOK(toast') /\ (toast' # None => InContext(toast', page))
      /\ UndoOK(undo', World) /\ failures' \in 0..MaxFailures
  BY <1>1 DEF IInv
<1> QED
  BY <1>1, <1>3, <1>4, <1>5, <1>6, CorrectionStep

LEMMA CloseDialogStep ==
  ASSUME IInv, CloseDialog
  PROVE  IInv'
<1>1. /\ ~pending /\ dialog' = None
      /\ UNCHANGED <<serverVars, page, saved, reads, loading, loadingMore>>
      /\ pending' = pending /\ splits' = splits /\ toast' = toast /\ undo' = undo
      /\ failures' = failures
  BY DEF CloseDialog
<1>2. DialogOK(dialog', World)
  BY <1>1 DEF DialogOK
<1>3. Waiting(splits', dialog', pending')
  BY <1>1 DEF IInv, Waiting
<1>4. /\ \A s \in splits' : SplitOK(s, World)
      /\ ToastOK(toast') /\ (toast' # None => InContext(toast', page))
      /\ UndoOK(undo', World) /\ failures' \in 0..MaxFailures
  BY <1>1 DEF IInv
<1> QED
  BY <1>1, <1>2, <1>3, <1>4, CorrectionStep

LEMMA SubmitStep ==
  ASSUME IInv, NEW rejected \in SUBSET Articles, Submit(rejected)
  PROVE  IInv'
<1> DEFINE n == [card |-> dialog.card, anchor |-> dialog.card.primary, rejected |-> rejected,
                 feed |-> dialog.feed, proj |-> dialog.proj, stories |-> page.stories,
                 next |-> page.next, live |-> TRUE, stage |-> "asked", answer |-> None]
<1>1. /\ dialog # None /\ ~pending /\ pending' = TRUE /\ dialog' = dialog
      /\ rejected \subseteq dialog.card.articles \ {dialog.card.primary} /\ rejected # {}
      /\ splits' = Abandoned(splits) \cup {n}
      /\ UNCHANGED <<serverVars, page, saved, reads, loading, loadingMore>>
      /\ toast' = toast /\ undo' = undo /\ failures' = failures
  BY DEF Submit
<1>2. /\ dialog \in Dialog /\ Honest(dialog.card, World) /\ dialog.card.at # None
      /\ page \in PageState /\ AllHonest(page.stories, World)
  BY <1>1 DEF IInv, DialogOK, PageOK
<1>3. /\ n.card = dialog.card /\ n.anchor = dialog.card.primary /\ n.rejected = rejected
      /\ n.feed = dialog.feed /\ n.proj = dialog.proj /\ n.stories = page.stories
      /\ n.stage = "asked" /\ n.live
  OBVIOUS
<1>4. n \in Split
  <2>1. dialog.card.primary \in Articles
    BY <1>2 DEF Honest, Story
  <2> QED
    BY <1>2, <2>1 DEF Split, Dialog, PageState
<1> HIDE DEF n
<1>5. SplitOK(n, World)
  BY <1>1, <1>2, <1>3, <1>4 DEF SplitOK, AskedOK, Honest
<1>6. \A s \in Abandoned(splits) : SplitOK(s, World) /\ ~s.live
  BY AbandonedSplits DEF IInv
<1>7. \A s \in splits' : SplitOK(s, World)
  BY <1>1, <1>5, <1>6
<1>8. Waiting(splits', dialog', pending')
  BY <1>1, <1>3, <1>6 DEF Waiting
<1>9. /\ DialogOK(dialog', World) /\ (dialog' # None => InContext(dialog', page))
      /\ ToastOK(toast') /\ (toast' # None => InContext(toast', page))
      /\ UndoOK(undo', World) /\ failures' \in 0..MaxFailures
  BY <1>1 DEF IInv
<1> QED
  BY <1>1, <1>7, <1>8, <1>9, CorrectionStep

Answered(s, stage, answer) == [s EXCEPT !.stage = stage, !.answer = answer]

LEMMA AnsweredStage ==
  ASSUME NEW s \in Split, NEW stage, NEW answer
  PROVE  Answered(s, stage, answer).stage = stage /\ Answered(s, stage, answer).answer = answer
BY DEF Split, Answered

LEMMA AnsweredFields ==
  ASSUME NEW s \in Split, NEW stage, NEW answer
  PROVE  LET n == Answered(s, stage, answer)
         IN /\ n.card = s.card /\ n.stories = s.stories /\ n.anchor = s.anchor
            /\ n.rejected = s.rejected /\ n.feed = s.feed /\ n.proj = s.proj /\ n.live = s.live
<1> DEFINE n == Answered(s, stage, answer)
<1>1. /\ n.card = s.card /\ n.stories = s.stories /\ n.anchor = s.anchor
      /\ n.rejected = s.rejected /\ n.feed = s.feed /\ n.proj = s.proj
  BY DEF Split, Answered
<1>2. n.live = s.live
  BY DEF Split, Answered
<1> QED
  BY <1>1, <1>2

LEMMA AnsweredSplit ==
  ASSUME NEW s \in Split,
         NEW stage \in {"asked", "done", "conflict", "reload", "reloaded", "failed"},
         NEW answer \in SplitAnswer \cup ReloadAnswer \cup {None}
  PROVE  Answered(s, stage, answer) \in Split
BY DEF Split, Answered

\* One split gets on, and the page waits as before.
LEMMA OneSplitStep ==
  ASSUME IInv, NEW s \in splits, NEW more, splits' = (splits \ {s}) \cup more,
         \A n \in more : /\ SplitOK(n, World') /\ n.live /\ s.live
                         /\ n.feed = s.feed /\ n.proj = s.proj,
         \A m, n \in more : m = n,
         World' \in Worlds, Later(World, World'), revision' <= MaxRevision,
         UNCHANGED <<page, saved, reads, loading, loadingMore, dialog, pending, toast, undo>>,
         failures' \in 0..MaxFailures
  PROVE  IInv'
<1>1. /\ PageOK(page, World') /\ HonestPage(saved, World')
      /\ \A r \in reads : ReadOK(r, page, World')
      /\ DialogOK(dialog, World')
      /\ \A t \in splits : SplitOK(t, World')
      /\ UndoOK(undo, World')
  BY KeptLater
<1>2. \A t \in splits' : SplitOK(t, World')
  BY <1>1
<1>3. Waiting(splits', dialog, pending)
  BY DEF IInv, Waiting
<1> QED
  BY <1>1, <1>2, <1>3 DEF IInv

\* Where every requested pair is rejected, the card shows one of them together.
LEMMA CardShowsRejected ==
  ASSUME NEW w, NEW s, AskedOK(s, w), Requested(s) = {s.anchor}
  PROVE  \E c \in active : c.pair \subseteq s.card.articles
<1>1. PICK x \in s.rejected : x # s.anchor /\ x \in s.card.articles /\ s.anchor \in s.card.articles
  BY DEF AskedOK
<1>2. {s.anchor, x} \in Pairs(active)
  BY <1>1 DEF Requested
<1> QED
  BY <1>1, <1>2 DEF Pairs

\* A card that shows a rejected pair is behind the page's limit.
LEMMA OldCard ==
  ASSUME IInv, NEW s, AskedOK(s, World), Requested(s) = {s.anchor}
  PROVE  s.card.at.rev < Limit(World)
<1>1. /\ World \in Worlds /\ World.active = active /\ s.card.at \in Projection
      /\ Had(s.card.at, World)
      /\ World.mixed \/ s.card.at.rev < World.rev
           \/ \A c \in World.active : ~(c.pair \subseteq s.card.articles)
  BY DEF IInv, AskedOK, Honest, Story, World
<1>2. World.mixed \/ s.card.at.rev < World.rev
  BY <1>1, CardShowsRejected
<1> QED
  BY <1>1, <1>2 DEF Limit, Had, Worlds, Projection

\* The server's stories, whichever articles they are asked for.
LEMMA TouchingHonest ==
  ASSUME NEW w \in Worlds, NEW articles
  PROVE  LET stories == Touching(Recomputed(Here(w), w.active), articles)
         IN stories \subseteq Story /\ AllHonest(stories, w) /\ Disjoint(stories)
<1>1. Here(w) \in Projection /\ w.active \in SUBSET Correction
  BY DEF Here, Worlds, Projection
<1>2. MadeOf(Recomputed(Here(w), w.active), Here(w), Pairs(w.active))
  BY <1>1, RecomputedMade
<1>3. /\ AllHonest(Recomputed(Here(w), w.active), w)
      /\ Disjoint(Recomputed(Here(w), w.active))
  BY <1>2, MadeHonest
<1> QED
  BY <1>3 DEF Touching, AllHonest, Honest, Disjoint

\* A split is answered, if anyone waits for it.
LEMMA AnsweredStep ==
  ASSUME IInv, NEW s \in splits, AskedOK(s, World),
         NEW stage \in {"asked", "done", "conflict", "reload", "reloaded", "failed"},
         NEW answer \in SplitAnswer \cup ReloadAnswer \cup {None},
         NEW n, n = Answered(s, stage, answer),
         splits' = (splits \ {s}) \cup (IF s.live THEN {n} ELSE {}), SplitOK(n, World'),
         World' \in Worlds, Later(World, World'), revision' <= MaxRevision,
         UNCHANGED <<page, saved, reads, loading, loadingMore, dialog, pending, toast, undo>>,
         failures' \in 0..MaxFailures
  PROVE  IInv'
<1> DEFINE more == IF s.live THEN {n} ELSE {}
<1>1. n.live = s.live /\ n.feed = s.feed /\ n.proj = s.proj
  BY AnsweredFields DEF AskedOK
<1>2. \A m \in more : SplitOK(m, World') /\ m.live /\ s.live /\ m.feed = s.feed /\ m.proj = s.proj
  BY <1>1
<1>3. \A m, k \in more : m = k
  OBVIOUS
<1>4. splits' = (splits \ {s}) \cup more
  OBVIOUS
<1> HIDE DEF more
<1> QED
  BY <1>2, <1>3, <1>4, OneSplitStep

LEMMA SplitServedStep ==
  ASSUME IInv, NEW s \in splits, SplitServed(s)
  PROVE  IInv'
<1> DEFINE made == {[pair |-> {s.anchor, x}, original |-> s.card.original,
                     made |-> revision + 1] : x \in Requested(s) \ {s.anchor}}
           target == CHOOSE t \in Targets(s) : TRUE
           next == active \cup made
           then == [Now EXCEPT !.rev = IF made = {} THEN revision ELSE revision + 1]
           of(stage, answer) == Answered(s, stage, answer)
           answered(stage, answer) ==
             splits' = (splits \ {s}) \cup (IF s.live THEN {of(stage, answer)} ELSE {})
<1>1. SplitOK(s, World) /\ AskedOK(s, World) /\ World \in Worlds
  BY DEF IInv, SplitOK
<1>2. s.stage = "asked" /\ revision <= MaxRevision /\ failures \in 0..MaxFailures
  BY DEF SplitServed, IInv
<1>3. /\ s \in Split /\ s.anchor \in Articles /\ s.rejected \subseteq Articles
      /\ s.anchor \notin s.rejected /\ s.card.original \in BundleIds
      /\ s.card.at \in Projection
  BY <1>1 DEF AskedOK, Split, Honest, Story
<1>4. /\ Now \in Projection /\ Now = Here(World) /\ active \in SUBSET Correction
      /\ revision \in Nat /\ World.active = active /\ World.rev = revision
  BY NowIsProjection
<1>5. /\ UNCHANGED <<page, saved, reads, loading, loadingMore, dialog, pending, toast, undo>>
      /\ page' = page /\ failures' \in 0..MaxFailures
  BY <1>2 DEF SplitServed
<1>6. ASSUME UNCHANGED serverVars
      PROVE  World' = World /\ World' \in Worlds /\ Later(World, World') /\ revision' <= MaxRevision
  <2>1. World' = World
    BY <1>5, <1>6, SameWorld
  <2>2. Later(World, World)
    BY <1>1 DEF Later, Worlds
  <2> QED
    BY <1>1, <1>2, <1>6, <2>1, <2>2 DEF serverVars
<1>7. ASSUME World' \in Worlds, Later(World, World'), revision' <= MaxRevision,
             NEW stage \in {"done", "conflict", "failed"},
             NEW answer \in SplitAnswer \cup {None}, answered(stage, answer),
             stage # "failed" => /\ answer \in SplitAnswer /\ AllHonest(answer.stories, World')
                                 /\ Disjoint(answer.stories),
             stage = "done" => /\ SharedAnchor(answer.corrections)
                               /\ Ungrouped(answer.stories) => s.card.at.rev < Limit(World')
      PROVE  IInv'
  <2> DEFINE n == of(stage, answer)
  <2>1. n = Answered(s, stage, answer)
    OBVIOUS
  <2>2. splits' = (splits \ {s}) \cup (IF s.live THEN {n} ELSE {})
    BY <1>7
  <2> HIDE DEF n, of
  <2>3. AskedOK(s, World')
    <3>1. SplitOK(s, World')
      BY <1>7, KeptLater
    <3> QED
      BY <3>1 DEF SplitOK
  <2>4. n.stage = stage /\ n.answer = answer /\ n.live = s.live /\ n.card = s.card
    BY <1>3, <2>1, AnsweredFields, AnsweredStage
  <2>5. AskedOK(n, World')
    <3>1. n \in Split
      BY <1>3, <1>7, <2>1, AnsweredSplit
    <3>2. n.stories = s.stories /\ n.anchor = s.anchor /\ n.rejected = s.rejected
      BY <1>3, <2>1, AnsweredFields
    <3> QED
      BY <2>3, <2>4, <3>1, <3>2 DEF AskedOK
  <2>6. ASSUME s.live
        PROVE  SplitOK(n, World')
    BY <1>7, <2>4, <2>5, <2>6 DEF SplitOK
  <2>7. CASE s.live
    BY <1>1, <1>5, <1>7, <2>1, <2>2, <2>6, <2>7, AnsweredStep
  <2>8. CASE ~s.live
    <3> DEFINE more == {}
    <3>1. splits' = (splits \ {s}) \cup more
      BY <2>2, <2>8
    <3> QED
      BY <1>5, <1>7, <3>1, OneSplitStep
  <2> QED
    BY <2>7, <2>8
<1>8. \A corrections \in SUBSET Correction :
         (\A c \in corrections : s.anchor \in c.pair) => SharedAnchor(corrections)
  BY <1>3 DEF SharedAnchor
<1>9. Duplicates(s) \in SUBSET Correction /\ \A c \in Duplicates(s) : s.anchor \in c.pair
  BY <1>4 DEF Duplicates
<1>10. \A articles :
         LET stories == Touching(Recomputed(Now, active), articles)
         IN stories \subseteq Story /\ AllHonest(stories, World) /\ Disjoint(stories)
  BY <1>1, <1>4, TouchingHonest
<1>11. CASE /\ Replay(s) /\ UNCHANGED serverVars
            /\ answered("done", Answer({}, Touching(Recomputed(Now, active),
                                                    {s.anchor} \cup s.rejected), Duplicates(s)))
  <2> DEFINE stories == Touching(Recomputed(Now, active), {s.anchor} \cup s.rejected)
             answer == Answer({}, stories, Duplicates(s))
  <2>1. stories \subseteq Story /\ AllHonest(stories, World) /\ Disjoint(stories)
    BY <1>10
  <2>2. answered("done", answer)
    BY <1>11
  <2> HIDE DEF stories
  <2>3. /\ answer.stories = stories /\ answer.corrections = Duplicates(s)
        /\ answer \in SplitAnswer
    BY <1>9, <2>1 DEF Answer, SplitAnswer
  <2>4. SharedAnchor(answer.corrections)
    BY <1>8, <1>9, <2>3
  <2>5. s.card.at.rev < Limit(World)
    BY <1>1, <1>11, OldCard DEF Replay
  <2> HIDE DEF answer, answered
  <2> QED
    BY <1>6, <1>7, <1>11, <2>1, <2>2, <2>3, <2>4, <2>5
<1>12. CASE /\ UNCHANGED serverVars
            /\ answered("conflict", Answer({}, Touching(Recomputed(Now, active), Requested(s)), {}))
  <2> DEFINE stories == Touching(Recomputed(Now, active), Requested(s))
             answer == Answer({}, stories, {})
  <2>1. stories \subseteq Story /\ AllHonest(stories, World) /\ Disjoint(stories)
    BY <1>10
  <2>2. answered("conflict", answer)
    BY <1>12
  <2> HIDE DEF stories
  <2>3. answer.stories = stories /\ answer \in SplitAnswer
    BY <2>1 DEF Answer, SplitAnswer
  <2> HIDE DEF answer, answered
  <2> QED
    BY <1>6, <1>7, <1>12, <2>1, <2>2, <2>3
<1>13. CASE /\ Accepted(s)
            /\ IF made = {} THEN UNCHANGED serverVars ELSE Commit(next)
            /\ answered("done", Answer({target.id},
                                       Touching(Recomputed(then, next), target.articles),
                                       made \cup Duplicates(s)))
  <2> DEFINE stories == Touching(Recomputed(then, next), target.articles)
             answer == Answer({target.id}, stories, made \cup Duplicates(s))
  <2>1. s.card.at = Now /\ target \in Targets(s)
    BY <1>13 DEF Accepted
  <2>2. target.id \in StoryIds
    <3>1. Targets(s) \subseteq Recomputed(Now, active)
      BY DEF Targets
    <3>2. target \in Recomputed(Now, active)
      BY <2>1, <3>1
    <3> HIDE DEF target
    <3>3. target \in Story
      BY <1>4, <3>2, RecomputedMade DEF MadeOf
    <3> QED
      BY <3>3 DEF Story, StoryIds
  <2>3. made \in SUBSET Correction /\ \A c \in made : s.anchor \in c.pair
    <3>1. Requested(s) \ {s.anchor} \subseteq s.rejected
      BY DEF Requested
    <3>2. \A x \in s.rejected : {s.anchor, x} \in ArticlePairs
      BY <1>3 DEF ArticlePairs
    <3> QED
      BY <1>3, <1>4, <3>1, <3>2 DEF Correction
  <2>4. /\ World' \in Worlds /\ Later(World, World') /\ revision' <= MaxRevision
        /\ Here(World') = then /\ World'.active = next
        /\ s.card.at.rev < Limit(World')
    <3>1. CASE made = {}
      <4>1. Requested(s) = {s.anchor}
        BY <3>1 DEF Requested
      <4>2. s.card.at.rev < Limit(World)
        BY <1>1, <4>1, OldCard
      <4>3. then = Now /\ next = active
        BY <3>1 DEF Now
      <4> QED
        BY <1>4, <1>6, <1>13, <3>1, <4>2, <4>3
    <3>2. CASE made # {}
      <4>1. Commit(next) /\ next \in SUBSET Correction
        BY <1>4, <1>13, <2>3, <3>2
      <4> HIDE DEF next, made
      <4>2. /\ World' \in Worlds /\ Later(World, World') /\ revision' <= MaxRevision
            /\ World' = [gen |-> generation, rev |-> revision + 1, active |-> next,
                         mixed |-> page.mixed]
        BY <1>5, <4>1, CommittedWorld
      <4>3. then = [gen |-> generation, rev |-> revision + 1]
        BY <3>2 DEF Now
      <4>4. Here(World') = then /\ World'.active = next /\ World'.rev = revision + 1
        BY <4>2, <4>3 DEF Here
      <4>5. s.card.at.rev < Limit(World')
        BY <1>4, <2>1, <4>2, <4>4 DEF Limit, Worlds, Now
      <4> QED
        BY <4>2, <4>4, <4>5
    <3> QED
      BY <3>1, <3>2
  <2>5. stories \subseteq Story /\ AllHonest(stories, World') /\ Disjoint(stories)
    <3> HIDE DEF then, next, target
    <3>1. LET touching == Touching(Recomputed(Here(World'), World'.active), target.articles)
          IN touching \subseteq Story /\ AllHonest(touching, World') /\ Disjoint(touching)
      BY <2>4, TouchingHonest
    <3> QED
      BY <2>4, <3>1
  <2>6. answered("done", answer)
    BY <1>13
  <2> HIDE DEF stories, made, target
  <2>7. /\ answer.stories = stories /\ answer.corrections = made \cup Duplicates(s)
        /\ answer \in SplitAnswer
    BY <1>9, <2>2, <2>3, <2>5 DEF Answer, SplitAnswer
  <2>8. SharedAnchor(answer.corrections)
    BY <1>8, <1>9, <2>3, <2>7
  <2> HIDE DEF answer, answered
  <2> QED
    BY <1>7, <2>4, <2>5, <2>6, <2>7, <2>8
<1>14. CASE UNCHANGED serverVars /\ answered("failed", None)
  <2> HIDE DEF answered
  <2> QED
    BY <1>6, <1>7, <1>14
<1> QED
  BY <1>11, <1>12, <1>13, <1>14 DEF SplitServed, Answered

LEMMA ReloadServedStep ==
  ASSUME IInv, NEW s \in splits, ReloadServed(s)
  PROVE  IInv'
<1> DEFINE a == ServedPage(s.feed, None)
           n == [s EXCEPT !.stage = "reloaded", !.answer.page = a]
<1>1. /\ s.stage = "reload" /\ splits' = (splits \ {s}) \cup {n} /\ undo' = undo
      /\ page' = page /\ dialog' = dialog /\ pending' = pending /\ toast' = toast
      /\ failures' = failures
      /\ UNCHANGED <<serverVars, page, saved, reads, loading, loadingMore>>
  BY DEF ReloadServed
<1>2. SplitOK(s, World) /\ AskedOK(s, World) /\ s \in Split /\ s.live /\ World \in Worlds
  BY <1>1 DEF IInv, SplitOK, AskedOK
<1>3. s.answer \in ReloadAnswer /\ AllHonest(s.answer.stories, World) /\ Disjoint(s.answer.stories)
  BY <1>1, <1>2 DEF SplitOK
<1>4. HonestPage(a, World) /\ a \in Page
  BY <1>2, NowIsProjection, ServedPageHonest DEF Split, HonestPage
<1> HIDE DEF a
<1>5. [s.answer EXCEPT !.page = a] \in ReloadAnswer
  BY <1>3, <1>4 DEF ReloadAnswer
<1> DEFINE answer == [s.answer EXCEPT !.page = a]
<1>6. answer.stories = s.answer.stories /\ answer.page = a
  BY <1>3 DEF ReloadAnswer
<1>7. /\ n.feed = s.feed /\ n.proj = s.proj /\ n.card = s.card
      /\ n.stories = s.stories /\ n.anchor = s.anchor /\ n.rejected = s.rejected
      /\ n.stage = "reloaded" /\ n.answer = answer
  BY <1>2 DEF Split
<1>8. n.live = s.live
  BY <1>2 DEF Split
<1>9. n \in Split
  BY <1>2, <1>5 DEF Split
<1> HIDE DEF n, answer
<1>10. AskedOK(n, World)
  BY <1>2, <1>7, <1>9 DEF AskedOK
<1>11. SplitOK(n, World)
  BY <1>2, <1>3, <1>4, <1>5, <1>6, <1>7, <1>8, <1>10 DEF SplitOK, answer
<1>12. \A t \in splits' : SplitOK(t, World)
  BY <1>1, <1>11 DEF IInv
<1>13. Waiting(splits', dialog', pending')
  BY <1>1, <1>2, <1>7, <1>8 DEF IInv, Waiting
<1>14. /\ DialogOK(dialog', World) /\ (dialog' # None => InContext(dialog', page))
       /\ ToastOK(toast') /\ (toast' # None => InContext(toast', page))
       /\ UndoOK(undo', World) /\ failures' \in 0..MaxFailures
  BY <1>1 DEF IInv
<1> QED
  BY <1>1, <1>12, <1>13, <1>14, CorrectionStep

\* The split the page waits for is of what the page shows.
LEMMA AwaitedSplit ==
  ASSUME IInv, NEW s \in splits, s.stage # "asked"
  PROVE  /\ s.live /\ s.feed = page.feed /\ s.proj = page.proj /\ page.proj \in Projection
         /\ \A t \in splits \ {s} : ~t.live
<1>1. SplitOK(s, World) /\ Waiting(splits, dialog, pending)
  BY DEF IInv
<1>2. s.live /\ s \in Split
  BY <1>1 DEF SplitOK, AskedOK
<1>3. /\ dialog # None /\ s.feed = dialog.feed /\ s.proj = dialog.proj
      /\ \A t \in splits \ {s} : ~t.live
  BY <1>1, <1>2 DEF Waiting
<1>4. InContext(dialog, page)
  BY <1>3 DEF IInv
<1> QED
  BY <1>2, <1>3, <1>4 DEF InContext, Split

\* The page after an answer that ends the wait, of stories that are honest.
LEMMA EndedStep ==
  ASSUME IInv, NEW s \in splits, s.stage # "asked", NEW p, NEW t, PageOK(p, World),
         p.feed = page.feed, p.mixed = page.mixed, ToastOK(t),
         Render(p, None, FALSE, splits \ {s}, t),
         UNCHANGED <<serverVars, saved, reads, loading, loadingMore, undo, failures>>
  PROVE  IInv'
<1>1. DialogOK(None, World)
  BY DEF DialogOK
<1>2. \A u \in splits \ {s} : SplitOK(u, World)
  BY DEF IInv
<1>3. Waiting(splits \ {s}, None, FALSE)
  BY AwaitedSplit DEF Waiting
<1>4. /\ page' = p
      /\ DialogOK(dialog', World) /\ (dialog' # None => InContext(dialog', p))
      /\ \A u \in splits' : SplitOK(u, World)
      /\ Waiting(splits', dialog', pending')
      /\ ToastOK(toast') /\ (toast' # None => InContext(toast', p))
  BY <1>1, <1>2, <1>3, RenderKeeps
<1>5. World' = World /\ saved' = saved /\ reads' = reads /\ undo' = undo
      /\ revision' = revision /\ failures' = failures
      /\ loading' = loading /\ loadingMore' = loadingMore
  BY <1>4, SameWorld DEF serverVars
<1>6. \A r \in reads : ReadOK(r, p, World)
  BY DEF IInv, ReadOK
<1> QED
  BY <1>4, <1>5, <1>6 DEF IInv

\* The page with the stories and the revision of an answer.
Counted(stories, rev) == [page EXCEPT !.stories = stories, !.proj = AtRevision(@, rev)]

LEMMA CountedPage ==
  ASSUME IInv, page.proj \in Projection, NEW stories, AllHonest(stories, World),
         NEW rev \in Nat, rev <= Limit(World)
  PROVE  /\ PageOK(Counted(stories, rev), World)
         /\ Counted(stories, rev).feed = page.feed /\ Counted(stories, rev).mixed = page.mixed
         /\ Counted(stories, rev).stories = stories
         /\ Counted(stories, rev).proj = [page.proj EXCEPT !.rev = rev]
<1> DEFINE p == Counted(stories, rev)
<1>1. page \in PageState /\ page.proj.gen <= World.gen
  BY DEF IInv, PageOK
<1>2. page.proj # None
  BY FeedAssumption
<1>3. AtRevision(page.proj, rev) = [page.proj EXCEPT !.rev = rev]
  BY <1>2 DEF AtRevision
<1>4. /\ p.stories = stories /\ p.proj = [page.proj EXCEPT !.rev = rev]
      /\ p.feed = page.feed /\ p.next = page.next /\ p.older = page.older
  BY <1>1, <1>3 DEF Counted, PageState
<1>5. p.mixed = page.mixed
  BY <1>1 DEF Counted, PageState
<1>6. [page.proj EXCEPT !.rev = rev] \in Projection
  BY DEF Projection
<1>7. stories \subseteq Story
  BY DEF AllHonest, Honest
<1>8. p \in PageState
  BY <1>1, <1>3, <1>6, <1>7 DEF Counted, PageState
<1>9. p.proj.gen = page.proj.gen /\ p.proj.rev = rev
  BY <1>4 DEF Projection
<1>10. PageOK(p, World)
  BY <1>1, <1>4, <1>6, <1>8, <1>9 DEF PageOK
<1> QED
  BY <1>4, <1>5, <1>10

LEMMA SplitDoneStep ==
  ASSUME IInv, NEW s \in splits, SplitDone(s),
         UNCHANGED <<serverVars, saved, reads, loading, loadingMore, undo, failures>>
  PROVE  IInv'
<1> DEFINE stories == Replaced(s.stories, s.answer)
           rev == RevisionAfter(s.answer, s.card.at.rev)
           p == Counted(stories, rev)
           t == [feed |-> p.feed, proj |-> p.proj, corrections |-> s.answer.corrections]
<1>1. s.stage = "done" /\ Render(p, None, FALSE, splits \ {s}, t)
  BY DEF SplitDone, Counted
<1>2. SplitOK(s, World) /\ World \in Worlds
  BY DEF IInv
<1>3. /\ AllHonest(s.stories, World) /\ AllHonest(s.answer.stories, World)
      /\ s.answer \in SplitAnswer /\ SharedAnchor(s.answer.corrections)
      /\ Ungrouped(s.answer.stories) => s.card.at.rev < Limit(World)
  BY <1>1, <1>2 DEF SplitOK, AskedOK
<1>4. s.card.at.rev \in Nat
  BY <1>2 DEF SplitOK, AskedOK, Honest, Story, Projection
<1>5. AllHonest(stories, World) /\ rev \in Nat /\ rev <= Limit(World)
  BY <1>2, <1>3, <1>4, ReplacedHonest, RevisionCounted
<1>6. page.proj \in Projection /\ page.feed \in Feeds
  BY <1>1, AwaitedSplit DEF IInv, PageOK, PageState
<1> HIDE DEF stories, rev
<1>7. /\ PageOK(p, World) /\ p.feed = page.feed /\ p.mixed = page.mixed
      /\ p.proj = [page.proj EXCEPT !.rev = rev]
  BY <1>5, <1>6, CountedPage
<1>8. p.proj \in Projection
  BY <1>5, <1>6, <1>7 DEF Projection
<1> HIDE DEF p
<1>9. ToastOK(t)
  BY <1>3, <1>6, <1>7, <1>8 DEF ToastOK, Toast, SplitAnswer
<1> HIDE DEF t
<1> QED
  BY <1>1, <1>7, <1>9, EndedStep

LEMMA SplitReloadedStep ==
  ASSUME IInv, NEW s \in splits, SplitReloaded(s),
         UNCHANGED <<serverVars, saved, reads, loading, loadingMore, undo, failures>>
  PROVE  IInv'
<1> DEFINE p == [page EXCEPT !.stories = Reconciled(s), !.proj = s.answer.page.at,
                             !.next = IF s.answer.older THEN s.next ELSE s.answer.page.next]
<1>1. s.stage = "reloaded" /\ Render(p, None, FALSE, splits \ {s}, None)
  BY DEF SplitReloaded
<1>2. SplitOK(s, World) /\ World \in Worlds /\ page \in PageState
  BY DEF IInv, PageOK
<1>3. /\ AllHonest(s.stories, World) /\ AllHonest(s.answer.stories, World)
      /\ HonestPage(s.answer.page, World) /\ s \in Split
  BY <1>1, <1>2 DEF SplitOK, AskedOK
<1>4. s.answer.page \in Page /\ AllHonest(s.answer.page.items, World)
  BY <1>3 DEF HonestPage
<1>5. AllHonest(Reconciled(s), World)
  BY <1>3, <1>4, ReconciledHonest
<1>6. /\ p.stories = Reconciled(s) /\ p.proj = s.answer.page.at /\ p.feed = page.feed
  BY <1>2 DEF PageState
<1>7. p.mixed = page.mixed
  BY <1>2 DEF PageState
<1>8. p \in PageState
  <2>1. Reconciled(s) \subseteq Story
    BY <1>5 DEF AllHonest, Honest
  <2>2. s.next \in Articles \cup {None} /\ s.answer.page.next \in Articles \cup {None}
    BY <1>3, <1>4 DEF Split, Page
  <2>3. s.answer.page.at \in Projection
    BY <1>4 DEF Page
  <2> QED
    BY <1>2, <2>1, <2>2, <2>3 DEF PageState
<1> HIDE DEF p
<1>9. s.answer.page.at \in Projection /\ Had(s.answer.page.at, World)
  BY <1>3, <1>4 DEF HonestPage, Page
<1>10. s.answer.page.at.rev <= Limit(World)
  BY <1>2, <1>9 DEF Had, Limit, Worlds, Projection
<1>11. PageOK(p, World)
  BY <1>5, <1>6, <1>8, <1>9, <1>10 DEF PageOK, Had
<1>12. ToastOK(None)
  BY DEF ToastOK
<1> QED
  BY <1>1, <1>6, <1>7, <1>11, <1>12, EndedStep

LEMMA SplitConflictsStep ==
  ASSUME IInv, NEW s \in splits, SplitConflicts(s),
         UNCHANGED <<serverVars, saved, reads, loading, loadingMore, undo, failures>>
  PROVE  IInv'
<1> DEFINE answer == [stories |-> s.answer.stories, older |-> page.older, page |-> None]
           next == IF page.older THEN s.next ELSE None
           n == [s EXCEPT !.stage = "reload", !.next = IF page.older THEN @ ELSE None,
                          !.answer = [stories |-> @.stories, older |-> page.older,
                                      page |-> None]]
<1>1. /\ s.stage = "conflict" /\ splits' = (splits \ {s}) \cup {n}
      /\ page' = page /\ dialog' = dialog /\ pending' = pending /\ toast' = toast
      /\ undo' = undo /\ failures' = failures
  BY DEF SplitConflicts
<1>2. /\ SplitOK(s, World) /\ AskedOK(s, World) /\ s \in Split /\ page \in PageState
  BY DEF IInv, SplitOK, AskedOK, PageOK
<1>3. /\ s.answer \in SplitAnswer /\ AllHonest(s.answer.stories, World)
      /\ Disjoint(s.answer.stories) /\ s.live
  BY <1>1, <1>2 DEF SplitOK
<1>4. answer \in ReloadAnswer
  BY <1>2, <1>3 DEF ReloadAnswer, SplitAnswer, PageState
<1>5. answer.stories = s.answer.stories
  OBVIOUS
<1>6. next \in Articles \cup {None}
  BY <1>2 DEF Split
<1>7. /\ n.feed = s.feed /\ n.proj = s.proj /\ n.card = s.card
      /\ n.stories = s.stories /\ n.anchor = s.anchor /\ n.rejected = s.rejected
      /\ n.stage = "reload" /\ n.answer = answer
  BY <1>2 DEF Split
<1>8. n.live = s.live
  BY <1>2 DEF Split
<1> HIDE DEF answer
<1>9. n \in Split
  BY <1>2, <1>4, <1>6 DEF Split, answer
<1> HIDE DEF n
<1>10. AskedOK(n, World)
  BY <1>2, <1>7, <1>9 DEF AskedOK
<1>11. SplitOK(n, World)
  BY <1>2, <1>3, <1>4, <1>5, <1>7, <1>8, <1>10 DEF SplitOK
<1>12. \A t \in splits' : SplitOK(t, World)
  BY <1>1, <1>11 DEF IInv
<1>13. Waiting(splits', dialog', pending')
  BY <1>1, <1>3, <1>7, <1>8 DEF IInv, Waiting
<1>14. /\ DialogOK(dialog', World) /\ (dialog' # None => InContext(dialog', page))
       /\ ToastOK(toast') /\ (toast' # None => InContext(toast', page))
       /\ UndoOK(undo', World) /\ failures' \in 0..MaxFailures
  BY <1>1 DEF IInv
<1> QED
  BY <1>1, <1>12, <1>13, <1>14, CorrectionStep

LEMMA SplitFailedStep ==
  ASSUME IInv, NEW s \in splits, SplitFailed(s),
         UNCHANGED <<serverVars, saved, reads, loading, loadingMore, undo, failures>>
  PROVE  IInv'
<1>1. /\ s.stage = "failed" /\ splits' = splits \ {s} /\ pending' = FALSE
      /\ page' = page /\ dialog' = dialog /\ toast' = toast
      /\ undo' = undo /\ failures' = failures
  BY DEF SplitFailed
<1>2. Waiting(splits', dialog', pending')
  BY <1>1, AwaitedSplit DEF Waiting
<1>3. /\ \A t \in splits' : SplitOK(t, World)
      /\ DialogOK(dialog', World) /\ (dialog' # None => InContext(dialog', page))
      /\ ToastOK(toast') /\ (toast' # None => InContext(toast', page))
      /\ UndoOK(undo', World) /\ failures' \in 0..MaxFailures
  BY <1>1 DEF IInv
<1> QED
  BY <1>1, <1>2, <1>3, CorrectionStep

LEMMA SplitArrivesStep ==
  ASSUME IInv, NEW s \in splits, SplitArrives(s)
  PROVE  IInv'
<1>1. UNCHANGED <<serverVars, saved, reads, loading, loadingMore, undo, failures>>
  BY DEF SplitArrives
<1> QED
  BY <1>1, SplitDoneStep, SplitConflictsStep, SplitReloadedStep, SplitFailedStep DEF SplitArrives

LEMMA FailedOnce ==
  ASSUME IInv, failures < MaxFailures, failures' = failures + 1
  PROVE  failures' \in 0..MaxFailures
<1>1. failures \in 0..MaxFailures /\ MaxFailures \in Nat
  BY FeedAssumption DEF IInv
<1> QED
  BY <1>1

LEMMA SplitLostStep ==
  ASSUME IInv, NEW s \in splits, SplitLost(s)
  PROVE  IInv'
<1> DEFINE n == Answered(s, "failed", None)
<1>1. /\ s.live /\ splits' = (splits \ {s}) \cup {n}
      /\ page' = page /\ dialog' = dialog /\ pending' = pending /\ toast' = toast
      /\ undo' = undo /\ failures < MaxFailures /\ failures' = failures + 1
      /\ UNCHANGED <<serverVars, page, saved, reads, loading, loadingMore>>
  BY DEF SplitLost, Answered
<1>2. AskedOK(s, World) /\ s \in Split
  BY DEF IInv, SplitOK, AskedOK
<1> HIDE DEF n
<1>3. /\ n.live = s.live /\ n.feed = s.feed /\ n.proj = s.proj /\ n.card = s.card
      /\ n.stories = s.stories /\ n.anchor = s.anchor /\ n.rejected = s.rejected
      /\ n.stage = "failed"
  BY <1>2, AnsweredFields, AnsweredStage DEF n
<1>4. n \in Split
  BY <1>2, AnsweredSplit DEF n
<1>5. SplitOK(n, World)
  BY <1>1, <1>2, <1>3, <1>4 DEF SplitOK, AskedOK
<1>6. \A t \in splits' : SplitOK(t, World)
  BY <1>1, <1>5 DEF IInv
<1>7. Waiting(splits', dialog', pending')
  BY <1>1, <1>3 DEF IInv, Waiting
<1>8. /\ DialogOK(dialog', World) /\ (dialog' # None => InContext(dialog', page))
      /\ ToastOK(toast') /\ (toast' # None => InContext(toast', page))
      /\ UndoOK(undo', World)
  BY <1>1 DEF IInv
<1> QED
  BY <1>1, <1>6, <1>7, <1>8, FailedOnce, CorrectionStep

-----------------------------------------------------------------------------
(* An undo *)

\* What a step has to show that changes nothing but the undo.
LEMMA UndoStep ==
  ASSUME IInv, UNCHANGED <<serverVars, page, saved, reads, loading, loadingMore, correctionVars>>,
         UndoOK(undo', World), failures' \in 0..MaxFailures
  PROVE  IInv'
<1>1. /\ page' = page /\ dialog' = dialog /\ pending' = pending /\ splits' = splits
      /\ toast' = toast
  BY DEF correctionVars
<1>2. /\ DialogOK(dialog', World) /\ (dialog' # None => InContext(dialog', page))
      /\ \A s \in splits' : SplitOK(s, World)
      /\ Waiting(splits', dialog', pending')
      /\ ToastOK(toast') /\ (toast' # None => InContext(toast', page))
  BY <1>1 DEF IInv
<1> QED
  BY <1>2, CorrectionStep

LEMMA ClickUndoStep ==
  ASSUME IInv, ClickUndo
  PROVE  IInv'
<1> DEFINE u == [feed |-> toast.feed, proj |-> toast.proj, corrections |-> toast.corrections,
                 left |-> toast.corrections, stories |-> page.stories, rev |-> page.proj.rev,
                 stage |-> "asked", answer |-> None]
<1>1. /\ toast # None /\ undo' = u /\ failures' = failures
      /\ UNCHANGED <<serverVars, page, saved, reads, loading, loadingMore, correctionVars>>
  BY DEF ClickUndo, others
<1>2. /\ toast \in Toast /\ SharedAnchor(toast.corrections) /\ InContext(toast, page)
      /\ page \in PageState /\ AllHonest(page.stories, World)
  BY <1>1 DEF IInv, ToastOK, PageOK
<1>3. /\ page.proj = toast.proj /\ page.proj \in Projection
      /\ page.proj.gen <= World.gen /\ page.proj.rev <= Limit(World)
  BY <1>2 DEF InContext, Toast, IInv, PageOK
<1>4. u \in Undo
  BY <1>2, <1>3 DEF Undo, Toast, PageState, Projection
<1>5. UndoOK(u, World)
  BY <1>2, <1>3, <1>4 DEF UndoOK
<1>6. failures' \in 0..MaxFailures
  BY <1>1 DEF IInv
<1> HIDE DEF u
<1> QED
  BY <1>1, <1>5, <1>6, UndoStep

\* An undo that failed has nothing to answer for.
LEMMA FailedUndo ==
  ASSUME NEW w, NEW u \in Undo, UndoOK(u, w), u # None, NEW n \in Undo, n.stage = "failed",
         n.feed = u.feed, n.proj = u.proj, n.corrections = u.corrections, n.left = u.left,
         n.stories = u.stories, n.rev = u.rev
  PROVE  UndoOK(n, w)
BY DEF UndoOK

LEMMA UndoServedStep ==
  ASSUME IInv, UndoServed
  PROVE  IInv'
<1>1. /\ undo # None /\ undo.stage = "asked" /\ undo \in Undo /\ UndoOK(undo, World)
      /\ World \in Worlds
  BY DEF UndoServed, IInv, UndoOK
<1>2. /\ Now \in Projection /\ Now = Here(World) /\ active \in SUBSET Correction
      /\ revision \in Nat /\ generation \in Nat
      /\ World.active = active /\ World.rev = revision /\ World.gen = generation
  BY NowIsProjection
<1>3. /\ UNCHANGED <<page, saved, reads, loading, loadingMore, correctionVars, failures>>
      /\ page' = page /\ saved' = saved /\ reads' = reads /\ loading' = loading
      /\ loadingMore' = loadingMore /\ failures' = failures
  BY DEF UndoServed, others
<1>4. PICK c \in undo.left :
        LET then == [Now EXCEPT !.rev = @ + 1]
            removed == {t.id : t \in Touching(Recomputed(Now, active), c.pair)}
            stories == Touching(Recomputed(then, active \ {c}), c.pair)
        IN \/ /\ c \in active
              /\ Commit(active \ {c})
              /\ undo' = [undo EXCEPT !.left = @ \ {c}, !.stage = "answered",
                                      !.answer = Answer(removed, stories, {c})]
           \/ /\ c \notin active \/ revision = MaxRevision
              /\ undo' = [undo EXCEPT !.stage = "failed"]
              /\ UNCHANGED serverVars
  BY DEF UndoServed
<1> DEFINE then == [Now EXCEPT !.rev = @ + 1]
           removed == {t.id : t \in Touching(Recomputed(Now, active), c.pair)}
           stories == Touching(Recomputed(then, active \ {c}), c.pair)
           answer == Answer(removed, stories, {c})
<1>5. CASE /\ c \in active /\ Commit(active \ {c})
           /\ undo' = [undo EXCEPT !.left = @ \ {c}, !.stage = "answered", !.answer = answer]
  <2>1. /\ World' \in Worlds /\ Later(World, World') /\ revision' <= MaxRevision
        /\ World' = [gen |-> generation, rev |-> revision + 1, active |-> active \ {c},
                     mixed |-> page.mixed]
    BY <1>2, <1>3, <1>5, CommittedWorld
  <2>2. /\ World'.gen = generation /\ World'.rev = revision + 1 /\ World'.active = active \ {c}
        /\ World'.mixed = page.mixed /\ Here(World') = then
    BY <2>1 DEF Here, Now
  <2>3. stories \subseteq Story /\ AllHonest(stories, World')
    <3>1. LET touching == Touching(Recomputed(Here(World'), World'.active), c.pair)
          IN touching \subseteq Story /\ AllHonest(touching, World')
      BY <2>1, TouchingHonest
    <3> HIDE DEF then
    <3> QED
      BY <2>2, <3>1
  <2>4. then \in Projection /\ then.gen = generation /\ then.rev = revision + 1
    BY <1>2 DEF Now, Projection
  <2>5. \A t \in stories : t.at # None => t.at = then
    BY <1>2, <2>4, RecomputedMade DEF MadeOf, Touching
  <2>6. removed \subseteq StoryIds
    <3>1. \A t \in Recomputed(Now, active) : t \in Story
      BY <1>2, RecomputedMade DEF MadeOf
    <3> QED
      BY <3>1 DEF Touching, Story, StoryIds
  <2> HIDE DEF then, removed, stories
  <2>7. /\ answer \in SplitAnswer /\ answer.stories = stories /\ c \in undo.corrections
    BY <1>1, <1>2, <1>5, <2>3, <2>6 DEF Answer, SplitAnswer, UndoOK
  <2> HIDE DEF answer
  <2>8. /\ undo' \in Undo /\ undo'.left = undo.left \ {c} /\ undo'.stage = "answered"
        /\ undo'.answer = answer /\ undo'.feed = undo.feed /\ undo'.proj = undo.proj
        /\ undo'.corrections = undo.corrections /\ undo'.stories = undo.stories
        /\ undo'.rev = undo.rev
    BY <1>1, <1>5, <2>7 DEF Undo
  <2>9. UndoOK(undo, World')
    BY <2>1, KeptLater
  <2>10. AnswerOf(undo', then, World')
    <3>1. undo'.proj.gen <= then.gen
      BY <1>1, <1>2, <2>4, <2>8 DEF UndoOK
    <3>2. undo'.rev < (IF World'.mixed THEN then.rev + 1 ELSE then.rev)
      <4>1. undo.rev \in Nat /\ undo.rev <= Limit(World)
        BY <1>1 DEF UndoOK, Undo
      <4>2. World.mixed = page.mixed
        BY DEF World
      <4> QED
        BY <1>2, <2>2, <2>4, <2>8, <4>1, <4>2 DEF Limit
    <3>3. undo'.answer.stories = Touching(Recomputed(then, World'.active), c.pair)
      BY <2>2, <2>7, <2>8 DEF stories
    <3> QED
      BY <2>5, <2>7, <2>8, <3>1, <3>2, <3>3 DEF AnswerOf
  <2>11. then \in [gen : 1..World'.gen, rev : 0..World'.rev]
    BY <1>2, <2>1, <2>2, <2>4 DEF Projection, Worlds
  <2>12. UndoOK(undo', World')
    BY <1>1, <2>3, <2>7, <2>8, <2>9, <2>10, <2>11 DEF UndoOK
  <2>13. /\ PageOK(page, World') /\ HonestPage(saved, World')
         /\ \A r \in reads : ReadOK(r, page, World')
         /\ DialogOK(dialog, World')
         /\ \A s \in splits : SplitOK(s, World')
    BY <2>1, KeptLater
  <2>14. dialog' = dialog /\ pending' = pending /\ splits' = splits /\ toast' = toast
    BY <1>3 DEF correctionVars
  <2> QED
    BY <1>3, <2>1, <2>12, <2>13, <2>14 DEF IInv
<1>6. CASE undo' = [undo EXCEPT !.stage = "failed"] /\ UNCHANGED serverVars
  <2>1. /\ undo' \in Undo /\ undo'.stage = "failed" /\ undo'.left = undo.left
        /\ undo'.feed = undo.feed /\ undo'.proj = undo.proj
        /\ undo'.corrections = undo.corrections /\ undo'.stories = undo.stories
        /\ undo'.rev = undo.rev
    BY <1>1, <1>6 DEF Undo
  <2>2. UndoOK(undo', World)
    BY <1>1, <2>1, FailedUndo
  <2>3. failures' \in 0..MaxFailures
    BY <1>3 DEF IInv
  <2> QED
    BY <1>3, <1>6, <2>2, <2>3, UndoStep
<1> QED
  BY <1>4, <1>5, <1>6

LEMMA UndoLostStep ==
  ASSUME IInv, UndoLost
  PROVE  IInv'
<1>1. /\ undo # None /\ undo' = [undo EXCEPT !.stage = "failed", !.answer = None]
      /\ failures < MaxFailures /\ failures' = failures + 1
      /\ UNCHANGED <<serverVars, page, saved, reads, loading, loadingMore, correctionVars>>
  BY DEF UndoLost, others
<1>2. undo \in Undo /\ UndoOK(undo, World)
  BY <1>1 DEF IInv, UndoOK
<1>3. /\ undo' \in Undo /\ undo'.stage = "failed" /\ undo'.left = undo.left
      /\ undo'.feed = undo.feed /\ undo'.proj = undo.proj
      /\ undo'.corrections = undo.corrections /\ undo'.stories = undo.stories
      /\ undo'.rev = undo.rev
  BY <1>1, <1>2 DEF Undo
<1>4. UndoOK(undo', World)
  BY <1>1, <1>2, <1>3, FailedUndo
<1> QED
  BY <1>1, <1>4, FailedOnce, UndoStep

LEMMA UndoOutdatedStep ==
  ASSUME IInv, UndoOutdated
  PROVE  IInv'
<1>1. /\ undo' = None /\ toast' = None /\ page' = page /\ dialog' = dialog
      /\ pending' = pending /\ splits' = splits /\ failures' = failures
      /\ UNCHANGED <<serverVars, page, saved, reads, loading, loadingMore>>
  BY DEF UndoOutdated, others
<1>2. UndoOK(undo', World) /\ ToastOK(toast')
  BY <1>1 DEF UndoOK, ToastOK
<1>3. /\ DialogOK(dialog', World) /\ (dialog' # None => InContext(dialog', page))
      /\ \A s \in splits' : SplitOK(s, World)
      /\ Waiting(splits', dialog', pending') /\ failures' \in 0..MaxFailures
  BY <1>1 DEF IInv
<1> QED
  BY <1>1, <1>2, <1>3, CorrectionStep

\* What an answered undo makes of its stories and of its count.
LEMMA UndoCounted ==
  ASSUME IInv, undo # None, undo.stage = "answered"
  PROVE  LET stories == Replaced(undo.stories, undo.answer)
             rev == RevisionAfter(undo.answer, undo.rev)
         IN AllHonest(stories, World) /\ rev \in Nat /\ rev <= Limit(World)
<1>1. /\ undo \in Undo /\ UndoOK(undo, World) /\ World \in Worlds
      /\ AllHonest(undo.stories, World) /\ AllHonest(undo.answer.stories, World)
  BY DEF IInv, UndoOK
<1>2. PICK at \in [gen : 1..World.gen, rev : 0..World.rev] : AnswerOf(undo, at, World)
  BY <1>1 DEF UndoOK
<1>3. undo.rev \in Nat
  BY <1>1 DEF Undo
<1>4. undo.rev < Limit(World)
  <2>1. at.rev \in Nat /\ at.rev <= World.rev
    BY <1>1, <1>2 DEF Worlds
  <2>2. undo.rev < (IF World.mixed THEN at.rev + 1 ELSE at.rev)
    BY <1>2 DEF AnswerOf
  <2> QED
    BY <1>1, <1>3, <2>1, <2>2 DEF Limit, Worlds
<1> QED
  BY <1>1, <1>3, <1>4, ReplacedHonest, RevisionCounted

LEMMA UndoDoneStep ==
  ASSUME IInv, UndoDone
  PROVE  IInv'
<1> DEFINE stories == Replaced(undo.stories, undo.answer)
           rev == RevisionAfter(undo.answer, undo.rev)
           p == Counted(stories, rev)
<1>1. /\ undo # None /\ undo.stage = "answered" /\ InContext(undo, page)
      /\ saved' = saved /\ reads' = reads /\ loading' = loading /\ loadingMore' = loadingMore
      /\ failures' = failures /\ UNCHANGED <<serverVars, saved, reads, loading, loadingMore>>
  BY DEF UndoDone, others
<1>2. AllHonest(stories, World) /\ rev \in Nat /\ rev <= Limit(World)
  BY <1>1, UndoCounted
<1>3. /\ undo \in Undo /\ UndoOK(undo, World) /\ page.proj \in Projection /\ World \in Worlds
  BY <1>1 DEF IInv, UndoOK, Undo, InContext
<1>4. failures' \in 0..MaxFailures
  BY <1>1 DEF IInv
<1>5. CASE /\ undo' = [undo EXCEPT !.stories = stories, !.rev = rev, !.stage = "asked",
                                   !.answer = None]
           /\ UNCHANGED <<page, correctionVars>>
  <2> HIDE DEF stories, rev
  <2>1. stories \subseteq Story
    BY <1>2 DEF AllHonest, Honest
  <2>2. /\ undo' \in Undo /\ undo'.stage = "asked" /\ undo'.left = undo.left
        /\ undo'.feed = undo.feed /\ undo'.proj = undo.proj
        /\ undo'.corrections = undo.corrections /\ undo'.stories = stories
        /\ undo'.rev = rev
    BY <1>2, <1>3, <1>5, <2>1 DEF Undo
  <2>3. UndoOK(undo', World)
    BY <1>1, <1>2, <1>3, <2>2 DEF UndoOK
  <2> QED
    BY <1>1, <1>4, <1>5, <2>3, UndoStep
<1>6. CASE undo' = None /\ Render(p, dialog, pending, splits, None)
  <2> HIDE DEF stories, rev
  <2>1. PageOK(p, World) /\ p.feed = page.feed /\ p.mixed = page.mixed
    BY <1>2, <1>3, CountedPage
  <2> HIDE DEF p
  <2>2. /\ DialogOK(dialog, World) /\ \A s \in splits : SplitOK(s, World)
        /\ Waiting(splits, dialog, pending) /\ ToastOK(None)
    BY DEF IInv, ToastOK
  <2>3. /\ page' = p
        /\ DialogOK(dialog', World) /\ (dialog' # None => InContext(dialog', p))
        /\ \A s \in splits' : SplitOK(s, World)
        /\ Waiting(splits', dialog', pending')
        /\ ToastOK(toast') /\ (toast' # None => InContext(toast', p))
    BY <1>6, <2>2, RenderKeeps
  <2>4. World' = World /\ revision' = revision
    BY <1>1, <2>1, <2>3, SameWorld DEF serverVars
  <2>5. \A r \in reads : ReadOK(r, p, World)
    BY <2>1 DEF IInv, ReadOK
  <2>6. UndoOK(undo', World)
    BY <1>6 DEF UndoOK
  <2> QED
    BY <1>1, <1>4, <2>1, <2>3, <2>4, <2>5, <2>6 DEF IInv
<1> QED
  BY <1>5, <1>6 DEF UndoDone, Counted

LEMMA UndoFailedStep ==
  ASSUME IInv, UndoFailed
  PROVE  IInv'
<1>1. /\ undo' = None /\ reads' = Refreshed(reads)
      /\ page' = page /\ saved' = saved /\ dialog' = dialog /\ revision' = revision
      /\ pending' = pending /\ splits' = splits /\ toast' = toast /\ failures' = failures
      /\ loading' = loading /\ loadingMore' = loadingMore /\ UNCHANGED serverVars
  BY DEF UndoFailed, others, correctionVars, serverVars
<1>2. World' = World
  BY <1>1, SameWorld
<1>3. UndoOK(undo', World)
  BY <1>1 DEF UndoOK
<1>4. \A r \in reads' : ReadOK(r, page, World)
  BY <1>1, RefreshedOK
<1> QED
  BY <1>1, <1>2, <1>3, <1>4 DEF IInv

LEMMA UndoArrivesStep ==
  ASSUME IInv, UndoArrives
  PROVE  IInv'
BY UndoOutdatedStep, UndoDoneStep, UndoFailedStep DEF UndoArrives

-----------------------------------------------------------------------------
(* The invariant holds, and what follows from it *)

LEMMA NextInv == IInv /\ [Next]_vars => IInv'
<1> SUFFICES ASSUME IInv, [Next]_vars
             PROVE  IInv'
  OBVIOUS
<1>1. CASE UNCHANGED vars
  BY <1>1 DEF IInv, vars, World
<1>2. CASE Publish
  BY <1>2, PublishStep
<1>3. CASE OtherTab
  BY <1>3, OtherTabStep
<1>4. ASSUME NEW feed \in Feeds, SwitchFeed(feed)
      PROVE  IInv'
  BY <1>4, SwitchFeedStep
<1>5. CASE Refresh
  BY <1>5, RefreshStep
<1>6. CASE LoadMore
  BY <1>6, LoadMoreStep
<1>7. ASSUME NEW r \in reads, Serve(r) \/ Arrives(r) \/ ReadFails(r)
      PROVE  IInv'
  BY <1>7, ServeStep, ArrivesStep, ReadFailsStep
<1>8. ASSUME NEW card \in page.stories, OpenDialog(card)
      PROVE  IInv'
  BY <1>8, OpenDialogStep
<1>9. CASE CloseDialog
  BY <1>9, CloseDialogStep
<1>10. ASSUME NEW rejected \in SUBSET Articles, Submit(rejected)
       PROVE  IInv'
  BY <1>10, SubmitStep
<1>11. ASSUME NEW s \in splits,
              SplitServed(s) \/ ReloadServed(s) \/ SplitArrives(s) \/ SplitLost(s)
       PROVE  IInv'
  BY <1>11, SplitServedStep, ReloadServedStep, SplitArrivesStep, SplitLostStep
<1>12. CASE ClickUndo
  BY <1>12, ClickUndoStep
<1>13. CASE UndoServed
  BY <1>13, UndoServedStep
<1>14. CASE UndoLost
  BY <1>14, UndoLostStep
<1>15. CASE UndoArrives
  BY <1>15, UndoArrivesStep
<1> QED
  BY <1>1, <1>2, <1>3, <1>4, <1>5, <1>6, <1>7, <1>8, <1>9, <1>10, <1>11, <1>12, <1>13, <1>14,
     <1>15 DEF Next

LEMMA AlwaysIInv == Spec => []IInv
BY InitInv, NextInv, PTL DEF Spec

\* Every variable of the page and of the server has its type, for any articles,
\* clustering and generations (HomePage.tsx, store.ts).
THEOREM TypeCorrect == Spec => []TypeOK
<1>1. IInv => TypeOK
  <2> SUFFICES ASSUME IInv
               PROVE  TypeOK
    OBVIOUS
  <2>1. /\ generation \in 1..Len(Generations) /\ active \subseteq Correction
        /\ revision \in 0..MaxRevision
    BY FeedAssumption DEF IInv, World, Worlds
  <2>2. page \in PageState /\ {page.older, page.mixed} \subseteq BOOLEAN
    BY DEF IInv, PageOK, PageState
  <2>3. /\ page.feed \in Feeds /\ page.stories \subseteq Story
        /\ page.next \in Articles \cup {None} /\ page.proj \in Projection \cup {None}
    BY <2>2 DEF PageState
  <2>4. /\ saved.items \subseteq Story /\ saved.next \in Articles \cup {None}
        /\ saved.at \in Projection
    BY DEF IInv, HonestPage, Page
  <2>5. \A r \in reads : /\ r.why \in {"refresh", "feed", "more"} /\ r.feed \in Feeds
                         /\ r.answer # None => r.answer.items \subseteq Story
    BY DEF IInv, ReadOK, Request, HonestPage, Page
  <2>6. {loading, loadingMore, pending} \subseteq BOOLEAN /\ failures \in 0..MaxFailures
    BY DEF IInv, Waiting
  <2>7. dialog # None => /\ dialog.feed \in Feeds
                         /\ {dialog.card.at, dialog.proj} \subseteq Projection
    BY DEF IInv, DialogOK, Dialog, Story
  <2>8. \A s \in splits :
          /\ s.stage \in {"asked", "done", "conflict", "reload", "reloaded", "failed"}
          /\ s.stories \subseteq Story /\ s.live \in BOOLEAN
    BY DEF IInv, SplitOK, AskedOK, Split
  <2>9. toast # None => toast.feed \in Feeds /\ toast.corrections \subseteq Correction
    BY DEF IInv, ToastOK, Toast
  <2>10. undo # None => /\ undo.stage \in {"asked", "answered", "failed"}
                        /\ undo.left \subseteq Correction /\ undo.stories \subseteq Story
    BY DEF IInv, UndoOK, Undo
  <2> QED
    BY <2>1, <2>2, <2>3, <2>4, <2>5, <2>6, <2>7, <2>8, <2>9, <2>10 DEF TypeOK
<1> QED
  BY <1>1, AlwaysIInv, PTL

\* The page never claims a projection the server has not had: not after any order
\* of answers, splits and undos.  Where Load more gave a story on display other
\* articles it may be one revision ahead (HomePage.tsx, coverageProjectionAtRevision).
THEOREM ProjectionIsServed == Spec => []ProjectionWasServed
<1>1. IInv => ProjectionWasServed
  BY DEF IInv, PageOK, PageState, World, Limit, ProjectionWasServed
<1> QED
  BY <1>1, AlwaysIInv, PTL

\* An answer to one feed never changes what another feed shows: a request of a
\* feed is dropped with it, and an answer of more is compared with the feed.
THEOREM AnswersStayInFeed == Spec => AnswersOfThisFeed
<1>1. IInv /\ [Next]_vars =>
        [\A r \in reads : r.why # "refresh" /\ Arrives(r) /\ page'.stories # page.stories
                            => r.feed = page.feed]_vars
  <2> SUFFICES ASSUME IInv, NEW r \in reads, r.why # "refresh", Arrives(r),
                      page'.stories # page.stories
               PROVE  r.feed = page.feed
    OBVIOUS
  <2>1. CASE FeedArrives(r)
    BY <2>1 DEF IInv, ReadOK, FeedArrives
  <2>2. CASE MoreArrives(r)
    BY <2>2 DEF MoreArrives
  <2>3. ~RefreshArrives(r)
    BY DEF RefreshArrives
  <2> QED
    BY <2>1, <2>2, <2>3 DEF Arrives
<1> QED
  BY <1>1, AlwaysIInv, PTL DEF Spec, AnswersOfThisFeed

\* Only an undo that is answered ends an undo and changes the page.
LEMMA UndoEnds ==
  ASSUME Next, undo # None, undo' = None, page' # page
  PROVE  UndoDone
<1>1. undo' # undo
  OBVIOUS
<1>2. ~Publish /\ ~OtherTab /\ ~Refresh /\ ~LoadMore /\ ~CloseDialog
  BY <1>1 DEF Publish, OtherTab, Refresh, LoadMore, CloseDialog
<1>3. \A feed \in Feeds : ~SwitchFeed(feed)
  BY <1>1 DEF SwitchFeed
<1>4. \A r \in reads : ~Serve(r) /\ ~Arrives(r) /\ ~ReadFails(r)
  BY <1>1 DEF Serve, ReadFails, Arrives, RefreshArrives, FeedArrives, MoreArrives
<1>5. \A card \in page.stories : ~OpenDialog(card)
  BY <1>1 DEF OpenDialog
<1>6. \A rejected \in SUBSET Articles : ~Submit(rejected)
  BY <1>1 DEF Submit
<1>7. \A s \in splits : ~SplitServed(s) /\ ~ReloadServed(s) /\ ~SplitArrives(s) /\ ~SplitLost(s)
  BY <1>1 DEF SplitServed, ReloadServed, SplitArrives, SplitLost
<1>8. ~ClickUndo /\ ~UndoServed /\ ~UndoLost /\ ~UndoOutdated /\ ~UndoFailed
  BY DEF ClickUndo, UndoServed, UndoLost, UndoOutdated, UndoFailed
<1> QED
  BY <1>2, <1>3, <1>4, <1>5, <1>6, <1>7, <1>8 DEF Next, UndoArrives

\* A split or an undo changes the page only in the feed, the generation and the
\* revision it was asked for in (coverageCorrectionContextMatches).
THEOREM CorrectionsInContext == Spec => CorrectionsStayInContext
<1>1. IInv /\ [Next]_vars =>
        [/\ \A s \in splits : SplitDone(s) \/ SplitReloaded(s)
              => s.feed = page.feed /\ s.proj = page.proj
         /\ undo # None /\ undo' = None /\ page' # page
              => undo.feed = page.feed /\ undo.proj = page.proj]_vars
  <2> SUFFICES ASSUME IInv, Next
               PROVE  /\ \A s \in splits : SplitDone(s) \/ SplitReloaded(s)
                           => s.feed = page.feed /\ s.proj = page.proj
                      /\ undo # None /\ undo' = None /\ page' # page
                           => undo.feed = page.feed /\ undo.proj = page.proj
    BY DEF vars
  <2>1. \A s \in splits : SplitDone(s) \/ SplitReloaded(s)
          => s.feed = page.feed /\ s.proj = page.proj
    BY AwaitedSplit DEF SplitDone, SplitReloaded
  <2>2. undo # None /\ undo' = None /\ page' # page
          => undo.feed = page.feed /\ undo.proj = page.proj
    BY UndoEnds DEF UndoDone, InContext
  <2> QED
    BY <2>1, <2>2
<1> QED
  BY <1>1, AlwaysIInv, PTL DEF Spec, CorrectionsStayInContext

\* Reconciling the page after a conflict shows no article twice, if the page that
\* sent the split did not (coverageConflictRefreshState).
THEOREM ConflictsLeaveNoDuplicates == Spec => ConflictLeavesNoDuplicates
<1>1. IInv /\ [Next]_vars =>
        [\A s \in splits : SplitReloaded(s) /\ Disjoint(s.stories) => Disjoint(page'.stories)]_vars
  <2> SUFFICES ASSUME IInv, NEW s \in splits, SplitReloaded(s), Disjoint(s.stories)
               PROVE  Disjoint(page'.stories)
    OBVIOUS
  <2>1. s.stage = "reloaded" /\ SplitOK(s, World) /\ page \in PageState
    BY DEF SplitReloaded, IInv, PageOK
  <2>2. Disjoint(s.answer.page.items) /\ Disjoint(s.answer.stories)
    BY <2>1 DEF SplitOK, HonestPage
  <2>3. Disjoint(Reconciled(s))
    BY <2>2, ReconciledDisjoint
  <2>4. page'.stories = Reconciled(s)
    BY <2>1 DEF SplitReloaded, Render, PageState
  <2> QED
    BY <2>3, <2>4
<1> QED
  BY <1>1, AlwaysIInv, PTL DEF Spec, ConflictLeavesNoDuplicates

\* A finished undo leaves on the page, in one story, what is in one story again,
\* when the page claims the newest projection: then the last of its answers was
\* of that projection, and it had every story of the article all its pairs share.
THEOREM UndosRejoin == Spec => UndoRejoins
<1>1. IInv /\ [Next]_vars =>
        [undo # None /\ undo' = None /\ page' # page /\ page'.proj = Now /\ ~page.mixed
           => \A c \in undo.corrections :
                (\E t \in Effective(Now, active) : c.pair \subseteq t.articles)
                  => \E t \in page'.stories : c.pair \subseteq t.articles]_vars
  <2> SUFFICES ASSUME IInv, Next, undo # None, undo' = None, page' # page, page'.proj = Now,
                      ~page.mixed, NEW c \in undo.corrections,
                      NEW t \in Effective(Now, active), c.pair \subseteq t.articles
               PROVE  \E u \in page'.stories : c.pair \subseteq u.articles
    BY DEF vars
  <2> DEFINE stories == Replaced(undo.stories, undo.answer)
             rev == RevisionAfter(undo.answer, undo.rev)
  <2>1. UndoDone
    BY UndoEnds
  <2>2. /\ undo.stage = "answered" /\ undo \in Undo /\ UndoOK(undo, World)
        /\ page.proj = undo.proj /\ page.proj \in Projection
    BY <2>1 DEF UndoDone, IInv, UndoOK, Undo, InContext
  <2>3. page' = Counted(stories, rev)
    <3>1. undo.left = {}
      BY <2>1, <2>2 DEF UndoDone, Undo
    <3> QED
      BY <2>1, <3>1 DEF UndoDone, Render, Counted
  <2>4. page'.stories = stories /\ page'.proj = [page.proj EXCEPT !.rev = rev]
    <3>1. AllHonest(stories, World) /\ rev \in Nat /\ rev <= Limit(World)
      BY <2>2, UndoCounted
    <3> HIDE DEF stories, rev
    <3>2. /\ Counted(stories, rev).stories = stories
          /\ Counted(stories, rev).proj = [page.proj EXCEPT !.rev = rev]
      BY <2>2, <3>1, CountedPage
    <3> QED
      BY <2>3, <3>2
  <2>5. rev = revision /\ undo.proj.gen = generation
    <3> HIDE DEF rev
    <3> QED
      BY <2>2, <2>4 DEF Now, Projection
  <2>6. /\ Now \in Projection /\ Now = Here(World) /\ active \in SUBSET Correction
        /\ revision \in Nat /\ generation \in Nat /\ World \in Worlds
        /\ World.active = active /\ World.rev = revision /\ World.gen = generation
        /\ ~World.mixed
    BY NowIsProjection DEF World
  <2>7. PICK at \in [gen : 1..World.gen, rev : 0..World.rev] : AnswerOf(undo, at, World)
    BY <2>2 DEF UndoOK
  <2>8. at.gen \in Nat /\ at.rev \in Nat /\ at.gen <= generation /\ at.rev <= revision
    BY <2>6, <2>7
  <2>9. at.gen = generation
    BY <2>5, <2>6, <2>7, <2>8 DEF AnswerOf
  <2>10. at.rev = revision
    <3>1. CASE Ungrouped(undo.answer.stories)
      <4>1. revision = undo.rev + 1
        BY <2>5, <3>1 DEF RevisionAfter, Ungrouped
      <4>2. undo.rev < at.rev /\ undo.rev \in Nat
        BY <2>2, <2>6, <2>7 DEF AnswerOf, Undo
      <4> QED
        BY <2>8, <4>1, <4>2
    <3>2. CASE ~Ungrouped(undo.answer.stories)
      <4> DEFINE u == CHOOSE x \in undo.answer.stories : x.at # None
      <4>1. u \in undo.answer.stories /\ u.at # None
        BY <3>2 DEF Ungrouped
      <4>2. revision = u.at.rev
        BY <2>5, <3>2 DEF RevisionAfter, Ungrouped
      <4> HIDE DEF u
      <4> QED
        BY <2>7, <4>1, <4>2 DEF AnswerOf
    <3> QED
      BY <3>1, <3>2
  <2>11. PICK d \in undo.corrections :
           undo.answer.stories = Touching(Recomputed(Now, active), d.pair)
    <3>1. at = Now
      BY <2>7, <2>8, <2>9, <2>10 DEF Now
    <3> QED
      BY <2>6, <2>7, <2>9, <2>10, <3>1 DEF AnswerOf
  <2>12. PICK a \in Articles : a \in c.pair /\ a \in d.pair
    BY <2>2 DEF UndoOK, SharedAnchor
  <2>13. PICK u \in Recomputed(Now, active) : u.articles = t.articles
    <3>1. t.articles \in Groups(Now.gen, Pairs(active))
      BY <2>6, EffectiveMade DEF MadeOf
    <3> QED
      BY <2>6, <3>1, RecomputedMade DEF MadeOf
  <2>14. u \in undo.answer.stories
    BY <2>11, <2>12, <2>13 DEF Touching
  <2>15. u \in page'.stories
    BY <2>4, <2>14 DEF Replaced
  <2> QED
    BY <2>13, <2>15
<1> QED
  BY <1>1, AlwaysIInv, PTL DEF Spec, UndoRejoins
=============================================================================
