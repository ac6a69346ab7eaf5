----------------------- MODULE CoverageAnalysis_proofs -----------------------
(***************************************************************************)
(* Proofs about clustering and naming, for any articles, any judgements and*)
(* any history: types, the groups, and the promise of the greedy reuse.    *)
(*                                                                         *)
(* That a group hangs together is said of its cuts, so joining groups is a *)
(* matter of finding, for every cut of the union, a part that is cut.  No  *)
(* step of the two loops gives up GroupsHold (ClusterInv).                 *)
(*                                                                         *)
(* The promise is about finished calls.  What carries it through the loops:*)
(* ids are handed out once (Distinct), each by right of an overlap or as a *)
(* fresh one (ByRight); in the first loop everyone named has its own id    *)
(* (OwnFirst); in the second whoever was named shares at least as much as  *)
(* any option still to come (Descending); and an option that is gone was   *)
(* taken or lost to a better claim (Settled).                              *)
(***************************************************************************)
EXTENDS CoverageAnalysis, FiniteSetTheorems, WellFoundedInduction, TLAPS

-----------------------------------------------------------------------------
(* Clustering *)

\* The first loop only works with edges it may use.
StrongSound == stage = "seeding" => strong \subseteq Strong

ClusterInv == ClusterTypeOK /\ StrongSound /\ GroupsHold

-----------------------------------------------------------------------------
(* Edges and groups *)

LEMMA EdgeEnds ==
  ASSUME NEW edge \in Pair
  PROVE  /\ edge \subseteq Article
         /\ \E x, y \in edge : x # y /\ edge = {x, y}
BY DEF Pair

\* A group that is cut is crossed at the cut.
LEMMA PartCrossed ==
  ASSUME NEW g, Connected(g), NEW S, g \cap S # {}, g \ S # {}
  PROVE  \E a \in g \cap S, b \in g \ S : {a, b} \in Accepted
<1>1. /\ g \cap S \in SUBSET g
      /\ g \cap S # g
      /\ g \ (g \cap S) = g \ S
  OBVIOUS
<1>2. \E a \in g \cap S, b \in g \ (g \cap S) : {a, b} \in Accepted
  BY <1>1 DEF Connected
<1> QED
  BY <1>1, <1>2

\* The groups an accepted edge touches hang together with it.
LEMMA JoinConnects ==
  ASSUME NEW edge \in Accepted, \A g \in groups : Connected(g)
  PROVE  Connected(edge \cup UNION Touched(edge))
<1> DEFINE whole == edge \cup UNION Touched(edge)
<1> SUFFICES ASSUME NEW S \in SUBSET whole, S # {}, S # whole
             PROVE  \E a \in S, b \in whole \ S : {a, b} \in Accepted
  BY DEF Connected
<1>1. PICK x, y \in edge : x # y /\ edge = {x, y}
  BY EdgeEnds DEF Accepted
<1>2. \A g \in Touched(edge) : g \subseteq whole /\ Connected(g) /\ (x \in g \/ y \in g)
  BY <1>1 DEF Touched
<1>3. CASE x \in S /\ y \notin S
  BY <1>1, <1>3
<1>4. CASE y \in S /\ x \notin S
  <2>1. {y, x} \in Accepted
    BY <1>1
  <2> QED
    BY <1>1, <1>4, <2>1
<1>5. CASE x \in S /\ y \in S
  <2>1. PICK z \in whole : z \notin S
    OBVIOUS
  <2>2. PICK g \in Touched(edge) : z \in g
    BY <1>1, <1>5, <2>1
  <2>3. g \cap S # {} /\ g \ S # {}
    BY <1>2, <1>5, <2>1, <2>2
  <2>4. PICK a \in g \cap S, b \in g \ S : {a, b} \in Accepted
    BY <1>2, <2>3, PartCrossed
  <2>5. a \in S /\ b \in whole \ S
    BY <1>2
  <2> QED
    BY <2>4, <2>5
<1>6. CASE x \notin S /\ y \notin S
  <2>1. PICK z \in S : z \in whole
    OBVIOUS
  <2>2. PICK g \in Touched(edge) : z \in g
    BY <1>1, <1>6, <2>1
  <2>3. g \cap S # {} /\ g \ S # {}
    BY <1>2, <1>6, <2>1, <2>2
  <2>4. PICK a \in g \cap S, b \in g \ S : {a, b} \in Accepted
    BY <1>2, <2>3, PartCrossed
  <2>5. a \in S /\ b \in whole \ S
    BY <1>2
  <2> QED
    BY <2>4, <2>5
<1> QED
  BY <1>3, <1>4, <1>5, <1>6

\* So does an article with a group it is close to.
LEMMA AdmissionConnects ==
  ASSUME NEW g, Connected(g), NEW a, a \notin g, CloseTo(a, g)
  PROVE  Connected(g \cup {a})
<1> SUFFICES ASSUME NEW S \in SUBSET (g \cup {a}), S # {}, S # g \cup {a}
             PROVE  \E x \in S, y \in (g \cup {a}) \ S : {x, y} \in Accepted
  BY DEF Connected
<1>1. PICK b \in g : {a, b} \in Accepted
  BY DEF CloseTo, Anchor
<1>2. CASE g \cap S # {} /\ g \ S # {}
  <2>1. PICK x \in g \cap S, y \in g \ S : {x, y} \in Accepted
    BY <1>2, PartCrossed
  <2> QED
    BY <2>1
<1>3. CASE g \cap S = {}
  <2>1. a \in S /\ b \notin S
    BY <1>3
  <2> QED
    BY <1>1, <2>1
<1>4. CASE g \ S = {}
  <2>1. b \in S /\ a \notin S
    BY <1>4
  <2>2. {b, a} \in Accepted
    BY <1>1
  <2> QED
    BY <2>1, <2>2
<1> QED
  BY <1>2, <1>3, <1>4

LEMMA AloneHolds ==
  ASSUME NEW a
  PROVE  ~Blocked({a}) /\ Connected({a})
<1>1. ~Blocked({a})
  BY EdgeEnds DEF Blocked
<1>2. Connected({a})
  BY DEF Connected
<1> QED
  BY <1>1, <1>2

-----------------------------------------------------------------------------
(* The steps of the loops *)

\* Blocked and Connected depend on the judgement alone.
LEMMA SameJudgement ==
  ASSUME judgement' = judgement
  PROVE  /\ Accepted' = Accepted /\ Strong' = Strong
         /\ \A g : Blocked(g)' = Blocked(g) /\ Connected(g)' = Connected(g)
<1>1. Accepted' = Accepted
  BY DEF Accepted
<1>2. Strong' = Strong
  BY <1>1 DEF Strong
<1>3. \A g : Blocked(g)' = Blocked(g)
  BY <1>1 DEF Blocked, Lifted
<1>4. \A g : Connected(g)' = Connected(g)
  BY <1>1 DEF Connected
<1> QED
  BY <1>1, <1>2, <1>3, <1>4

LEMMA StrongEdgeSafe ==
  ASSUME ClusterInv, NEW edge \in strong, JoinStrong(edge)
  PROVE  ClusterInv'
<1> DEFINE candidate == edge \cup UNION Touched(edge)
<1> USE DEF ClusterInv
<1>1. judgement' = judgement /\ stage = "seeding" /\ edge \in Accepted /\ edge \in Pair
  BY DEF JoinStrong, StrongSound, Strong, Accepted
<1>2. StrongSound'
  BY <1>1, SameJudgement DEF StrongSound, JoinStrong
<1>3. candidate \subseteq Article
  BY <1>1, EdgeEnds DEF Touched, ClusterTypeOK
<1>4. ClusterTypeOK'
  BY <1>1, <1>3 DEF ClusterTypeOK, JoinStrong
<1>5. GroupsHold'
  <2>1. CASE Blocked(candidate)
    <3>1. groups' = groups
      BY <2>1 DEF JoinStrong
    <3> QED
      BY <1>1, <3>1, SameJudgement DEF GroupsHold
  <2>2. CASE ~Blocked(candidate)
    <3>1. groups' = (groups \ Touched(edge)) \cup {candidate}
      BY <2>2 DEF JoinStrong
    <3>2. Connected(candidate)
      BY <1>1, JoinConnects DEF GroupsHold
    <3>3. \A g \in groups \ Touched(edge) : g \cap candidate = {}
      BY DEF GroupsHold, Touched
    <3>4. \A g \in groups' : ~Blocked(g) /\ Connected(g)
      BY <2>2, <3>1, <3>2 DEF GroupsHold
    <3>5. \A g, h \in groups' : g # h => g \cap h = {}
      BY <3>1, <3>3 DEF GroupsHold
    <3> QED
      BY <1>1, <3>4, <3>5, SameJudgement DEF GroupsHold
  <2> QED
    BY <2>1, <2>2
<1> QED
  BY <1>2, <1>4, <1>5

LEMMA PlaceSafe ==
  ASSUME ClusterInv, NEW a \in unplaced, Place(a)
  PROVE  ClusterInv'
<1> USE DEF ClusterInv
<1>1. /\ judgement' = judgement /\ stage' = stage /\ stage = "placing"
      /\ strong' = strong /\ unplaced' \subseteq unplaced /\ a \in Article
  BY DEF Place, IsNextArticle, ClusterTypeOK
<1>2. StrongSound'
  BY <1>1 DEF StrongSound
<1>3. CASE groups' = groups
  <2>1. ClusterTypeOK'
    BY <1>1, <1>3 DEF ClusterTypeOK
  <2>2. GroupsHold'
    BY <1>1, <1>3, SameJudgement DEF GroupsHold
  <2> QED
    BY <1>2, <2>1, <2>2
<1>4. CASE /\ a \notin UNION groups
           /\ \E g \in groups : Candidates(a) = {g} /\ groups' = PlaceIn(a, g)
           /\ groups' # groups
  <2>1. PICK g \in groups : Candidates(a) = {g} /\ groups' = PlaceIn(a, g)
    BY <1>4
  <2>2. /\ groups' = (groups \ {g}) \cup {g \cup {a}}
        /\ ~Blocked(g \cup {a})
    BY <1>4, <2>1 DEF PlaceIn
  <2>3. Connected(g \cup {a})
    BY <1>4, <2>1, AdmissionConnects DEF GroupsHold, Candidates
  <2>4. ClusterTypeOK'
    BY <1>1, <2>2 DEF ClusterTypeOK
  <2>5. \A h \in groups' : ~Blocked(h) /\ Connected(h)
    BY <2>2, <2>3 DEF GroupsHold
  <2>6. \A h \in groups \ {g} : h \cap (g \cup {a}) = {}
    BY <1>4 DEF GroupsHold
  <2>7. \A h, i \in groups' : h # i => h \cap i = {}
    BY <2>2, <2>6 DEF GroupsHold
  <2> QED
    BY <1>1, <1>2, <2>4, <2>5, <2>7, SameJudgement DEF GroupsHold
<1>5. CASE a \notin UNION groups /\ groups' = groups \cup {{a}}
  <2>1. ClusterTypeOK'
    BY <1>1, <1>5 DEF ClusterTypeOK
  <2>2. \A h \in groups' : ~Blocked(h) /\ Connected(h)
    BY <1>5, AloneHolds DEF GroupsHold
  <2>3. \A h, i \in groups' : h # i => h \cap i = {}
    BY <1>5 DEF GroupsHold
  <2> QED
    BY <1>1, <1>2, <2>1, <2>2, <2>3, SameJudgement DEF GroupsHold
<1> QED
  BY <1>3, <1>4, <1>5 DEF Place

LEMMA ClusterStepSafe ==
  ASSUME ClusterInv, ClusterNext
  PROVE  ClusterInv'
<1>1. CASE Seeded \/ AllPlaced
  <2>1. judgement' = judgement /\ groups' = groups
    BY <1>1 DEF Seeded, AllPlaced
  <2>2. ClusterTypeOK' /\ StrongSound'
    BY <1>1 DEF ClusterInv, ClusterTypeOK, StrongSound, Seeded, AllPlaced
  <2> QED
    BY <2>1, <2>2, SameJudgement DEF ClusterInv, GroupsHold
<1>2. CASE \E edge \in strong : JoinStrong(edge)
  BY <1>2, StrongEdgeSafe
<1>3. CASE \E a \in unplaced : Place(a)
  BY <1>3, PlaceSafe
<1> QED
  BY <1>1, <1>2, <1>3 DEF ClusterNext

LEMMA ClusterStutterSafe ==
  ASSUME ClusterInv, UNCHANGED clusterVars
  PROVE  ClusterInv'
<1>1. judgement' = judgement
  BY DEF clusterVars
<1>2. ClusterTypeOK' /\ StrongSound'
  BY <1>1, SameJudgement DEF ClusterInv, ClusterTypeOK, StrongSound, clusterVars
<1>3. GroupsHold'
  BY <1>1, SameJudgement DEF ClusterInv, GroupsHold, clusterVars
<1> QED
  BY <1>2, <1>3 DEF ClusterInv

\* What a persist is handed: bundles of at least two articles, no article in two.
LEMMA FoundAreGroups ==
  ASSUME ClusterInv, NEW cands \in Found
  PROVE  cands \subseteq Group /\ DisjointGroups(cands)
<1>1. PICK k \in [Bundled -> Kind] : cands = {[kind |-> k[g], members |-> g] : g \in Bundled}
  BY DEF Found
<1>2. cands \subseteq Group
  BY <1>1 DEF Group, Bundled, ClusterInv, ClusterTypeOK
<1>3. DisjointGroups(cands)
  BY <1>1 DEF DisjointGroups, Bundled, ClusterInv, GroupsHold
<1> QED
  BY <1>2, <1>3

-----------------------------------------------------------------------------
(* Naming *)

Named == DOMAIN assignment

Options == AllOptions(candidates, previous)

\* Stored bundles are groups, no article is in two, and ids are keys.
PreviousSound ==
  /\ \A p \in previous : [kind |-> p.kind, members |-> p.members] \in Group
  /\ \A p, q \in previous : p # q => p.members \cap q.members = {} /\ p.id # q.id

Distinct == \A c, d \in Named : assignment[c] = assignment[d] => c = d

Inherits(c) == \E p \in previous : Took(assignment, c, p)

ByRight ==
  \A c \in Named :
    \/ Inherits(c)
    \/ phase \in {"fresh", "done"} /\ assignment[c] \in FreshIds(c, Ids(previous))

\* Option o was taken, or one of its sides went to a better claim.
Settles(o) ==
  \/ o[1] \in Named /\ Took(assignment, o[1], o[2])
  \/ /\ o[2].id # OwnId(o[1])
     /\ \/ o[1] \in Named /\ \E q \in previous :
             Took(assignment, o[1], q) /\ OutRanks(o[1], q, Shared(o[1], o[2]))
        \/ \E d \in Named :
             Took(assignment, d, o[2]) /\ OutRanks(d, o[2], Shared(o[1], o[2]))

OwnFirst ==
  /\ phase = "own" =>
       /\ options \subseteq OwnOptions(candidates, previous)
       /\ \A c \in Named : assignment[c] = OwnId(c)
  /\ \A o \in Options :
       OwnId(o[1]) = o[2].id =>
         \/ o[1] \in Named /\ assignment[o[1]] = o[2].id
         \/ phase = "own" /\ o \in options

Descending ==
  phase = "shared" =>
    /\ options \subseteq Options
    /\ \A c \in Named : \E q \in previous :
         /\ Took(assignment, c, q)
         /\ \/ OwnId(c) = q.id
            \/ \A o \in options : Shared(o[1], o[2]) <= Shared(c, q)

Settled ==
  phase # "own" => \A o \in Options : (phase = "shared" /\ o \in options) \/ Settles(o)

AllNamed == phase = "done" => Named = candidates

ReuseInv ==
  /\ ReuseTypeOK /\ PreviousSound /\ AllNamed
  /\ Distinct /\ ByRight /\ OwnFirst /\ Descending /\ Settled

IInv == ReuseInv /\ ClusterInv

-----------------------------------------------------------------------------
(* Ids *)

\* A finite set of articles has an oldest: the one with the fewest before it.
LEMMA OldestExists ==
  ASSUME NEW S \in SUBSET Article, S # {}
  PROVE  Oldest(S) # {} /\ Oldest(S) \subseteq S
<1> DEFINE Before(x) == {y \in S : y < x}
           Befores == {Before(x) : x \in S}
           Ordering == StrictSubsetOrdering(Article)
<1>1. S \subseteq Nat
  BY ArticleAssumption
<1>2. IsWellFoundedOn(Ordering, SUBSET Article)
  BY ArticleAssumption, FS_StrictSubsetOrderingWellFounded, FS_FiniteSubsetsOfFinite
<1>3. Befores \subseteq SUBSET Article /\ Befores # {}
  OBVIOUS
<1>4. PICK T \in Befores : \A U \in Befores : ~ (<<U, T>> \in Ordering)
  <2> HIDE DEF Befores, Ordering
  <2> QED
    BY <1>2, <1>3, WFMin
<1>5. PICK x \in S : T = Before(x)
  OBVIOUS
<1>6. \A y \in S : x <= y
  <2> SUFFICES ASSUME NEW y \in S, y < x
               PROVE  FALSE
    BY <1>1
  <2>1. Before(y) \subseteq Before(x) /\ Before(y) # Before(x)
    <3>1. \A z \in S : z < y => z < x
      BY <1>1
    <3>2. y \in Before(x) /\ y \notin Before(y)
      BY <1>1
    <3> QED
      BY <3>1, <3>2
  <2>2. <<Before(y), Before(x)>> \in Ordering
    BY <2>1 DEF StrictSubsetOrdering
  <2> QED
    BY <1>4, <1>5, <2>2
<1> QED
  BY <1>6 DEF Oldest

LEMMA GroupHasOldest ==
  ASSUME NEW c \in Group
  PROVE  /\ c.members \in SUBSET Article /\ c.members # {} /\ c.kind \in Kind
         /\ Oldest(c.members) # {} /\ Oldest(c.members) \subseteq c.members
<1>1. c.members \in SUBSET Article /\ c.members # {} /\ c.kind \in Kind
  BY DEF Group
<1> QED
  BY <1>1, OldestExists

\* Groups of one analysis have different own ids.
LEMMA OwnIdsDiffer ==
  ASSUME NEW cands \in SUBSET Group, DisjointGroups(cands),
         NEW c \in cands, NEW d \in cands, OwnId(c) = OwnId(d)
  PROVE  c = d
<1>1. Oldest(c.members) = Oldest(d.members)
  BY DEF OwnId
<1>2. c.members \cap d.members # {}
  BY <1>1, GroupHasOldest
<1> QED
  BY <1>2 DEF DisjointGroups

LEMMA OwnAndSplitIds ==
  ASSUME NEW c \in Group, NEW d \in Group, NEW n \in Nat
  PROVE  /\ OwnId(c) \in BundleId /\ SplitId(c, n) \in BundleId
         /\ SplitId(c, n).attempt = n
         /\ OwnId(c) # SplitId(d, n)
         /\ \A m \in Nat : SplitId(c, n) = SplitId(d, m) => c = d
<1>1. Oldest(c.members) \in SUBSET Article
  BY GroupHasOldest
<1>2. OwnId(c) \in BundleId /\ SplitId(c, n) \in BundleId
  BY <1>1 DEF OwnId, SplitId, BundleId
<1>3. OwnId(c).rehashed = {} /\ SplitId(d, n).rehashed = {d} /\ SplitId(c, n).rehashed = {c}
  BY DEF OwnId, SplitId
<1>4. SplitId(c, n).attempt = n
  BY DEF SplitId
<1>5. \A m \in Nat : SplitId(d, m).rehashed = {d}
  BY DEF SplitId
<1> QED
  BY <1>2, <1>3, <1>4, <1>5

\* Attempts of known ids are numbers.
LEMMA AttemptsAreNumbers ==
  ASSUME NEW taken \in SUBSET BundleId
  PROVE  Attempts(taken) \subseteq Nat
BY DEF Attempts, BundleId

LEMMA FreshIdsUnused ==
  ASSUME NEW c \in Group, NEW taken \in SUBSET BundleId, NEW id \in FreshIds(c, taken)
  PROVE  id \in BundleId /\ id \notin taken
<1>1. CASE OwnId(c) \notin taken
  BY <1>1, OwnAndSplitIds, 0 \in Nat DEF FreshIds
<1>2. CASE OwnId(c) \in taken
  <2>1. PICK n \in Attempts(taken) : id = SplitId(c, n) /\ SplitId(c, n) \notin taken
    BY <1>2 DEF FreshIds
  <2>2. n \in Nat
    BY <2>1, AttemptsAreNumbers
  <2> QED
    BY <2>1, <2>2, OwnAndSplitIds
<1> QED
  BY <1>1, <1>2

\* What an id that is fresh for d can collide with.
LEMMA FreshIdForm ==
  ASSUME NEW d \in Group, NEW known \in SUBSET BundleId, NEW id \in FreshIds(d, known)
  PROVE  id = OwnId(d) \/ \E n \in Nat : id = SplitId(d, n)
BY AttemptsAreNumbers DEF FreshIds

\* What has been given away does not decide what is fresh: with ids of its own
\* analysis a group can only collide where it also collides with a known one.
LEMMA FreshIsFresh ==
  ASSUME NEW cands \in SUBSET Group, DisjointGroups(cands), NEW known \in SUBSET BundleId,
         NEW given \in SUBSET BundleId, NEW c \in cands,
         \A i \in given : i \in known \/ \E d \in cands \ {c} : i \in FreshIds(d, known),
         NEW id \in FreshIds(c, given \cup known)
  PROVE  id \in FreshIds(c, known)
<1>1. ASSUME NEW i \in given, i = OwnId(c) \/ \E n \in Nat : i = SplitId(c, n)
      PROVE  i \in known
  <2> SUFFICES ASSUME NEW d \in cands \ {c}, i \in FreshIds(d, known)
               PROVE  FALSE
    OBVIOUS
  <2>1. i = OwnId(d) \/ \E n \in Nat : i = SplitId(d, n)
    BY FreshIdForm
  <2>2. OwnId(c) # OwnId(d)
    BY OwnIdsDiffer
  <2>3. \A n, m \in Nat : /\ SplitId(c, n) # SplitId(d, m)
                          /\ OwnId(c) # SplitId(d, n) /\ OwnId(d) # SplitId(c, n)
    BY OwnAndSplitIds
  <2> QED
    BY <1>1, <2>1, <2>2, <2>3
<1>2. CASE OwnId(c) \notin given \cup known
  BY <1>2 DEF FreshIds
<1>3. CASE OwnId(c) \in given \cup known
  <2>1. OwnId(c) \in known
    BY <1>1, <1>3
  <2>2. PICK n \in Attempts(given \cup known) :
          /\ id = SplitId(c, n) /\ SplitId(c, n) \notin given \cup known
          /\ \A k \in 0..n - 1 : SplitId(c, k) \in given \cup known
    BY <1>3 DEF FreshIds
  <2>3. n \in Nat
    BY AttemptsAreNumbers
  <2>4. \A k \in 0..n - 1 : SplitId(c, k) \in known
    BY <1>1, <2>2, <2>3
  <2>5. n \in Attempts(known)
    <3>1. CASE n = 0
      BY <3>1 DEF Attempts
    <3>2. CASE n # 0
      <4>1. n - 1 \in Nat /\ n - 1 \in 0..n - 1
        BY <2>3, <3>2
      <4>2. SplitId(c, n - 1) \in known /\ SplitId(c, n - 1).attempt + 1 = n
        BY <2>3, <2>4, <4>1, OwnAndSplitIds
      <4> QED
        BY <4>2 DEF Attempts
    <3> QED
      BY <3>1, <3>2
  <2> QED
    BY <2>1, <2>2, <2>4, <2>5 DEF FreshIds
<1> QED
  BY <1>2, <1>3

-----------------------------------------------------------------------------
(* Giving an id *)

LEMMA KnownIds ==
  ASSUME ReuseTypeOK
  PROVE  Ids(previous) \in SUBSET BundleId /\ UsedIds \in SUBSET BundleId
BY DEF ReuseTypeOK, Ids, Bundle

LEMMA Given ==
  ASSUME NEW c, NEW id, c \notin Named, assignment' = Give(c, id)
  PROVE  /\ Named' = Named \cup {c}
         /\ assignment'[c] = id
         /\ \A d \in Named : assignment'[d] = assignment[d]
         /\ UsedIds' = UsedIds \cup {id}
<1>1. /\ Named' = Named \cup {c}
      /\ assignment'[c] = id
      /\ \A d \in Named : assignment'[d] = assignment[d]
  BY DEF Give, Named
<1> QED
  BY <1>1 DEF UsedIds, Named

\* Either the option's candidate is named now, or nothing changes but the option.
LEMMA Turn ==
  ASSUME NEW o, Consider(o)
  PROVE  /\ options' = options \ {o}
         /\ candidates' = candidates /\ previous' = previous /\ phase' = phase
         /\ \/ /\ o[1] \notin Named /\ o[2].id \notin UsedIds
               /\ assignment' = Give(o[1], o[2].id)
            \/ /\ o[1] \in Named \/ o[2].id \in UsedIds
               /\ assignment' = assignment
BY DEF Consider, Named, UsedIds

\* A new id, given by right, disturbs neither types nor ids nor rights.
LEMMA GiveSafe ==
  ASSUME ReuseInv, NEW c \in candidates, NEW id \in BundleId, c \notin Named, id \notin UsedIds,
         assignment' = Give(c, id), UNCHANGED <<candidates, previous, phase>>,
         options' \subseteq options, phase # "done",
         \/ \E p \in previous : p.id = id /\ Eligible(c, p)
         \/ phase = "fresh" /\ id \in FreshIds(c, Ids(previous))
  PROVE  /\ ReuseTypeOK' /\ PreviousSound' /\ AllNamed' /\ Distinct' /\ ByRight'
         /\ \A o : Settles(o) => Settles(o)'
<1> USE DEF ReuseInv
<1>1. /\ Named' = Named \cup {c}
      /\ assignment'[c] = id
      /\ \A d \in Named : assignment'[d] = assignment[d]
      /\ UsedIds' = UsedIds \cup {id}
  BY Given
<1>2. ReuseTypeOK'
  BY <1>1 DEF ReuseTypeOK, Named
<1>3. PreviousSound' /\ AllNamed'
  BY DEF PreviousSound, AllNamed
<1>4. Distinct'
  BY <1>1 DEF Distinct, UsedIds, Named
<1>5. ByRight'
  BY <1>1 DEF ByRight, Inherits, Took
<1>6. ASSUME NEW o, Settles(o)
      PROVE  Settles(o)'
  <2>1. \A d \in Named : \A p : Took(assignment, d, p) => Took(assignment', d, p)
    BY <1>1 DEF Took
  <2> QED
    BY <1>1, <1>6, <2>1 DEF Settles
<1> QED
  BY <1>2, <1>3, <1>4, <1>5, <1>6

LEMMA PassSafe ==
  ASSUME ReuseInv, UNCHANGED <<candidates, previous, phase, assignment>>,
         options' \subseteq options
  PROVE  /\ ReuseTypeOK' /\ PreviousSound' /\ AllNamed' /\ Distinct' /\ ByRight'
         /\ \A o : Settles(o) => Settles(o)'
<1> USE DEF ReuseInv
<1>1. ReuseTypeOK'
  BY DEF ReuseTypeOK, UsedIds
<1>2. PreviousSound' /\ AllNamed' /\ Distinct' /\ ByRight'
  BY DEF PreviousSound, AllNamed, Distinct, ByRight, Inherits, Named
<1>3. \A o : Settles(o) => Settles(o)'
  BY DEF Settles, Named
<1> QED
  BY <1>1, <1>2, <1>3

\* An option of either loop is an eligible pair.
LEMMA OptionParts ==
  ASSUME ReuseInv, NEW o \in options, phase \in {"own", "shared"}
  PROVE  /\ o \in Options /\ o[1] \in candidates /\ o[2] \in previous
         /\ Eligible(o[1], o[2]) /\ o[2].id \in BundleId
         /\ phase = "own" => OwnId(o[1]) = o[2].id
<1>1. o \in Options /\ (phase = "own" => OwnId(o[1]) = o[2].id)
  BY DEF ReuseInv, OwnFirst, Descending, OwnOptions, Options
<1> QED
  BY <1>1 DEF Options, AllOptions, ReuseInv, ReuseTypeOK, Bundle

LEMMA ConsiderSafe ==
  ASSUME ReuseInv, NEW o \in options, phase \in {"own", "shared"}, Consider(o)
  PROVE  /\ ReuseTypeOK' /\ PreviousSound' /\ AllNamed' /\ Distinct' /\ ByRight'
         /\ \A opt : Settles(opt) => Settles(opt)'
<1>1. CASE assignment' = assignment
  BY <1>1, Turn, PassSafe
<1>2. CASE o[1] \notin Named /\ o[2].id \notin UsedIds /\ assignment' = Give(o[1], o[2].id)
  BY <1>2, Turn, OptionParts, GiveSafe
<1> QED
  BY <1>1, <1>2, Turn

-----------------------------------------------------------------------------
(* The steps of the loops *)

LEMMA OwnStepSafe ==
  ASSUME ReuseInv, phase = "own", NEW o \in options, Consider(o)
  PROVE  ReuseInv'
<1> USE DEF ReuseInv, Named, Options
<1>1. /\ o \in Options /\ o[1] \in candidates /\ o[2] \in previous
      /\ Eligible(o[1], o[2]) /\ OwnId(o[1]) = o[2].id
  BY OptionParts
<1>2. /\ options' = options \ {o} /\ phase' = "own"
      /\ candidates' = candidates /\ previous' = previous
  BY Turn
<1>3. Options' = Options
  BY <1>2 DEF AllOptions
<1>4. \A c \in Named : assignment[c] = OwnId(c)
  BY DEF OwnFirst
<1>5. options' \subseteq OwnOptions(candidates, previous)'
  BY <1>2 DEF OwnFirst, OwnOptions, AllOptions
<1>6. OwnFirst'
  <2>1. CASE o[1] \notin Named /\ assignment' = Give(o[1], o[2].id)
    <3>1. /\ Named' = Named \cup {o[1]}
          /\ assignment'[o[1]] = o[2].id
          /\ \A d \in Named : assignment'[d] = assignment[d]
      BY <2>1, Given
    <3>2. \A c \in Named' : assignment'[c] = OwnId(c)
      BY <1>1, <1>4, <3>1
    <3>3. ASSUME NEW p \in Options, OwnId(p[1]) = p[2].id
          PROVE  \/ p[1] \in Named' /\ assignment'[p[1]] = p[2].id
                 \/ p \in options'
      <4>1. CASE p[1] = o[1]
        BY <1>1, <3>1, <3>3, <4>1
      <4>2. CASE p[1] # o[1]
        <5>1. \/ p[1] \in Named /\ assignment[p[1]] = p[2].id
              \/ p \in options
          BY <3>3 DEF OwnFirst
        <5> QED
          BY <1>2, <3>1, <4>2, <5>1
      <4> QED
        BY <4>1, <4>2
    <3> QED
      BY <1>2, <1>3, <1>5, <3>2, <3>3 DEF OwnFirst
  <2>2. CASE (o[1] \in Named \/ o[2].id \in UsedIds) /\ assignment' = assignment
    <3>1. o[1] \in Named /\ assignment[o[1]] = o[2].id
      <4>1. CASE o[1] \in Named
        BY <1>1, <1>4, <4>1
      <4>2. CASE o[2].id \in UsedIds
        <5>1. PICK d \in Named : assignment[d] = o[2].id
          BY <4>2 DEF UsedIds
        <5>2. OwnId(d) = OwnId(o[1]) /\ d \in candidates
          BY <1>1, <1>4, <5>1 DEF ReuseTypeOK
        <5>3. d = o[1]
          BY <1>1, <5>2, OwnIdsDiffer DEF ReuseTypeOK
        <5> QED
          BY <5>1, <5>3
      <4> QED
        BY <2>2, <4>1, <4>2
    <3>2. ASSUME NEW p \in Options, OwnId(p[1]) = p[2].id
          PROVE  \/ p[1] \in Named' /\ assignment'[p[1]] = p[2].id
                 \/ p \in options'
      <4>1. \/ p[1] \in Named /\ assignment[p[1]] = p[2].id
            \/ p \in options
        BY <3>2 DEF OwnFirst
      <4> QED
        BY <1>2, <2>2, <3>1, <4>1
    <3> QED
      BY <1>2, <1>3, <1>4, <1>5, <2>2, <3>2 DEF OwnFirst
  <2> QED
    BY <2>1, <2>2, Turn
<1>7. Descending' /\ Settled'
  BY <1>2 DEF Descending, Settled
<1> QED
  BY <1>6, <1>7, ConsiderSafe

LEMMA OwnLoopEndsSafe ==
  ASSUME ReuseInv, OwnLoopEnds
  PROVE  ReuseInv'
<1> USE DEF ReuseInv, Named, Options
<1>1. /\ phase = "own" /\ phase' = "shared" /\ options = {} /\ options' = Options
      /\ candidates' = candidates /\ previous' = previous /\ assignment' = assignment
  BY DEF OwnLoopEnds
<1>2. Options' = Options
  BY <1>1 DEF AllOptions
<1>3. ReuseTypeOK'
  BY <1>1 DEF ReuseTypeOK, UsedIds, AllOptions
<1>4. PreviousSound' /\ AllNamed' /\ Distinct' /\ ByRight'
  BY <1>1 DEF PreviousSound, AllNamed, Distinct, ByRight, Inherits
<1>5. OwnFirst'
  BY <1>1, <1>2 DEF OwnFirst
<1>6. \A c \in Named : \E q \in previous : Took(assignment, c, q) /\ OwnId(c) = q.id
  BY <1>1 DEF ByRight, Inherits, OwnFirst, Took
<1>7. Descending'
  BY <1>1, <1>2, <1>6 DEF Descending
<1>8. Settled'
  BY <1>1, <1>2 DEF Settled
<1> QED
  BY <1>3, <1>4, <1>5, <1>7, <1>8

LEMMA SharedStepSafe ==
  ASSUME ReuseInv, phase = "shared", NEW o \in options, Consider(o),
         \A other \in options : Shared(other[1], other[2]) <= Shared(o[1], o[2])
  PROVE  ReuseInv'
<1> USE DEF ReuseInv, Named, Options
<1>1. /\ o \in Options /\ o[1] \in candidates /\ o[2] \in previous
      /\ Eligible(o[1], o[2])
  BY OptionParts
<1>2. /\ options' = options \ {o} /\ phase' = "shared"
      /\ candidates' = candidates /\ previous' = previous
  BY Turn
<1>3. Options' = Options
  BY <1>2 DEF AllOptions
<1>4. ASSUME NEW c \in Named
      PROVE  \E q \in previous : Took(assignment, c, q) /\ OutRanks(c, q, Shared(o[1], o[2]))
  <2>1. PICK q \in previous :
          /\ Took(assignment, c, q)
          /\ OwnId(c) = q.id \/ \A p \in options : Shared(p[1], p[2]) <= Shared(c, q)
    BY DEF Descending
  <2> QED
    BY <2>1 DEF OutRanks
<1>5. CASE o[1] \notin Named /\ assignment' = Give(o[1], o[2].id)
  <2>1. /\ Named' = Named \cup {o[1]}
        /\ assignment'[o[1]] = o[2].id
        /\ \A d \in Named : assignment'[d] = assignment[d]
    BY <1>5, Given
  <2>2. OwnFirst'
    BY <1>2, <1>3, <2>1 DEF OwnFirst
  <2>3. ASSUME NEW c \in Named'
        PROVE  \E q \in previous :
                 /\ Took(assignment', c, q)
                 /\ OwnId(c) = q.id \/ \A p \in options' : Shared(p[1], p[2]) <= Shared(c, q)
    <3>1. CASE c = o[1]
      BY <1>1, <1>2, <2>1, <3>1 DEF Took
    <3>2. CASE c \in Named
      <4>1. PICK q \in previous :
              /\ Took(assignment, c, q)
              /\ OwnId(c) = q.id \/ \A p \in options : Shared(p[1], p[2]) <= Shared(c, q)
        BY <3>2 DEF Descending
      <4>2. Took(assignment', c, q)
        BY <2>1, <3>2, <4>1 DEF Took
      <4> QED
        BY <1>2, <4>1, <4>2
    <3> QED
      BY <2>1, <3>1, <3>2
  <2>4. Descending'
    BY <1>2, <1>3, <2>3 DEF Descending
  <2>5. Settles(o)'
    BY <1>1, <2>1 DEF Settles, Took
  <2>6. Settled'
    BY <1>2, <1>3, <2>5, ConsiderSafe DEF Settled
  <2> QED
    BY <2>2, <2>4, <2>6, ConsiderSafe
<1>6. CASE (o[1] \in Named \/ o[2].id \in UsedIds) /\ assignment' = assignment
  <2>1. OwnFirst'
    BY <1>2, <1>3, <1>6 DEF OwnFirst
  <2>2. Descending'
    BY <1>2, <1>3, <1>6 DEF Descending
  <2>3. Settles(o)
    <3>1. CASE OwnId(o[1]) = o[2].id
      BY <1>1, <3>1 DEF OwnFirst, Settles, Took
    <3>2. CASE OwnId(o[1]) # o[2].id /\ o[1] \in Named
      BY <1>4, <3>2 DEF Settles
    <3>3. CASE OwnId(o[1]) # o[2].id /\ o[2].id \in UsedIds
      <4>1. PICK d \in Named : assignment[d] = o[2].id
        BY <3>3 DEF UsedIds
      <4>2. PICK q \in previous : Took(assignment, d, q) /\ OutRanks(d, q, Shared(o[1], o[2]))
        BY <1>4
      <4>3. q = o[2]
        BY <1>1, <4>1, <4>2 DEF Took, PreviousSound
      <4> QED
        BY <3>3, <4>2, <4>3 DEF Settles
    <3> QED
      BY <1>6, <3>1, <3>2, <3>3
  <2>4. Settled'
    BY <1>2, <1>3, <2>3, ConsiderSafe DEF Settled
  <2> QED
    BY <2>1, <2>2, <2>4, ConsiderSafe
<1> QED
  BY <1>5, <1>6, Turn

LEMMA SharedLoopEndsSafe ==
  ASSUME ReuseInv, SharedLoopEnds \/ AllAssigned
  PROVE  ReuseInv'
<1> USE DEF ReuseInv, Named, Options
<1>1. /\ \/ phase = "shared" /\ options = {} /\ phase' = "fresh"
         \/ phase = "fresh" /\ phase' = "done" /\ Named = candidates
      /\ UNCHANGED <<candidates, previous, assignment, options>>
  BY DEF SharedLoopEnds, AllAssigned
<1>2. Options' = Options
  BY <1>1 DEF AllOptions
<1>3. ReuseTypeOK'
  BY <1>1 DEF ReuseTypeOK, UsedIds
<1>4. PreviousSound' /\ AllNamed' /\ Distinct' /\ ByRight'
  BY <1>1 DEF PreviousSound, AllNamed, Distinct, ByRight, Inherits
<1>5. OwnFirst' /\ Descending'
  BY <1>1, <1>2 DEF OwnFirst, Descending
<1>6. Settled'
  BY <1>1, <1>2 DEF Settled, Settles
<1> QED
  BY <1>3, <1>4, <1>5, <1>6

LEMMA GiveFreshSafe ==
  ASSUME ReuseInv, GiveFresh
  PROVE  ReuseInv'
<1> USE DEF ReuseInv, Options
<1>1. PICK c \in candidates \ Named :
        \E id \in FreshIds(c, UsedIds \cup Ids(previous)) : assignment' = Give(c, id)
  BY DEF GiveFresh, Named
<1>0. PICK id \in FreshIds(c, UsedIds \cup Ids(previous)) : assignment' = Give(c, id)
  BY <1>1
<1>2. phase = "fresh" /\ UNCHANGED <<candidates, previous, options, phase>>
  BY DEF GiveFresh
<1>3. Options' = Options
  BY <1>2 DEF AllOptions
<1>4. /\ candidates \in SUBSET Group /\ DisjointGroups(candidates)
      /\ Ids(previous) \in SUBSET BundleId /\ UsedIds \in SUBSET BundleId
      /\ c \in Group
  BY KnownIds DEF ReuseTypeOK
<1>5. id \in BundleId /\ id \notin UsedIds
  BY <1>4, FreshIdsUnused
<1>6. \A i \in UsedIds :
        i \in Ids(previous) \/ \E d \in candidates \ {c} : i \in FreshIds(d, Ids(previous))
  <2> SUFFICES ASSUME NEW d \in Named
               PROVE  \/ assignment[d] \in Ids(previous)
                      \/ d \in candidates \ {c} /\ assignment[d] \in FreshIds(d, Ids(previous))
    BY DEF UsedIds, Named
  <2> QED
    BY DEF ByRight, Inherits, Took, Ids, ReuseTypeOK, Named
<1>7. id \in FreshIds(c, Ids(previous))
  BY <1>4, <1>6, FreshIsFresh
<1>8. /\ ReuseTypeOK' /\ PreviousSound' /\ AllNamed' /\ Distinct' /\ ByRight'
      /\ \A o : Settles(o) => Settles(o)'
  BY <1>0, <1>2, <1>5, <1>7, GiveSafe
<1>9. OwnFirst'
  <2>1. /\ Named' = Named \cup {c}
        /\ \A d \in Named : assignment'[d] = assignment[d]
    BY <1>0, Given
  <2> QED
    BY <1>2, <1>3, <2>1 DEF OwnFirst
<1>10. Descending' /\ Settled'
  BY <1>2, <1>3, <1>8 DEF Descending, Settled
<1> QED
  BY <1>8, <1>9, <1>10

LEMMA ReuseStepSafe ==
  ASSUME ReuseInv, ReuseNext
  PROVE  ReuseInv'
<1>1. CASE ConsiderOwn
  BY <1>1, OwnStepSafe DEF ConsiderOwn
<1>2. CASE OwnLoopEnds
  BY <1>2, OwnLoopEndsSafe
<1>3. CASE ConsiderShared
  BY <1>3, SharedStepSafe DEF ConsiderShared
<1>4. CASE SharedLoopEnds \/ AllAssigned
  BY <1>4, SharedLoopEndsSafe
<1>5. CASE GiveFresh
  BY <1>5, GiveFreshSafe
<1> QED
  BY <1>1, <1>2, <1>3, <1>4, <1>5 DEF ReuseNext

LEMMA ReuseStutterSafe ==
  ASSUME ReuseInv, UNCHANGED reuseVars
  PROVE  ReuseInv'
<1> USE DEF ReuseInv, Named, Options, reuseVars
<1>1. Options' = Options
  BY DEF AllOptions
<1>2. ReuseTypeOK' /\ PreviousSound' /\ AllNamed'
  BY DEF ReuseTypeOK, UsedIds, PreviousSound, AllNamed
<1>3. Distinct' /\ ByRight'
  BY DEF Distinct, ByRight, Inherits
<1>4. OwnFirst' /\ Descending'
  BY <1>1 DEF OwnFirst, Descending
<1>5. Settled'
  BY <1>1 DEF Settled, Settles
<1> QED
  BY <1>2, <1>3, <1>4, <1>5

LEMMA PersistSafe ==
  ASSUME ReuseInv, NEW cands, cands \subseteq Group, DisjointGroups(cands), Persist(cands)
  PROVE  ReuseInv'
<1> DEFINE prev == Assigned(candidates, assignment)
<1> USE DEF ReuseInv, Named, Options
<1>1. /\ phase = "done" /\ phase' = "own" /\ candidates' = cands /\ previous' = prev
      /\ assignment' = <<>> /\ options' = OwnOptions(cands, prev)
  BY DEF Persist
<1>2. Named = candidates /\ candidates \subseteq Group /\ DisjointGroups(candidates)
  BY <1>1 DEF AllNamed, ReuseTypeOK
<1>3. \A c \in candidates :
        /\ assignment[c] \in BundleId
        /\ c = [kind |-> c.kind, members |-> c.members]
        /\ c.kind \in Kind /\ c.members \in SUBSET Article
  BY <1>2 DEF ReuseTypeOK, UsedIds, Group
<1>4. \A p \in prev : \E c \in candidates :
        p.id = assignment[c] /\ p.kind = c.kind /\ p.members = c.members
        /\ p = [id |-> assignment[c], kind |-> c.kind, members |-> c.members]
  BY DEF Assigned
<1>5. prev \subseteq Bundle
  BY <1>3 DEF Assigned, Bundle
<1>6. PreviousSound'
  <2>1. \A p \in prev : [kind |-> p.kind, members |-> p.members] \in Group
    BY <1>2, <1>3, <1>4
  <2>2. ASSUME NEW p \in prev, NEW q \in prev, p # q
        PROVE  p.members \cap q.members = {} /\ p.id # q.id
    <3>1. PICK c \in candidates :
            /\ p.id = assignment[c] /\ p.members = c.members
            /\ p = [id |-> assignment[c], kind |-> c.kind, members |-> c.members]
      BY <1>4
    <3>2. PICK d \in candidates :
            /\ q.id = assignment[d] /\ q.members = d.members
            /\ q = [id |-> assignment[d], kind |-> d.kind, members |-> d.members]
      BY <1>4
    <3>3. c # d
      BY <2>2, <3>1, <3>2
    <3> QED
      BY <1>2, <3>1, <3>2, <3>3 DEF DisjointGroups, Distinct
  <2> QED
    BY <1>1, <2>1, <2>2 DEF PreviousSound
<1>7. Named' = {}
  BY <1>1
<1>8. OwnOptions(cands, prev) \subseteq cands \X prev
  BY DEF OwnOptions, AllOptions
<1>9. ReuseTypeOK'
  BY <1>1, <1>5, <1>7, <1>8 DEF ReuseTypeOK, UsedIds
<1>10. AllNamed' /\ Distinct' /\ ByRight' /\ Descending' /\ Settled'
  BY <1>1, <1>7 DEF AllNamed, Distinct, ByRight, Descending, Settled
<1>11. OwnFirst'
  <2> HIDE DEF prev
  <2>1. Options' = AllOptions(cands, prev)
    BY <1>1
  <2> QED
    BY <1>1, <1>7, <2>1 DEF OwnFirst, OwnOptions
<1> QED
  BY <1>6, <1>9, <1>10, <1>11

-----------------------------------------------------------------------------
(* The specification *)

LEMMA ForgottenIsAJudgement == Forgotten \in Judgement
BY DEF Forgotten, Judgement

LEMMA InitInv == Init => IInv
<1> SUFFICES ASSUME Init
             PROVE  IInv
  OBVIOUS
<1> USE DEF Init, ReuseInit, ClusterInit
<1>1. ReuseInv
  BY DEF ReuseInv, ReuseTypeOK, DisjointGroups, UsedIds, PreviousSound, AllNamed, Distinct,
         ByRight, OwnFirst, Descending, Settled, Named, Options, AllOptions
<1>2. ClusterInv
  BY JudgementAssumption
  DEF ClusterInv, ClusterTypeOK, StrongSound, GroupsHold, Strong, Accepted
<1> QED
  BY <1>1, <1>2 DEF IInv

LEMMA NextInv == IInv /\ [Next]_vars => IInv'
<1> SUFFICES ASSUME IInv, [Next]_vars
             PROVE  IInv'
  OBVIOUS
<1> USE DEF IInv
<1>1. CASE ClusterNext /\ UNCHANGED reuseVars
  BY <1>1, ClusterStepSafe, ReuseStutterSafe
<1>2. CASE ReuseNext /\ UNCHANGED clusterVars
  BY <1>2, ReuseStepSafe, ClusterStutterSafe
<1>3. CASE PersistFound
  <2>1. ReuseInv'
    BY <1>3, FoundAreGroups, PersistSafe DEF PersistFound
  <2>2. ClusterInv'
    BY <1>3, ForgottenIsAJudgement
    DEF PersistFound, ClusterInv, ClusterTypeOK, StrongSound, GroupsHold
  <2> QED
    BY <2>1, <2>2
<1>4. CASE PersistNext
  <2>1. ReuseInv'
    BY <1>4, GroupingsAssumption, PersistSafe DEF PersistNext
  <2> QED
    BY <1>4, <2>1, ClusterStutterSafe DEF PersistNext
<1>5. CASE UNCHANGED vars
  BY <1>5, ReuseStutterSafe, ClusterStutterSafe DEF vars
<1> QED
  BY <1>1, <1>2, <1>3, <1>4, <1>5 DEF Next

LEMMA AlwaysIInv == Spec => []IInv
BY InitInv, NextInv, PTL DEF Spec

\* The types of the clustering and of the naming, in every reachable state.
THEOREM TypeCorrect == Spec => []TypeOK
<1>1. IInv => TypeOK
  BY DEF IInv, ReuseInv, ClusterInv, TypeOK
<1> QED
  BY <1>1, AlwaysIInv, PTL

\* No group ever holds a blocking pair, an article of another group, or a part
\* without accepted evidence for the rest, in the middle of the loops too.
THEOREM GroupsAlwaysHold == Spec => []GroupsHold
<1>1. IInv => GroupsHold
  BY DEF IInv, ClusterInv
<1> QED
  BY <1>1, AlwaysIInv, PTL

\* The greedy loops implement the promise CoverageLifecycle is built on, for any
\* articles, however many generations came before.
THEOREM PromiseKept == Spec => []KeepsPromise
<1>1. IInv => KeepsPromise
  <2> SUFFICES ASSUME IInv, phase = "done"
               PROVE  StableAssignment(candidates, previous, assignment)
    BY DEF KeepsPromise
  <2> USE DEF IInv, ReuseInv, Named
  <2>1. Named = candidates
    BY DEF AllNamed
  <2>2. \A c, d \in candidates : assignment[c] = assignment[d] => c = d
    BY <2>1 DEF Distinct
  <2>3. \A c \in candidates :
          \/ assignment[c] \in FreshIds(c, Ids(previous))
          \/ \E p \in previous : Took(assignment, c, p)
    BY <2>1 DEF ByRight, Inherits
  <2>4. ASSUME NEW c \in candidates, NEW p \in previous,
               Eligible(c, p), ~ Took(assignment, c, p)
        PROVE  /\ p.id # OwnId(c)
               /\ \/ \E q \in previous :
                       Took(assignment, c, q) /\ OutRanks(c, q, Shared(c, p))
                  \/ \E d \in candidates :
                       Took(assignment, d, p) /\ OutRanks(d, p, Shared(c, p))
    <3>1. <<c, p>> \in Options
      BY <2>4 DEF Options, AllOptions
    <3>2. Settles(<<c, p>>)
      BY <3>1 DEF Settled
    <3> QED
      BY <2>1, <2>4, <3>2 DEF Settles
  <2> QED
    BY <2>2, <2>3, <2>4 DEF StableAssignment
<1> QED
  BY <1>1, AlwaysIInv, PTL

\* Two groups of articles, as candidates and as bundles.
LEMMA ArticlesCounted ==
  ASSUME NEW S \in SUBSET Article
  PROVE  /\ IsFiniteSet(S) /\ Cardinality(S) \in Nat
         /\ Cardinality(S) = 0 <=> S = {}
BY ArticleAssumption, FS_Subset, FS_CardinalityType, FS_EmptySet

LEMMA SameMembersEligible ==
  ASSUME NEW c, NEW p, c.members \in SUBSET Article, c.kind = p.kind, c.members = p.members
  PROVE  Eligible(c, p)
<1>1. c.members \cap p.members = c.members
  OBVIOUS
<1> QED
  BY <1>1, ArticlesCounted DEF Eligible, Shared, Smaller

LEMMA EligibleMeet ==
  ASSUME NEW c, NEW p, c.members \in SUBSET Article, c.members # {},
         p.members \in SUBSET Article, p.members # {}, Eligible(c, p)
  PROVE  c.members \cap p.members # {}
<1> SUFFICES ASSUME c.members \cap p.members = {}
             PROVE  FALSE
  OBVIOUS
<1>1. Shared(c, p) = 0
  BY FS_EmptySet DEF Shared
<1>2. /\ Cardinality(c.members) \in Nat /\ Cardinality(c.members) # 0
      /\ Cardinality(p.members) \in Nat /\ Cardinality(p.members) # 0
  BY ArticlesCounted
<1> QED
  BY <1>1, <1>2 DEF Eligible, Smaller

\* A group found again keeps its id: no other bundle is eligible for it and no
\* other group for the bundle, so only it can have settled that option.
THEOREM UnchangedGroupNamed == Spec => []UnchangedGroupKeepsId
<1>1. IInv => UnchangedGroupKeepsId
  <2> SUFFICES ASSUME IInv, phase = "done", NEW c \in candidates, NEW p \in previous,
                      c.kind = p.kind, c.members = p.members
               PROVE  assignment[c] = p.id
    BY DEF UnchangedGroupKeepsId
  <2> USE DEF IInv, ReuseInv, Named
  <2>1. Named = candidates /\ candidates \subseteq Group /\ DisjointGroups(candidates)
    BY DEF AllNamed, ReuseTypeOK
  <2>2. \A d \in candidates : d.members \in SUBSET Article /\ d.members # {}
    BY <2>1, GroupHasOldest
  <2>3. \A q \in previous : q.members \in SUBSET Article /\ q.members # {}
    BY DEF PreviousSound, Group
  <2>4. <<c, p>> \in Options
    BY <2>2, SameMembersEligible DEF Options, AllOptions
  <2>5. \A q \in previous : Took(assignment, c, q) => q = p
    BY <2>2, <2>3, EligibleMeet DEF Took, PreviousSound
  <2>6. \A d \in candidates : Took(assignment, d, p) => d = c
    BY <2>1, <2>2, <2>3, EligibleMeet DEF Took, DisjointGroups
  <2>7. Settles(<<c, p>>)
    BY <2>4 DEF Settled
  <2> QED
    BY <2>1, <2>5, <2>6, <2>7 DEF Settles, Took
<1> QED
  BY <1>1, AlwaysIInv, PTL
=============================================================================
