--------------------------- MODULE BundleIdentity ---------------------------
(***************************************************************************)
(* Which identity a coverage bundle gets.                                  *)
(*                                                                         *)
(* An analysis names each group after its oldest article, but a group must *)
(* keep the identity it had in the previous generation of its mode while   *)
(* its membership drifts.  This module holds the vocabulary the worker's   *)
(* reuseCoverageBundleIds works with and, as StableAssignment, what it     *)
(* promises.  ReuseBundleIds is the algorithm, shown to keep the promise;  *)
(* CoverageLifecycle uses the promise.                                     *)
(*                                                                         *)
(* An article is the natural number of its place in publication order.  An *)
(* identity is the record of what was hashed: 32-bit collisions of the     *)
(* hash are not modelled.                                                  *)
(***************************************************************************)
EXTENDS Integers, FiniteSets

CONSTANTS
  Article,  \* articles, numbered by (publishedAt, id)
  Kind      \* ArticleCoverageBundleKind: incident, topic, update

ASSUME ArticleAssumption == Article \subseteq Nat /\ IsFiniteSet(Article)

\* A group found by an analysis: at least two members (persist throws otherwise).
Group == [kind : Kind, members : {S \in SUBSET Article : \E a, b \in S : a # b}]

\* An id hashes the oldest article; a re-hash also hashes the group and an attempt.
BundleId == [oldest : SUBSET Article, rehashed : SUBSET Group, attempt : Nat]

\* A stored bundle: a group and the identity it was given.
Bundle == [id : BundleId, kind : Kind, members : SUBSET Article]

\* The first member in publication order, as a singleton.
Oldest(S) == {a \in S : \A b \in S : a <= b}

\* stableGroupId: the hash of the oldest member alone, whatever the kind.
OwnId(c) == [oldest |-> Oldest(c.members), rehashed |-> {}, attempt |-> 0]

\* remappedCoverageBundleId: own id, kind, members and attempt are hashed together.
SplitId(c, n) == [oldest |-> Oldest(c.members), rehashed |-> {c}, attempt |-> n]

Ids(bundles) == {b.id : b \in bundles}

Shared(c, p) == Cardinality(c.members \cap p.members)

Smaller(c, p) == IF Cardinality(c.members) <= Cardinality(p.members)
                 THEN Cardinality(c.members) ELSE Cardinality(p.members)

\* sharedCount >= ceil(min(size, size) / 2)
Eligible(c, p) == c.kind = p.kind /\ 2 * Shared(c, p) >= Smaller(c, p)

\* The first re-hash is number 0; a later one follows a number that is taken.
Attempts(taken) == {0} \cup {i.attempt + 1 : i \in taken}

\* The id of a candidate that inherits none: its own, or else the first re-hash
\* that is not taken (a set with that one element).
FreshIds(c, taken) ==
  IF OwnId(c) \notin taken
  THEN {OwnId(c)}
  ELSE {SplitId(c, n) : n \in {m \in Attempts(taken) :
                                /\ SplitId(c, m) \notin taken
                                /\ \A k \in 0..m - 1 : SplitId(c, k) \in taken}}

\* Previous bundle p was handed to candidate c.
Took(id, c, p) == id[c] = p.id /\ Eligible(c, p)

\* Candidate c got p although someone else wanted p: either the id is c's own, or
\* nobody who lost out shares more with it.
OutRanks(c, p, share) == OwnId(c) = p.id \/ Shared(c, p) >= share

(***************************************************************************)
(* The promise: id gives every candidate an identity such that identities  *)
(* are distinct, a reused identity has at least half of the smaller group  *)
(* in common, a candidate that still qualifies for its own id keeps it,    *)
(* and no eligible pair was passed over except for a better claim.         *)
(***************************************************************************)
StableAssignment(candidates, previous, id) ==
  /\ \A c, d \in candidates : id[c] = id[d] => c = d
  /\ \A c \in candidates :
       \/ id[c] \in FreshIds(c, Ids(previous))
       \/ \E p \in previous : Took(id, c, p)
  /\ \A c \in candidates, p \in previous :
       Eligible(c, p) /\ ~ Took(id, c, p) =>
         /\ p.id # OwnId(c)
         /\ \/ \E q \in previous : Took(id, c, q) /\ OutRanks(c, q, Shared(c, p))
            \/ \E d \in candidates : Took(id, d, p) /\ OutRanks(d, p, Shared(c, p))

\* The bundles an assignment stores.
Assigned(candidates, id) ==
  {[id |-> id[c], kind |-> c.kind, members |-> c.members] : c \in candidates}

\* Every outcome the promise allows (ties are broken by localeCompare in the code,
\* which nothing may depend on).
ReuseOutcomes(candidates, previous) ==
  LET known == Ids(previous) IN
  {Assigned(candidates, id) :
     id \in {f \in [candidates -> known \cup UNION {FreshIds(c, known) : c \in candidates}] :
               StableAssignment(candidates, previous, f)}}

\* An analysis puts every article in at most one group.
DisjointGroups(groups) ==
  \A c, d \in groups : c # d => c.members \cap d.members = {}
=============================================================================
