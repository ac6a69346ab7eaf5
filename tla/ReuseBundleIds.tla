--------------------------- MODULE ReuseBundleIds ---------------------------
(***************************************************************************)
(* reuseCoverageBundleIds, call after call (CoverageAnalysis makes the     *)
(* calls).                                                                 *)
(*                                                                         *)
(* The candidates of a new generation are matched greedily with the bundles*)
(* of the previous one: first every option that is a candidate's own id,   *)
(* then the options by descending overlap, and what is left gets its own   *)
(* id or a re-hash of it.  One action takes one option of a loop; options  *)
(* the code orders by localeCompare alone come in any order.               *)
(***************************************************************************)
EXTENDS BundleIdentity

CONSTANT Groupings   \* the sets of groups an analysis may find

ASSUME GroupingsAssumption ==
  \A groups \in Groupings : groups \subseteq Group /\ DisjointGroups(groups)

VARIABLES
  candidates,  \* the groups of the analysis being persisted
  previous,    \* bundles of the latest completed generation of the same mode
  assignment,  \* assignments, then finalIds: candidate -> identity
  options,     \* options the current loop has not reached
  phase        \* "own", "shared", "fresh" or "done"

reuseVars == <<candidates, previous, assignment, options, phase>>

AllOptions(cands, prev) == {o \in cands \X prev : Eligible(o[1], o[2])}

\* A bug to catch: the own id is kept without the overlap test.
OwnOptions_Unfiltered(cands, prev) ==
  {o \in cands \X prev : OwnId(o[1]) = o[2].id}

OwnOptions(cands, prev) ==
  {o \in AllOptions(cands, prev) : OwnId(o[1]) = o[2].id}

UsedIds == {assignment[c] : c \in DOMAIN assignment}

ReuseTypeOK ==
  /\ candidates \subseteq Group /\ DisjointGroups(candidates)
  /\ previous \subseteq Bundle
  /\ DOMAIN assignment \subseteq candidates
  /\ UsedIds \subseteq BundleId
  /\ options \subseteq candidates \X previous
  /\ phase \in {"own", "shared", "fresh", "done"}

\* No generation of this mode yet.
ReuseInit ==
  /\ candidates = {}
  /\ previous = {}
  /\ assignment = <<>>
  /\ options = {}
  /\ phase = "done"

\* assignments.set, finalIds.set
Give(c, id) ==
  [d \in DOMAIN assignment \cup {c} |-> IF d = c THEN id ELSE assignment[d]]

\* A bug to catch: an option that is passed over stays in the list.
Consider_KeepsLosers(o) ==
  /\ o[1] \notin DOMAIN assignment /\ o[2].id \notin UsedIds
  /\ options' = options \ {o}
  /\ assignment' = Give(o[1], o[2].id)
  /\ UNCHANGED <<candidates, previous, phase>>

\* One turn of either assignment loop: the option counts unless one side is taken.
Consider(o) ==
  /\ options' = options \ {o}
  /\ assignment' = IF o[1] \notin DOMAIN assignment /\ o[2].id \notin UsedIds
                   THEN Give(o[1], o[2].id)
                   ELSE assignment
  /\ UNCHANGED <<candidates, previous, phase>>

ConsiderOwn == phase = "own" /\ \E o \in options : Consider(o)

OwnLoopEnds ==
  /\ phase = "own" /\ options = {}
  /\ phase' = "shared"
  /\ options' = AllOptions(candidates, previous)
  /\ UNCHANGED <<candidates, previous, assignment>>

\* A bug to catch: the options are not sorted by overlap.
ConsiderShared_Unsorted == phase = "shared" /\ \E o \in options : Consider(o)

\* Larger overlaps first.
ConsiderShared ==
  /\ phase = "shared"
  /\ \E o \in options :
       /\ \A other \in options : Shared(other[1], other[2]) <= Shared(o[1], o[2])
       /\ Consider(o)

SharedLoopEnds ==
  /\ phase = "shared" /\ options = {}
  /\ phase' = "fresh"
  /\ UNCHANGED <<candidates, previous, assignment, options>>

GiveFresh ==
  /\ phase = "fresh"
  /\ \E c \in candidates \ DOMAIN assignment :
       \E id \in FreshIds(c, UsedIds \cup Ids(previous)) :
         assignment' = Give(c, id)
  /\ UNCHANGED <<candidates, previous, options, phase>>

AllAssigned ==
  /\ phase = "fresh" /\ DOMAIN assignment = candidates
  /\ phase' = "done"
  /\ UNCHANGED <<candidates, previous, assignment, options>>

\* The generation is stored and becomes the previous one of the next persist.
Persist(cands) ==
  LET prev == Assigned(candidates, assignment) IN
  /\ phase = "done"
  /\ candidates' = cands
  /\ previous' = prev
  /\ assignment' = <<>>
  /\ options' = OwnOptions(cands, prev)
  /\ phase' = "own"

ReuseNext ==
  \/ ConsiderOwn \/ OwnLoopEnds
  \/ ConsiderShared \/ SharedLoopEnds
  \/ GiveFresh \/ AllAssigned

-----------------------------------------------------------------------------
(* The greedy loops keep the promise CoverageLifecycle relies on, whatever  *)
(* order localeCompare gives: distinct ids (so the two duplicate checks of  *)
(* repository.ts never throw), reuse only with half of the smaller group in *)
(* common, own ids first, and no better claim passed over.                  *)
KeepsPromise ==
  phase = "done" => StableAssignment(candidates, previous, assignment)

(* A group the new analysis finds again, member for member, keeps its id:   *)
(* whatever the neighbours did, its URL and its correction target survive.  *)
UnchangedGroupKeepsId ==
  phase = "done" =>
    \A c \in candidates, p \in previous :
      c.kind = p.kind /\ c.members = p.members => assignment[c] = p.id
=============================================================================
