--------------------------- MODULE SituationRules ---------------------------
(***************************************************************************)
(* What the worker decides about DATEX situations, as functions of what it *)
(* read: the stored official events that are current, and the situations   *)
(* it tracks.  clusters.ts groups the promotable records of one Vegvesen   *)
(* situation (the key) under one situation, resolves the duplicates an     *)
(* earlier release left, and resolves what is no longer promotable; ai.ts  *)
(* attaches a hint to an open situation; repository.ts merges what was     *)
(* decided with the row as it is when it is stored.                        *)
(*                                                                         *)
(* A situation keeps what these rules look at: status, updatedAt, the      *)
(* incident signature (a key, or the old release's) and the primary        *)
(* record (officialEventId).  Texts, evidence, features, timeline and      *)
(* importance follow from them and are left out.                           *)
(***************************************************************************)
EXTENDS Naturals, FiniteSets

CONSTANTS
  Records,  \* DATEX situation records, by official event id
  Keys,     \* DATEX situations, by datexSituationKey
  KeyOf,    \* [Records -> Keys]
  Orders,   \* [Records -> Nat]: the orders of orderedDatexGroup, which looks
            \* at kinds, titles and publication times, and these may change
  Old       \* ids of situations an earlier release made, one per record

ASSUME RulesAssumption ==
  /\ KeyOf \in [Records -> Keys]
  /\ Orders \subseteq [Records -> Nat] /\ Orders # {}
  /\ \A order \in Orders : \A r, q \in Records : order[r] = order[q] => r = q
  /\ Old \cap Keys = {}

\* A new situation's id is a hash of its key; its signature is "datex:<key>".
Ids == Keys \cup Old
OldSignature == "old"

CurrentKinds == {"major", "minor"}

None == [status |-> "none"]

Situation == [status : {"preliminary", "active", "resolved", "dismissed"}, at : Nat,
              sig : Keys \cup {OldSignature}, event : Records]

Closed(s) == s.status \in {"resolved", "dismissed"}

-----------------------------------------------------------------------------
(* mergeSituation *)

\* A bug to catch: the times are compared the wrong way round.
Reopens_Older(existing, incoming) ==
  /\ existing.status = "resolved" /\ incoming.status = "active"
  /\ incoming.at < existing.at

\* isNewerOfficialActiveUpdate: every situation here is official.
Reopens(existing, incoming) ==
  /\ existing.status = "resolved" /\ incoming.status = "active"
  /\ incoming.at > existing.at

Lifecycle(existing, incoming) ==
  CASE existing.status = "dismissed" -> "dismissed"
    [] Reopens(existing, incoming) -> "active"
    [] existing.status = "resolved" /\ ~Reopens(existing, incoming) -> "resolved"
    [] existing.status \in {"active", "preliminary"} /\ incoming.status = "resolved" -> "resolved"
    [] OTHER -> IF "active" \in {existing.status, incoming.status} THEN "active" ELSE "preliminary"

Merge(existing, incoming) ==
  IF existing = None THEN incoming
  ELSE [incoming EXCEPT !.status = Lifecycle(existing, incoming)]

-----------------------------------------------------------------------------
(* What a cycle decides from rows (current official events, each [kind, at])*)
(* and sits (tracked situations).                                           *)

\* Promotable and current records of key k.
Group(rows, k) == {r \in DOMAIN rows : rows[r].kind = "major" /\ KeyOf[r] = k}

First(order, S) == CHOOSE r \in S : \A q \in S : order[r] <= order[q]

\* The tracked situation that adopts the group: one with its signature, else
\* one whose event is the earliest record that has any.  Several are read in
\* no particular order and the last one wins.
Adopting(rows, sits, order, k) ==
  LET bySignature == {s \in DOMAIN sits : sits[s].sig = k}
      records == {r \in Group(rows, k) : \E s \in DOMAIN sits : sits[s].event = r}
  IN  IF bySignature # {} THEN bySignature
      ELSE IF records # {} THEN {s \in DOMAIN sits : sits[s].event = First(order, records)}
      ELSE {k}

Latest(rows, k) ==
  CHOOSE t \in {rows[r].at : r \in Group(rows, k)} : \A r \in Group(rows, k) : rows[r].at <= t

\* officialTrafficSituationsFromEvents, for a choice of the adopting ids.
Incoming(rows, order, adopted) ==
  {[id |-> adopted[k],
    own |-> [status |-> "active", at |-> Latest(rows, k), sig |-> k,
             event |-> First(order, Group(rows, k))]]
     : k \in DOMAIN adopted}

GroupedKeys(rows) == {k \in Keys : Group(rows, k) # {}}

Resolved(s, now) == [s EXCEPT !.status = "resolved", !.at = now]

\* A bug to catch: what is no longer among the current events counts as demoted.
ResolvedCopies_WhenMissing(rows, sits, kind, adopted, now) ==
  {[id |-> s, own |-> Resolved(sits[s], now)] :
     s \in {s \in DOMAIN sits :
              /\ sits[s].status = "active"
              /\ IF sits[s].event \in DOMAIN rows
                 THEN rows[sits[s].event].kind = kind ELSE kind = "minor"
              /\ \A k \in DOMAIN adopted : adopted[k] # s}}

\* A bug to catch: duplicates of a merged situation stay.
ResolvedCopies_DemotedOnly(rows, sits, kind, adopted, now) ==
  {[id |-> s, own |-> Resolved(sits[s], now)] :
     s \in {s \in DOMAIN sits :
              /\ kind = "minor"
              /\ sits[s].status = "active"
              /\ sits[s].event \in DOMAIN rows
              /\ rows[sits[s].event].kind = kind
              /\ \A k \in DOMAIN adopted : adopted[k] # s}}

\* resolvedDuplicateOfficialTrafficSituationsForMergedDatex and
\* resolvedNonPromotableOfficialTrafficSituations: copies of active situations
\* whose event is current, of the given kind, and that no group adopted.
ResolvedCopies(rows, sits, kind, adopted, now) ==
  {[id |-> s, own |-> Resolved(sits[s], now)] :
     s \in {s \in DOMAIN sits :
              /\ sits[s].status = "active"
              /\ sits[s].event \in DOMAIN rows
              /\ rows[sits[s].event].kind = kind
              /\ \A k \in DOMAIN adopted : adopted[k] # s}}

\* applySituationUpdateHints: a copy of an open situation, its updatedAt moved
\* to the time t of the latest hinted article when that is later.
Hinted(s, t) == [s EXCEPT !.at = IF t > s.at THEN t ELSE s.at]
=============================================================================
