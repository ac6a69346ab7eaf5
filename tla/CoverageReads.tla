--------------------------- MODULE CoverageReads ---------------------------
(***************************************************************************)
(* What a reader of the normalized projection is promised: the projection  *)
(* as it stood at one moment between the request and the answer, and only  *)
(* if it was clean then; or nothing, and the caller falls back to the      *)
(* legacy feed.                                                            *)
(***************************************************************************)
EXTENDS Integers

CONSTANT Reader

VARIABLES
  stored,  \* the committed projection: [gen, rev, clean]; gen = 0 when there is none
  phase,   \* [Reader -> ...]
  seen,    \* [Reader -> the projection at the reader's moment]
  answer   \* [Reader -> what it was given]

vars == <<stored, phase, seen, answer>>

NoProjection == [gen |-> 0, rev |-> 0, clean |-> FALSE]
Nothing == [gen |-> 0, rev |-> 0]

\* The owner's corrections and the worker's generations change what is stored.
Projection == [gen : Nat, rev : Nat, clean : BOOLEAN]

Shown(p) == [gen |-> p.gen, rev |-> p.rev]

Init ==
  /\ stored = NoProjection
  /\ phase = [r \in Reader |-> "idle"]
  /\ seen = [r \in Reader |-> NoProjection]
  /\ answer = [r \in Reader |-> Nothing]

Change == stored' \in Projection /\ UNCHANGED <<phase, seen, answer>>

Ask(r) ==
  /\ phase[r] = "idle"
  /\ phase' = [phase EXCEPT ![r] = "asked"]
  /\ UNCHANGED <<stored, seen, answer>>

Look(r) ==
  /\ phase[r] = "asked"
  /\ phase' = [phase EXCEPT ![r] = "looked"]
  /\ seen' = [seen EXCEPT ![r] = stored]
  /\ UNCHANGED <<stored, answer>>

Answer(r) ==
  /\ phase[r] = "looked"
  /\ seen[r].gen # 0 /\ seen[r].clean
  /\ phase' = [phase EXCEPT ![r] = "answered"]
  /\ answer' = [answer EXCEPT ![r] = Shown(seen[r])]
  /\ UNCHANGED <<stored, seen>>

Refuse(r) ==
  /\ phase[r] \in {"asked", "looked"}
  /\ phase' = [phase EXCEPT ![r] = "answered"]
  /\ UNCHANGED <<stored, seen, answer>>

Next == Change \/ \E r \in Reader : Ask(r) \/ Look(r) \/ Answer(r) \/ Refuse(r)

Spec == Init /\ [][Next]_vars
=============================================================================
