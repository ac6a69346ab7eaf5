-------------------------- MODULE MCCoverageLocks --------------------------
(* Two requests of the owner against three generations: one to review and  *)
(* promote, two more to replace it while the requests wait.                *)
EXTENDS CoverageLocks

CONSTANTS splitA, splitB

MCRequest == {splitA, splitB}
=============================================================================
