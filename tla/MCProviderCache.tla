--------------------------- MODULE MCProviderCache ---------------------------
(***************************************************************************)
(* Two keys that share a cache of one entry.                               *)
(***************************************************************************)
EXTENDS ProviderCache, TLC

CONSTANTS k1, k2

MCKeys == {k1, k2}
MCSymmetry == Permutations(MCKeys)
=============================================================================
