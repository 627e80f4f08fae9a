----------------------------- MODULE MCCoeffects -----------------------------
(* An instance of Coeffects for TLC: one component needs one key, one both.  *)
EXTENDS Coeffects, TLC

CONSTANTS k1, k2, v1, v2

MCKeys == {k1, k2}
MCValues == {v1, v2}
MCDeps == <<{k1}, {k1, k2}>>
ValueSymmetry == Permutations(MCValues)
=============================================================================
