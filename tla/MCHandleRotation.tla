-------------------------- MODULE MCHandleRotation --------------------------
(* Instances of HandleRotation for TLC: few fds, and the kinds a run is      *)
(* about.                                                                    *)
EXTENDS HandleRotation, TLC

\* The branches' registries never hold different handles at one fd, so the
\* order of the merges does not tell them apart.
Sides == Permutations(Children)
=============================================================================
