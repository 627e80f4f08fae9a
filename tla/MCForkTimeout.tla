---------------------------- MODULE MCForkTimeout ----------------------------
(* An instance of ForkTimeout for TLC: objects and keys are model values.   *)
EXTENDS ForkTimeout

CONSTANTS x, y, k

\* The second pair is a conflict, so its branches are never tasks.
MCSplits == {<<{x}, {y, k}>>, <<{x, k}, {y, k}>>}
=============================================================================
