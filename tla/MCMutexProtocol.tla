-------------------------- MODULE MCMutexProtocol --------------------------
(***************************************************************************)
(* Instances of MutexProtocol for TLC: the branch "a" was forked by "p",   *)
(* and "c" runs concurrently with that whole Fork.                         *)
(***************************************************************************)
EXTENDS MutexProtocol, TLC

CONSTANTS a, p, c

MCParent == [b \in Branches |-> IF b = a /\ p \in Branches THEN p ELSE NoBranch]
MCSymmetry == Permutations(Locks)

=============================================================================
