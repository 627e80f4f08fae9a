--------------------------- MODULE MCForkRegistry ---------------------------
(* Instances of ForkRegistry for TLC: fds are small numbers, Width stands   *)
(* for 2^48 and MaxRegions for 2^16.                                        *)
EXTENDS ForkRegistry
=============================================================================
