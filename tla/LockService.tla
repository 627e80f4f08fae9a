---------------------------- MODULE LockService ----------------------------
(***************************************************************************)
(* What the runtime promises to a program that brackets its work with      *)
(* DataOp::MutexLock and a release (MutexUnlock or the recorded undo): at  *)
(* every instant a lock id belongs to at most one branch.  A branch that   *)
(* ends successfully hands what it still holds to the branch that forked   *)
(* it.  How the executor achieves this (arbiter, tokio mutex, parking slot)*)
(* is left to MutexProtocol, which implements this specification.          *)
(***************************************************************************)
CONSTANTS
    Branches,   \* concurrently interpreted branches of one Fork tree
    Locks       \* lock ids named by MutexLock / MutexUnlock

VARIABLE holding    \* holding[b]: the locks branch b has been granted

Free(l) == \A b \in Branches : l \notin holding[b]

Init == holding = [b \in Branches |-> {}]

Grant(b, l) ==
    /\ Free(l)
    /\ holding' = [holding EXCEPT ![b] = @ \cup {l}]

Release(b, l) ==
    /\ l \in holding[b]
    /\ holding' = [holding EXCEPT ![b] = @ \ {l}]

\* Fork join: the parent becomes responsible for what the branch holds.
HandOver(b, p) ==
    /\ b # p
    /\ holding' = [holding EXCEPT ![b] = {}, ![p] = @ \cup holding[b]]

Next ==
    \/ \E b \in Branches, l \in Locks : Grant(b, l) \/ Release(b, l)
    \/ \E b, p \in Branches : HandOver(b, p)

Spec == Init /\ [][Next]_holding

=============================================================================
