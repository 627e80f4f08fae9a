------------------------ MODULE MutexProtocol_proofs ------------------------
(***************************************************************************)
(* Proofs about MutexProtocol, for any branches, locks and limits: under   *)
(* the discipline that no branch rolls back a lock it has already          *)
(* unlocked, the claim protocol keeps mutual exclusion, keeps claims and   *)
(* holders in step, never blocks on a tokio mutex, and implements          *)
(* LockService.                                                            *)
(***************************************************************************)
EXTENDS MutexProtocol, SequenceTheorems, TLAPS

\* A guard is parked exactly while some branch holds the lock, and in the
\* hand of exactly the operation about to park or drop it.
GuardInv ==
    \A l \in Locks :
        /\ guard[l] = "slot" <=> \E b \in Branches : l \in held[b]
        /\ guard[l] = "hand" <=> \E b \in Branches : InHand(b, l)

\* A claim has one owner: a holder, or one operation in its claim window.
ClaimInv ==
    \A l \in Locks :
        /\ l \in claims <=> \/ \E b \in Branches : l \in held[b]
                            \/ \E b \in Branches : Claiming(b, l)
        /\ \A b, c \in Branches : Claiming(b, l) /\ Claiming(c, l) => b = c
        /\ \A b, c \in Branches : Claiming(b, l) => l \notin held[c]

\* A release is about to take a lock its branch still holds.
TakeInv ==
    \A b \in Branches : pc[b] \in {"unlocking", "undoing"} => lock[b] \in held[b]

\* While a branch rolls back, the undos above its mark stay clean.
RollbackInv ==
    \A b \in Branches :
        /\ pc[b] \in {"recovering", "undoing", "undone"} => CleanSuffix(b, mark[b])
        /\ pc[b] = "undoing" =>
             \A i \in mark[b]+1 .. Len(undo[b]) : undo[b][i] # lock[b]

IInv == TypeOK /\ MutualExclusion /\ GuardInv /\ ClaimInv /\ TakeInv /\ RollbackInv
-----------------------------------------------------------------------------

\* Every variable keeps its type (MutexProtocol).
THEOREM TypeCorrect == Spec => []TypeOK
<1>1. Init => TypeOK
  BY LimitAssumption DEF Init, TypeOK, PCs
<1>2. TypeOK /\ [Next]_vars => TypeOK'
  <2> SUFFICES ASSUME TypeOK, [Next]_vars
               PROVE  TypeOK'
    OBVIOUS
  <2> USE DEF TypeOK, PCs, Goto
  <2>1. ASSUME NEW b \in Branches, TryClaim(b) PROVE TypeOK'
    BY <2>1 DEF TryClaim
  <2>2. ASSUME NEW b \in Branches, RetryClaim(b) PROVE TypeOK'
    BY <2>2 DEF RetryClaim
  <2>3. ASSUME NEW b \in Branches, WouldBlock(b) PROVE TypeOK'
    BY <2>3 DEF WouldBlock
  <2>4. ASSUME NEW b \in Branches, AcquireGuard(b) PROVE TypeOK'
    BY <2>4 DEF AcquireGuard
  <2>5. ASSUME NEW b \in Branches, Park(b) PROVE TypeOK'
    BY <2>5 DEF Park
  <2>6. ASSUME NEW b \in Branches, TakeGuard(b) PROVE TypeOK'
    BY <2>6 DEF TakeGuard
  <2>7. ASSUME NEW b \in Branches, ReleaseClaim(b) PROVE TypeOK'
    BY <2>7 DEF ReleaseClaim
  <2>8. ASSUME NEW b \in Branches, PopUndo(b) PROVE TypeOK'
    BY <2>8 DEF PopUndo
  <2>9. ASSUME NEW b \in Branches, RecoverDone(b) PROVE TypeOK'
    BY <2>9 DEF RecoverDone
  <2>10. ASSUME NEW b \in Branches, DropGuard(b) PROVE TypeOK'
    BY <2>10 DEF DropGuard
  <2>11. ASSUME NEW b \in Branches, DropClaim(b) PROVE TypeOK'
    BY <2>11 DEF DropClaim
  <2>12. ASSUME NEW b \in Branches, NEW l \in Locks, LockCall(b, l) PROVE TypeOK'
    BY <2>12 DEF LockCall
  <2>13. ASSUME NEW b \in Branches, NEW l \in Locks, UnlockCall(b, l) PROVE TypeOK'
    BY <2>13 DEF UnlockCall
  <2>14. ASSUME NEW b \in Branches, NEW m \in 0 .. Len(undo[b]), Recover(b, m) PROVE TypeOK'
    BY <2>14 DEF Recover
  <2>15. ASSUME NEW b \in Branches, DropFuture(b) PROVE TypeOK'
    BY <2>15 DEF DropFuture
  <2>16. ASSUME NEW b \in Branches, Abandon(b) PROVE TypeOK'
    BY <2>16 DEF Abandon
  <2>17. ASSUME NEW b \in Branches, Join(b) PROVE TypeOK'
    <3>1. Parent[b] \in Branches
      BY <2>17, BranchAssumption DEF Join
    <3>2. undo[Parent[b]] \o undo[b] \in Seq(Locks)
      BY <3>1, ConcatProperties
    <3>3. << >> \in Seq(Locks)
      BY EmptySeq
    <3>4. undo' \in [Branches -> Seq(Locks)]
      BY <2>17, <3>1, <3>2, <3>3 DEF Join
    <3>5. held' \in [Branches -> SUBSET Locks]
      BY <2>17, <3>1 DEF Join
    <3> QED
      BY <2>17, <3>4, <3>5 DEF Join
  <2>18. CASE UNCHANGED vars
    BY <2>18 DEF vars
  <2> QED
    BY <2>1, <2>2, <2>3, <2>4, <2>5, <2>6, <2>7, <2>8, <2>9, <2>10, <2>11, <2>12, <2>13, <2>14, <2>15, <2>16, <2>17, <2>18 DEF Next, Progress, Choice
<1> QED
  BY <1>1, <1>2, PTL DEF Spec

-----------------------------------------------------------------------------
\* Initially no lock is claimed, guarded or held.
LEMMA InitIInv == Init => IInv
BY LimitAssumption
   DEF Init, IInv, TypeOK, PCs, MutualExclusion, GuardInv, ClaimInv, TakeInv,
       RollbackInv, InHand, Claiming

\* A step that moves no claim, guard or holding, and leaves every branch
\* inside or outside its claim window, keeps the relations between them.
LEMMA QuietStep ==
  ASSUME IInv, UNCHANGED <<claims, guard, held>>,
         \A b \in Branches, l \in Locks : InHand(b, l)' <=> InHand(b, l),
         \A b \in Branches, l \in Locks : Claiming(b, l)' <=> Claiming(b, l)
  PROVE  MutualExclusion' /\ GuardInv' /\ ClaimInv'
<1> USE DEF IInv
<1>1. MutualExclusion'
  BY DEF MutualExclusion
<1>2. GuardInv'
  <2> SUFFICES ASSUME NEW l \in Locks
               PROVE  /\ guard[l] = "slot" <=> \E b \in Branches : l \in held[b]
                      /\ guard[l] = "hand" <=> \E b \in Branches : InHand(b, l)'
    BY DEF GuardInv
  <2> QED
    BY DEF GuardInv
<1>3. ClaimInv'
  <2> SUFFICES ASSUME NEW l \in Locks
               PROVE  /\ l \in claims <=> \/ \E b \in Branches : l \in held[b]
                                          \/ \E b \in Branches : Claiming(b, l)'
                      /\ \A b, c \in Branches :
                           Claiming(b, l)' /\ Claiming(c, l)' => b = c
                      /\ \A b, c \in Branches : Claiming(b, l)' => l \notin held[c]
    BY DEF ClaimInv
  <2> QED
    BY DEF ClaimInv
<1> QED
  BY <1>1, <1>2, <1>3

LEMMA LockCallStep ==
  ASSUME IInv, TypeOK', NEW b \in Branches, NEW l \in Locks, LockCall(b, l)
  PROVE  IInv'
<1> USE DEF IInv, TypeOK, Goto
<1>1. /\ UNCHANGED <<claims, guard, held>>
      /\ \A c \in Branches, k \in Locks : InHand(c, k)' <=> InHand(c, k)
      /\ \A c \in Branches, k \in Locks : Claiming(c, k)' <=> Claiming(c, k)
  BY DEF LockCall, Runnable, InHand, Claiming
<1>2. MutualExclusion' /\ GuardInv' /\ ClaimInv'
  BY <1>1, QuietStep
<1>3. TakeInv'
  BY DEF LockCall, TakeInv, RollbackInv, CleanSuffix
<1>4. RollbackInv'
  BY DEF LockCall, RollbackInv, CleanSuffix
<1> QED
  BY <1>2, <1>3, <1>4

LEMMA RetryClaimStep ==
  ASSUME IInv, TypeOK', NEW b \in Branches, RetryClaim(b)
  PROVE  IInv'
<1> USE DEF IInv, TypeOK, Goto
<1>1. /\ UNCHANGED <<claims, guard, held>>
      /\ \A c \in Branches, k \in Locks : InHand(c, k)' <=> InHand(c, k)
      /\ \A c \in Branches, k \in Locks : Claiming(c, k)' <=> Claiming(c, k)
  BY DEF RetryClaim, Runnable, InHand, Claiming
<1>2. MutualExclusion' /\ GuardInv' /\ ClaimInv'
  BY <1>1, QuietStep
<1>3. TakeInv'
  BY DEF RetryClaim, TakeInv, RollbackInv, CleanSuffix
<1>4. RollbackInv'
  BY DEF RetryClaim, RollbackInv, CleanSuffix
<1> QED
  BY <1>2, <1>3, <1>4

LEMMA WouldBlockStep ==
  ASSUME IInv, TypeOK', NEW b \in Branches, WouldBlock(b)
  PROVE  IInv'
<1> USE DEF IInv, TypeOK, Goto
<1>1. /\ UNCHANGED <<claims, guard, held>>
      /\ \A c \in Branches, k \in Locks : InHand(c, k)' <=> InHand(c, k)
      /\ \A c \in Branches, k \in Locks : Claiming(c, k)' <=> Claiming(c, k)
  BY DEF WouldBlock, Runnable, InHand, Claiming
<1>2. MutualExclusion' /\ GuardInv' /\ ClaimInv'
  BY <1>1, QuietStep
<1>3. TakeInv'
  BY DEF WouldBlock, TakeInv, RollbackInv, CleanSuffix
<1>4. RollbackInv'
  BY DEF WouldBlock, RollbackInv, CleanSuffix
<1> QED
  BY <1>2, <1>3, <1>4

LEMMA UnlockCallStep ==
  ASSUME IInv, TypeOK', NEW b \in Branches, NEW l \in Locks, UnlockCall(b, l)
  PROVE  IInv'
<1> USE DEF IInv, TypeOK, Goto
<1>1. /\ UNCHANGED <<claims, guard, held>>
      /\ \A c \in Branches, k \in Locks : InHand(c, k)' <=> InHand(c, k)
      /\ \A c \in Branches, k \in Locks : Claiming(c, k)' <=> Claiming(c, k)
  BY DEF UnlockCall, Runnable, InHand, Claiming
<1>2. MutualExclusion' /\ GuardInv' /\ ClaimInv'
  BY <1>1, QuietStep
<1>3. TakeInv'
  BY DEF UnlockCall, TakeInv, RollbackInv, CleanSuffix
<1>4. RollbackInv'
  BY DEF UnlockCall, RollbackInv, CleanSuffix
<1> QED
  BY <1>2, <1>3, <1>4

LEMMA RecoverStep ==
  ASSUME IInv, TypeOK', NEW b \in Branches, NEW m \in 0 .. Len(undo[b]), Recover(b, m), Disciplined
  PROVE  IInv'
<1> USE DEF IInv, TypeOK, Goto
<1>1. /\ UNCHANGED <<claims, guard, held>>
      /\ \A c \in Branches, k \in Locks : InHand(c, k)' <=> InHand(c, k)
      /\ \A c \in Branches, k \in Locks : Claiming(c, k)' <=> Claiming(c, k)
  BY DEF Recover, Runnable, InHand, Claiming
<1>2. MutualExclusion' /\ GuardInv' /\ ClaimInv'
  BY <1>1, QuietStep
<1>3. TakeInv'
  BY DEF Recover, TakeInv, RollbackInv, CleanSuffix
<1>4. RollbackInv'
  BY DEF Recover, RollbackInv, CleanSuffix
<1> QED
  BY <1>2, <1>3, <1>4

LEMMA PopUndoStep ==
  ASSUME IInv, TypeOK', NEW b \in Branches, PopUndo(b)
  PROVE  IInv'
<1> USE DEF IInv, TypeOK, Goto
<1>1. /\ UNCHANGED <<claims, guard, held>>
      /\ \A c \in Branches, k \in Locks : InHand(c, k)' <=> InHand(c, k)
      /\ \A c \in Branches, k \in Locks : Claiming(c, k)' <=> Claiming(c, k)
  BY DEF PopUndo, Runnable, InHand, Claiming
<1>2. MutualExclusion' /\ GuardInv' /\ ClaimInv'
  BY <1>1, QuietStep
<1> DEFINE n == Len(undo[b])
<1>3. /\ n \in Nat
      /\ n \in mark[b]+1 .. n
      /\ lock'[b] = undo[b][n]
      /\ CleanSuffix(b, mark[b])
  BY DEF PopUndo, RollbackInv
<1>4. TakeInv'
  <2>1. lock'[b] \in held[b]
    BY <1>3 DEF CleanSuffix
  <2> QED
    BY <2>1 DEF PopUndo, TakeInv
<1>5. RollbackInv'
  BY SMTT(60) DEF PopUndo, RollbackInv, CleanSuffix
<1> QED
  BY <1>2, <1>4, <1>5

LEMMA RecoverDoneStep ==
  ASSUME IInv, TypeOK', NEW b \in Branches, RecoverDone(b)
  PROVE  IInv'
<1> USE DEF IInv, TypeOK, Goto
<1>1. /\ UNCHANGED <<claims, guard, held>>
      /\ \A c \in Branches, k \in Locks : InHand(c, k)' <=> InHand(c, k)
      /\ \A c \in Branches, k \in Locks : Claiming(c, k)' <=> Claiming(c, k)
  BY DEF RecoverDone, Runnable, InHand, Claiming
<1>2. MutualExclusion' /\ GuardInv' /\ ClaimInv'
  BY <1>1, QuietStep
<1>3. TakeInv'
  BY DEF RecoverDone, TakeInv, RollbackInv, CleanSuffix
<1>4. RollbackInv'
  BY DEF RecoverDone, RollbackInv, CleanSuffix
<1> QED
  BY <1>2, <1>3, <1>4

LEMMA DropFutureStep ==
  ASSUME IInv, TypeOK', NEW b \in Branches, DropFuture(b)
  PROVE  IInv'
<1> USE DEF IInv, TypeOK, Goto
<1>1. /\ UNCHANGED <<claims, guard, held>>
      /\ \A c \in Branches, k \in Locks : InHand(c, k)' <=> InHand(c, k)
      /\ \A c \in Branches, k \in Locks : Claiming(c, k)' <=> Claiming(c, k)
  BY DEF DropFuture, Runnable, InHand, Claiming
<1>2. MutualExclusion' /\ GuardInv' /\ ClaimInv'
  BY <1>1, QuietStep
<1>3. TakeInv'
  BY DEF DropFuture, TakeInv, RollbackInv, CleanSuffix
<1>4. RollbackInv'
  BY DEF DropFuture, RollbackInv, CleanSuffix
<1> QED
  BY <1>2, <1>3, <1>4

LEMMA AbandonStep ==
  ASSUME IInv, TypeOK', NEW b \in Branches, Abandon(b)
  PROVE  IInv'
<1> USE DEF IInv, TypeOK, Goto
<1>1. /\ UNCHANGED <<claims, guard, held>>
      /\ \A c \in Branches, k \in Locks : InHand(c, k)' <=> InHand(c, k)
      /\ \A c \in Branches, k \in Locks : Claiming(c, k)' <=> Claiming(c, k)
  BY DEF Abandon, Runnable, InHand, Claiming
<1>2. MutualExclusion' /\ GuardInv' /\ ClaimInv'
  BY <1>1, QuietStep
<1>3. TakeInv'
  BY DEF Abandon, TakeInv, RollbackInv, CleanSuffix
<1>4. RollbackInv'
  BY DEF Abandon, RollbackInv, CleanSuffix
<1> QED
  BY <1>2, <1>3, <1>4

LEMMA TryClaimStep ==
  ASSUME IInv, TypeOK', NEW b \in Branches, TryClaim(b)
  PROVE  IInv'
<1> USE DEF IInv, TypeOK, Goto, Claiming, InHand
<1>1. MutualExclusion'
  BY DEF TryClaim, MutualExclusion, GuardInv, ClaimInv
<1>2. GuardInv'
  BY DEF TryClaim, GuardInv, ClaimInv, TakeInv
<1>3. ClaimInv'
  BY DEF TryClaim, ClaimInv, GuardInv, TakeInv, MutualExclusion
<1>4. TakeInv'
  BY DEF TryClaim, TakeInv, RollbackInv, CleanSuffix, MutualExclusion
<1>5. RollbackInv'
  BY DEF TryClaim, RollbackInv, CleanSuffix, TakeInv
<1> QED
  BY <1>1, <1>2, <1>3, <1>4, <1>5

LEMMA AcquireGuardStep ==
  ASSUME IInv, TypeOK', NEW b \in Branches, AcquireGuard(b)
  PROVE  IInv'
<1> USE DEF IInv, TypeOK, Goto, Claiming, InHand
<1>1. MutualExclusion'
  BY DEF AcquireGuard, MutualExclusion, GuardInv, ClaimInv
<1>2. GuardInv'
  BY DEF AcquireGuard, GuardInv, ClaimInv, TakeInv
<1>3. ClaimInv'
  BY DEF AcquireGuard, ClaimInv, GuardInv, TakeInv, MutualExclusion
<1>4. TakeInv'
  BY DEF AcquireGuard, TakeInv, RollbackInv, CleanSuffix, MutualExclusion
<1>5. RollbackInv'
  BY DEF AcquireGuard, RollbackInv, CleanSuffix, TakeInv
<1> QED
  BY <1>1, <1>2, <1>3, <1>4, <1>5

LEMMA ParkStep ==
  ASSUME IInv, TypeOK', NEW b \in Branches, Park(b)
  PROVE  IInv'
<1> USE DEF IInv, TypeOK, Goto, Claiming, InHand
<1>1. MutualExclusion'
  BY DEF Park, MutualExclusion, GuardInv, ClaimInv
<1>2. GuardInv'
  BY DEF Park, GuardInv, ClaimInv, TakeInv
<1>3. ClaimInv'
  BY DEF Park, ClaimInv, GuardInv, TakeInv, MutualExclusion
<1>4. TakeInv'
  BY DEF Park, TakeInv, RollbackInv, CleanSuffix, MutualExclusion
<1>5. RollbackInv'
  BY DEF Park, RollbackInv, CleanSuffix, TakeInv
<1> QED
  BY <1>1, <1>2, <1>3, <1>4, <1>5

LEMMA TakeGuardStep ==
  ASSUME IInv, TypeOK', NEW b \in Branches, TakeGuard(b)
  PROVE  IInv'
<1> USE DEF IInv, TypeOK, Goto
<1> DEFINE k == lock[b]
\* The guard taken is the one b parked, and nobody else has a part in k.
<1>1. /\ k \in Locks /\ k \in held[b]
      /\ pc[b] \in {"unlocking", "undoing"}
      /\ pc' = [pc EXCEPT ![b] = IF pc[b] = "unlocking" THEN "unlocked" ELSE "undone"]
      /\ held' = [held EXCEPT ![b] = @ \ {k}]
      /\ UNCHANGED <<claims, lock, undo, mark>>
  BY DEF TakeGuard, TakeInv
<1>2. /\ guard[k] = "slot"
      /\ \A c \in Branches : ~ Claiming(c, k) /\ ~ InHand(c, k)
      /\ \A c \in Branches : c # b => k \notin held[c]
      /\ k \in claims
  BY <1>1 DEF GuardInv, ClaimInv, MutualExclusion, InHand, Claiming
<1>3. guard' = [guard EXCEPT ![k] = "none"]
  BY <1>1, <1>2 DEF TakeGuard
<1>4. \A c \in Branches, l \in Locks :
        /\ Claiming(c, l)' <=> Claiming(c, l) \/ (c = b /\ l = k)
        /\ InHand(c, l)' <=> InHand(c, l)
        /\ l \in held'[c] <=> l \in held[c] /\ l # k
  BY <1>1, <1>2 DEF Claiming, InHand
<1>5. MutualExclusion'
  BY <1>1 DEF MutualExclusion
<1>6. GuardInv'
  <2> SUFFICES ASSUME NEW l \in Locks
               PROVE  /\ guard'[l] = "slot" <=> \E c \in Branches : l \in held'[c]
                      /\ guard'[l] = "hand" <=> \E c \in Branches : InHand(c, l)'
    BY DEF GuardInv
  <2>1. CASE l = k
    BY <2>1, <1>2, <1>3, <1>4
  <2>2. CASE l # k
    BY SMTT(60), <2>2, <1>3, <1>4 DEF GuardInv
  <2> QED
    BY <2>1, <2>2
<1>7. ClaimInv'
  <2> SUFFICES ASSUME NEW l \in Locks
               PROVE  /\ l \in claims <=> \/ \E c \in Branches : l \in held'[c]
                                          \/ \E c \in Branches : Claiming(c, l)'
                      /\ \A c, d \in Branches :
                           Claiming(c, l)' /\ Claiming(d, l)' => c = d
                      /\ \A c, d \in Branches : Claiming(c, l)' => l \notin held'[d]
    BY <1>1 DEF ClaimInv
  <2>1. CASE l = k
    BY <2>1, <1>2, <1>4
  <2>2. CASE l # k
    BY <2>2, <1>4 DEF ClaimInv
  <2> QED
    BY <2>1, <2>2
<1>8. TakeInv'
  <2> SUFFICES ASSUME NEW c \in Branches, pc'[c] \in {"unlocking", "undoing"}
               PROVE  lock[c] \in held'[c]
    BY <1>1 DEF TakeInv
  <2>1. c # b /\ pc[c] \in {"unlocking", "undoing"}
    BY <1>1
  <2> QED
    BY <2>1, <1>1 DEF TakeInv
<1>9. RollbackInv'
  BY <1>1 DEF RollbackInv, CleanSuffix
<1> QED
  BY <1>5, <1>6, <1>7, <1>8, <1>9

\* The window an operation leaves by releasing its claim.
LEMMA LeaveWindow ==
  ASSUME IInv, NEW b \in Branches, Claiming(b, lock[b]), ~ InHand(b, lock[b]),
         claims' = claims \ {lock[b]}, UNCHANGED <<guard, lock, held>>,
         NEW to \in PCs, pc' = [pc EXCEPT ![b] = to],
         to \in {"idle", "recovering", "dropped"}
  PROVE  MutualExclusion' /\ GuardInv' /\ ClaimInv'
<1> USE DEF IInv, TypeOK
<1>1. \A c \in Branches, l \in Locks :
        /\ Claiming(c, l)' <=> Claiming(c, l) /\ c # b
        /\ InHand(c, l)' <=> InHand(c, l)
  BY DEF Claiming, InHand
<1>2. \A l \in Locks : Claiming(b, l) => l = lock[b]
  BY DEF Claiming
<1>3. MutualExclusion'
  BY DEF MutualExclusion
<1>4. GuardInv'
  BY <1>1 DEF GuardInv
<1>5. ClaimInv'
  <2> SUFFICES ASSUME NEW l \in Locks
               PROVE  /\ l \in claims' <=> \/ \E c \in Branches : l \in held[c]
                                           \/ \E c \in Branches : Claiming(c, l)'
                      /\ \A c, d \in Branches :
                           Claiming(c, l)' /\ Claiming(d, l)' => c = d
                      /\ \A c, d \in Branches : Claiming(c, l)' => l \notin held[d]
    BY DEF ClaimInv
  <2>1. CASE l = lock[b]
    BY <2>1, <1>1 DEF ClaimInv
  <2>2. CASE l # lock[b]
    <3>1. /\ l \in claims' <=> l \in claims
          /\ \A c \in Branches : Claiming(c, l)' <=> Claiming(c, l)
      BY <2>2, <1>1, <1>2
    <3> QED
      BY <3>1 DEF ClaimInv
  <2> QED
    BY <2>1, <2>2
<1> QED
  BY <1>3, <1>4, <1>5

LEMMA ReleaseClaimStep ==
  ASSUME IInv, TypeOK', NEW b \in Branches, ReleaseClaim(b)
  PROVE  IInv'
<1> USE DEF IInv, TypeOK, Goto
<1> DEFINE to == IF pc[b] = "unlocked" THEN "idle" ELSE "recovering"
<1>1. /\ pc[b] \in {"unlocked", "undone"}
      /\ pc' = [pc EXCEPT ![b] = to]
      /\ claims' = claims \ {lock[b]}
      /\ UNCHANGED <<guard, lock, undo, mark, held>>
  BY DEF ReleaseClaim
<1>2. /\ Claiming(b, lock[b]) /\ ~ InHand(b, lock[b])
      /\ to \in PCs /\ to \in {"idle", "recovering", "dropped"}
  BY <1>1 DEF Claiming, InHand, PCs
<1>3. MutualExclusion' /\ GuardInv' /\ ClaimInv'
  BY <1>1, <1>2, LeaveWindow
<1>4. TakeInv'
  BY <1>1 DEF TakeInv
<1>5. RollbackInv'
  BY <1>1 DEF RollbackInv, CleanSuffix
<1> QED
  BY <1>3, <1>4, <1>5

LEMMA DropGuardStep ==
  ASSUME IInv, TypeOK', NEW b \in Branches, DropGuard(b)
  PROVE  IInv'
<1> USE DEF IInv, TypeOK, Goto, Claiming, InHand
<1>1. MutualExclusion'
  BY DEF DropGuard, MutualExclusion, GuardInv, ClaimInv
<1>2. GuardInv'
  BY DEF DropGuard, GuardInv, ClaimInv, TakeInv
<1>3. ClaimInv'
  BY DEF DropGuard, ClaimInv, GuardInv, TakeInv, MutualExclusion
<1>4. TakeInv'
  BY DEF DropGuard, TakeInv, RollbackInv, CleanSuffix, MutualExclusion
<1>5. RollbackInv'
  BY DEF DropGuard, RollbackInv, CleanSuffix, TakeInv
<1> QED
  BY <1>1, <1>2, <1>3, <1>4, <1>5

LEMMA DropClaimStep ==
  ASSUME IInv, TypeOK', NEW b \in Branches, DropClaim(b)
  PROVE  IInv'
<1> USE DEF IInv, TypeOK, Goto
<1>1. /\ Claiming(b, lock[b]) /\ ~ InHand(b, lock[b])
      /\ claims' = claims \ {lock[b]}
      /\ UNCHANGED <<guard, lock, held>>
      /\ pc' = [pc EXCEPT ![b] = "dropped"]
      /\ "dropped" \in PCs
  BY DEF DropClaim, Claiming, InHand, PCs
<1>2. MutualExclusion' /\ GuardInv' /\ ClaimInv'
  BY <1>1, LeaveWindow
<1>3. TakeInv'
  BY DEF DropClaim, TakeInv
<1>4. RollbackInv'
  BY DEF DropClaim, RollbackInv, CleanSuffix
<1> QED
  BY <1>2, <1>3, <1>4

LEMMA JoinStep ==
  ASSUME IInv, TypeOK', NEW b \in Branches, Join(b)
  PROVE  IInv'
<1> USE DEF IInv, TypeOK, Goto
<1> DEFINE p == Parent[b]
<1>1. /\ p \in Branches /\ p # b
      /\ pc[b] = "idle" /\ pc[p] = "idle"
      /\ pc' = [pc EXCEPT ![b] = "joined"]
      /\ UNCHANGED <<claims, guard, lock, mark>>
  BY BranchAssumption DEF Join, Runnable
<1>2. \A c \in Branches :
        held'[c] = IF c = b THEN {}
                   ELSE IF c = p THEN held[p] \cup held[b] ELSE held[c]
  BY <1>1 DEF Join
<1>3. \A c \in Branches : c # b /\ c # p => undo'[c] = undo[c]
  BY <1>1 DEF Join
<1>4. \A c \in Branches, l \in Locks :
        /\ InHand(c, l)' <=> InHand(c, l)
        /\ Claiming(c, l)' <=> Claiming(c, l)
  BY <1>1 DEF InHand, Claiming
<1>5. \A l \in Locks :
        (\E c \in Branches : l \in held'[c]) <=> (\E c \in Branches : l \in held[c])
  BY <1>1, <1>2
<1>6. MutualExclusion'
  BY <1>1, <1>2 DEF MutualExclusion
<1>7. GuardInv'
  BY <1>1, <1>4, <1>5 DEF GuardInv
<1>8. ClaimInv'
  <2> SUFFICES ASSUME NEW l \in Locks
               PROVE  /\ l \in claims <=> \/ \E c \in Branches : l \in held'[c]
                                          \/ \E c \in Branches : Claiming(c, l)'
                      /\ \A c, d \in Branches :
                           Claiming(c, l)' /\ Claiming(d, l)' => c = d
                      /\ \A c, d \in Branches : Claiming(c, l)' => l \notin held'[d]
    BY <1>1 DEF ClaimInv
  <2> QED
    BY <1>4, <1>5 DEF ClaimInv
<1>9. TakeInv'
  BY <1>1, <1>2 DEF TakeInv
<1>10. RollbackInv'
  <2> SUFFICES ASSUME NEW c \in Branches,
                      pc'[c] \in {"recovering", "undoing", "undone"}
               PROVE  /\ CleanSuffix(c, mark[c])'
                      /\ pc'[c] = "undoing" =>
                           \A i \in mark[c]+1 .. Len(undo'[c]) : undo'[c][i] # lock[c]
    BY <1>1 DEF RollbackInv
  <2>1. pc'[c] = pc[c] /\ undo'[c] = undo[c] /\ held'[c] = held[c]
    BY <1>1, <1>2, <1>3
  <2>2. mark' = mark /\ lock' = lock
    BY <1>1
  <2>3. /\ CleanSuffix(c, mark[c])
        /\ pc[c] = "undoing" =>
             \A i \in mark[c]+1 .. Len(undo[c]) : undo[c][i] # lock[c]
    BY <2>1, <1>1 DEF RollbackInv
  <2>4. CleanSuffix(c, mark[c])'
    BY <2>1, <2>2, <2>3 DEF CleanSuffix
  <2> QED
    BY <2>1, <2>2, <2>3, <2>4
<1> QED
  BY <1>6, <1>7, <1>8, <1>9, <1>10

-----------------------------------------------------------------------------
(* Theorems *)

\* The inductive invariant holds of every disciplined execution.
LEMMA InvariantHolds ==
  ASSUME Disciplined PROVE Spec => []IInv
<1>1. IInv /\ TypeOK' /\ [Next]_vars => IInv'
  <2> SUFFICES ASSUME IInv, TypeOK', [Next]_vars
               PROVE  IInv'
    OBVIOUS
  <2>1. ASSUME NEW b \in Branches, Progress(b) PROVE IInv'
    BY <2>1, TryClaimStep, RetryClaimStep, WouldBlockStep, AcquireGuardStep,
       ParkStep, TakeGuardStep, ReleaseClaimStep, PopUndoStep,
       RecoverDoneStep, DropGuardStep, DropClaimStep DEF Progress
  <2>2. ASSUME NEW b \in Branches, Choice(b) PROVE IInv'
    BY <2>2, LockCallStep, UnlockCallStep, RecoverStep, DropFutureStep,
       AbandonStep, JoinStep DEF Choice
  <2>3. CASE UNCHANGED vars
    BY <2>3 DEF vars, IInv, TypeOK, MutualExclusion, GuardInv, ClaimInv,
                TakeInv, RollbackInv, CleanSuffix, InHand, Claiming
  <2> QED
    BY <2>1, <2>2, <2>3 DEF Next
<1> QED
  BY <1>1, InitIInv, TypeCorrect, PTL DEF Spec

\* No two branches ever rely on the same lock: the contract of op_mutex_lock.
THEOREM MutualExclusionHolds ==
  ASSUME Disciplined PROVE Spec => []MutualExclusion
<1>1. IInv => MutualExclusion
  BY DEF IInv
<1> QED
  BY <1>1, InvariantHolds, PTL

\* "claimed <=> locked", the invariant the undo of MutexLock must preserve.
THEOREM ClaimIffHeldHolds ==
  ASSUME Disciplined PROVE Spec => []ClaimIffHeld
<1>1. IInv => ClaimIffHeld
  BY DEF IInv, ClaimInv, ClaimIffHeld
<1> QED
  BY <1>1, InvariantHolds, PTL

\* Axiom A7: after its claim, an operation finds the tokio mutex free.
THEOREM NeverBlocksHolds ==
  ASSUME Disciplined PROVE Spec => []NeverBlocks
<1>1. IInv => NeverBlocks
  <2> SUFFICES ASSUME IInv, NEW b \in Branches, pc[b] = "locking",
                      guard[lock[b]] # "none"
               PROVE  FALSE
    BY DEF NeverBlocks
  <2> USE DEF IInv, TypeOK
  <2>1. lock[b] \in Locks /\ Claiming(b, lock[b])
    BY DEF Claiming
  <2>2. guard[lock[b]] # "slot"
    BY <2>1 DEF GuardInv, ClaimInv
  <2>3. PICK c \in Branches : InHand(c, lock[b])
    BY <2>1, <2>2 DEF GuardInv
  <2>4. Claiming(c, lock[b]) /\ c # b
    BY <2>3 DEF InHand, Claiming
  <2> QED
    BY <2>1, <2>4 DEF ClaimInv
<1> QED
  BY <1>1, InvariantHolds, PTL

\* The protocol implements LockService: parking the guard is the grant,
\* taking it is the release, Fork join hands over, all else stutters.
THEOREM Refinement ==
  ASSUME Disciplined PROVE Spec => ImplementsLockService
<1>1. Init => Service!Init
  BY DEF Init, Service!Init
<1>2. IInv /\ [Next]_vars => [Service!Next]_held
  <2> SUFFICES ASSUME IInv, [Next]_vars
               PROVE  Service!Next \/ UNCHANGED held
    OBVIOUS
  <2> USE DEF IInv, TypeOK
  <2>1. ASSUME NEW b \in Branches, Park(b)
        PROVE  Service!Next
    <3>1. lock[b] \in Locks /\ Claiming(b, lock[b])
      BY <2>1 DEF Park, Claiming
    <3>2. Service!Free(lock[b])
      BY <3>1 DEF Service!Free, ClaimInv
    <3>3. Service!Grant(b, lock[b])
      BY <2>1, <3>2 DEF Park, Service!Grant
    <3> QED
      BY <3>1, <3>3 DEF Service!Next
  <2>2. ASSUME NEW b \in Branches, TakeGuard(b)
        PROVE  Service!Next
    <3>1. lock[b] \in Locks /\ lock[b] \in held[b]
      BY <2>2 DEF TakeGuard, TakeInv
    <3>2. Service!Release(b, lock[b])
      BY <2>2, <3>1 DEF TakeGuard, Service!Release
    <3> QED
      BY <3>1, <3>2 DEF Service!Next
  <2>3. ASSUME NEW b \in Branches, Join(b)
        PROVE  Service!Next
    <3>1. Parent[b] \in Branches /\ b # Parent[b]
      BY <2>3, BranchAssumption DEF Join
    <3>2. Service!HandOver(b, Parent[b])
      BY <2>3, <3>1 DEF Join, Service!HandOver
    <3> QED
      BY <3>1, <3>2 DEF Service!Next
  <2>4. ASSUME NEW b \in Branches, Progress(b), ~ Park(b), ~ TakeGuard(b)
        PROVE  UNCHANGED held
    BY <2>4 DEF Progress, TryClaim, RetryClaim, WouldBlock, AcquireGuard,
                ReleaseClaim, PopUndo, RecoverDone, DropGuard, DropClaim
  <2>5. ASSUME NEW b \in Branches, Choice(b), ~ Join(b)
        PROVE  UNCHANGED held
    BY <2>5 DEF Choice, LockCall, UnlockCall, Recover, DropFuture, Abandon
  <2>6. CASE UNCHANGED vars
    BY <2>6 DEF vars
  <2> QED
    BY <2>1, <2>2, <2>3, <2>4, <2>5, <2>6 DEF Next
<1> QED
  BY <1>1, <1>2, InvariantHolds, PTL
     DEF Spec, Service!Spec, ImplementsLockService

=============================================================================
