--------------------------- MODULE MutexProtocol ---------------------------
(***************************************************************************)
(* The mutual-exclusion protocol of TokioExecutor (executor.rs):           *)
(* op_mutex_lock, op_mutex_unlock, the undo that MutexLock records, and    *)
(* ArbiterClaimGuard, run step by step by the branches of a Fork tree.     *)
(* Each branch owns its undo stack (runtime.rs, UndoStack); the arbiter,   *)
(* the tokio mutexes and the parking slots (held_locks) are shared by all  *)
(* branches, because fork_snapshot clones their Arcs.                      *)
(*                                                                         *)
(* A lock is granted in three steps, each of which other branches can      *)
(* interleave with: claim in the arbiter, acquire the tokio mutex, park    *)
(* the guard in the slot.  A release takes two: take the guard out of the  *)
(* slot and drop it, then release the claim.  Every await is a point where *)
(* a timeout may drop the future.                                          *)
(***************************************************************************)
EXTENDS Naturals, Sequences

CONSTANTS
    Branches,       \* concurrently interpreted branches
    Locks,          \* lock ids
    NoBranch,       \* "no parent"
    Parent,         \* Parent[b]: the branch whose Fork started b
    RetryLimit,     \* ARBITER_RETRY_LIMIT
    MaxUndo,        \* bound: a branch starts no lock with more undos than this
    Disciplined     \* TRUE: no branch rolls back a lock it already unlocked

ASSUME BranchAssumption ==
    /\ NoBranch \notin Branches
    /\ Parent \in [Branches -> Branches \cup {NoBranch}]
    /\ \A b \in Branches : Parent[b] # b
ASSUME LimitAssumption ==
    /\ RetryLimit \in Nat \ {0}
    /\ MaxUndo \in Nat
    /\ Disciplined \in BOOLEAN

VARIABLES
    claims,     \* ResourceArbiter.claims: the ids claimed exclusively
    guard,      \* where the guard of each tokio mutex is: "none" (the mutex
                \* is free), "hand" (a local of op_mutex_lock), "slot"
    pc,         \* what each branch is suspended at
    lock,       \* the id the current operation is about
    attempt,    \* the retry loop's counter
    undo,       \* UndoStack.ops: the lock id each recorded undo releases
    mark,       \* rollback_from's argument (0 for recover)
    held        \* history: the locks a branch was granted and has not begun
                \* to give back, which is what its program relies on

vars == <<claims, guard, pc, lock, attempt, undo, mark, held>>

PCs == {"idle", "claiming", "locking", "parking",       \* op_mutex_lock
        "unlocking", "unlocked",                        \* op_mutex_unlock
        "recovering", "undoing", "undone",              \* recover
        "drop_guard", "drop_claim", "dropped",          \* a dropped future
        "joined", "gone"}

Init ==
    /\ claims = {}
    /\ guard = [l \in Locks |-> "none"]
    /\ pc = [b \in Branches |-> "idle"]
    /\ lock \in [Branches -> Locks]
    /\ attempt = [b \in Branches |-> 0]
    /\ undo = [b \in Branches |-> << >>]
    /\ mark = [b \in Branches |-> 0]
    /\ held = [b \in Branches |-> {}]

Goto(b, to) == pc' = [pc EXCEPT ![b] = to]

\* The parent of a Fork is suspended until its branches are joined or lost.
Runnable(b) ==
    /\ pc[b] = "idle"
    /\ \A c \in Branches : Parent[c] = b => pc[c] \in {"joined", "gone"}

-----------------------------------------------------------------------------
(* op_mutex_lock *)

LockCall(b, l) ==
    /\ Runnable(b)
    /\ Len(undo[b]) < MaxUndo
    /\ Goto(b, "claiming")
    /\ lock' = [lock EXCEPT ![b] = l]
    /\ UNCHANGED <<claims, guard, attempt, undo, mark, held>>

TryClaim(b) ==
    /\ pc[b] = "claiming"
    /\ lock[b] \notin claims
    /\ claims' = claims \cup {lock[b]}
    /\ Goto(b, "locking")
    /\ attempt' = [attempt EXCEPT ![b] = 0]
    /\ UNCHANGED <<guard, lock, undo, mark, held>>

\* Mutant: the retry loop forgets to count.
RetryForever(b) ==
    /\ pc[b] = "claiming"
    /\ lock[b] \in claims
    /\ UNCHANGED vars

\* try_claim failed: back off and try again ...
RetryClaim(b) ==
    /\ pc[b] = "claiming"
    /\ lock[b] \in claims
    /\ attempt[b] + 1 < RetryLimit
    /\ attempt' = [attempt EXCEPT ![b] = @ + 1]
    /\ UNCHANGED <<claims, guard, pc, lock, undo, mark, held>>

\* ... or give up: Err(WouldBlock), nothing to undo.
WouldBlock(b) ==
    /\ pc[b] = "claiming"
    /\ lock[b] \in claims
    /\ attempt[b] + 1 = RetryLimit
    /\ Goto(b, "idle")
    /\ attempt' = [attempt EXCEPT ![b] = 0]
    /\ UNCHANGED <<claims, guard, lock, undo, mark, held>>

\* m.lock_owned().await
AcquireGuard(b) ==
    /\ pc[b] = "locking"
    /\ guard[lock[b]] = "none"
    /\ guard' = [guard EXCEPT ![lock[b]] = "hand"]
    /\ Goto(b, "parking")
    /\ UNCHANGED <<claims, lock, attempt, undo, mark, held>>

\* *slot.lock().await = Some(guard); disarm; the interpreter pushes the undo.
Park(b) ==
    /\ pc[b] = "parking"
    /\ guard' = [guard EXCEPT ![lock[b]] = "slot"]
    /\ undo' = [undo EXCEPT ![b] = Append(@, lock[b])]
    /\ held' = [held EXCEPT ![b] = @ \cup {lock[b]}]
    /\ Goto(b, "idle")
    /\ UNCHANGED <<claims, lock, attempt, mark>>

-----------------------------------------------------------------------------
(* op_mutex_unlock and the undo of MutexLock: slot.take(), then release.   *)

\* The code checks no owner; the programs modelled unlock what they hold.
\* The undo recorded by MutexLock stays on the stack.
UnlockCall(b, l) ==
    /\ Runnable(b)
    /\ l \in held[b]
    /\ Goto(b, "unlocking")
    /\ lock' = [lock EXCEPT ![b] = l]
    /\ UNCHANGED <<claims, guard, attempt, undo, mark, held>>

\* Mutant: the guard is left parked in the slot.
TakeNothing(b) ==
    /\ \/ pc[b] = "unlocking" /\ Goto(b, "unlocked")
       \/ pc[b] = "undoing" /\ Goto(b, "undone")
    /\ held' = [held EXCEPT ![b] = @ \ {lock[b]}]
    /\ UNCHANGED <<claims, guard, lock, attempt, undo, mark>>

\* slot.lock().await.take() drops whichever guard is parked, if any.
TakeGuard(b) ==
    /\ \/ pc[b] = "unlocking" /\ Goto(b, "unlocked")
       \/ pc[b] = "undoing" /\ Goto(b, "undone")
    /\ guard' = [guard EXCEPT ![lock[b]] = IF @ = "slot" THEN "none" ELSE @]
    /\ held' = [held EXCEPT ![b] = @ \ {lock[b]}]
    /\ UNCHANGED <<claims, lock, attempt, undo, mark>>

\* arbiter.release: idempotent, and blind to who made the claim.
ReleaseClaim(b) ==
    /\ \/ pc[b] = "unlocked" /\ Goto(b, "idle")
       \/ pc[b] = "undone" /\ Goto(b, "recovering")
    /\ claims' = claims \ {lock[b]}
    /\ UNCHANGED <<guard, lock, attempt, undo, mark, held>>

-----------------------------------------------------------------------------
(* UndoStack::recover and rollback_from *)

\* No undo above m is stale: each is for a lock still held, and only once.
CleanSuffix(b, m) ==
    \A i \in m+1 .. Len(undo[b]) :
        /\ undo[b][i] \in held[b]
        /\ \A j \in m+1 .. Len(undo[b]) : undo[b][i] = undo[b][j] => i = j

\* Replace, recover() (m = 0), or a Timeout inside the branch that fired.
Recover(b, m) ==
    /\ Runnable(b) \/ pc[b] = "dropped"
    /\ Disciplined => CleanSuffix(b, m)
    /\ mark' = [mark EXCEPT ![b] = m]
    /\ Goto(b, "recovering")
    /\ UNCHANGED <<claims, guard, lock, attempt, undo, held>>

\* Mutant: the undo is run but not popped.
PeekUndo(b) ==
    /\ pc[b] = "recovering"
    /\ Len(undo[b]) > mark[b]
    /\ lock' = [lock EXCEPT ![b] = undo[b][Len(undo[b])]]
    /\ Goto(b, "undoing")
    /\ UNCHANGED <<claims, guard, attempt, undo, mark, held>>

PopUndo(b) ==
    /\ pc[b] = "recovering"
    /\ Len(undo[b]) > mark[b]
    /\ lock' = [lock EXCEPT ![b] = undo[b][Len(undo[b])]]
    /\ undo' = [undo EXCEPT ![b] = SubSeq(@, 1, Len(@) - 1)]
    /\ Goto(b, "undoing")
    /\ UNCHANGED <<claims, guard, attempt, mark, held>>

RecoverDone(b) ==
    /\ pc[b] = "recovering"
    /\ Len(undo[b]) <= mark[b]
    /\ Goto(b, "idle")
    /\ mark' = [mark EXCEPT ![b] = 0]
    /\ UNCHANGED <<claims, guard, lock, attempt, undo, held>>

-----------------------------------------------------------------------------
(* A timeout drops the future at an await: locals drop in reverse order,   *)
(* so the guard goes before ArbiterClaimGuard releases the claim.          *)

\* Mutant: no ArbiterClaimGuard is armed before lock_owned is awaited.
DropUnarmed(b) ==
    /\ \/ pc[b] = "claiming" /\ attempt[b] > 0 /\ Goto(b, "dropped")
       \/ pc[b] \in {"locking", "unlocking", "undoing"} /\ Goto(b, "dropped")
       \/ pc[b] = "parking" /\ Goto(b, "drop_guard")
    /\ attempt' = [attempt EXCEPT ![b] = 0]
    /\ mark' = [mark EXCEPT ![b] = 0]
    /\ UNCHANGED <<claims, guard, lock, undo, held>>

DropFuture(b) ==
    /\ \/ /\ pc[b] = "claiming"
          /\ attempt[b] > 0
          /\ Goto(b, "dropped")
       \/ pc[b] = "locking" /\ Goto(b, "drop_claim")
       \/ pc[b] = "parking" /\ Goto(b, "drop_guard")
       \/ pc[b] \in {"unlocking", "undoing"} /\ Goto(b, "dropped")
    /\ attempt' = [attempt EXCEPT ![b] = 0]
    /\ mark' = [mark EXCEPT ![b] = 0]
    /\ UNCHANGED <<claims, guard, lock, undo, held>>

DropGuard(b) ==
    /\ pc[b] = "drop_guard"
    /\ guard' = [guard EXCEPT ![lock[b]] = "none"]
    /\ Goto(b, "drop_claim")
    /\ UNCHANGED <<claims, lock, attempt, undo, mark, held>>

\* ArbiterClaimGuard::drop
DropClaim(b) ==
    /\ pc[b] = "drop_claim"
    /\ claims' = claims \ {lock[b]}
    /\ Goto(b, "dropped")
    /\ UNCHANGED <<guard, lock, attempt, undo, mark, held>>

\* The whole branch is dropped: its undo stack is lost with it.
Abandon(b) ==
    /\ Runnable(b) \/ pc[b] = "dropped"
    /\ Goto(b, "gone")
    /\ undo' = [undo EXCEPT ![b] = << >>]
    /\ UNCHANGED <<claims, guard, lock, attempt, mark, held>>

\* Fork join: UndoStack::append moves the undos to the parent.
Join(b) ==
    /\ Runnable(b)
    /\ Parent[b] # NoBranch
    /\ pc[Parent[b]] = "idle"
    /\ undo' = [undo EXCEPT ![b] = << >>, ![Parent[b]] = @ \o undo[b]]
    /\ held' = [held EXCEPT ![b] = {}, ![Parent[b]] = @ \cup held[b]]
    /\ Goto(b, "joined")
    /\ UNCHANGED <<claims, guard, lock, attempt, mark>>

-----------------------------------------------------------------------------

\* What the scheduler runs to completion without the program's help.
Progress(b) ==
    \/ TryClaim(b) \/ RetryClaim(b) \/ WouldBlock(b)
    \/ AcquireGuard(b) \/ Park(b)
    \/ TakeGuard(b) \/ ReleaseClaim(b)
    \/ PopUndo(b) \/ RecoverDone(b)
    \/ DropGuard(b) \/ DropClaim(b)

\* What a program, a join or a timeout decides.
Choice(b) ==
    \/ \E l \in Locks : LockCall(b, l) \/ UnlockCall(b, l)
    \/ \E m \in 0 .. Len(undo[b]) : Recover(b, m)
    \/ DropFuture(b) \/ Abandon(b) \/ Join(b)

Next == \E b \in Branches : Progress(b) \/ Choice(b)

\* tokio polls every woken task again and the arbiter's critical sections
\* are short, so a step that stays possible is taken; no fairness is assumed
\* of programs, timeouts or joins.
Fairness == \A b \in Branches : WF_vars(Progress(b))

Spec == Init /\ [][Next]_vars
FairSpec == Spec /\ Fairness

-----------------------------------------------------------------------------
(* Properties *)

TypeOK ==
    /\ claims \in SUBSET Locks
    /\ guard \in [Locks -> {"none", "hand", "slot"}]
    /\ pc \in [Branches -> PCs]
    /\ lock \in [Branches -> Locks]
    /\ attempt \in [Branches -> Nat]
    /\ undo \in [Branches -> Seq(Locks)]
    /\ mark \in [Branches -> Nat]
    /\ held \in [Branches -> SUBSET Locks]

\* The branch whose operation is between claiming l and parking its guard,
\* or between taking the guard and releasing the claim.
InHand(b, l) == pc[b] \in {"parking", "drop_guard"} /\ lock[b] = l
Claiming(b, l) ==
    /\ pc[b] \in {"locking", "parking", "drop_guard", "drop_claim",
                  "unlocked", "undone"}
    /\ lock[b] = l

\* Two branches never both rely on holding the same lock (op_mutex_lock's
\* contract, executor.rs: the physical lock "keeps mutual exclusion").
MutualExclusion ==
    \A b, c \in Branches : b # c => held[b] \cap held[c] = {}

\* "claimed <=> locked" (the invariant op_mutex_lock's comments appeal to):
\* a lock some branch holds is claimed, and a claim nobody holds belongs to
\* exactly one operation that is about to park or to release it.
ClaimIffHeld ==
    \A l \in Locks :
        /\ \A b \in Branches : l \in held[b] => l \in claims
        /\ l \in claims =>
             \/ \E b \in Branches : l \in held[b]
             \/ \E b \in Branches : Claiming(b, l)

\* Axiom A7, "never a blocking wait": once the claim is made, lock_owned
\* finds the tokio mutex free.
NeverBlocks ==
    \A b \in Branches : pc[b] = "locking" => guard[lock[b]] = "none"

\* MutexLock always answers: granted, WouldBlock or cancelled.
LockAnswers ==
    \A b \in Branches :
        pc[b] = "claiming" ~> pc[b] \in {"idle", "dropped"}

\* No claim is left behind by a retried, cancelled or undone operation
\* (what ArbiterClaimGuard is for): each ends held by a branch or released.
ClaimsDrain ==
    \A l \in Locks :
        l \in claims ~> (l \notin claims \/ \E b \in Branches : l \in held[b])

\* The protocol implements the abstract lock service.
Service == INSTANCE LockService WITH holding <- held
ImplementsLockService == Service!Spec

=============================================================================
