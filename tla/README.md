# Algeff: a TLA+ verification project

Algeff (`src/crates/algeff-core`, `algeff-std`) runs *blueprints*: values of
`enum Action` that describe effects.  The runtime interprets them, records the
inverse of every effect it can undo, and goes back (`Replace`, `recover`, a
`Timeout` that fires) by running those inverses.  What it promises is about
going back and about concurrency: that going back restores the world, that
linear resources end once, that idempotent segments happen once, that branches
of a `Fork` do not step on each other, that locks are exclusive and come free.
None of this is visible in a single call, so it is what this project models.

Line numbers below are those of `runtime.rs`, `resource.rs`, `action.rs`,
`coeffects.rs` (algeff-core) and
`executor.rs` (algeff-std).

## 1. Inventory

| Component | State it keeps | Operations | Hard part | Correct when | Modelled |
|---|---|---|---|---|---|
| Interpreter (`interpret_impl`, runtime.rs 1439) | call stack of `run_sub_impl`, `Context.cwd` | one arm per `Action` | errors, cancellations and drops leave through frames in any nesting | cwd follows the Scopes; every frame is left the way its arm says | `Interpreter` |
| Undo stack (runtime.rs 167-279) | `ops`, `irreversible` | `push`, `append`, `recover`, `rollback_from` | undos fail; marks taken before an await are used after it | going back restores the checkpoint or reports | `Interpreter` (one branch), `ForkTimeout` (the branches' stacks), `MutexProtocol` (one undo kind) |
| Timeout (runtime.rs 722-853) | timer, `watch` channel, `undo_mark`, linear snapshot | fire, propagate, grace, roll back | the future inside may be suspended anywhere, or dropped there, with branches it cannot drop | answers always; `on_timeout` runs in the world the action started in; what it has lost stops | `Interpreter`, `ForkTimeout` |
| Idempotency registry (runtime.rs 1836-1887) | key -> COMMITTED / REVERTED | lookup, commit, revert | the registry and the stack must agree after every way of going back; branches share the one but not the other | no effect of a key happens again while it stands; a COMMITTED key answers for its effects | `Interpreter`, `ForkTimeout` |
| Resource registry (resource.rs 219-443) | fd cursor, region, handles, linear marks | `allocate`, `clear`, `offset_next_fd`, `merge`, `check_linear`, snapshots | clones that allocate independently and are merged in any order | fds unique, handles kept, marks kept, no overflow | `ForkRegistry`; marks over time in `Interpreter` |
| Fork (runtime.rs 1017-1404, 1550-1618) | branch tasks, `r_stash`, region counter | conflict test, spawn, join, drop | either branch first; a drop with one branch stashed, finished or running | see the registry; the undo stacks lead back through both branches | `ForkRegistry` (registries), `ForkTimeout` (undo stacks, tokens), `MutexProtocol` (held locks) |
| Mutex arbitration (executor.rs 140-191, 1411-1505; resource.rs 520-595) | `claims`, tokio mutexes, parking slots | lock, unlock, undo of lock, claim guard | three shared tables updated one await at a time, dropped at any of them | exclusive; claimed iff held; never blocks; always answers | `LockService`, `MutexProtocol` |
| Executor, files (executor.rs 437-930, 1509-1818) | `files`, `append_fds`, shared by the branches of a Fork | open, read, write, seek, truncate, unlink, rename, dup, dup2, close, SendFile, and their inverses | an inverse runs long after its call, through handles and names that have changed since; a Replace in one branch must spare the other's entries | undoing newest first restores every file and cursor; only live fds work | `FileSystem`, `FileOps` |
| Executor, other handles (executor.rs 206-433, 971-1361, 1661-1818) | `stream_fds`, `children`, `pipe_readers`, `pipe_writers`, shared by the branches of a Fork; their handles in each branch's registry | bind, accept, connect, spawn, pipe; take, await, put back; shutdown, wait, kill; dup, dup2, close | a handle is in nobody's table during an await, comes back under another fd, and may be dropped in between; two registries, one table | an open name leads to its handle; a handle has one entry per name; pipes survive the other branch's Replace | `HandleRotation` |
| Coeffects (coeffects.rs; runtime.rs 341-383) | dependency table, its undos, component states | set, undo, recover, load, sync | two undos per binding, tasks that bind while the runtime recovers, events folded over many changes | recover restores the table; sync reports the difference; a component is active iff satisfied | `Coeffects` |
| Cost algebra (cost.rs), virtual clock (virtual_clock.rs) | intervals; a counter | saturating sums | saturation | monoid laws | no (planned) |
| Types (action.rs, syscall.rs, error.rs), dx.rs, adapters.rs, macros | none | constructors, conversions | - | - | no: no state |

Interactions.  The interpreter calls the executor through `exec_via`; what comes
back (`UndoCapability`) decides what goes on the undo stack.  A parallel Fork
gives each branch a clone of the registry and the context, an undo stack of its
own and a snapshot of the executor that *shares* the lock tables; `ForkJoinMerge`
brings registries and undo stacks back.  A Timeout reaches what runs inside it
through a cancel token polled at every action, and through dropping its future.
`Replace` empties the undo stack and the registry of its branch.

The hazards this gives rise to, each with its line and the properties aimed at
it, are listed under `hazards` in PROJECT.json.

## 2. Modules

    LockService  <--refines--  MutexProtocol   <-- MutexProtocol_proofs, MCMutexProtocol
                               ForkRegistry    <-- ForkRegistry_proofs,  MCForkRegistry
    Checkpoints  <--refines--  Interpreter     <-- Interpreter_proofs,    MCInterpreter
                               ForkTimeout     <-- ForkTimeout_proofs,    MCForkTimeout
                                                   ^-- ForkTimeoutOnce_proofs
    FileSystem   <--extends--  FileOps         <-- FileOps_proofs,        MCFileOps
                               HandleRotation  <-- HandleRotation_proofs, MCHandleRotation
                               Coeffects       <-- Coeffects_proofs, MCCoeffects

### LockService, MutexProtocol (executor.rs: op_mutex_lock, op_mutex_unlock)

`LockService` is the abstract promise: every lock has at most one holder; it is
granted, released, or handed to the parent branch with the undos of a join.

`MutexProtocol` has one action per stretch of code between two awaits.
`LockCall`, `TryClaim` / `RetryClaim` / `WouldBlock`, `AcquireGuard`, `Park` are
op_mutex_lock (the retry loop, `lock_owned().await`, the parking slot and the
push of the undo); `UnlockCall`, `TakeGuard`, `ReleaseClaim` are op_mutex_unlock,
and the last two are also the undo that MutexLock records.  `Recover`, `PopUndo`,
`RecoverDone` are `recover` / `rollback_from`, `Join` is `UndoStack::append`,
`DropFuture`, `DropGuard`, `DropClaim` are a timeout dropping the future and its
locals in reverse order (`ArbiterClaimGuard::drop`).  `held` is a history: what
a branch's program relies on.  Each branch of a Fork tree is an actor; a parent
is suspended while its branches run.

`Disciplined` states what programs must not do for the protocol to be correct: roll
back an undo whose lock was explicitly unlocked since.  The code does not enforce
it, see the findings.

### ForkRegistry (resource.rs: ResourceRegistry; runtime.rs: Fork)

Every branch of a tree of Forks has a registry record (`next`, `region`, `handles`,
`owned`).  `Allocate`, `Terminate` (an Own usage), `Replace`, `Finish` are what a
branch does; `Fork` clones and offsets (`OffsetFor(k) = k * Width`, `Width` standing
for 2^48); `Stash`, `JoinLeft`, `JoinRight` are the three ways `ForkJoinMerge::join`
receives outcomes; `StartRight` and `JoinSequential` are the sequential path;
`DropFork` is the drop of a Fork with all that hangs from it (`Beneath`), Forks pending in its branches
included: what runs in a task that some parallel Fork there has spawned (`Detached`) becomes an *orphan*, which
completes the syscall it is in and stops at the next action; the rest is *dead*, and so is a task that waits for a Fork of
its own, because it finds itself cancelled as soon as that is over.  `names` is what a blueprint shows statically, which is what `fork_conflict`
sees.  `issued`, `cleared`, `ended` are histories.

### Checkpoints, Interpreter (runtime.rs: interpret_impl)

`Checkpoints` is the abstract promise about going back: the segment's start and
the start of every open Timeout are checkpoints, and a rollback puts the world
back to one of them in one step, or fails and may leave any world behind.
`checkpoints` maps the levels of the open Timeouts, and 0 for the segment, to worlds.

`Interpreter` is one branch.  Continuations are opaque closures, so a program is
any sequence of actions.  `stack` holds the frames of Scope, Catch, Timeout and
Idempotent, each with the locals its arm needs when the call is over; `mode`
says whether the innermost call runs, awaits a syscall (`io`), returns an error
(`err`) or awaits undos (`replacing`, `recovering`, `rollback`).  `Call` is
`check_linear`, which leaves its mark *before* the syscall; `Succeed` / `Fail` are
its outcome, `Return` / `Unwind` leave a frame by a value or an error, `Fire`,
`Propagate`, `GraceEnds` are the arms of `wait_timeout`, `PopUndo`, `UndoOk`,
`UndoFails` one turn of the loops of `recover` and `rollback_from`.
Catch and Timeout are tail calls: when theirs is the last action of what is around them, its call returns with
them and nobody looks at the token in between (mode `value`), so a segment may commit although the Timeout
around it has fired; that Timeout then reverts it.
Histories: `done` (the effects of a key's successful runs), `undone` (those an undo has taken back), `stray` (those that are
left without an undo, because it failed or because it or their call was dropped), `sent`, `origin`, `ops`, and the worlds in
frames and undos.  Syscalls overwrite
numbered contents of abstract objects; a syscall on `NoObject` is one without
inverse (mail, UDP, kill).

Abstractions.  Sequential, Choose, Alloc, Sleep, Invoke and WatchSignal change none
of this state.  Catch handlers and on_timeout are tail calls: their frame is gone
when they start (the code's recursion depth, which they do use up, is thus a
lower bound on nesting).  Undos terminate: a rollback has no grace of its
own, so an undo that hangs hangs the Timeout, which is outside the model.  A failed
syscall has no effect.  A syscall dropped half-way may have had its effect or not
and leaves no undo (README.md lists this as a limitation).  The virtual-clock
build replaces `run_wall_timeout` and is not modelled.  No idempotent segment
runs inside one with the same key.

### ForkTimeout (runtime.rs: Timeout over Fork, CancelToken, ForkJoinMerge)

What `Interpreter` is for one branch, this is for the tasks of nested Forks and Timeouts, over one
world and one idempotency registry; it composes the undo loop of the former with the join and the
drop of `ForkRegistry`.  `status` says what became of a task (running, finished, stashed in `r_stash`,
joined, or lost: an *orphan* runs on, a *dead* one was done in vain), `br` holds its locals.  A token is a number;
`Token` is the one a frame was given, which is that of the innermost Timeout around it or,
without one, the task's clone of its parent's.  `Fire`, `Propagate`, `GraceEnds` are the arms of
`wait_timeout`; `GraceEnds` drops the inner future with the syscall, the undo or the Fork it is
suspended in, and `Kept`, `Lost`, `Fate` are `ForkJoinMerge::drop`.  `Fork` spawns two tasks whose
names `fork_conflict` has found disjoint: for each Fork any pair of `Splits` within what its parent names, so that both sides of a
nested Fork may name objects and keys (`Within`); a pair that conflicts is a sequential Fork. `Stash`, `JoinLeft`, `JoinRight`
receive the outcomes in either order, `Finish` ends a task.  `Call`, `Succeed`, `Fail`, `Enter`, `Return`, `Cancel`, `Unwind`, `PopUndo`,
`UndoOk`, `UndoFails`, `RollbackDone` are what they are in `Interpreter`.

Histories: `undone` (syscalls whose effect was taken back), `done` (the effects of a key's
successful runs), the worlds in the frames and `base`, and `stray`: the objects that a lost branch
names, that a dropped call or undo was about, or whose undo has failed.  Nobody promises to restore
those (section 5).

One assumption is about time: `Told`, the premise of `GraceEnds`.  When a grace of 500 ms is over
every task it has reached has been polled, and each Timeout in it that was told has fired and has passed the
broadcast on, because propagation takes polls, not timers (`CANCEL_JOIN_GRACE`, 514-519: "join within
milliseconds").  Without it an inner Timeout could go on as if nothing had happened while the
outer one rolls back, and ExactlyOnce is violated.

Left out: a value that returns through several calls without a look at the token (mode `value` of `Interpreter`; here
`Return` looks before each), Scope, Replace and irreversible effects (in `Interpreter`), registries and linear marks
(in `ForkRegistry`), sequential Forks (one undo stack: `Interpreter`).

### FileSystem, FileOps (executor.rs: op_open .. op_rename, op_send_file, op_dup .. op_close)

`FileSystem` is the operating system as these operations use it, and external: the value
`fs` has names, the contents of inodes, and open file descriptions (which an fd shares with
its duplicates, cursor included).  Contents are short sequences of numbers.

`FileOps` has one action per operation, together with the inverse it records: an
operation holds its description's lock throughout.  Open, Truncate and SendFile first look
(`OpenLook`, `TruncateLook`, `SendLook`: try_exists, metadata and read; the input side) and
act after an await (`OpenAct`, `TruncateAct`, `SendAct`), so the other branch comes in
between.  `OpenInverse`, `WriteInverse` (`RegionBack`, `LengthBack`, `CutBack`),
`CursorBack`, `TruncateInverse` are the closures, `Undone` what they do, `Undoable`
whether they fail.  `Settle` is what `interpret_impl` does with the capability
(1516-1528).  `Replace`, `UndoStep`, `ReplaceDone` are Replace with its gate; `Clear`
empties the branch's registry and leaves the executor's tables alone.  `Fork` clones the
registry (`live`) and shares the tables, `Join` appends the undo stacks left to right
and unites the registries.  A call that fails and changes nothing is a stuttering step.
New fds are distinct in all branches, which is `FdUnique` of `ForkRegistry`; `Inserted` is the
entry they get in `files`.

Histories: `reach` is what a branch's program has a way to (by path, or by a
description it was left or opened), `closed` the fds closed on purpose, `drift` and `gaps` what
the inverses do not cover (section 5).  A Fork's branches get disjoint halves of `reach`
unless `Sharing`: `fork_conflict` runs in sequence what it can see to conflict, and what
continuations hide from it is a divergence of section 5.

Abstractions.  Seek is from the start; unix semantics of append; no hard links, no
directories, no permissions; no I/O error after an operation has started to change
something (so an inverse fails only because a path is gone).  A Timeout drops no file
operation here: `Interpreter` has that case for operations in general.

### HandleRotation (executor.rs: streams, children, pipes, listeners and sockets)

`reg` is each branch's registry, `current` what `stream_fds` and `children` say, `pipes` the
keys of the pipe tables.  `Bind`, `Connect`, `Spawn`, `PipeOpen` open.  `Take` is every operation on a
stream and Wait, up to its await (`take_tcp_stream`, `TakeHandleGuard::new`, `Arc::get_mut`); `taken`
is what the future holds.  It ends by `CallReturns` (success or failure: `put_back`), `Reaped` (Wait
succeeds and forgets the pid), `StreamDropped` (`TakeHandleGuard::drop`) or `WaitDropped` (no
guard).  `Shutdown`, `Kill` and calls that find the handle shared rotate at once (`Rotate`), `ShutdownLoses` are the
two failures of TcpShutdown that leave no stream.  `Dup`, `Dup2`, `Close`, `Replace`; `Fork` clones the registry and shares
the tables, `Join` and `DropFork` merge what has ended, and orphans finish the call they are in.

A program's name for a stream is the fd it was given, for a child its pid: both are numbered by the
first fd.  fds come from one counter, which stands for the disjoint regions of `ForkRegistry`.
Histories: `handle`, `seen`, `closed` (also what an error or a dropped Wait has lost),
`strayed` (names a branch has rotated or ended although another registry has the handle as well, and
their copies: section 5).  What goes through a socket is not modelled; a pipe's IO and that of a listener change none of
these tables.  At most one Fork is open, and no Fork starts while there are orphans.

### Coeffects (coeffects.rs: CoeffectStore, ComponentState; runtime.rs: set_dependency, recover, sync_components)

`SetDependency` binds and puts one undo on the runtime's stack and hands the caller another
(`UndoHanded`); `StoreSet` and `UndoPrivately` are tasks with a clone of the store.  `StartRecover`,
`RecoverNext`, `RecoverDone` are `recover`, one lock of the table per undo, with tasks in between.  `Load` and
`SyncComponents` are what `&mut Runtime` allows otherwise.  `base` is a history: the table as the tasks' own
calls would have made it if the runtime had bound nothing.  A task's undo therefore takes `base` to what `base`
was when the undo was captured (`was`), whatever value it puts into the table.  `crossed` is a history,
too: the keys that a task has written while the segment had them on the stack, or has put back to what it
had captured of such a key (`over`), until the task sets them anew.  What happens to
those is the code's (section 5); RecoverRestores and TornDown are about all others.  `synced` is the
snapshot each component saw last.

## 3. Runs

Fds are small numbers, locks, objects, keys and directories are model values.  The type invariants of
`MutexProtocol`, `HandleRotation`, `Coeffects` and `ForkTimeout` are proved (section 4) and not run.

| Run | Question | Bounds |
|---|---|---|
| `mutex` | Is the protocol a lock service, does a claim mean a held lock, does `lock_owned` never wait, does every lock answer and every claim drain? (MutualExclusion, ClaimIffHeld, NeverBlocks, ImplementsLockService, LockAnswers, ClaimsDrain) | a branch, its parent, a concurrent branch; 2 locks; 2 attempts; 2 undos a branch |
| `mutex_stale_undo` | *violated*: ClaimIffHeld without the discipline | 2 branches, 1 lock |
| `fork_registry` | Are fds unique, handles kept, cursors in the u64? (TypeOK, FdUnique, NoHandleLost, NoOverflow) | 3 Forks with Replace; `MaxRegions` 3, so the regions run out |
| `fork_join` | Are cursors compact and Own marks merged on both paths as long as all Forks are joined, and are handles never overwritten, whatever is dropped? (Compact, EndedIsRefused, HandlesIntact) | 2 Forks, 1 resource, 3 fds, drops |
| `fork_dropped_fd` | *violated*: FdUnique when a Fork is dropped | 1 Fork |
| `interpreter` | Is the gate of Replace sound, does a Timeout restore its world and undo all of its action, does the cwd follow the Scopes, is going back step by step going back? (TypeOK, GateSound, TimeoutRestores, TimeoutUndoesInner, ScopeCwd, ImplementsCheckpoints) | 2 objects, 1 key, 2 directories, depth 2, 3 effects, undos of Replace and recover fail |
| `interpreter_drops` | Do segments happen once, do registry, marks and stack agree after drops, and do Timeouts answer? (ExactlyOnce, CommittedRevertible, OwnHolds, TimeoutAnswers) | depth 3, 2 effects, all undos may fail |
| `fork_timeout` | Does a Timeout restore what its branches name, does a COMMITTED key keep its effects, do segments happen once in all branches, does every Timeout answer and every orphan stop? (TimeoutRestores, CommittedStands, ExactlyOnce, TimeoutAnswers, OrphansStop) | 1 Fork, its sides naming {x} and {y, k} or conflicting; 2 Timeouts, 2 effects, depth 2, calls and undos hang or fail |
| `files` | Does going back restore every file and cursor, without a failure? (TypeOK, UndoSucceeds, UndoExact) | 1 branch, all operations, 3 calls, 2 paths, files of 0 to 4 numbers and more, FULL_UNDO_MAX_BYTES 4 |
| `files_fork` | Does a Replace in one branch spare the other's fds; are inverses exact across a Fork and its join? (LiveFdUsable, UndoExact) | 2 branches, open, write, rename, close, Replace, 3 calls |
| `rotation` | Does every open name lead to its handle, has every handle one entry per name, do pipes stay usable? (HandleReachable, EntriesMatchNames, PipesUsable) | 3 fds of all four kinds, 2 branches, IO and Waits dropped, Forks joined or dropped |
| `coeffects` | Does recover restore the table, does sync report what has changed, are the right components active afterwards? (RecoverRestores, TornDown, SyncIsNotify) | 2 keys, 2 values, 4 bindings, components that need one key and both |

Why the bounds are enough.  The lock protocol treats ids independently and its hazards
are races of two branches over one lock with a third party (the parent, by a join);
two locks make undo order and `Disciplined` matter.  A region collision needs two
Forks, an overflow needs one more round than there are regions, hence three
Forks with `MaxRegions` 3; and the theorems hold for every number of both.
`Interpreter`'s hazards relate a frame to the one around it and to what was on the
stack before both: depth 2 with effects outside, in the outer and in the inner
frame; three levels where a Timeout sits in a Timeout with a Catch between.
In `ForkTimeout` the hazards need a Fork below a Timeout (the branches' stacks), below two (propagation into a
branch) or with a Timeout in a branch (orphans that roll back), and two effects: one in each
branch, before and inside the Fork, or on the same object; the theorems hold for every number of each.  Two
Forks take longer than a run should, so Forks inside Forks rest on the theorems, and that an orphan with a Fork of its own
stops (OrphansStop) is neither run nor proved.
For files, a hazard is one call between a call and its inverse and one more to make the handle, the
name or the length unusual: three calls, with a file written at its start, across its end
and past it (offsets 0, 1 and 3, length 2), and below, at and above the limit of what is restored.
In `HandleRotation` a put back needs a second fd, and a copy or a second branch a third; four
fds were checked with fewer kinds or without drops, and the theorems hold for every number.
Four bindings put a key on the stack twice around a task's binding; two keys tell a component that
needs both from one that needs one.
`Keys`, `Locks`, `Paths`, a Fork's sides and a binding's values are symmetric where a run has no liveness property.

Deadlock is checked for `Interpreter` and `FileOps`, `HandleRotation` (where a program can always Replace)
and `Coeffects` (where it can always sync).  In `MutexProtocol` all branches may be joined
or gone, in `ForkRegistry` and `ForkTimeout` the program may be over or hang in a syscall, so those runs do not check it.

Fairness.  `MutexProtocol`: weak fairness of each branch's own steps, which are polls of
woken tasks, bounded sleeps and critical sections without await; `lock_owned`
needs no more, because NeverBlocks shows that the mutex it waits for is
free.  Programs, joins and timeouts are not fair.  `Interpreter`: weak fairness of what the
runtime does by itself, and strong fairness of `Propagate`, because
`wait_timeout` polls its arms whenever the branch suspends, again and again,
without staying suspended.  A syscall may hang forever, a program may loop forever (as
long as it suspends: a loop that never awaits cannot be cancelled, and is outside
the model).  `ForkTimeout`: weak fairness of what each task does by itself, `Propagate` included; that is
enough because its programs are bounded (`MaxOps`, `MaxTimers`), so a task
stays suspended or ends.

## 4. Proofs

All for every value of the constants that satisfies the modules' assumptions.

`MutexProtocol_proofs`: `TypeCorrect`, `MutualExclusionHolds`, `ClaimIffHeldHolds`,
`NeverBlocksHolds`, and `Refinement` (Spec implements LockService!Spec), the last
four under `Disciplined`.  None of the properties is inductive: a claim is known to be
sound only if every operation knows whose the claim is.  The inductive invariant
says that each claim has one owner, a holder or one operation in its claim window, which
exclude each other (`ClaimInv`); that the guard is parked exactly while a branch
holds the lock, and in hand exactly while an operation is about to park or drop it
(`GuardInv`); that a release is about a lock its branch still holds (`TakeInv`); and that the
undos above the mark of a branch that rolls back are for locks it holds, each once
(`RollbackInv`).
`Disciplined` is used in exactly one place, where `Recover` establishes the latter.

`ForkRegistry_proofs`: `TypeCorrect`, `NoOverflowHolds` and `HandlesIntactHolds`, unconditionally;
`FdUniqueHolds` and `NoHandleLostHolds` under `~Drops` (and, with drops, up to the first one:
`FdUniqueUntilDropped`, `NoHandleLostUntilDropped`); `CompactHolds` and `EndedIsRefusedHolds` under `~Replaces`.
The idea is that every registry that may still allocate (a *holder*) points at the stretch of fds its cursor
can reach with the allocations that are left: `ApartInv` says that these stretches are disjoint, `HandleInv` that
no branch has a handle in another's, `FreshInv` that, as long as no Fork was dropped, nothing in them was issued.
A Fork passes the parent's stretch to the left branch and opens a new one above all others for the right one, which
needs `BoundInv` (where cursors and bases can be); a merge makes the parent take over one of its branches'
stretches, which needs `BranchInv` (how a branch's region relates to its parent's).
The one exception is what makes drops hard: the cursor of a suspended parent still points into the stretch
that its left branch, and what is below that, allocates from (`Stale`, `Within`).  If the Fork is dropped, the
parent falls back on it, so a fd can be issued twice; but then the left branch is out of the tree, and no two
registries that still meet hold it (`SiblingInv`, `SplitInv`, `JoinedInv`, `OrphanInv`), which is why HandlesIntact
and NoOverflow survive.  `Below` is reachability along pending Forks, stated through closed sets; `CutOff` says that what hangs from a Fork
hangs from nothing else, so that all of it can leave the tree at once, at a join the two branches
(`PairIsCut`), at a drop whatever is below them (`SubtreeIsCut`).
`CompactInv` says that every cursor and base is just past an issued fd, up to the offset; `MarkInv` that what was
ended is in the `owned` of a live registry, and that every branch has a pending parent with a lower number, so
that in the end only the root is left.  `~Drops` is necessary for FdUnique, see the findings.

`HandleRotation_proofs`: `TypesKept`, `RotationIsHidden` (HandleReachable), `PipesStayUsable` and
`AccessComesBack` (EntriesMatchNames), all unconditionally.  The
invariant adds that no number at or above `next` is in use (`Fresh`, and `Room(0)`: there is a fd for every
pending put back), that a branch's names were given for a handle (`Named`), that every
entry of a registry or of `current` belongs to the handle its name was given for
(`Faithful`), that what a future holds is in nobody's registry entry but those that stray (`InHand`), and which branches can
have a call under way in each phase of the Fork (`Running`).  For EntriesMatchNames a handle is *clean* if no branch has
strayed with it: every registry entry of a clean handle is then that of an open name (`Owned`), a handle
in hand is held under an open name of the branch that holds it (`HandOwned`), and a closed name that is still in the tables leads
to a handle that is gone from every registry (`Gone`).  When no branch is left, `current` is therefore a
bijection from the open names to the entries (`OneToOne`), which gives the equal counts.

`Interpreter_proofs`: `TypesKept` and `CommittedRevertibleHolds`, unconditionally; `ScopeCwdHolds`
under `~Drops`; `OwnHoldsKept` and `TimeoutUndoesInnerHolds` if no Replace runs inside a Timeout;
`GateSoundHolds` if no grace runs out and no rollback of a Timeout fails; `TimeoutRestoresHolds` if,
moreover, no Replace runs inside a Timeout; `ExactlyOnceHolds` if every syscall can be undone and no Replace
runs inside a segment or a Timeout, drops and failed undos included (whose effects it leaves out, as `stray`); `ImplementsCheckpointsHolds` (Spec implements
Checkpoints!Spec) under the conditions of TimeoutRestores.  TLC refutes each of them without
its conditions (section 5).
What a frame remembers of the undo stack is its height.  `MarkInv` says that what lies below that height is what
lay there when the frame was opened (`Below`), and that a syscall in flight has the only mark of its kind
(`OwnInflight`).  `ChainInv` says that each undo leads to the world the one below it was recorded
in, up to the world once the undo awaited is done (`Now`); only an undo that fails under Replace or recover breaks the
chain, and it is mended when the next segment starts.  `KeyInv` says that a key has
at most one open segment or one undo that reverts it.  `OnceInv` adds that this undo and those of the key's
effects lie on the same side of the mark of every open Timeout (`Together`), so none is rolled back without the other.
`CoverInv` ties undos to effects: every effect so far has its undo on the stack or in hand, or was taken back, or is
stray, and the undo in hand is not that of what an earlier run of an open segment did.  A key whose segment opens has no Revert on the
stack, hence no undo of its earlier effects, hence ExactlyOnce.
The refinement adds no invariant: while undos run the abstract world is already the one they lead to (`Goal`), so
their steps stutter; that the concrete world has arrived there when they are done is `ChainInv`, and
that no Timeout is open while Replace or recover undoes, so that theirs is the last checkpoint, is `MarkInv`.

`ForkTimeout_proofs`: `TypesKept` and `TimeoutRestoresHolds`, unconditionally, for any tree of Forks and
Timeouts.  `StructInv` says that the tasks are a tree and what each has by its status.
`OwnerInv` is the ownership argument: of the tasks that name an object that is not stray exactly one may
change it, the last on a path of Forks from the root (`Holds`), because siblings share no name and a
lost branch makes all its names stray.  `LeadsInv` then says that along this path the stacks are
one stack: the oldest undo of the object above a Timeout's mark has recorded what the Timeout found,
and if there is none in this task's stack, the branch that follows on the path was started in that world (`base`) and its stack
leads there.  A join appends the branch's stack where the path has ended, a drop cuts
the path where its rest is stray.

`ForkTimeoutOnce_proofs`: `CommittedStandsHolds`, unconditionally.  `OpsInv` says that the undo of a syscall is in one
place only, one stack or one task's hands, and that it is gone once the effect was taken back.  `CommitInv` says that for a
COMMITTED key one of its successful runs stands: none of its effects is being undone, and in
whatever stack one of their undos is, the Revert of the key lies above it (`Guarded`).  Joins append whole stacks, so both
stay together; a rollback pops the Revert first; a drop loses both.
`ExactlyOnceHolds`, unconditionally, needs five more invariants.  `KinInv`: a branch is given its parent's innermost token and
none of the keys that are open around the Fork.  `HaltedInv`: who is not in the `Tree` of tasks that the
root still awaits, directly or not, has been told to stop at every depth, so it opens no
frame and commits nothing.  `RevertInv`: a key has at most one Revert on all stacks, and none unless it is COMMITTED.
`BackInv`: an effect of a run is taken back, or on a stray object, or some task of the tree that names the key
is about to take it back, or has its undo below the Revert of the key with no Timeout's
mark between the two, or inside the Timeout it rolls back now.  `OpenInv`: of a key that is open in a task of the tree
every earlier effect is taken back or stray.  When a segment opens, its key is not COMMITTED, so there is
no Revert left, and a task that rolls back cannot be the one that opens, nor above or below it; when one commits, its
own Revert goes on top of its undos.  A join shifts the undos with their Reverts, and marks stay below them;
a drop makes stray what the lost branches name, among it the objects of all undos they had.

`FileOps_proofs`: `TypeCorrect` and `LiveFdUsableHolds`, unconditionally; `UndoExactHolds` and
`UndoSucceedsHolds` unless `Forks /\ Sharing` (a condition without which TLC refutes UndoExact, section 5).  `Base`
bounds tables, descriptions and inodes and says that a branch's calls and inverses are about what it
reaches; `AppendInv` that `append_fds` agrees with the descriptions.  Going back rests on three facts.
Each inverse takes its call back (`TakesBack`): applied to any system that looks like the one after
the call through what the branch reaches (`Like`: names, contents and descriptions, but not cursors), it
succeeds and yields one that looks like the one before; this is where the lengths and regions that are overwritten and
restored are reasoned about (`RegionRestores`).  A stack is then a chain of sets of systems that look alike (`Chain`,
`Sound`), and what other branches do never shows, because their files are disjoint.  Cursors are followed apart, from entry to
entry (`Steady`, `Tracks`), except for those that drift.  At a join the
chains of parent, left and right branch are laid end to end (`ChainJoins`), each widened by what the others reach, which its
inverses are not about.  `UndoInv` (theorem `UndoLeadsBack`) says that such chains exist for the root or for
both branches, as long as `gaps` is empty.

`Coeffects_proofs`: `TypesKept`, `RecoverRestoresHolds`, `SyncIsNotifyHolds`, `TornDownHolds`.
RecoverRestores is not inductive: what makes it true is that the *oldest* undo of each key on the stack
has captured what the tasks alone would have bound it to (`OldestKnows`, for keys that are not
`crossed`), and that a task's undo captured beside the segment holds its own binding (`OwnKnown`).  `Told` says that the folded state of a
component is whether the snapshot it saw last satisfied it.

Assumptions on constants are those the modules name; `BoundAssumption` of FileOps has the paths finite, as those of any
program are.

Only model-checked: liveness (LockAnswers, ClaimsDrain, TimeoutAnswers, OrphansStop), which is out of the prover's
reach.

## 5. Findings

Each is a counterexample TLC produces (a run that ends in a violation), quoted in
PROJECT.json with the text it contradicts.

1. A MutexLock's undo outlives MutexUnlock and later releases another branch's lock (`mutex_stale_undo`).
2. A dropped Fork makes the parent give its left branch's fds out again (`fork_dropped_fd`).

Known divergences the passing runs' constants exclude.  Each appears when the constant
named is changed and the property named is the only one checked (with `Drops`, a
syscall dropped half-way also leaves its effect, hence TimeoutRestores fails: the
documented limitation; with `Replaces`, EndedIsRefused fails because Replace is meant to free
what was ended):

- `"rollback"` in `FailIn` and `ReplaceIn = {"catch"}` in `MCInterpreter.cfg` violate GateSound (the former TimeoutRestores, too):
  `rollback_from` pops an undo whether or not it succeeds and keeps no trace of the failure, so after
  a Catch has handled the error of a failed rollback, Replace finds nothing to undo and runs its target in
  a world that was not restored, although runtime.rs 1657-1659 says it does not.
- `Drops = TRUE` in `MCInterpreter.cfg` violates ScopeCwd: `ctx.cwd = old` (1636) runs after an
  await, and a dropped Scope leaves its directory to on_timeout.
- `"timeout"` in `ReplaceIn` violates TimeoutUndoesInner, TimeoutRestores, OwnHolds and ExactlyOnce: a
  Replace inside a Timeout empties the stack below `undo_mark`, and what its target pushes then is not
  rolled back, while the marks of its Owns are taken back.
- `"idem"` in `ReplaceIn` of `MCInterpreterDrops.cfg` violates ExactlyOnce: if a Replace inside
  a segment also undoes what was there before, the length test at 1868 takes the target's
  effects for undone.
- `Replaces = TRUE` in `MCForkJoin.cfg` violates Compact: `clear` forgets the offset (resource.rs
  295), so `merge` takes an unused region for a used one.
- In a sequential Fork an Own can pass in both branches: both registries are cloned before the left
  branch runs (1570), so the right one does not see its marks, although resource.rs
  379-380 says that Own ends a resource once.  EndedIsRefused holds because it is about what
  follows the Fork.
- `Sends = TRUE` in `MCInterpreterDrops.cfg` violates ExactlyOnce: a key is committed only if the undo
  stack has grown (1868), so a segment of effects without undo (mail, UDP) is repeated by a
  retry, although the README (336-338) promises the opposite for just these.
- Rename onto a file that exists destroys it, but is recorded as invertible (executor.rs 922-930):
  the reverse Rename does not bring it back.  Without `gaps = {}` in UndoExact TLC finds it in
  two calls.  The same gap covers an `exclusive` Open without `create`: it creates
  the file and is recorded as Identity.
- Cursors that an append or the input side of SendFile has moved are not restored (`drift`), although
  executor.rs 672-675 counts the cursor as observable.
- `rollback_from` and `recover` pop the undo that reverts a key first, and the undos of its effects whether or not they
  succeed (254-279); a dropped call or undo leaves its effect, too.  So a key is free again while an effect of it
  stands, and a retry repeats it.  Without `\cup stray` in ExactlyOnce TLC finds this in nine steps with a dropped call,
  in eleven with an undo that fails.
- A branch that is lost when a grace is over takes its undo stack with it: its effects so far, and those
  it still makes, stand while on_timeout runs (runtime.rs 1256-1261 registers the detached
  task, not its undos).  `stray` holds what such a branch names; with `Lost(n)` empty
  TimeoutRestores is violated.
- An orphan whose own Timeout rolls back reverts a key that it had COMMITTED and that other tasks
  were answered from in the meantime, as the idempotency registry is behind an `Arc` (1841).
  CommittedStands holds, as the effects go with the key; ExactlyOnce leaves out orphans and every task that was
  told to stop, which may still be inside a segment that such a rollback has freed.
- A Replace that the gate refuses in a branch resets `irreversible` (1667), so after the join the
  parent's Replace passes although, say, an Unlink stands.
- `Sharing = TRUE` in `MCFileFork.cfg` violates UndoExact: `UndoStack::append` puts the left
  branch's undos below the right one's whatever the order of their effects, which restores the wrong
  contents if continuations hide a conflict from `fork_conflict`.
- A Wait that a timeout drops loses its child: `op_wait` awaits `child.wait()` (1276) without a guard, so the
  Child goes with the future while its pid stays mapped to a fd nobody has, and Wait and
  Kill are NotFound from then on.  spec/resource-notes.md 629-637 lists Child in the family R7-A (taken,
  dropped at the await, never put back) and calls it fixed, as README.md 581 does; the guard
  (223) is for streams only.  (`WaitDropped` adds the name to `closed`.)
- A stream that a Fork's branch has inherited is shared by three registries, so every call on it in the
  branch is refused (`Arc::get_mut`), but not before it has been given another fd: the other
  branch and the parent find the old one in `stream_fds` no more (NotFound), and after
  the join two entries share the stream, so that no call on it succeeds again.  Close in a branch
  leaves the parent's entry, too (merge inserts and never removes, resource.rs 355), and a Dup of a
  stream that the other branch has closed gives a fd that cannot be used.  `strayed` are exactly these names.
  tests/adversarial_r7.rs 28 registers part of this.
- A Close in one branch of a Fork deletes the entry of the shared table of files or pipes, so the other branch's fd,
  still live in its registry, is NotFound from then on.  LiveFdUsable, HandleReachable and PipesUsable leave out such
  names (`closed`).
- Coeffects: if the undo that the caller was handed runs after recover has consumed its copy, it
  takes back whatever was bound since; set_dependency (373) asks for the discipline that `UndoHanded` has
  as its guard.  And a task and the runtime that bind the same key are not kept apart, although
  coeffects.rs 47-48 says that set and its undo are reversible: if a task binds a key over the runtime's
  binding, recover loses the task's binding, and if the task runs its undo afterwards, the runtime's own binding is
  back although its segment has been recovered; if it runs the undo of an older binding before
  recover, recover brings that binding back.  Without `\ crossed` in RecoverRestores TLC finds each of them
  in five steps or fewer.  A component without dependencies is Activating on its first sync.
- Leaving a Scope undoes nothing, although the README (381, 545) and the FAQ say so;
  `Return` models what the code does.

## 6. Plan

Done: `MutexProtocol`, `ForkRegistry`, `Interpreter`, `FileOps`, `HandleRotation`, `Coeffects`, `ForkTimeout`, in
that order because locks and fds are what concurrent branches share, the undo stack is what every promise
rests on, the inverses of operations, bindings included, are what it is made of, and the last module puts
branches and Timeouts together.

What is left, in this order:

1. `Arbiter`: read and write claims over sets of resources, against a readers-writers specification.
2. The cost algebra and the virtual-clock Timeout.
