---------------------------- MODULE ForkRegistry ----------------------------
(***************************************************************************)
(* ResourceRegistry (resource.rs) along a tree of Forks (runtime.rs).      *)
(*                                                                         *)
(* A Fork clones the registry for its two branches, moves the right        *)
(* branch's fd cursor into a region of its own, and merges both registries *)
(* back: as each branch completes when they run in parallel                *)
(* (ForkJoinMerge), after both when they run one after the other.  A       *)
(* timeout may drop a parallel Fork whose branches have not all finished.  *)
(*                                                                         *)
(* The k-th Fork of the process has the branches LeftOf(k) and RightOf(k); *)
(* fds are numbers, as in the code, with Width for 2^48.                   *)
(***************************************************************************)
EXTENDS Naturals

CONSTANTS
    MaxForks,       \* bound on FORK_FD_REGION_SEQ
    Width,          \* 2^48, the width of a region
    MaxRegions,     \* 2^16, the regions that fit in a u64
    AllocLimit,     \* bound on the fds ever allocated
    Resources,      \* what Own usages may name
    Parallel,       \* TRUE: the Shared channel (Runtime::run)
    Replaces,       \* TRUE: programs use Action::Replace
    Drops           \* TRUE: timeouts drop Forks

ASSUME WidthAssumption ==
    /\ Width \in Nat
    /\ AllocLimit \in Nat
    /\ AllocLimit < Width       \* "allocations << 2^48"
ASSUME BoundAssumption ==
    /\ MaxForks \in Nat
    /\ MaxRegions \in Nat \ {0}
    /\ Parallel \in BOOLEAN
    /\ Replaces \in BOOLEAN
    /\ Drops \in BOOLEAN

VARIABLES
    seq,        \* FORK_FD_REGION_SEQ
    status,     \* what each branch of the tree is doing
    fork,       \* fork[n]: the Fork n is suspended at, 0 if none
    reg,        \* each branch's ResourceRegistry
    names,      \* the resources the branch's blueprint names statically
    issued,     \* history: every fd allocate ever returned
    cleared,    \* history: the fds whose handles a Replace released
    allocs,     \* history: how many fds were allocated
    ended       \* history: the resources some branch terminated (Own)

vars == <<seq, status, fork, reg, names, issued, cleared, allocs, ended>>
history == <<issued, cleared, allocs, ended>>

Root == <<0, "root">>
LeftOf(k) == <<k, "left">>
RightOf(k) == <<k, "right">>
Nodes == {Root} \cup (1 .. MaxForks) \X {"left", "right"}

Statuses == {"unborn", "waiting", "running", "forked", "finished",
             "stashed", "joined", "orphan", "dead"}

-----------------------------------------------------------------------------
(* ResourceRegistry *)

\* fork_region: Option<(base, offset)>
Region == [some : BOOLEAN, base : Nat, off : Nat]
NoRegion == [some |-> FALSE, base |-> 0, off |-> 0]
At(base, off) == [some |-> TRUE, base |-> base, off |-> off]

Registry ==
    [next : Nat, region : Region, handles : SUBSET Nat, owned : SUBSET Resources]

EmptyRegistry ==
    [next |-> 0, region |-> NoRegion, handles |-> {}, owned |-> {}]

\* The base later offsets are anchored at.
Base(r) == IF r.region.some THEN r.region.base ELSE r.next

Allocated(r) ==
    [r EXCEPT !.next = @ + 1, !.handles = @ \cup {r.next}]

\* clear: the cursor stays, the base stays, the offset is forgotten.
Cleared(r) ==
    [r EXCEPT !.handles = {}, !.owned = {}, !.region = At(Base(r), 0)]

\* Mutant: the region is noted but the cursor stays where it was.
OffsetInPlace(r, off) == [r EXCEPT !.region = At(Base(r), off)]

\* offset_next_fd
Offset(r, off) ==
    [r EXCEPT !.region = At(Base(r), off), !.next = Base(r) + off]

\* Mutant: an unused region counts as used.
RawCursor(r) == r.next

\* The cursor merge takes over: back at the base if the region was unused.
Cursor(r) ==
    IF r.region.some /\ r.next = r.region.base + r.region.off
    THEN r.region.base
    ELSE r.next

\* Mutants of merge: it does not absorb the base (RFC-06), loses the linear
\* marks (F2), or absorbs the last fd below the base for the base.
MergeNoAnchor(self, other) ==
    [self EXCEPT
        !.next = IF Cursor(other) > @ THEN Cursor(other) ELSE @,
        !.handles = @ \cup other.handles,
        !.owned = @ \cup other.owned]

MergeNoMarks(self, other) ==
    [MergeNoAnchor(self, other) EXCEPT
        !.owned = self.owned,
        !.region = IF ~@.some /\ other.region.some
                   THEN At(other.region.base, 0) ELSE @]

MergeBaseBelow(self, other) ==
    [MergeNoAnchor(self, other) EXCEPT
        !.region = IF ~@.some /\ other.region.some
                   THEN At(other.region.base - 1, 0) ELSE @]

\* merge; a parent without a base absorbs the branch's.
Merge(self, other) ==
    [next |-> IF Cursor(other) > self.next THEN Cursor(other) ELSE self.next,
     region |-> IF ~self.region.some /\ other.region.some
                THEN At(other.region.base, 0)
                ELSE self.region,
     handles |-> self.handles \cup other.handles,
     owned |-> self.owned \cup other.owned]

\* Mutant: every Fork uses the same offset (S6/A2).
SameOffset(k) == Width

\* fork_region_offset_for
OffsetFor(k) == k * Width

-----------------------------------------------------------------------------
(* One branch *)

Init ==
    /\ seq = 1
    /\ status = [n \in Nodes |-> IF n = Root THEN "running" ELSE "unborn"]
    /\ fork = [n \in Nodes |-> 0]
    /\ reg = [n \in Nodes |-> EmptyRegistry]
    /\ names = [n \in Nodes |-> IF n = Root THEN Resources ELSE {}]
    /\ issued = {}
    /\ cleared = {}
    /\ allocs = 0
    /\ ended = {}

\* A syscall that opens something.  An orphan completes the one it was
\* suspended in and stops at the next action: its domain is cancelled.
Allocate(n) ==
    /\ status[n] \in {"running", "orphan"}
    /\ allocs < AllocLimit
    /\ reg' = [reg EXCEPT ![n] = Allocated(@)]
    /\ issued' = issued \cup {reg[n].next}
    /\ allocs' = allocs + 1
    /\ status' = [status EXCEPT ![n] = IF @ = "orphan" THEN "dead" ELSE @]
    /\ UNCHANGED <<seq, fork, names, cleared, ended>>

\* A syscall with an Own usage of x that check_linear lets pass.
Terminate(n, x) ==
    /\ status[n] = "running"
    /\ x \in names[n]
    /\ x \notin reg[n].owned
    /\ reg' = [reg EXCEPT ![n].owned = @ \cup {x}]
    /\ ended' = ended \cup {x}
    /\ UNCHANGED <<seq, status, fork, names, issued, cleared, allocs>>

\* Action::Replace, once the undo stack is recovered.
Replace(n) ==
    /\ Replaces
    /\ status[n] = "running"
    /\ reg' = [reg EXCEPT ![n] = Cleared(@)]
    /\ cleared' = cleared \cup reg[n].handles
    /\ UNCHANGED <<seq, status, fork, names, issued, allocs, ended>>

\* The branch's interpret_impl returns, with a value or an error.
Finish(n) ==
    /\ n # Root
    /\ status[n] = "running"
    /\ status' = [status EXCEPT ![n] = "finished"]
    /\ UNCHANGED <<seq, fork, reg, names, history>>

-----------------------------------------------------------------------------
(* Fork *)

\* fork_conflict: the resources both blueprints name must not collide.  What
\* a blueprint names is what its syntax tree shows; continuations are opaque.
\* An idempotency key in both collides like a resource.
CanParallel(ln, rn) == Parallel /\ ln \cap rn = {}

\* In sequence the right branch starts when the left one is done; both
\* registries are cloned before either starts.
Fork(n, ln, rn) ==
    /\ status[n] = "running"
    /\ seq < MaxRegions
    /\ seq <= MaxForks
    /\ seq' = seq + 1
    /\ fork' = [fork EXCEPT ![n] = seq]
    /\ status' = [status EXCEPT
                    ![n] = "forked",
                    ![LeftOf(seq)] = "running",
                    ![RightOf(seq)] =
                        IF CanParallel(ln, rn) THEN "running" ELSE "waiting"]
    /\ names' = [names EXCEPT ![LeftOf(seq)] = ln, ![RightOf(seq)] = rn]
    /\ reg' = [reg EXCEPT ![LeftOf(seq)] = reg[n],
                          ![RightOf(seq)] = Offset(reg[n], OffsetFor(seq))]
    /\ UNCHANGED history

\* No region is left: Err(Other(28)), and the number is used up all the same.
ForkExhausted(n) ==
    /\ status[n] = "running"
    /\ seq >= MaxRegions
    /\ seq <= MaxForks
    /\ seq' = seq + 1
    /\ UNCHANGED <<status, fork, reg, names, history>>

Sequential(k) == ~CanParallel(names[LeftOf(k)], names[RightOf(k)])

StartRight(n) ==
    LET k == fork[n] IN
    /\ status[n] = "forked"
    /\ status[LeftOf(k)] = "finished"
    /\ status[RightOf(k)] = "waiting"
    /\ status' = [status EXCEPT ![RightOf(k)] = "running"]
    /\ UNCHANGED <<seq, fork, reg, names, history>>

\* The sequential path merges left, then right, when both are done.
JoinSequential(n) ==
    LET k == fork[n] IN
    /\ status[n] = "forked"
    /\ Sequential(k)
    /\ status[LeftOf(k)] = "finished"
    /\ status[RightOf(k)] = "finished"
    /\ reg' = [reg EXCEPT ![n] = Merge(Merge(@, reg[LeftOf(k)]), reg[RightOf(k)])]
    /\ status' = [status EXCEPT ![n] = "running",
                    ![LeftOf(k)] = "joined", ![RightOf(k)] = "joined"]
    /\ fork' = [fork EXCEPT ![n] = 0]
    /\ UNCHANGED <<seq, names, history>>

-----------------------------------------------------------------------------
(* ForkJoinMerge *)

\* Mutant: the outcome of a right branch that is done first is dropped.
Unstashed(n) ==
    LET k == fork[n] IN
    /\ status[n] = "forked"
    /\ ~Sequential(k)
    /\ status[LeftOf(k)] # "joined"
    /\ status[RightOf(k)] = "finished"
    /\ status' = [status EXCEPT ![RightOf(k)] = "joined"]
    /\ UNCHANGED <<seq, fork, reg, names, history>>

\* The right branch is done first: its outcome waits in r_stash.
Stash(n) ==
    LET k == fork[n] IN
    /\ status[n] = "forked"
    /\ ~Sequential(k)
    /\ status[LeftOf(k)] # "joined"
    /\ status[RightOf(k)] = "finished"
    /\ status' = [status EXCEPT ![RightOf(k)] = "stashed"]
    /\ UNCHANGED <<seq, fork, reg, names, history>>

\* merge_left, and merge_right of what r_stash holds.
JoinLeft(n) ==
    LET k == fork[n]
        stashed == status[RightOf(k)] = "stashed"
        merged == Merge(reg[n], reg[LeftOf(k)])
    IN
    /\ status[n] = "forked"
    /\ ~Sequential(k)
    /\ status[LeftOf(k)] = "finished"
    /\ reg' = [reg EXCEPT ![n] =
                IF stashed THEN Merge(merged, reg[RightOf(k)]) ELSE merged]
    /\ status' = [status EXCEPT
                    ![n] = IF stashed THEN "running" ELSE "forked",
                    ![LeftOf(k)] = "joined",
                    ![RightOf(k)] = IF stashed THEN "joined" ELSE @]
    /\ fork' = [fork EXCEPT ![n] = IF stashed THEN 0 ELSE k]
    /\ UNCHANGED <<seq, names, history>>

JoinRight(n) ==
    LET k == fork[n] IN
    /\ status[n] = "forked"
    /\ ~Sequential(k)
    /\ status[LeftOf(k)] = "joined"
    /\ status[RightOf(k)] = "finished"
    /\ reg' = [reg EXCEPT ![n] = Merge(@, reg[RightOf(k)])]
    /\ status' = [status EXCEPT ![n] = "running", ![RightOf(k)] = "joined"]
    /\ fork' = [fork EXCEPT ![n] = 0]
    /\ UNCHANGED <<seq, names, history>>

\* q is p, or a branch of a Fork pending at p or below it.
Closed(S) ==
    \A m \in S :
        status[m] = "forked" => LeftOf(fork[m]) \in S /\ RightOf(fork[m]) \in S
Below(p, q) == \A S \in SUBSET Nodes : p \in S /\ Closed(S) => q \in S

\* What hangs from n's Fork.
Beneath(n) ==
    {q \in Nodes : Below(LeftOf(fork[n]), q) \/ Below(RightOf(fork[n]), q)}

\* What of it belongs to a task spawned by one of the Forks there: only a
\* parallel Fork spawns, the branches of a sequential one are its future's.
Detached(n) ==
    UNION {Beneath(p) : p \in {q \in {n} \cup Beneath(n) :
                                  status[q] = "forked" /\ ~Sequential(fork[q])}}

\* A timeout's grace is over and the Fork's future is dropped.  Drop merges
\* the stash.  What is in a task of its own and was not joined runs on
\* detached, its registry out of reach; the rest goes with the future.
DropFork(n) ==
    LET right == RightOf(fork[n]) IN
    /\ Drops
    /\ status[n] = "forked"
    /\ reg' = [reg EXCEPT ![n] =
                IF status[right] = "stashed" THEN Merge(@, reg[right]) ELSE @]
    /\ status' = [q \in Nodes |->
                    CASE q = n -> "running"
                      [] q \in Beneath(n) \ {n} ->
                            IF status[q] = "running" /\ q \in Detached(n)
                            THEN "orphan" ELSE "dead"
                      [] OTHER -> status[q]]
    /\ fork' = [fork EXCEPT ![n] = 0]
    /\ UNCHANGED <<seq, names, history>>

-----------------------------------------------------------------------------

Next ==
    \E n \in Nodes :
        \/ Allocate(n) \/ Replace(n) \/ Finish(n)
        \/ \E x \in Resources : Terminate(n, x)
        \/ \E ln \in SUBSET names[n] : \E rn \in SUBSET names[n] : Fork(n, ln, rn)
        \/ ForkExhausted(n) \/ StartRight(n) \/ JoinSequential(n)
        \/ Stash(n) \/ JoinLeft(n) \/ JoinRight(n) \/ DropFork(n)

Spec == Init /\ [][Next]_vars

-----------------------------------------------------------------------------
(* Properties *)

TypeOK ==
    /\ seq \in Nat \ {0}
    /\ status \in [Nodes -> Statuses]
    /\ fork \in [Nodes -> 0 .. MaxForks]
    /\ reg \in [Nodes -> Registry]
    /\ names \in [Nodes -> SUBSET Resources]
    /\ issued \in SUBSET Nat
    /\ cleared \in SUBSET Nat
    /\ allocs \in Nat
    /\ ended \in SUBSET Resources

\* D1: "globally unique, monotonically allocated, never reused" (action.rs,
\* Fd; ResourceRegistry::allocate): the fd a branch would be given next was
\* never given to anybody, in whatever order the tree forks and merges.
FdUnique ==
    \A n \in Nodes :
        status[n] \in {"running", "orphan"} => reg[n].next \notin issued

\* D13: merging loses no branch's handles.  Every fd ever allocated, unless a
\* Replace released it, is known to a registry that still takes part.
NoHandleLost ==
    issued \ cleared \subseteq
        UNION {reg[n].handles : n \in {m \in Nodes :
            status[m] \in {"running", "forked", "finished", "stashed"}}}

\* "merge only inserts" holds even when Forks are dropped: allocate never
\* replaces a handle of its own registry, and the two branches of a Fork add
\* no fd in common for HashMap::extend to overwrite.
HandlesIntact ==
    /\ \A n \in Nodes :
          status[n] \in {"running", "orphan"} => reg[n].next \notin reg[n].handles
    /\ \A n \in Nodes :
          LET left == reg[LeftOf(fork[n])].handles
              right == reg[RightOf(fork[n])].handles
          IN  status[n] = "forked" => left \cap right \subseteq reg[n].handles

\* RFC-06: however many rounds of Fork, no cursor leaves the u64 (2^16
\* regions of 2^48), because every offset is anchored at the first base.
NoOverflow == \A n \in Nodes : reg[n].next < MaxRegions * Width

\* Every Fork that is over was joined: a drop leaves an orphan or a corpse.
AllJoined ==
    status[Root] = "running" /\ \A n \in Nodes : status[n] \notin {"orphan", "dead"}

\* merge's "max of all allocated fds + 1": with no Fork pending, the cursor
\* of the root is just past an fd that was really allocated; an unused
\* region never raises it.
Compact ==
    AllJoined =>
        \/ reg[Root].next = 0
        \/ reg[Root].next - 1 \in issued

\* F2: a branch's linear marks reach the parent on either path.  When no Fork
\* is pending, what any branch terminated is refused from then on.
EndedIsRefused == AllJoined => ended \subseteq reg[Root].owned

=============================================================================
