----------------------------- MODULE ForkTimeout -----------------------------
(***************************************************************************)
(* Timeouts over parallel Forks (runtime.rs: run_wall_timeout, wait_timeout, *)
(* run_fork_parallel, ForkJoinMerge).  A branch is a task with an undo stack *)
(* of its own, which reaches its parent's stack only by the join.  A        *)
(* Timeout that fires tells the branches below it, gives them a grace to    *)
(* join, drops the Fork if they do not, and rolls back what it has got.     *)
(* All branches share one world and one idempotency registry.               *)
(*                                                                          *)
(* Interpreter has every frame of one branch; here are the three that meet  *)
(* a Fork: Timeout, Catch, Idempotent.  A sequential Fork is no Fork here:  *)
(* its branches use the parent's stack and token.                           *)
(***************************************************************************)
EXTENDS Naturals, Sequences

CONSTANTS
    Objects,        \* what syscalls change and blueprints name
    NoObject,       \* no object
    Keys,           \* idempotency keys
    NoKey,          \* no key
    Splits,         \* what the two branches of Forks name: objects and keys
    Kinds,          \* the frames programs use
    MaxForks,       \* bound on the Forks of a program
    MaxDepth,       \* bound on the frames of a branch
    MaxOps,         \* bound on the syscalls
    MaxTimers,      \* bound on the Timeouts of a program
    Hangs,          \* TRUE: CANCEL_JOIN_GRACE may run out
    Fails           \* TRUE: syscalls and undos may fail

ASSUME SentinelAssumption == {NoObject, NoKey} \cap (Objects \cup Keys) = {}
ASSUME ProgramAssumption ==
    /\ Splits \subseteq (SUBSET (Objects \cup Keys)) \X (SUBSET (Objects \cup Keys))
    /\ Kinds \subseteq {"timeout", "catch", "idem"}
    /\ {MaxForks, MaxDepth, MaxOps, MaxTimers} \subseteq Nat
    /\ {Hangs, Fails} \subseteq BOOLEAN

VARIABLES
    status,     \* what became of each branch
    br,         \* the locals of each branch's task
    forks,      \* how many Forks there were
    timers,     \* how many Timeouts there were
    sent,       \* the cancel tokens that were broadcast
    idem,       \* IdempotencyRegistry, behind an Arc
    world,      \* the contents of every object
    ops,        \* how many syscalls there were
    undone,     \* history: the syscalls whose effect was taken back
    stray,      \* history: the objects nobody can promise to restore
    done        \* history: the effects of each key's successful runs

vars == <<status, br, forks, timers, sent, idem, world, ops, undone, stray, done>>
history == <<undone, stray, done>>

Root == <<0, "root">>
LeftOf(k) == <<k, "left">>
RightOf(k) == <<k, "right">>
Nodes == {Root} \cup (1 .. MaxForks) \X {"left", "right"}

Statuses == {"unborn", "running", "finished", "stashed", "joined", "orphan", "dead"}
Modes == {"run", "io", "err", "forked", "rollback"}
Worlds == [Objects -> Nat]

\* What run_wall_timeout and the arms of Idempotent and Catch keep until
\* their call is over; token is the one they hand to what runs inside, which
\* is a Timeout's own and anybody else's that of the call around; world is a
\* history.
Frames == [kind : {"timeout", "catch", "idem"}, mark : Nat, token : Nat,
           key : Keys \cup {NoKey}, world : Worlds]

\* An undo takes back the effect of a syscall, or reverts a key.
Undos == [obj : Objects \cup {NoObject}, old : Nat, op : Nat,
          key : Keys \cup {NoKey}]

\* token is the one the task got from its parent, 0 if none; fork is the Fork
\* it waits for, 0 if none; names is what its blueprint names; call is the
\* syscall it awaits and popped the undo; base, a history, is the world the
\* task started in.
Branches == [stack : Seq(Frames), mode : Modes, undo : Seq(Undos),
             call : [obj : Objects \cup {NoObject}, op : Nat],
             popped : SUBSET Undos, failed : BOOLEAN,
             token : Nat, fork : 0 .. MaxForks, names : SUBSET (Objects \cup Keys),
             base : Worlds]

NoCall == [obj |-> NoObject, op |-> 0]
Blank == [o \in Objects |-> 0]

Branch(names, token, base) ==
    [stack |-> << >>, mode |-> "run", undo |-> << >>, call |-> NoCall,
     popped |-> {}, failed |-> FALSE, token |-> token, fork |-> 0, names |-> names,
     base |-> base]

Nobody == Branch({}, 0, Blank)

Init ==
    /\ status = [n \in Nodes |-> IF n = Root THEN "running" ELSE "unborn"]
    /\ br = [n \in Nodes |-> IF n = Root THEN Branch(Objects \cup Keys, 0, Blank) ELSE Nobody]
    /\ forks = 0
    /\ timers = 0
    /\ sent = {}
    /\ idem = [k \in Keys |-> "none"]
    /\ world = Blank
    /\ ops = 0
    /\ undone = {}
    /\ stray = {}
    /\ done = [k \in Keys |-> {}]

Live(n) == status[n] \in {"running", "orphan"}
Depth(n) == Len(br[n].stack)
Top(n) == br[n].stack[Depth(n)]
Cut(n, d) == SubSeq(br[n].stack, 1, d)
Marked(n) == Len(br[n].undo) <= Top(n).mark /\ br[n].popped = {}

-----------------------------------------------------------------------------
(* Cancel tokens *)

Timeouts(n) == {t \in DOMAIN br[n].stack : br[n].stack[t].kind = "timeout"}
Fired(n, t) == br[n].stack[t].token \in sent

\* The token that frame t was given, or one opened now on top of t - 1 others.
Token(n, t) == IF t = 1 THEN br[n].token ELSE br[n].stack[t - 1].token

Cancelled(n) == Token(n, Depth(n) + 1) \in sent

\* The top of the loop, past the cancellation check.
Ready(n) == Live(n) /\ br[n].mode = "run" /\ ~Cancelled(n)

\* A Timeout of n that waits, because n is suspended inside it.
Waits(n, t) == Live(n) /\ br[n].mode # "err" /\ t \in Timeouts(n) /\ ~Fired(n, t)

\* The timer of t expires: the token is broadcast.
Fire(n, t) ==
    /\ Waits(n, t)
    /\ sent' = sent \cup {br[n].stack[t].token}
    /\ UNCHANGED <<status, br, forks, timers, idem, world, ops, history>>

\* Mutant: wait_timeout has no third arm (R3-B).
NoPropagation(n, t) == FALSE

\* wait_timeout's third arm: what is around t is cancelled, so t is.
Propagate(n, t) == Token(n, t) \in sent /\ Fire(n, t)

-----------------------------------------------------------------------------
(* Syscalls *)

Call(n, o) ==
    /\ Ready(n)
    /\ ops < MaxOps
    /\ o \in br[n].names
    /\ ops' = ops + 1
    /\ br' = [br EXCEPT ![n].mode = "io", ![n].call = [obj |-> o, op |-> ops + 1]]
    /\ UNCHANGED <<status, forks, timers, sent, idem, world, history>>

Awaits(n) == Live(n) /\ br[n].mode = "io"
Effect(c) == world' = [world EXCEPT ![c.obj] = c.op]
Inverse(c) == [obj |-> c.obj, old |-> world[c.obj], op |-> c.op, key |-> NoKey]

Succeed(n) ==
    /\ Awaits(n)
    /\ Effect(br[n].call)
    /\ br' = [br EXCEPT ![n].mode = "run", ![n].call = NoCall,
                        ![n].undo = Append(@, Inverse(br[n].call))]
    /\ UNCHANGED <<status, forks, timers, sent, idem, ops, history>>

Fail(n) ==
    /\ Fails
    /\ Awaits(n)
    /\ br' = [br EXCEPT ![n].mode = "err", ![n].call = NoCall]
    /\ UNCHANGED <<status, forks, timers, sent, idem, world, ops, history>>

-----------------------------------------------------------------------------
(* Frames *)

Frame(n, kind, key) ==
    [kind |-> kind, mark |-> Len(br[n].undo), key |-> key,
     token |-> IF kind = "timeout" THEN timers + 1 ELSE Token(n, Depth(n) + 1),
     world |-> IF kind = "timeout" THEN world ELSE Blank]

Open(n) == {br[n].stack[i].key : i \in DOMAIN br[n].stack}

\* A key that is COMMITTED is answered from the cache and opens no frame.
\* (Bound: no Idempotent segment runs inside one with the same key.)
Enter(n, kind, key) ==
    /\ Ready(n)
    /\ Depth(n) < MaxDepth
    /\ kind \in Kinds
    /\ IF kind = "idem"
       THEN /\ key \in br[n].names
            /\ idem[key] # "committed"
            /\ key \notin Open(n)
       ELSE key = NoKey
    /\ IF kind = "timeout"
       THEN timers < MaxTimers /\ timers' = timers + 1
       ELSE UNCHANGED timers
    /\ br' = [br EXCEPT ![n].stack = Append(@, Frame(n, kind, key))]
    /\ UNCHANGED <<status, forks, sent, idem, world, ops, history>>

\* The effects a segment leaves.
Segment(n) ==
    {<<u.obj, u.op>> : u \in {br[n].undo[i] : i \in Top(n).mark + 1 .. Len(br[n].undo)}}
        \cap (Objects \X Nat)

Revert(key) == [obj |-> NoObject, old |-> 0, op |-> 0, key |-> key]

\* The innermost call returns a value; a segment that left undos is committed.
Return(n) ==
    LET commits == Top(n).kind = "idem" /\ Len(br[n].undo) > Top(n).mark IN
    /\ Ready(n)
    /\ Depth(n) > 0
    /\ br' = [br EXCEPT ![n].stack = Cut(n, Depth(n) - 1),
                        ![n].undo = IF commits THEN Append(@, Revert(Top(n).key)) ELSE @]
    /\ IF commits
       THEN /\ idem' = [idem EXCEPT ![Top(n).key] = "committed"]
            /\ done' = [done EXCEPT ![Top(n).key] = @ \cup {Segment(n)}]
       ELSE UNCHANGED <<idem, done>>
    /\ UNCHANGED <<status, forks, timers, sent, world, ops, undone, stray>>

\* The loop finds itself cancelled: Err(CANCELLED_ERR).
Cancel(n) ==
    /\ Live(n)
    /\ br[n].mode = "run"
    /\ Cancelled(n)
    /\ br' = [br EXCEPT ![n].mode = "err"]
    /\ UNCHANGED <<status, forks, timers, sent, idem, world, ops, history>>

\* The innermost call returns an error.  A Timeout that has fired drops it and
\* rolls back, Catch runs its handler, the others pass it on.
Unwind(n) ==
    /\ Live(n)
    /\ br[n].mode = "err"
    /\ Depth(n) > 0
    /\ br' = IF Top(n).kind = "timeout" /\ Fired(n, Depth(n))
             THEN [br EXCEPT ![n].mode = "rollback", ![n].failed = FALSE]
             ELSE [br EXCEPT ![n].mode = IF Top(n).kind = "catch" THEN "run" ELSE "err",
                             ![n].stack = Cut(n, Depth(n) - 1)]
    /\ UNCHANGED <<status, forks, timers, sent, idem, world, ops, history>>

\* run returns the error to its caller, who may run another blueprint.
Report ==
    /\ br[Root].mode = "err"
    /\ Depth(Root) = 0
    /\ br' = [br EXCEPT ![Root].mode = "run"]
    /\ UNCHANGED <<status, forks, timers, sent, idem, world, ops, history>>

\* A branch's task is over; nobody awaits an orphan's.
Finish(n) ==
    /\ n # Root
    /\ Depth(n) = 0
    /\ Ready(n) \/ (Live(n) /\ br[n].mode = "err")
    /\ status' = [status EXCEPT ![n] = IF @ = "orphan" THEN "dead" ELSE "finished"]
    /\ br' = IF status[n] = "orphan" THEN [br EXCEPT ![n] = Nobody] ELSE br
    /\ UNCHANGED <<forks, timers, sent, idem, world, ops, history>>

-----------------------------------------------------------------------------
(* Fork *)

\* A Fork of n whose branches have the names and get the token given.
ForkInto(n, lnames, rnames, token) ==
    /\ Ready(n)
    /\ forks < MaxForks
    /\ forks' = forks + 1
    /\ status' = [status EXCEPT ![LeftOf(forks + 1)] = "running",
                                ![RightOf(forks + 1)] = "running"]
    /\ br' = [br EXCEPT ![n].mode = "forked", ![n].fork = forks + 1,
                        ![LeftOf(forks + 1)] = Branch(lnames, token, world),
                        ![RightOf(forks + 1)] = Branch(rnames, token, world)]
    /\ UNCHANGED <<timers, sent, idem, world, ops, history>>

\* (Bound: no segment inside one with the same key, here either.)
Names(n) == br[n].names \ Open(n)

\* A blueprint names what the blueprints in it name.
Within(n, split) == split[1] \cup split[2] \subseteq Names(n)

\* Mutants: fork_conflict finds nothing; the branches get no token.
ForkUnchecked(n, split) ==
    /\ Within(n, split)
    /\ ForkInto(n, split[1], split[2], Token(n, Depth(n) + 1))
ForkUntold(n, split) ==
    /\ Within(n, split)
    /\ split[1] \cap split[2] = {}
    /\ ForkInto(n, split[1], split[2], 0)

\* Two tasks, each with a clone of the token, that fork_conflict has found to
\* name nothing in common (else the Fork is a sequential one).
Fork(n, split) ==
    /\ Within(n, split)
    /\ split[1] \cap split[2] = {}
    /\ ForkInto(n, split[1], split[2], Token(n, Depth(n) + 1))

Joining(n) == Live(n) /\ br[n].mode = "forked"
Left(n) == LeftOf(br[n].fork)
Right(n) == RightOf(br[n].fork)

\* The right branch is done first: its outcome waits in r_stash.
Stash(n) ==
    /\ Joining(n)
    /\ status[Left(n)] # "joined"
    /\ status[Right(n)] = "finished"
    /\ status' = [status EXCEPT ![Right(n)] = "stashed"]
    /\ UNCHANGED <<br, forks, timers, sent, idem, world, ops, history>>

\* l_res?, r_res?
Outcome(n) ==
    IF "err" \in {br[Left(n)].mode, br[Right(n)].mode} THEN "err" ELSE "run"

\* merge_left, and merge_right of what r_stash holds.
JoinLeft(n) ==
    LET stashed == status[Right(n)] = "stashed" IN
    /\ Joining(n)
    /\ status[Left(n)] = "finished"
    /\ status' = [status EXCEPT ![Left(n)] = "joined",
                                ![Right(n)] = IF stashed THEN "joined" ELSE @]
    /\ br' = IF stashed
             THEN [br EXCEPT
                    ![n].undo = @ \o br[Left(n)].undo \o br[Right(n)].undo,
                    ![n].mode = Outcome(n), ![n].fork = 0,
                    ![Left(n)] = Nobody, ![Right(n)] = Nobody]
             ELSE [br EXCEPT
                    ![n].undo = @ \o br[Left(n)].undo, ![Left(n)].undo = << >>]
    /\ UNCHANGED <<forks, timers, sent, idem, world, ops, history>>

JoinRight(n) ==
    /\ Joining(n)
    /\ status[Left(n)] = "joined"
    /\ status[Right(n)] = "finished"
    /\ status' = [status EXCEPT ![Right(n)] = "joined"]
    /\ br' = [br EXCEPT ![n].undo = @ \o br[Right(n)].undo,
                        ![n].mode = Outcome(n), ![n].fork = 0,
                        ![Left(n)] = Nobody, ![Right(n)] = Nobody]
    /\ UNCHANGED <<forks, timers, sent, idem, world, ops, history>>

-----------------------------------------------------------------------------
(* The grace of a Timeout is over *)

\* "Branches that respond to the cancellation join within milliseconds": when
\* a grace of 500 ms is over, every task it told has been polled, and each
\* Timeout in it that was told has fired.
Told == \A n \in Nodes : Live(n) =>
            \A t \in Timeouts(n) : Token(n, t) \in sent => Fired(n, t)

Children(n) == IF br[n].mode = "forked" THEN {Left(n), Right(n)} ELSE {}

\* Mutant: no Drop; what was stashed is lost (R7-B).
KeptUnstashed(n) == br[n].undo

\* What a dropped Fork has merged or stashed is kept (ForkJoinMerge::drop).
Kept(n) ==
    IF \E c \in Children(n) : status[c] = "stashed"
    THEN br[n].undo \o br[Right(n)].undo
    ELSE br[n].undo

\* The branches not joined yet run on detached, or were done in vain.
Lost(n) == {c \in Children(n) : status[c] \in {"running", "finished"}}

\* What becomes of a branch whose Fork is dropped.
Fate == [running |-> "orphan", finished |-> "dead", stashed |-> "joined",
         joined |-> "joined"]

\* The inner future of t is dropped: the syscall or the undo it awaits may
\* have been done or not, and nothing of it is recorded.
GraceEnds(n, t) ==
    LET b == br[n]
        dropped == {u.obj : u \in b.popped} \cup ({b.call.obj} \ {NoObject})
    IN
    /\ Hangs
    /\ Live(n)
    /\ t \in Timeouts(n)
    /\ Fired(n, t)
    /\ b.mode \in {"io", "forked"} \/ (b.mode = "rollback" /\ t < Depth(n))
    /\ Told
    /\ br' = [c \in Nodes |->
                CASE c = n -> [b EXCEPT
                        !.stack = Cut(n, t), !.mode = "rollback", !.undo = Kept(n),
                        !.call = NoCall, !.popped = {}, !.failed = FALSE, !.fork = 0]
                  [] c \in Children(n) /\ status[c] # "running" -> Nobody
                  [] OTHER -> br[c]]
    /\ status' = [c \in Nodes |->
                    IF c \in Children(n) THEN Fate[status[c]] ELSE status[c]]
    /\ stray' = stray \cup dropped
                      \cup (Objects \cap UNION {br[c].names : c \in Lost(n)})
    /\ \/ UNCHANGED <<world, undone>>
       \/ b.mode = "io" /\ Effect(b.call) /\ UNCHANGED undone
       \/ \E u \in b.popped :
            /\ world' = [world EXCEPT ![u.obj] = u.old]
            /\ undone' = undone \cup {u.op}
    /\ UNCHANGED <<forks, timers, sent, idem, ops, done>>

-----------------------------------------------------------------------------
(* UndoStack::rollback_from *)

Undoing(n) == Live(n) /\ br[n].mode = "rollback"

\* Mutant: the oldest undo of the Timeout is taken first.
PopOldest(n) ==
    LET first == Top(n).mark + 1
        u == br[n].undo[first]
    IN
    /\ Undoing(n)
    /\ br[n].popped = {}
    /\ Len(br[n].undo) >= first
    /\ br' = [br EXCEPT ![n].undo = SubSeq(@, 1, first - 1)
                                        \o SubSeq(@, first + 1, Len(@)),
                        ![n].popped = IF u.key = NoKey THEN {u} ELSE {}]
    /\ idem' = IF u.key = NoKey THEN idem ELSE [idem EXCEPT ![u.key] = "reverted"]
    /\ UNCHANGED <<status, forks, timers, sent, world, ops, history>>

\* Take the last undo; that of a commit is done at once.
PopUndo(n) ==
    LET last == Len(br[n].undo)
        u == br[n].undo[last]
    IN
    /\ Undoing(n)
    /\ br[n].popped = {}
    /\ last > Top(n).mark
    /\ br' = [br EXCEPT ![n].undo = SubSeq(@, 1, last - 1),
                        ![n].popped = IF u.key = NoKey THEN {u} ELSE {}]
    /\ idem' = IF u.key = NoKey THEN idem ELSE [idem EXCEPT ![u.key] = "reverted"]
    /\ UNCHANGED <<status, forks, timers, sent, world, ops, history>>

UndoOk(n) ==
    /\ Undoing(n)
    /\ \E u \in br[n].popped :
         /\ world' = [world EXCEPT ![u.obj] = u.old]
         /\ undone' = undone \cup {u.op}
    /\ br' = [br EXCEPT ![n].popped = {}]
    /\ UNCHANGED <<status, forks, timers, sent, idem, ops, stray, done>>

\* The loop goes on, and remembers the first error.
UndoFails(n) ==
    /\ Fails
    /\ Undoing(n)
    /\ \E u \in br[n].popped : stray' = stray \cup {u.obj}
    /\ br' = [br EXCEPT ![n].popped = {}, ![n].failed = TRUE]
    /\ UNCHANGED <<status, forks, timers, sent, idem, world, ops, undone, done>>

\* If an undo failed on_timeout does not run.
RollbackDone(n) ==
    /\ Undoing(n)
    /\ Marked(n)
    /\ br' = [br EXCEPT ![n].stack = Cut(n, Depth(n) - 1),
                        ![n].mode = IF br[n].failed THEN "err" ELSE "run"]
    /\ UNCHANGED <<status, forks, timers, sent, idem, world, ops, history>>

-----------------------------------------------------------------------------

\* What the runtime does by itself.
Progress(n) ==
    \/ Cancel(n) \/ Unwind(n) \/ (br[n].mode = "err" /\ Finish(n))
    \/ Stash(n) \/ JoinLeft(n) \/ JoinRight(n)
    \/ PopUndo(n) \/ UndoOk(n) \/ RollbackDone(n)
    \/ \E t \in DOMAIN br[n].stack : Propagate(n, t) \/ GraceEnds(n, t)

Next ==
    \/ Report
    \/ \E n \in Nodes :
        \/ Progress(n)
        \/ \E o \in Objects : Call(n, o)
        \/ Succeed(n) \/ Fail(n)
        \/ \E kind \in Kinds, key \in Keys \cup {NoKey} : Enter(n, kind, key)
        \/ Return(n) \/ Finish(n) \/ UndoFails(n)
        \/ \E split \in Splits : Fork(n, split)
        \/ \E t \in DOMAIN br[n].stack : Fire(n, t)

\* Tasks are polled when they are woken, and a suspended Timeout polls its
\* arms.  A syscall may take forever, and a program may run forever.
Fairness == \A n \in Nodes : WF_vars(Progress(n))

Spec == Init /\ [][Next]_vars
FairSpec == Spec /\ Fairness

-----------------------------------------------------------------------------
(* Properties *)

TypeOK ==
    /\ status \in [Nodes -> Statuses]
    /\ br \in [Nodes -> Branches]
    /\ \A n \in Nodes : Undoing(n) => Depth(n) > 0
    /\ forks \in 0 .. MaxForks
    /\ timers \in Nat
    /\ sent \in SUBSET Nat
    /\ idem \in [Keys -> {"none", "committed", "reverted"}]
    /\ world \in Worlds
    /\ ops \in Nat
    /\ undone \in SUBSET Nat
    /\ stray \in SUBSET Objects
    /\ done \in [Keys -> SUBSET SUBSET (Objects \X Nat)]

\* RFC-08/09: the branches' undos, merged in whatever order they finish, are
\* rolled back with their Timeout.  Of the objects the branch names, all are
\* as they were when it started but those that a branch which never joined, a
\* call that was dropped, or an undo that failed has left behind.
TimeoutRestores ==
    \A n \in Nodes :
        Undoing(n) /\ Marked(n) =>
            \A o \in br[n].names \cap Objects :
                o \notin stray => world[o] = Top(n).world[o]

\* A COMMITTED key answers for its effects, in whichever branch it was
\* committed: until it is reverted nothing takes one of them back, not even a
\* branch that was dropped with the undos of the segment.
CommittedStands ==
    \A k \in Keys :
        idem[k] = "committed" =>
            \E run \in done[k] : \A effect \in run : effect[2] \notin undone

\* "Exactly once", across branches: while a segment runs, in any branch that
\* was not told to stop, no effect of an earlier successful run stands, except
\* on objects that are stray.
ExactlyOnce ==
    \A n \in Nodes : status[n] = "running" /\ br[n].token \notin sent =>
        \A i \in DOMAIN br[n].stack : br[n].stack[i].kind = "idem" =>
            \A run \in done[br[n].stack[i].key] : \A effect \in run :
                effect[2] \in undone \/ effect[1] \in stray

\* A Timeout that has fired gets to on_timeout or to its error, whatever the
\* branches below it are doing.
TimeoutAnswers ==
    []<>(\A n \in Nodes : Live(n) => \A t \in Timeouts(n) : ~Fired(n, t))

\* "Its cancellation flag is sticky": a branch whose Fork was dropped does not
\* go on for ever; it ends, or is stuck in the call it was lost in.
OrphansStop ==
    <>[](\A n \in Nodes : status[n] = "orphan" => br[n].mode \in {"io", "forked"})

=============================================================================
