----------------------------- MODULE Interpreter -----------------------------
(***************************************************************************)
(* interpret_impl (runtime.rs) along one branch: the trampoline, the frames *)
(* Scope, Catch, Timeout and Idempotent put on its call stack, the undo     *)
(* stack, and the three ways of going back: Replace, Runtime::recover and a *)
(* Timeout that fires.                                                      *)
(*                                                                          *)
(* The continuations of a blueprint are opaque functions, so a program is   *)
(* a choice of the next action at every step; what it does to the world is  *)
(* abstracted to objects that syscalls overwrite.  Every effect is numbered *)
(* and leaves its number as the contents of its object.                     *)
(***************************************************************************)
EXTENDS Naturals, Sequences

CONSTANTS
    Objects,        \* what syscalls change and usages name
    NoObject,       \* the target of a syscall nothing can undo
    Keys,           \* idempotency keys
    NoKey,          \* no key
    Dirs,           \* working directories
    HomeDir,        \* the one Context starts in
    Kinds,          \* the frames programs use
    ReplaceIn,      \* the frames programs use Replace inside of
    MaxDepth,       \* the frames MAX_NESTING_DEPTH leaves room for
    MaxOps,         \* bound on the syscalls executed
    Sends,          \* TRUE: programs have syscalls nothing can undo
    FailIn,         \* the modes in which an undo may fail
    Drops           \* TRUE: CANCEL_JOIN_GRACE may run out

AllKinds == {"scope", "catch", "timeout", "idem"}
Undoing == {"replacing", "recovering", "rollback"}

ASSUME SentinelAssumption ==
    /\ NoObject \notin Objects
    /\ NoKey \notin Keys
    /\ HomeDir \in Dirs
ASSUME ProgramAssumption ==
    /\ Kinds \subseteq AllKinds
    /\ ReplaceIn \subseteq Kinds
    /\ FailIn \subseteq Undoing
    /\ MaxDepth \in Nat
    /\ MaxOps \in Nat
    /\ Sends \in BOOLEAN
    /\ Drops \in BOOLEAN

VARIABLES
    stack,          \* the calls of run_sub_impl that are not over
    mode,           \* what the innermost one is doing
    inflight,       \* the syscall it awaits
    undo,           \* UndoStack.ops
    popped,         \* the undo it awaits, at most one
    failed,         \* first_err of recover or rollback_from
    irreversible,   \* UndoStack.irreversible
    owned,          \* ResourceRegistry.owned_consumed
    cwd,            \* Context.cwd
    idem,           \* IdempotencyRegistry
    world,          \* the contents of every object
    ops,            \* history: how many effects there were
    sent,           \* history: the effects nothing can undo
    origin,         \* history: world and ops when this segment started
    done,           \* history: the effects of each key's successful runs
    undone,         \* history: the effects an undo has taken back
    stray           \* history: the effects left without an undo: it failed, or
                    \* it or their call was dropped

vars == <<stack, mode, inflight, undo, popped, failed, irreversible, owned,
          cwd, idem, world, ops, sent, origin, done, undone, stray>>

Modes == {"run", "value", "io", "err"} \cup Undoing
Worlds == [Objects -> Nat]

\* A frame keeps the locals its arm of the match needs when the call is over
\* (undo_mark or mark_before, linear_snap, old, key), whether its timer has
\* fired, the Scope's directory, and two histories: world and ops.
Frames == [kind : AllKinds, mark : Nat, owned : SUBSET Objects, old : Dirs,
           key : Keys \cup {NoKey}, fired : BOOLEAN, dir : Dirs,
           world : Worlds, ops : Nat]

\* What an undo closure has captured; world is a history: what it undoes to.
Undos == [obj : Objects \cup {NoObject}, old : Nat, own : BOOLEAN,
          key : Keys \cup {NoKey}, op : Nat, world : Worlds]

Inflight == [obj : Objects \cup {NoObject}, own : BOOLEAN]
NoInflight == [obj |-> NoObject, own |-> FALSE]

Init ==
    /\ stack = << >>
    /\ mode = "run"
    /\ inflight = NoInflight
    /\ undo = << >>
    /\ popped = {}
    /\ failed = FALSE
    /\ irreversible = FALSE
    /\ owned = {}
    /\ cwd = HomeDir
    /\ idem = [k \in Keys |-> "none"]
    /\ world = [o \in Objects |-> 0]
    /\ ops = 0
    /\ sent = {}
    /\ origin = [world |-> world, ops |-> 0]
    /\ done = [k \in Keys |-> {}]
    /\ undone = {}
    /\ stray = {}

Top == stack[Len(stack)]
Cut(n) == SubSeq(stack, 1, n)
Timeouts == {t \in DOMAIN stack : stack[t].kind = "timeout"}

\* Each Timeout hands its own CancelToken to what runs inside it.
Cancelled ==
    \E t \in Timeouts : stack[t].fired /\ \A s \in Timeouts : s <= t

\* The top of the loop, past the cancellation check.
Ready == mode = "run" /\ ~Cancelled

-----------------------------------------------------------------------------
(* Syscall *)

\* check_linear lets the usage pass; an Own usage leaves its mark already.
Call(o, own) ==
    /\ Ready
    /\ ops < MaxOps
    /\ o = NoObject => Sends /\ ~own
    /\ o \notin owned
    /\ mode' = "io"
    /\ inflight' = [obj |-> o, own |-> own]
    /\ owned' = IF own THEN owned \cup {o} ELSE owned
    /\ UNCHANGED <<stack, undo, popped, failed, irreversible, cwd, idem, world,
                   ops, sent, origin, done, undone, stray>>

Refuse(o) ==
    /\ Ready
    /\ o \in owned
    /\ mode' = "err"
    /\ UNCHANGED <<stack, inflight, undo, popped, failed, irreversible, owned,
                   cwd, idem, world, ops, sent, origin, done, undone, stray>>

\* What the executor does to the world, and what it has captured before.
Effect ==
    /\ ops' = ops + 1
    /\ \/ /\ inflight.obj = NoObject
          /\ sent' = sent \cup {ops + 1}
          /\ UNCHANGED world
       \/ /\ inflight.obj # NoObject
          /\ world' = [world EXCEPT ![inflight.obj] = ops + 1]
          /\ UNCHANGED sent

Inverse == [obj |-> inflight.obj, old |-> world[inflight.obj],
            own |-> inflight.own, key |-> NoKey, op |-> ops + 1, world |-> world]

Succeed ==
    /\ mode = "io"
    /\ Effect
    /\ IF inflight.obj = NoObject
       THEN irreversible' = TRUE /\ UNCHANGED undo
       ELSE undo' = Append(undo, Inverse) /\ UNCHANGED irreversible
    /\ mode' = "run"
    /\ inflight' = NoInflight
    /\ UNCHANGED <<stack, popped, failed, owned, cwd, idem, origin, done, undone,
                   stray>>

\* rollback_linear takes the mark back; nothing to undo.
Fail ==
    /\ mode = "io"
    /\ owned' = IF inflight.own THEN owned \ {inflight.obj} ELSE owned
    /\ mode' = "err"
    /\ inflight' = NoInflight
    /\ UNCHANGED <<stack, undo, popped, failed, irreversible, cwd, idem, world,
                   ops, sent, origin, done, undone, stray>>

-----------------------------------------------------------------------------
(* Frames *)

\* Mutant: the mark is one too high.
FrameAbove(kind, key, dir) ==
    [kind |-> kind, mark |-> Len(undo) + 1, owned |-> owned, old |-> cwd,
     key |-> key, fired |-> FALSE, dir |-> dir, world |-> world, ops |-> ops]

Frame(kind, key, dir) ==
    [kind |-> kind, mark |-> Len(undo), owned |-> owned, old |-> cwd,
     key |-> key, fired |-> FALSE, dir |-> dir, world |-> world, ops |-> ops]

\* A key that is COMMITTED is answered from the cache and opens no frame.
\* (Bound: no Idempotent segment runs inside one with the same key.)
Enter(kind, key, dir) ==
    /\ Ready
    /\ Len(stack) < MaxDepth
    /\ kind \in Kinds
    /\ IF kind = "idem"
       THEN /\ key \in Keys
            /\ idem[key] # "committed"
            /\ \A i \in DOMAIN stack : stack[i].key # key
       ELSE key = NoKey
    /\ kind # "scope" => dir = cwd
    /\ stack' = Append(stack, Frame(kind, key, dir))
    /\ cwd' = dir
    /\ UNCHANGED <<mode, inflight, undo, popped, failed, irreversible, owned,
                   idem, world, ops, sent, origin, done, undone, stray>>

\* The depth guard: Err(Other(105)).
TooDeep ==
    /\ Ready
    /\ Len(stack) = MaxDepth
    /\ mode' = "err"
    /\ UNCHANGED <<stack, inflight, undo, popped, failed, irreversible, owned,
                   cwd, idem, world, ops, sent, origin, done, undone, stray>>

\* Mutant: a segment with a single undo is taken for one without.
CommitLate(f) ==
    /\ done' = [done EXCEPT ![f.key] = @ \cup (f.ops + 1 .. ops)]
    /\ IF Len(undo) > f.mark + 1
       THEN /\ idem' = [idem EXCEPT ![f.key] = "committed"]
            /\ undo' = Append(undo, [obj |-> NoObject, old |-> 0, own |-> FALSE,
                                     key |-> f.key, op |-> 0, world |-> world])
       ELSE UNCHANGED <<idem, undo>>

\* Commit, and push the undo that reverts it, if the segment left an undo.
Commit(f) ==
    /\ done' = [done EXCEPT ![f.key] = @ \cup (f.ops + 1 .. ops)]
    /\ IF Len(undo) > f.mark
       THEN /\ idem' = [idem EXCEPT ![f.key] = "committed"]
            /\ undo' = Append(undo, [obj |-> NoObject, old |-> 0, own |-> FALSE,
                                     key |-> f.key, op |-> 0, world |-> world])
       ELSE UNCHANGED <<idem, undo>>

\* Mutant: the finally of Scope is missing.
CwdLeft == cwd

\* The cwd once the innermost call is over, by a value or an error.
CwdBack == IF Top.kind = "scope" THEN Top.old ELSE cwd

\* The innermost call is that of a Timeout that has fired.
Expired == Top.kind = "timeout" /\ Top.fired

\* Pure: the innermost call returns a value.  Catch and Timeout are tail calls:
\* if theirs is the last action of what is around them, its call returns as
\* well (mode "value"), and nobody looks at the token in between.
Return ==
    /\ Ready \/ mode = "value"
    /\ stack # << >>
    /\ ~Expired
    /\ mode' \in IF Top.kind \in {"catch", "timeout"} /\ Len(stack) > 1
                 THEN {"run", "value"} ELSE {"run"}
    /\ stack' = Cut(Len(stack) - 1)
    /\ cwd' = CwdBack
    /\ IF Top.kind = "idem" THEN Commit(Top) ELSE UNCHANGED <<idem, undo, done>>
    /\ UNCHANGED <<inflight, popped, failed, irreversible, owned, world, ops,
                   sent, origin, undone, stray>>

\* The loop finds itself cancelled: Err(CANCELLED_ERR).
Cancel ==
    /\ mode = "run"
    /\ Cancelled
    /\ mode' = "err"
    /\ UNCHANGED <<stack, inflight, undo, popped, failed, irreversible, owned,
                   cwd, idem, world, ops, sent, origin, done, undone, stray>>

\* Mutant: a Timeout that fired is closed before it has rolled back.
UnwindPopping ==
    /\ stack # << >>
    /\ mode = "err" \/ (mode = "value" /\ Expired)
    /\ cwd' = CwdBack
    /\ stack' = Cut(Len(stack) - 1)
    /\ mode' = CASE Expired -> "rollback"
                 [] Top.kind = "catch" -> "run"
                 [] OTHER -> "err"
    /\ UNCHANGED <<inflight, undo, popped, failed, irreversible, owned, idem,
                   world, ops, sent, origin, done, undone, stray>>

\* The innermost call returns an error.  Catch runs its handler, a Timeout
\* that has fired drops it (or a value) and rolls back, the others pass it on.
Unwind ==
    /\ stack # << >>
    /\ mode = "err" \/ (mode = "value" /\ Expired)
    /\ cwd' = CwdBack
    /\ IF Expired
       THEN mode' = "rollback" /\ failed' = FALSE /\ UNCHANGED stack
       ELSE /\ mode' = IF Top.kind = "catch" THEN "run" ELSE "err"
            /\ stack' = Cut(Len(stack) - 1)
            /\ UNCHANGED failed
    /\ UNCHANGED <<inflight, undo, popped, irreversible, owned, idem, world,
                   ops, sent, origin, done, undone, stray>>

\* run returns the error to its caller, who may run another blueprint.
Report ==
    /\ mode = "err"
    /\ stack = << >>
    /\ mode' = "run"
    /\ UNCHANGED <<stack, inflight, undo, popped, failed, irreversible, owned,
                   cwd, idem, world, ops, sent, origin, done, undone, stray>>

-----------------------------------------------------------------------------
(* Timeout *)

\* The timer of t expires while what runs inside is suspended at an await.
Fire(t) ==
    /\ mode \notin {"err", "value"}
    /\ t \in Timeouts
    /\ ~stack[t].fired
    /\ stack' = [stack EXCEPT ![t].fired = TRUE]
    /\ UNCHANGED <<mode, inflight, undo, popped, failed, irreversible, owned,
                   cwd, idem, world, ops, sent, origin, done, undone, stray>>

\* Mutant: wait_timeout has no third arm (R3-B).
NoPropagation(t) == FALSE

\* wait_timeout's third arm: the enclosing Timeout has fired.
Propagate(t) ==
    /\ \E s \in Timeouts :
          /\ s < t
          /\ stack[s].fired
          /\ \A r \in Timeouts : r <= s \/ r >= t
    /\ Fire(t)

\* The effect of the undo that is awaited.
Taken == {u.op : u \in popped}

\* The grace of t is over and its inner future is dropped: the syscall or the
\* undo it awaits may have been done or not, and nothing of it is recorded.
\* ctx.cwd = old is not reached.
GraceEnds(t) ==
    /\ Drops
    /\ t \in Timeouts
    /\ stack[t].fired
    /\ mode \in {"io", "replacing"} \/ (mode = "rollback" /\ t < Len(stack))
    /\ stack' = Cut(t)
    /\ mode' = "rollback"
    /\ failed' = FALSE
    /\ inflight' = NoInflight
    /\ popped' = {}
    /\ \/ /\ stray' = stray \cup Taken
          /\ UNCHANGED <<world, ops, sent, undone>>
       \/ /\ mode = "io"
          /\ Effect
          /\ stray' = stray \cup {ops + 1}
          /\ UNCHANGED undone
       \/ /\ \E u \in popped : world' = [world EXCEPT ![u.obj] = u.old]
          /\ undone' = undone \cup Taken
          /\ UNCHANGED <<ops, sent, stray>>
    /\ UNCHANGED <<undo, irreversible, owned, cwd, idem, origin, done>>

\* Mutant: every mark goes, not only the new ones.
NoMarks == {}

\* rollback_linear_to
MarksBefore == owned \cap Top.owned

\* rollback_from is done.  If an undo failed on_timeout does not run.
RollbackDone ==
    /\ mode = "rollback"
    /\ popped = {}
    /\ Len(undo) <= Top.mark
    /\ stack' = Cut(Len(stack) - 1)
    /\ mode' = IF failed THEN "err" ELSE "run"
    /\ owned' = IF failed THEN owned ELSE MarksBefore
    /\ UNCHANGED <<inflight, undo, popped, failed, irreversible, cwd, idem,
                   world, ops, sent, origin, done, undone, stray>>

-----------------------------------------------------------------------------
(* UndoStack::recover and rollback_from *)

Floor == IF mode = "rollback" THEN Top.mark ELSE 0

\* Mutant: the oldest undo is taken first.
PopOldest ==
    LET u == Head(undo) IN
    /\ mode \in Undoing
    /\ popped = {}
    /\ Len(undo) > Floor
    /\ undo' = Tail(undo)
    /\ IF u.key # NoKey
       THEN idem' = [idem EXCEPT ![u.key] = "reverted"] /\ UNCHANGED popped
       ELSE popped' = {u} /\ UNCHANGED idem
    /\ UNCHANGED <<stack, mode, inflight, failed, irreversible, owned, cwd,
                   world, ops, sent, origin, done, undone, stray>>

\* Mutant: the undo of a commit is popped and forgotten.
PopUnreverted ==
    LET u == undo[Len(undo)] IN
    /\ mode \in Undoing
    /\ popped = {}
    /\ Len(undo) > Floor
    /\ undo' = SubSeq(undo, 1, Len(undo) - 1)
    /\ popped' = IF u.key # NoKey THEN {} ELSE {u}
    /\ UNCHANGED <<stack, mode, inflight, failed, irreversible, owned, cwd,
                   idem, world, ops, sent, origin, done, undone, stray>>

\* Take the last undo; that of a commit is done at once.
PopUndo ==
    LET u == undo[Len(undo)] IN
    /\ mode \in Undoing
    /\ popped = {}
    /\ Len(undo) > Floor
    /\ undo' = SubSeq(undo, 1, Len(undo) - 1)
    /\ IF u.key # NoKey
       THEN idem' = [idem EXCEPT ![u.key] = "reverted"] /\ UNCHANGED popped
       ELSE popped' = {u} /\ UNCHANGED idem
    /\ UNCHANGED <<stack, mode, inflight, failed, irreversible, owned, cwd,
                   world, ops, sent, origin, done, undone, stray>>

UndoOk ==
    /\ \E u \in popped : world' = [world EXCEPT ![u.obj] = u.old]
    /\ popped' = {}
    /\ undone' = undone \cup Taken
    /\ UNCHANGED <<stack, mode, inflight, undo, failed, irreversible, owned,
                   cwd, idem, ops, sent, origin, done, stray>>

\* Mutant: the error is dropped.
FailUnnoticed ==
    /\ popped # {}
    /\ mode \in FailIn
    /\ popped' = {}
    /\ stray' = stray \cup Taken
    /\ UNCHANGED <<stack, mode, inflight, undo, failed, irreversible, owned,
                   cwd, idem, world, ops, sent, origin, done, undone>>

\* The loop goes on, and remembers the first error.
UndoFails ==
    /\ popped # {}
    /\ mode \in FailIn
    /\ popped' = {}
    /\ failed' = TRUE
    /\ stray' = stray \cup Taken
    /\ UNCHANGED <<stack, mode, inflight, undo, irreversible, owned, cwd, idem,
                   world, ops, sent, origin, done, undone>>

-----------------------------------------------------------------------------
(* Replace and Runtime::recover *)

Replace ==
    /\ Ready
    /\ \A i \in DOMAIN stack : stack[i].kind \in ReplaceIn
    /\ mode' = "replacing"
    /\ failed' = FALSE
    /\ UNCHANGED <<stack, inflight, undo, popped, irreversible, owned, cwd,
                   idem, world, ops, sent, origin, done, undone, stray>>

Recovered == popped = {} /\ undo = << >>
Restarted == origin' = [world |-> world, ops |-> ops]

\* The gate: the target runs only if everything was undone.  Whatever the
\* answer, what follows is a new segment.
ReplaceDone ==
    /\ mode = "replacing"
    /\ Recovered
    /\ Restarted
    /\ irreversible' = FALSE
    /\ IF failed \/ irreversible
       THEN mode' = "err" /\ UNCHANGED owned
       ELSE mode' = "run" /\ owned' = {}
    /\ UNCHANGED <<stack, inflight, undo, popped, failed, cwd, idem, world,
                   ops, sent, done, undone, stray>>

\* Between two runs.
Recover ==
    /\ mode = "run"
    /\ stack = << >>
    /\ mode' = "recovering"
    /\ failed' = FALSE
    /\ UNCHANGED <<stack, inflight, undo, popped, irreversible, owned, cwd,
                   idem, world, ops, sent, origin, done, undone, stray>>

RecoverDone ==
    /\ mode = "recovering"
    /\ Recovered
    /\ Restarted
    /\ irreversible' = (irreversible /\ failed)
    /\ mode' = "run"
    /\ UNCHANGED <<stack, inflight, undo, popped, failed, owned, cwd, idem,
                   world, ops, sent, done, undone, stray>>

-----------------------------------------------------------------------------

\* What the runtime does by itself once a Timeout has fired.
Progress ==
    \/ Cancel \/ Unwind
    \/ mode = "value" /\ Return
    \/ PopUndo \/ UndoOk \/ RollbackDone
    \/ ReplaceDone \/ RecoverDone
    \/ \E t \in DOMAIN stack : Propagate(t) \/ GraceEnds(t)

Next ==
    \/ Progress
    \/ \E o \in Objects : Refuse(o)
    \/ \E o \in Objects \cup {NoObject}, own \in BOOLEAN : Call(o, own)
    \/ Succeed \/ Fail \/ Report
    \/ \E kind \in Kinds, key \in Keys \cup {NoKey}, dir \in Dirs :
          Enter(kind, key, dir)
    \/ TooDeep \/ Return \/ UndoFails \/ Replace \/ Recover
    \/ \E t \in DOMAIN stack : Fire(t)

\* The runtime's own steps are taken.  A branch is suspended again and again,
\* which is when the arms of wait_timeout are polled.  A syscall may take
\* forever, and a program may run forever.
Fairness ==
    /\ WF_vars(Progress)
    /\ \A t \in 1 .. MaxDepth : SF_vars(t \in DOMAIN stack /\ Propagate(t))

Spec == Init /\ [][Next]_vars
FairSpec == Spec /\ Fairness

-----------------------------------------------------------------------------
(* Properties *)

TypeOK ==
    /\ stack \in Seq(Frames)
    /\ mode \in Modes
    /\ mode = "rollback" => stack # << >>
    /\ inflight \in Inflight
    /\ undo \in Seq(Undos)
    /\ popped \in SUBSET Undos
    /\ failed \in BOOLEAN
    /\ irreversible \in BOOLEAN
    /\ owned \in SUBSET Objects
    /\ cwd \in Dirs
    /\ idem \in [Keys -> {"none", "committed", "reverted"}]
    /\ world \in Worlds
    /\ ops \in Nat
    /\ sent \in SUBSET Nat
    /\ origin \in [world : Worlds, ops : Nat]
    /\ done \in [Keys -> SUBSET Nat]
    /\ undone \in SUBSET Nat
    /\ stray \in SUBSET Nat

\* Replace's gate ("first undo everything, then run the target"): when it lets
\* the target run, the world is what it was when the segment started, and
\* nothing irreversible has happened since.
GateSound ==
    mode = "replacing" /\ Recovered /\ ~failed /\ ~irreversible =>
        /\ world = origin.world
        /\ \A n \in sent : n <= origin.ops

\* A Timeout that fired and whose undos succeeded runs on_timeout in the world
\* its action started in, whatever was nested in that action.
TimeoutRestores ==
    mode = "rollback" /\ popped = {} /\ Len(undo) <= Top.mark /\ ~failed =>
        world = Top.world

\* run_wall_timeout "rolls back the undos the inner action has pushed": none of
\* them is left on the stack when on_timeout runs, in programs without a
\* Replace inside a Timeout.
TimeoutUndoesInner ==
    mode = "rollback" /\ popped = {} /\ Len(undo) <= Top.mark =>
        \A i \in DOMAIN undo : undo[i].op <= Top.ops

\* A4 across going back: an Own whose effect may still be undone, and so still
\* stands, keeps its mark, and every further usage is refused.
OwnHolds == \A i \in DOMAIN undo : undo[i].own => undo[i].obj \in owned

\* Scope, "restored unconditionally on exit": outside io the cwd is always the
\* directory of the innermost Scope still open.
ScopeCwd ==
    LET scopes == {i \in DOMAIN stack : stack[i].kind = "scope"} IN
    \/ scopes = {} /\ cwd = HomeDir
    \/ \E i \in scopes : cwd = stack[i].dir /\ \A j \in scopes : j <= i

\* The idempotency registry and the undo stack agree: a key is COMMITTED, and
\* its segment skipped, exactly while the undo that reverts it is recorded.
CommittedRevertible ==
    \A k \in Keys :
        idem[k] = "committed" <=> \E i \in DOMAIN undo : undo[i].key = k

\* "Exactly once": while the segment of a key runs, every effect of an earlier
\* successful run of that segment has been taken back by its undo, unless that
\* undo has failed, or it or the call was cut short by a grace.
ExactlyOnce ==
    \A i \in DOMAIN stack :
        stack[i].kind = "idem" => done[stack[i].key] \subseteq undone \cup stray

\* A Timeout that has fired always gets to on_timeout or to its error, even if
\* the syscall it interrupts never returns.
TimeoutAnswers ==
    \A t \in 1 .. MaxDepth :
        (t \in DOMAIN stack /\ stack[t].fired)
            ~> ~(t \in DOMAIN stack /\ stack[t].fired)

\* Undoing step by step implements going back to a checkpoint at once: while
\* undos run, the abstract world is already the one they lead to, unless one
\* of Replace's or recover's has failed.
Regressing == mode \in {"replacing", "recovering"}

Goal ==
    CASE mode = "rollback" -> Top.world
      [] Regressing /\ ~failed -> origin.world
      [] OTHER -> world

Checkpointed ==
    [t \in {0} \cup Timeouts |->
        IF t # 0 THEN stack[t].world
        ELSE IF Regressing /\ failed THEN world ELSE origin.world]

Abstract == INSTANCE Checkpoints WITH
    Value <- Nat, Levels <- 1 .. MaxDepth,
    world <- Goal, checkpoints <- Checkpointed, failed <- Regressing /\ failed
ImplementsCheckpoints == Abstract!Spec

=============================================================================
