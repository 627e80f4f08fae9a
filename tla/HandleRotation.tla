---------------------------- MODULE HandleRotation ----------------------------
(***************************************************************************)
(* The handles of TokioExecutor that are not files (executor.rs): TCP       *)
(* streams and children, which a syscall takes out of the registry while it *)
(* uses them and puts back under a new fd; pipes, whose halves stay where   *)
(* they are; listeners and UDP sockets, which are looked up.                *)
(*                                                                          *)
(* A program keeps calling a stream by the fd it was given and a child by   *)
(* its pid: both are names here, and stream_fds and children say which      *)
(* registry fd a name has now.  The executor's tables are shared by the     *)
(* branches of a Fork, each of which has its own registry.                  *)
(*                                                                          *)
(* A handle is called by its first fd, and so is a child by its pid.  fds   *)
(* come from one counter for all branches: they are distinct in the code    *)
(* because of the regions of ForkRegistry.                                  *)
(***************************************************************************)
EXTENDS Naturals, FiniteSets

CONSTANTS
    MaxFds,         \* bound on the fds ever allocated
    Kinds,          \* the handles programs open
    DropIn,         \* the kinds whose awaits a timeout's grace may run out in
    Drops,          \* TRUE: timeouts drop parallel Forks
    Root,           \* the branch of the main program
    Left, Right     \* the branches of its Forks

Rotating == {"stream", "child"}
AllKinds == Rotating \cup {"pipe", "direct"}

ASSUME KindAssumption ==
    /\ MaxFds \in Nat
    /\ Kinds \subseteq AllKinds
    /\ DropIn \subseteq Rotating
    /\ Drops \in BOOLEAN
    /\ Left # Right /\ Root \notin {Left, Right}

VARIABLES
    next,           \* the next fd
    reg,            \* reg[b][r]: the handle at fd r of the branch's registry
    current,        \* stream_fds and children: the registry fd of a name
    pipes,          \* the fds in pipe_readers and pipe_writers
    taken,          \* taken[b]: what the syscall b awaits holds
    phase,          \* of the Fork
    kind,           \* of each handle
    handle,         \* history: the handle a name was given for
    seen,           \* history: the names b's program was given
    closed,         \* history: the names closed, reaped, or lost with an error
                    \* or with a Wait that was dropped
    strayed         \* history: the names a branch rotated or ended although
                    \* another registry has their handle as well

table == <<current, pipes>>
history == <<kind, handle, seen, closed, strayed>>
vars == <<next, reg, table, taken, phase, history>>

Children == {Left, Right}
Branches == {Root} \cup Children

None == 0
Fds == 1 .. MaxFds
Idle == [name |-> None, handle |-> None]
NoHandles == [r \in Fds |-> None]

Init ==
    /\ next = 1
    /\ reg = [b \in Branches |-> NoHandles]
    /\ current = [n \in Fds |-> None]
    /\ pipes = {}
    /\ taken = [b \in Branches |-> Idle]
    /\ phase = "alone"
    /\ kind = [h \in Fds |-> "direct"]
    /\ handle = [n \in Fds |-> None]
    /\ seen = [b \in Branches |-> {}]
    /\ closed = {}
    /\ strayed = {}

\* A parent is suspended while its branches run; an orphan starts nothing.
Active == IF phase = "forked" THEN Children ELSE {Root}
Ready(b) == b \in Active /\ taken[b] = Idle

\* k more fds, besides those the pending syscalls will put back.  (Bound.)
Pending(b) == IF taken[b] = Idle THEN 0 ELSE 1
Room(k) == next + k + Pending(Root) + Pending(Left) + Pending(Right) <= MaxFds + 1

\* translated_fd(n).unwrap_or(n)
Translated(n) == IF current[n] # None THEN current[n] ELSE n

\* Arc::get_mut, once the handle is taken from b's fd r: no other registry
\* entry and no other syscall has it.
Sole(b, r) ==
    LET h == reg[b][r] IN
    /\ \A c \in Branches, s \in Fds : reg[c][s] = h => c = b /\ s = r
    /\ \A c \in Branches : taken[c].handle # h

\* What b does to its name n is not what the other registries will see.
Strays(b, n, h) ==
    IF \E c \in Branches \ {b}, s \in Fds : b # Root /\ reg[c][s] = h
    THEN {n} ELSE {}

\* A copy of what another branch has closed or rotated is as lost.
CopyStrays(n) == IF n \in closed \cup strayed THEN {next} ELSE {}

-----------------------------------------------------------------------------
(* Opening *)

\* A new handle, under a name that is its fd.  What is not rotating is only
\* looked up later (a listener by Accept, a socket by SendTo and RecvFrom).
Open(b, k) ==
    /\ Ready(b)
    /\ Room(1)
    /\ k \in Kinds \ {"pipe"}
    /\ next' = next + 1
    /\ reg' = [reg EXCEPT ![b][next] = next]
    /\ current' = IF k \in Rotating THEN [current EXCEPT ![next] = next] ELSE current
    /\ kind' = [kind EXCEPT ![next] = k]
    /\ handle' = [handle EXCEPT ![next] = next]
    /\ seen' = [seen EXCEPT ![b] = @ \cup {next}]
    /\ UNCHANGED <<pipes, taken, phase, closed, strayed>>

Bind(b) == Open(b, "direct")        \* TcpBind, UdpBind
Connect(b) == Open(b, "stream")     \* TcpConnect, TcpAccept
Spawn(b) == Open(b, "child")

\* The reader, then the writer.
PipeOpen(b) ==
    /\ Ready(b)
    /\ Room(2)
    /\ "pipe" \in Kinds
    /\ next' = next + 2
    /\ reg' = [reg EXCEPT ![b] = [@ EXCEPT ![next] = next, ![next + 1] = next + 1]]
    /\ pipes' = pipes \cup {next, next + 1}
    /\ kind' = [kind EXCEPT ![next] = "pipe", ![next + 1] = "pipe"]
    /\ handle' = [handle EXCEPT ![next] = next, ![next + 1] = next + 1]
    /\ seen' = [seen EXCEPT ![b] = @ \cup {next, next + 1}]
    /\ UNCHANGED <<current, taken, phase, closed, strayed>>

\* A cached half is dead once the registry of the branch has lost its fd.
pipe_fd_stale(b, n) == n \in pipes /\ reg[b][n] = None

\* What Read, Write and SendFile do to a pipe goes through the lock of the
\* half, shared or not, and changes none of the tables.
PipeFound(b, n) == n \in pipes /\ ~pipe_fd_stale(b, n)

-----------------------------------------------------------------------------
(* Take, await, put back *)

\* The name leads to a handle.  Otherwise the call is NotFound and changes
\* nothing, which is a stuttering step.
Found(b, n) ==
    /\ Ready(b)
    /\ n \in seen[b]
    /\ kind[handle[n]] \in Rotating
    /\ current[n] # None
    /\ reg[b][current[n]] # None

\* TcpRead, TcpWrite, Write and SendFile to a stream, Wait: the handle is in
\* hand while the call awaits.
Take(b, n) ==
    /\ Found(b, n)
    /\ Room(1)
    /\ Sole(b, current[n])
    /\ taken' = [taken EXCEPT ![b] = [name |-> n, handle |-> reg[b][current[n]]]]
    /\ reg' = [reg EXCEPT ![b][current[n]] = None]
    /\ UNCHANGED <<next, table, phase, history>>

\* Without an await the handle changes its fd at once.
Rotate(b, n) ==
    /\ Found(b, n)
    /\ Room(1)
    /\ next' = next + 1
    /\ reg' = [reg EXCEPT ![b] = [@ EXCEPT ![current[n]] = None,
                                           ![next] = reg[b][current[n]]]]
    /\ current' = [current EXCEPT ![n] = next]
    /\ strayed' = strayed \cup Strays(b, n, reg[b][current[n]])
    /\ UNCHANGED <<pipes, taken, phase, kind, handle, seen, closed>>

\* TcpShutdown, its failures included, and any call that finds the stream
\* shared (InvalidInput).
Shutdown(b, n) == Rotate(b, n) /\ kind[handle[n]] = "stream"

\* Kill, and a Wait that finds the child shared.
Kill(b, n) == Rotate(b, n) /\ kind[handle[n]] = "child"

\* The way of TcpShutdown through std fails at its ends (into_std, from_std):
\* the stream is closed, and the entry of stream_fds is left.
ShutdownLoses(b, n) ==
    /\ Found(b, n)
    /\ kind[handle[n]] = "stream"
    /\ Sole(b, current[n])
    /\ reg' = [reg EXCEPT ![b][current[n]] = None]
    /\ closed' = closed \cup {n}
    /\ UNCHANGED <<next, table, taken, phase, kind, handle, seen, strayed>>

Awaits(b, k) == taken[b] # Idle /\ kind[taken[b].handle] = k

\* put_back finds its name in stream_fds or leaves that alone, put_child_back
\* inserts.
GiveBack(b) ==
    LET n == taken[b].name IN
    /\ next' = next + 1
    /\ reg' = [reg EXCEPT ![b][next] = taken[b].handle]
    /\ current' = IF current[n] # None \/ Awaits(b, "child")
                  THEN [current EXCEPT ![n] = next] ELSE current
    /\ taken' = [taken EXCEPT ![b] = Idle]
    /\ UNCHANGED <<pipes, phase, history>>

\* The call is over: IO done or failed, wait failed.
CallReturns(b) == taken[b] # Idle /\ GiveBack(b)

\* wait succeeds: the pid is forgotten, and the Child dropped.
Reaped(b) ==
    /\ Awaits(b, "child")
    /\ current' = [current EXCEPT ![taken[b].name] = None]
    /\ closed' = closed \cup {taken[b].name}
    /\ taken' = [taken EXCEPT ![b] = Idle]
    /\ UNCHANGED <<next, reg, pipes, phase, kind, handle, seen, strayed>>

\* Mutant: as before the guard (R7-A), the stream goes with the future.
StreamLost(b) ==
    /\ "stream" \in DropIn
    /\ b \in Active
    /\ Awaits(b, "stream")
    /\ taken' = [taken EXCEPT ![b] = Idle]
    /\ UNCHANGED <<next, reg, table, phase, history>>

\* The grace is over and the future dropped: TakeHandleGuard::drop.
StreamDropped(b) ==
    /\ "stream" \in DropIn
    /\ b \in Active
    /\ Awaits(b, "stream")
    /\ GiveBack(b)

\* Wait has no guard: the Child is dropped with the future, and its pid kept.
WaitDropped(b) ==
    /\ "child" \in DropIn
    /\ b \in Active
    /\ Awaits(b, "child")
    /\ closed' = closed \cup {taken[b].name}
    /\ taken' = [taken EXCEPT ![b] = Idle]
    /\ UNCHANGED <<next, reg, table, phase, kind, handle, seen, strayed>>

-----------------------------------------------------------------------------
(* Dup, Dup2, Close *)

Live(b, n) ==
    /\ Ready(b)
    /\ n \in seen[b]
    /\ kind[handle[n]] # "child"    \* the fd of a child is known to no program
    /\ reg[b][Translated(n)] # None

\* The copy shares the handle and gets entries of its own.
Dup(b, n) ==
    LET h == reg[b][Translated(n)] IN
    /\ Live(b, n)
    /\ Room(1)
    /\ next' = next + 1
    /\ reg' = [reg EXCEPT ![b][next] = h]
    /\ current' = IF current[n] # None THEN [current EXCEPT ![next] = next] ELSE current
    /\ pipes' = IF n \in pipes THEN pipes \cup {next} ELSE pipes
    /\ handle' = [handle EXCEPT ![next] = h]
    /\ strayed' = strayed \cup CopyStrays(n)
    /\ seen' = [seen EXCEPT ![b] = @ \cup {next}]
    /\ UNCHANGED <<taken, phase, kind, closed>>

\* Mutant: the handle stays in the registry.
CloseMapped(b, n) ==
    /\ Live(b, n)
    /\ current' = [current EXCEPT ![n] = None]
    /\ pipes' = pipes \ {n}
    /\ closed' = closed \cup {n}
    /\ strayed' = strayed \cup Strays(b, n, reg[b][Translated(n)])
    /\ UNCHANGED <<next, reg, taken, phase, kind, handle, seen>>

Close(b, n) ==
    /\ Live(b, n)
    /\ reg' = [reg EXCEPT ![b][Translated(n)] = None]
    /\ current' = [current EXCEPT ![n] = None]
    /\ pipes' = pipes \ {n}
    /\ closed' = closed \cup {n}
    /\ strayed' = strayed \cup Strays(b, n, reg[b][Translated(n)])
    /\ UNCHANGED <<next, taken, phase, kind, handle, seen>>

\* Close the one, then duplicate the other to a fd of its own (D1).  If the
\* other is dead only the Close happens.
Dup2(b, n, m) ==
    LET h == reg[b][Translated(n)] IN
    /\ n # m
    /\ Live(b, n)
    /\ Live(b, m)
    /\ Room(1)
    /\ next' = next + 1
    /\ reg' = [reg EXCEPT ![b] = [@ EXCEPT ![Translated(m)] = None, ![next] = h]]
    /\ current' = [current EXCEPT ![m] = None,
                                  ![next] = IF current[n] # None THEN next ELSE None]
    /\ pipes' = (pipes \ {m}) \cup (IF n \in pipes THEN {next} ELSE {})
    /\ handle' = [handle EXCEPT ![next] = h]
    /\ seen' = [seen EXCEPT ![b] = @ \cup {next}]
    /\ closed' = closed \cup {m}
    /\ strayed' = strayed \cup Strays(b, m, reg[b][Translated(m)]) \cup CopyStrays(n)
    /\ UNCHANGED <<taken, phase, kind>>

-----------------------------------------------------------------------------
(* Replace and Fork *)

\* clear: the branch's handles are dropped, the tables of the executor stay.
\* What the program still knows by name is NotFound from now on.
Replace(b) ==
    /\ Ready(b)
    /\ reg' = [reg EXCEPT ![b] = NoHandles]
    /\ seen' = [seen EXCEPT ![b] = {}]
    /\ UNCHANGED <<next, table, taken, phase, kind, handle, closed, strayed>>

\* The registry is cloned, the tables are shared.
Fork ==
    /\ phase = "alone"
    /\ Ready(Root)
    /\ phase' = "forked"
    /\ reg' = [b \in Branches |-> reg[Root]]
    /\ seen' = [b \in Branches |-> seen[Root]]
    /\ UNCHANGED <<next, table, taken, kind, handle, closed, strayed>>

\* Mutant: a merge keeps what it has but takes nothing over.
KeepsOwn(self, other) == self

\* ResourceRegistry::merge
Merged(self, other) == [r \in Fds |-> IF other[r] # None THEN other[r] ELSE self[r]]

\* The branches in done have ended and are merged, left before right.
Joined(done) ==
    LET left == IF Left \in done THEN Merged(reg[Root], reg[Left]) ELSE reg[Root]
        both == IF Right \in done THEN Merged(left, reg[Right]) ELSE left
    IN
    /\ reg' = [b \in Branches |-> CASE b = Root -> both
                                    [] b \in done -> NoHandles
                                    [] OTHER -> reg[b]]
    /\ seen' = [b \in Branches |-> CASE b = Root -> seen[Root] \cup UNION {seen[c] : c \in done}
                                     [] OTHER -> {}]

Join ==
    /\ phase = "forked"
    /\ \A b \in Children : taken[b] = Idle
    /\ Joined(Children)
    /\ phase' = "alone"
    /\ UNCHANGED <<next, table, taken, kind, handle, closed, strayed>>

\* A timeout drops a parallel Fork: what has ended is merged (ForkJoinMerge),
\* the rest goes on as orphans whose registries nobody will see.
DropFork(done) ==
    /\ Drops
    /\ phase = "forked"
    /\ done # Children
    /\ \A b \in done : taken[b] = Idle
    /\ Joined(done)
    /\ phase' = "orphans"
    /\ UNCHANGED <<next, table, taken, kind, handle, closed, strayed>>

\* An orphan is done with its syscall and finds itself cancelled.
OrphanEnds(b) ==
    /\ phase = "orphans"
    /\ b \in Children
    /\ taken[b] = Idle
    /\ reg[b] # NoHandles
    /\ reg' = [reg EXCEPT ![b] = NoHandles]
    /\ UNCHANGED <<next, table, taken, phase, history>>

\* (Bound: no Fork while there are orphans.)
OrphansGone ==
    /\ phase = "orphans"
    /\ \A b \in Children : reg[b] = NoHandles /\ taken[b] = Idle
    /\ phase' = "alone"
    /\ UNCHANGED <<next, reg, table, taken, history>>

-----------------------------------------------------------------------------

Next ==
    \/ \E b \in Branches :
        \/ Bind(b) \/ Connect(b) \/ Spawn(b) \/ PipeOpen(b)
        \/ \E n \in Fds : Take(b, n) \/ Shutdown(b, n) \/ ShutdownLoses(b, n) \/ Kill(b, n)
        \/ CallReturns(b) \/ Reaped(b) \/ StreamDropped(b) \/ WaitDropped(b)
        \/ \E n \in Fds : Dup(b, n) \/ Close(b, n)
        \/ \E n, m \in Fds : Dup2(b, n, m)
        \/ Replace(b)
        \/ OrphanEnds(b)
    \/ Fork \/ Join \/ OrphansGone
    \/ \E done \in SUBSET Children : DropFork(done)

Spec == Init /\ [][Next]_vars

-----------------------------------------------------------------------------
(* Properties *)

TypeOK ==
    /\ next \in 1 .. MaxFds + 1
    /\ reg \in [Branches -> [Fds -> Fds \cup {None}]]
    /\ current \in [Fds -> Fds \cup {None}]
    /\ pipes \in SUBSET Fds
    /\ taken \in [Branches -> [name : Fds, handle : Fds] \cup {Idle}]
    /\ phase \in {"alone", "forked", "orphans"}
    /\ kind \in [Fds -> AllKinds]
    /\ handle \in [Fds -> Fds \cup {None}]
    /\ seen \in [Branches -> SUBSET Fds]
    /\ closed \in SUBSET Fds
    /\ strayed \in SUBSET Fds

\* "The executor hides the rotation" (executor.rs 24-27): whatever was called,
\* refused, failed or dropped, a name that is open leads to the handle it was
\* given for, in every branch that has it, unless the call that holds the
\* handle will put it back.  Left out are names that any branch has closed, and
\* names (strayed) of which a branch's Fork has left two copies.
Reachable(b, n) ==
    \/ taken[b] = [name |-> n, handle |-> handle[n]]
    \/ current[n] # None /\ reg[b][current[n]] = handle[n]

HandleReachable ==
    \A b \in Branches : \A n \in seen[b] \ (closed \cup strayed) :
        kind[handle[n]] \in Rotating => Reachable(b, n)

\* &mut access comes back after a Fork: when no branch is left, a handle that
\* no branch has strayed with is shared by just as many registry entries as
\* there are open names for it, so that one with a single name is usable.
EntriesMatchNames ==
    phase = "alone" =>
        \A h \in Fds :
            LET open == {n \in seen[Root] \ closed : handle[n] = h}
                entries == {r \in Fds : reg[Root][r] = h}
                inHand == {b \in {Root} : taken[b].handle = h}
            IN  /\ kind[h] \in Rotating
                /\ open # {}
                /\ \A n \in strayed : handle[n] # h
                => Cardinality(entries) + Cardinality(inHand) = Cardinality(open)

\* RFC-07: a pipe's halves stay usable under their fds in every branch that
\* has them open, also when the other branch calls Replace; a Close there does
\* take them away, as the table of pipes is shared, and is left out.
PipesUsable ==
    \A b \in Branches : \A n \in seen[b] \ (closed \cup strayed) :
        kind[handle[n]] = "pipe" => PipeFound(b, n)

=============================================================================
