------------------------------ MODULE FileOps ------------------------------
(***************************************************************************)
(* The file operations of TokioExecutor (executor.rs), their inverses, and *)
(* the going back of Replace, in one branch or in the two branches of a    *)
(* parallel Fork.  The tables of the executor are shared by the branches,  *)
(* each branch has a registry clone: a set of live fds.  The names and     *)
(* files themselves are FileSystem's.                                      *)
(*                                                                         *)
(* An operation on a description holds its lock throughout and is one      *)
(* step; Open, Truncate and SendFile look first and act after an await,    *)
(* and are two.  An inverse is one step.  The n-th call writes n's.        *)
(***************************************************************************)
EXTENDS FileSystem, FiniteSets, Functions

CONSTANTS
    Ops,                \* the operations programs use
    Access,             \* the OpenFlags they use
    Inherited,          \* the OpenFlags of the file opened before
    Offsets,            \* the cursors and lengths programs ask for
    Lengths,            \* the sizes of what they read and write
    FULL_UNDO_MAX_BYTES,
    MaxCalls,           \* bound on the calls
    Forks,              \* TRUE: a program may Fork
    Sharing             \* TRUE: its branches may use the same files

AllOps == {"open", "read", "seek", "write", "send", "truncate", "unlink",
           "rename", "dup", "dup2", "close", "replace"}

ASSUME AccessAssumption ==
    /\ Ops \subseteq AllOps
    /\ Access \subseteq Flags
    /\ Inherited \subseteq Flags
    /\ \A f \in Inherited : ~f.create /\ ~f.truncate /\ ~f.exclusive
    /\ \A f \in Inherited : f.read \/ f.write \/ f.append
ASSUME BoundAssumption ==
    /\ IsFiniteSet(Paths)
    /\ Offsets \subseteq Nat
    /\ Lengths \subseteq Nat \ {0}
    /\ FULL_UNDO_MAX_BYTES \in Nat
    /\ MaxCalls \in Nat
    /\ Forks \in BOOLEAN
    /\ Sharing \in BOOLEAN

VARIABLES
    fs,             \* the file system
    files,          \* TokioExecutor.files: the description behind each fd
    append_fds,     \* TokioExecutor.append_fds
    live,           \* the fds in each branch's registry
    phase,          \* whether the Fork is before, under way or over
    call,           \* what each branch awaits in the middle of
    undo,           \* UndoStack.ops of each branch
    irreversible,   \* UndoStack.irreversible
    failed,         \* first_err of recover
    calls,          \* history: how many calls there were
    reach,          \* history: the paths and descriptions left to a branch
    closed,         \* history: the fds closed, or duplicated when closed elsewhere
    drift,          \* history: descriptions moved without an inverse
    gaps            \* history: changes of names without a full inverse

vars == <<fs, files, append_fds, live, phase, call, undo, irreversible, failed,
          calls, reach, closed, drift, gaps>>

\* What only programs and histories are about.
registries == <<live, phase, reach>>
back == <<undo, irreversible, failed>>

Branches == {"main", "left", "right"}
NoDesc == 0         \* of an fd the table has no entry for
NoCall == [op |-> "none"]

\* What is observable: the file at every path and the cursors.
View == [file |-> [p \in Paths |-> FileAt(fs, p)],
         cursor |-> [d \in DOMAIN fs.desc |-> fs.desc[d].pos]]

Nowhere == [paths |-> {}, descs |-> {}]

Init ==
    /\ \E names \in SUBSET Paths, f \in Inherited : \E p0 \in names :
         \E named \in Injection(names, 1..Cardinality(names)) :
             /\ fs = Opened([name |-> [p \in Paths |->
                                         IF p \in names THEN named[p] ELSE NoFile],
                             data |-> [i \in 1..Cardinality(names) |->
                                         <<100 + i, 110 + i>>],
                             desc |-> << >>], p0, f)
             /\ append_fds = IF f.append THEN {0} ELSE {}
    /\ files = [n \in {0} |-> 1]
    /\ live = [b \in Branches |-> IF b = "main" THEN {0} ELSE {}]
    /\ phase = "alone"
    /\ call = [b \in Branches |-> NoCall]
    /\ undo = [b \in Branches |-> << >>]
    /\ irreversible = [b \in Branches |-> FALSE]
    /\ failed = [b \in Branches |-> FALSE]
    /\ calls = 0
    /\ reach = [b \in Branches |->
                  IF b = "main" THEN [paths |-> Paths, descs |-> {1}] ELSE Nowhere]
    /\ closed = {}
    /\ drift = {}
    /\ gaps = {}

-----------------------------------------------------------------------------
(* Calls.  One that fails and changes nothing is a stuttering step. *)

Runs(b) == IF phase = "forked" THEN b # "main" ELSE b = "main"
Idle(b) == Runs(b) /\ call[b] = NoCall

\* A call of b that is over in one step, or its first step.
Starts(b, op) ==
    /\ op \in Ops
    /\ Idle(b)
    /\ calls < MaxCalls
    /\ calls' = calls + 1
Whole(b, op) == Starts(b, op) /\ UNCHANGED call
Looks(b, c) ==
    /\ Starts(b, c.op)
    /\ call' = [call EXCEPT ![b] = c]
\* Its second.
Acts(b, op) ==
    /\ Runs(b)
    /\ call[b].op = op
    /\ call' = [call EXCEPT ![b] = NoCall]
    /\ UNCHANGED calls

file_fd_stale(b, fd) == files[fd] # NoDesc /\ fd \notin live[b]

\* The description an operation on fd gets to work on.
FileOf(b, fd) ==
    {d \in {files[fd]} : ~file_fd_stale(b, fd) /\ d # NoDesc}

MayUse(b, fd) == files[fd] \in reach[b].descs \cup {NoDesc}

Identity == [op |-> "identity"]
NonInvertible == [op |-> "noninvertible"]

\* What the interpreter does with the capability a call returns.
Settle(b, cap, before) ==
    /\ undo' = IF cap \in {Identity, NonInvertible} THEN undo
               ELSE [undo EXCEPT ![b] = Append(@,
                        [inverse |-> cap, before |-> before, scope |-> reach[b]])]
    /\ irreversible' = [irreversible EXCEPT ![b] = @ \/ cap = NonInvertible]
    /\ UNCHANGED failed

\* try_exists, and the contents truncate is about to cut off.
OpenLook(b, p, f) ==
    /\ p \in reach[b].paths
    /\ Looks(b, [op |-> "open", path |-> p, flags |-> f, existed |-> Exists(fs, p),
                 orig |-> {c \in FileAt(fs, p) :
                             f.truncate /\ Len(c) < FULL_UNDO_MAX_BYTES},
                 before |-> View])
    /\ UNCHANGED <<fs, files, append_fds, registries, back, closed, drift, gaps>>

\* Mutants of OpenInverse: existence is asked too late, or never.
OpenInverseLate(c) ==
    IF c.orig # {}
    THEN [op |-> "restore", path |-> c.path, data |-> CHOOSE o \in c.orig : TRUE]
    ELSE IF c.flags.truncate THEN NonInvertible ELSE Identity
OpenInverseAlways(c) ==
    IF c.flags.create THEN [op |-> "unlink", path |-> c.path] ELSE Identity

OpenInverse(c) ==
    IF c.orig # {}
    THEN [op |-> "restore", path |-> c.path, data |-> CHOOSE o \in c.orig : TRUE]
    ELSE IF c.flags.create /\ ~c.existed
    THEN [op |-> "unlink", path |-> c.path]
    ELSE IF c.flags.truncate THEN NonInvertible ELSE Identity

\* allocate: fds are never used again.
NewFd == Cardinality(DOMAIN files)

\* The table t with d behind the new fd.
Inserted(t, d) == [n \in 0..NewFd |-> IF n = NewFd THEN d ELSE t[n]]

OpenAct(b) ==
    LET c == call[b]
        d == Len(fs.desc) + 1
    IN  /\ Acts(b, "open")
        /\ \/ /\ CanOpen(fs, c.path, c.flags)
              /\ fs' = Opened(fs, c.path, c.flags)
              /\ files' = Inserted(files, d)
              /\ append_fds' = append_fds \cup {n \in {NewFd} : c.flags.append}
              /\ live' = [live EXCEPT ![b] = @ \cup {NewFd}]
              /\ reach' = [reach EXCEPT ![b].descs = @ \cup {d}]
              /\ Settle(b, OpenInverse(c), c.before)
              /\ gaps' = gaps \cup {g \in {"exclusive"} :
                            ~Exists(fs, c.path) /\ ~c.flags.create}
           \/ /\ ~CanOpen(fs, c.path, c.flags)
              /\ UNCHANGED <<fs, files, append_fds, live, reach, back, gaps>>
        /\ UNCHANGED <<phase, closed, drift>>

CursorBack(d) == [op |-> "seek", desc |-> d, pos |-> fs.desc[d].pos]

Read(b, fd, n) ==
    \E d \in FileOf(b, fd) :
        /\ Whole(b, "read") /\ MayUse(b, fd)
        /\ fs.desc[d].read
        /\ fs' = Seek(fs, d, fs.desc[d].pos + Len(ReadHere(fs, d, n)))
        /\ Settle(b, CursorBack(d), View)
        /\ UNCHANGED <<files, append_fds, registries, closed, drift, gaps>>

SeekTo(b, fd, pos) ==
    \E d \in FileOf(b, fd) :
        /\ Whole(b, "seek") /\ MayUse(b, fd)
        /\ fs' = Seek(fs, d, pos)
        /\ Settle(b, CursorBack(d), View)
        /\ UNCHANGED <<files, append_fds, registries, closed, drift, gaps>>

\* What a write of n bytes is about to overwrite, and the length it is to have again.
RegionBack(d, n) ==
    [op |-> "region", desc |-> d, pos |-> fs.desc[d].pos,
     data |-> ReadHere(fs, d, n), len |-> Len(Data(fs, d))]
LengthBack(d) == [op |-> "set_len", desc |-> d, len |-> Len(Data(fs, d))]
CutBack(d) ==
    [op |-> "cut", desc |-> d, pos |-> fs.desc[d].pos, len |-> Len(Data(fs, d))]

WriteInverse(fd, d, n) ==
    IF fd \in append_fds THEN LengthBack(d)
    ELSE IF Len(Data(fs, d)) >= FULL_UNDO_MAX_BYTES THEN NonInvertible
    ELSE IF fs.desc[d].read THEN RegionBack(d, n) ELSE CutBack(d)

\* Nothing is written over that could not be read before.
Write(b, fd, n) ==
    \E d \in FileOf(b, fd) :
        LET inverse == WriteInverse(fd, d, n)
        IN  /\ Whole(b, "write") /\ MayUse(b, fd)
            /\ fs.desc[d].write
            /\ inverse = CutBack(d) => fs.desc[d].pos >= Len(Data(fs, d))
            /\ fs' = WriteHere(fs, d, [i \in 1..n |-> calls + 1])
            /\ Settle(b, inverse, View)
            /\ drift' = drift \cup {e \in {d} : inverse = LengthBack(d)}
            /\ UNCHANGED <<files, append_fds, registries, closed, gaps>>

\* The input side: the cursor moves, even if the length is then too large
\* (MAX_IO_LEN) or the read fails.
SendLook(b, out, in, offset, n) ==
    \E d \in FileOf(b, in) :
        LET there == Seek(fs, d, offset)
            bytes == ReadHere(there, d, n)
        IN  /\ out # in /\ MayUse(b, in) /\ MayUse(b, out)
            /\ drift' = drift \cup {d}
            /\ \/ /\ fs.desc[d].read
                  /\ Looks(b, [op |-> "send", out |-> out, bytes |-> bytes,
                               before |-> View])
                  /\ fs' = Seek(fs, d, offset + Len(bytes))
               \/ /\ Whole(b, "send")
                  /\ fs' = there
            /\ UNCHANGED <<files, append_fds, registries, back, closed, gaps>>

\* What one call of write may take of what it is given.
Heads(bytes) ==
    {SubSeq(bytes, 1, m) : m \in Smaller(1, Len(bytes)) .. Len(bytes)}

\* The output side, with one write; the inverse covers all there was to write.
SendAct(b) ==
    LET c == call[b]
        outs == {d \in FileOf(b, c.out) : fs.desc[d].read /\ fs.desc[d].write}
    IN  /\ Acts(b, "send")
        /\ \/ \E d \in outs, head \in Heads(c.bytes) :
                /\ fs' = WriteHere(fs, d, head)
                /\ Settle(b, RegionBack(d, Len(c.bytes)), c.before)
           \/ outs = {} /\ UNCHANGED <<fs, back>>
        /\ UNCHANGED <<files, append_fds, registries, closed, drift, gaps>>

TruncateLook(b, p, n) ==
    /\ p \in reach[b].paths
    /\ Exists(fs, p)
    /\ Looks(b, [op |-> "truncate", path |-> p, len |-> n,
                 orig |-> {c \in FileAt(fs, p) : Len(c) < FULL_UNDO_MAX_BYTES},
                 before |-> View])
    /\ UNCHANGED <<fs, files, append_fds, registries, back, closed, drift, gaps>>

TruncateInverse(c) ==
    IF c.orig = {} THEN NonInvertible
    ELSE [op |-> "restore", path |-> c.path, data |-> CHOOSE o \in c.orig : TRUE]

TruncateAct(b) ==
    LET c == call[b]
    IN  /\ Acts(b, "truncate")
        /\ \/ /\ Exists(fs, c.path)
              /\ fs' = PathSetLen(fs, c.path, c.len)
              /\ Settle(b, TruncateInverse(c), c.before)
           \/ ~Exists(fs, c.path) /\ UNCHANGED <<fs, back>>
        /\ UNCHANGED <<files, append_fds, registries, closed, drift, gaps>>

Unlink(b, p) ==
    /\ Whole(b, "unlink")
    /\ p \in reach[b].paths
    /\ Exists(fs, p)
    /\ fs' = Unlinked(fs, p)
    /\ Settle(b, NonInvertible, View)
    /\ UNCHANGED <<files, append_fds, registries, closed, drift, gaps>>

Rename(b, from, to) ==
    /\ Whole(b, "rename")
    /\ {from, to} \subseteq reach[b].paths
    /\ from # to
    /\ Exists(fs, from)
    /\ fs' = Renamed(fs, from, to)
    /\ Settle(b, [op |-> "rename", from |-> from, to |-> to], View)
    /\ gaps' = gaps \cup {g \in {"overwrite"} : Exists(fs, to)}
    /\ UNCHANGED <<files, append_fds, registries, closed, drift>>

\* Mutant of Dup: the registry gets the new fd, the table does not.
DupUntabled(b, fd) ==
    /\ Whole(b, "dup")
    /\ fd \in live[b]
    /\ live' = [live EXCEPT ![b] = @ \cup {NewFd}]
    /\ UNCHANGED <<fs, files, append_fds, phase, reach, back, closed, drift, gaps>>

\* A duplicate shares the description, but is not put into append_fds.
Dup(b, fd) ==
    /\ Whole(b, "dup")
    /\ fd \in live[b]
    /\ files' = Inserted(files, files[fd])
    /\ live' = [live EXCEPT ![b] = @ \cup {NewFd}]
    /\ closed' = closed \cup {n \in {NewFd} : fd \in closed}
    /\ UNCHANGED <<fs, append_fds, phase, reach, back, drift, gaps>>

\* new is closed first, even if old then turns out not to be there.
Dup2(b, old, new) ==
    LET kept == live[b] \ {new}
        freed == IF new \in live[b] THEN [files EXCEPT ![new] = NoDesc] ELSE files
    IN  /\ Whole(b, "dup2")
        /\ closed' = closed \cup ({new} \cap live[b])
                          \cup {n \in {NewFd} : old \in closed /\ old \in kept}
        /\ \/ /\ old \in kept
              /\ files' = Inserted(freed, files[old])
              /\ live' = [live EXCEPT ![b] = kept \cup {NewFd}]
           \/ /\ old \notin kept
              /\ files' = freed
              /\ live' = [live EXCEPT ![b] = kept]
        /\ UNCHANGED <<fs, append_fds, phase, reach, back, drift, gaps>>

Close(b, fd) ==
    /\ Whole(b, "close")
    /\ fd \in live[b]
    /\ files' = [files EXCEPT ![fd] = NoDesc]
    /\ live' = [live EXCEPT ![b] = @ \ {fd}]
    /\ closed' = closed \cup {fd}
    /\ UNCHANGED <<fs, append_fds, phase, reach, back, drift, gaps>>

-----------------------------------------------------------------------------
(* Going back *)

Replace(b) ==
    /\ "replace" \in Ops
    /\ Idle(b)
    /\ call' = [call EXCEPT ![b] = [op |-> "replace"]]
    /\ UNCHANGED <<fs, files, append_fds, registries, back, calls, closed, drift,
                   gaps>>

Undoable(u) ==
    /\ u.op = "unlink" => Exists(fs, u.path)
    /\ u.op = "rename" => Exists(fs, u.to)

\* Mutant of RegionUndone: the cursor stays behind what is put back.
RegionUndoneAdrift(u) ==
    SetLen(WriteHere(Seek(fs, u.desc, u.pos), u.desc, u.data), u.desc, u.len)

\* Under O_APPEND the old contents land at the end, where the length cuts them off.
RegionUndone(u) ==
    LET written == WriteHere(Seek(fs, u.desc, u.pos), u.desc, u.data)
    IN  Seek(SetLen(written, u.desc, u.len), u.desc, u.pos)

\* What the closures do; seek, set_len and cut ignore errors.
Undone(u) ==
    CASE u.op = "seek"    -> Seek(fs, u.desc, u.pos)
      [] u.op = "set_len" -> SetLen(fs, u.desc, u.len)
      [] u.op = "cut"     -> SetLen(Seek(fs, u.desc, u.pos), u.desc, u.len)
      [] u.op = "region"  -> RegionUndone(u)
      [] u.op = "restore" -> PathPut(fs, u.path, u.data)
      [] u.op = "unlink"  -> Unlinked(fs, u.path)
      [] u.op = "rename"  -> Renamed(fs, u.to, u.from)

Newest(b) == undo[b][Len(undo[b])]

\* An inverse that fails does not keep the ones below it from running.
UndoStep(b) ==
    /\ call[b].op = "replace"
    /\ undo[b] # << >>
    /\ undo' = [undo EXCEPT ![b] = SubSeq(@, 1, Len(@) - 1)]
    /\ \/ /\ Undoable(Newest(b).inverse)
          /\ fs' = Undone(Newest(b).inverse)
          /\ UNCHANGED failed
       \/ /\ ~Undoable(Newest(b).inverse)
          /\ failed' = [failed EXCEPT ![b] = TRUE]
          /\ UNCHANGED fs
    /\ UNCHANGED <<files, append_fds, registries, call, irreversible, calls,
                   closed, drift, gaps>>

\* Mutant of Clear: the entries of the dead fds are deleted too.
ClearTables(b) ==
    /\ live' = [live EXCEPT ![b] = {}]
    /\ files' = [n \in DOMAIN files |-> IF n \in live[b] THEN NoDesc ELSE files[n]]

\* The registry is cleared, the tables of the executor are not.
Clear(b) ==
    /\ live' = [live EXCEPT ![b] = {}]
    /\ UNCHANGED files

\* The gate: a Replace that failed or could not undo all keeps its fds.
ReplaceDone(b) ==
    /\ call[b].op = "replace"
    /\ undo[b] = << >>
    /\ call' = [call EXCEPT ![b] = NoCall]
    /\ irreversible' = [irreversible EXCEPT ![b] = FALSE]
    /\ failed' = [failed EXCEPT ![b] = FALSE]
    /\ IF failed[b] \/ irreversible[b] THEN UNCHANGED <<live, files>> ELSE Clear(b)
    /\ gaps' = gaps \cup {g \in {"refused"} : b # "main" /\ irreversible[b]}
    /\ UNCHANGED <<fs, append_fds, phase, undo, calls, reach, closed, drift>>

-----------------------------------------------------------------------------
(* Fork *)

\* Neither branch has a way to a file the other one has a way to.
Disjoint(l, r) ==
    LET inodes(x) == {fs.name[p] : p \in {q \in x.paths : Exists(fs, q)}}
                         \cup {fs.desc[d].ino : d \in x.descs}
    IN  inodes(l) \cap inodes(r) = {}

Splits ==
    LET all == reach["main"]
        rest(l) == [paths |-> all.paths \ l.paths, descs |-> all.descs \ l.descs]
        halves == [paths : SUBSET all.paths, descs : SUBSET all.descs]
    IN  IF Sharing THEN {<<all, all>>}
        ELSE {<<l, rest(l)>> : l \in {h \in halves :
                 Disjoint(h, rest(h)) /\ Nowhere \notin {h, rest(h)}}}

Fork ==
    /\ Forks
    /\ phase = "alone"
    /\ Idle("main")
    /\ phase' = "forked"
    /\ live' = [b \in Branches |-> live["main"]]
    /\ \E s \in Splits :
         reach' = [reach EXCEPT !["left"] = s[1], !["right"] = s[2]]
    /\ UNCHANGED <<fs, files, append_fds, call, back, calls, closed, drift, gaps>>

Join ==
    /\ Idle("left") /\ Idle("right")
    /\ phase' = "joined"
    /\ live' = [b \in Branches |->
                  IF b = "main" THEN UNION {live[c] : c \in Branches} ELSE {}]
    /\ undo' = [b \in Branches |->
                  IF b = "main" THEN undo["main"] \o undo["left"] \o undo["right"]
                  ELSE << >>]
    /\ irreversible' = [b \in Branches |->
                          b = "main" /\ \E c \in Branches : irreversible[c]]
    /\ reach' = [b \in Branches |->
                   IF b = "main" THEN [paths |-> Paths, descs |-> DOMAIN fs.desc]
                   ELSE Nowhere]
    /\ UNCHANGED <<fs, files, append_fds, call, failed, calls, closed, drift, gaps>>

Call(b) ==
    \/ \E p \in Paths, f \in Access : OpenLook(b, p, f)
    \/ OpenAct(b)
    \/ \E fd \in DOMAIN files, n \in Lengths : Read(b, fd, n) \/ Write(b, fd, n)
    \/ \E fd \in DOMAIN files, pos \in Offsets : SeekTo(b, fd, pos)
    \/ \E out, in \in DOMAIN files, offset \in Offsets, n \in Lengths :
         SendLook(b, out, in, offset, n)
    \/ SendAct(b)
    \/ \E p \in Paths, n \in Offsets : TruncateLook(b, p, n)
    \/ TruncateAct(b)
    \/ \E p \in Paths : Unlink(b, p)
    \/ \E p, q \in Paths : Rename(b, p, q)
    \/ \E fd \in DOMAIN files : Dup(b, fd) \/ Close(b, fd)
    \/ \E old, new \in DOMAIN files : Dup2(b, old, new)

Next ==
    \/ \E b \in Branches :
         Call(b) \/ Replace(b) \/ UndoStep(b) \/ ReplaceDone(b)
    \/ Fork
    \/ Join

Spec == Init /\ [][Next]_vars

-----------------------------------------------------------------------------
(* Properties *)

\* Every table, stack and file is of its type.
TypeOK ==
    /\ fs \in Files
    /\ files \in [0..NewFd - 1 -> 0..Len(fs.desc)]
    /\ append_fds \subseteq DOMAIN files
    /\ live \in [Branches -> SUBSET DOMAIN files]
    /\ phase \in {"alone", "forked", "joined"}
    /\ \A b \in Branches :
         call[b].op \in {"none", "open", "send", "truncate", "replace"}
    /\ irreversible \in [Branches -> BOOLEAN]
    /\ failed \in [Branches -> BOOLEAN]
    /\ calls \in 0..MaxCalls
    /\ closed \subseteq DOMAIN files
    /\ drift \subseteq DOMAIN fs.desc
    /\ gaps \subseteq {"exclusive", "overwrite", "refused"}

\* The undo u that b just ran has put back what its call found.
FilesBack(u) == \A p \in u.scope.paths : View'.file[p] = u.before.file[p]
CursorsBack(u) ==
    \A d \in u.scope.descs \cap DOMAIN u.before.cursor :
        d \in drift \/ View'.cursor[d] = u.before.cursor[d]

\* Inverses run newest first undo their calls exactly, at any point of going back:
\* every file and every cursor is what it was when the call started, whatever
\* was opened, duplicated, closed, renamed or written through other handles in
\* between.  As long as no call was irreversible, files were not lost to names
\* (gaps), and branches of a Fork kept to their own files.  Cursors that appends
\* and SendFile moved are left out.  (executor.rs, the UndoOp of every file op.)
UndoExact ==
    [][\A b \in Branches :
         UndoStep(b) /\ ~irreversible[b] /\ gaps = {}
            => FilesBack(Newest(b)) /\ CursorsBack(Newest(b))]_vars

\* Then no inverse fails either, so Replace gets to its target.
UndoSucceeds ==
    \A b \in Branches : failed[b] => irreversible[b] \/ gaps # {}

\* What a Replace in one branch does to the shared tables leaves the fds of the
\* other one usable: a live fd has its description (file_fd_stale looks, but does
\* not delete), save one that was closed in another branch: op_close deletes.
LiveFdUsable ==
    \A b \in Branches, fd \in DOMAIN files :
        fd \in live[b] \ closed => files[fd] # NoDesc

=============================================================================
