---------------------------- MODULE FileSystem ----------------------------
(***************************************************************************)
(* The part of the operating system that TokioExecutor's file operations   *)
(* act on: names, inodes and open file descriptions, as the value fs.  A   *)
(* description is what a handle and its duplicates share, cursor included. *)
(* Contents are sequences of numbers.  The unix of OpenOptions.            *)
(***************************************************************************)
EXTENDS Naturals, Sequences

CONSTANT Paths      \* the names programs use, all in one directory

NoFile == 0
Hole == 0           \* what a write past the end leaves before it

Larger(m, n) == IF m > n THEN m ELSE n
Smaller(m, n) == IF m < n THEN m ELSE n

Flags == [read : BOOLEAN, write : BOOLEAN, append : BOOLEAN, create : BOOLEAN,
          truncate : BOOLEAN, exclusive : BOOLEAN]

Files == [name : [Paths -> Nat],
          data : Seq(Seq(Nat)),
          desc : Seq([ino : Nat, pos : Nat, read : BOOLEAN, write : BOOLEAN,
                      append : BOOLEAN])]

Exists(fs, p) == fs.name[p] # NoFile
PathData(fs, p) == fs.data[fs.name[p]]
Data(fs, d) == fs.data[fs.desc[d].ino]

\* What is at p: at most one sequence of contents.
FileAt(fs, p) == IF Exists(fs, p) THEN {PathData(fs, p)} ELSE {}

Resized(c, n) == [i \in 1..n |-> IF i <= Len(c) THEN c[i] ELSE Hole]

Spliced(c, at, bytes) ==
    [i \in 1..Larger(Len(c), at + Len(bytes)) |->
        IF i \in at + 1..at + Len(bytes) THEN bytes[i - at]
        ELSE Resized(c, i)[i]]

Seek(fs, d, pos) == [fs EXCEPT !.desc[d].pos = pos]

SetLen(fs, d, n) ==
    [fs EXCEPT !.data[fs.desc[d].ino] = Resized(Data(fs, d), n)]

ReadHere(fs, d, n) ==
    SubSeq(Data(fs, d), fs.desc[d].pos + 1,
           Smaller(fs.desc[d].pos + n, Len(Data(fs, d))))

\* O_APPEND ignores the cursor, but moves it.
WriteHere(fs, d, bytes) ==
    LET at == IF fs.desc[d].append THEN Len(Data(fs, d)) ELSE fs.desc[d].pos
    IN  IF bytes = << >> THEN fs
        ELSE [fs EXCEPT !.data[fs.desc[d].ino] = Spliced(Data(fs, d), at, bytes),
                        !.desc[d].pos = at + Len(bytes)]

PathSetLen(fs, p, n) ==
    [fs EXCEPT !.data[fs.name[p]] = Resized(PathData(fs, p), n)]

Created(fs, p) ==
    [fs EXCEPT !.name[p] = Len(fs.data) + 1, !.data = Append(fs.data, << >>)]

\* Create unless there, truncate, and write c.
PathPut(fs, p, c) ==
    LET there == IF Exists(fs, p) THEN fs ELSE Created(fs, p)
    IN  [there EXCEPT !.data[there.name[p]] = c]

Unlinked(fs, p) == [fs EXCEPT !.name[p] = NoFile]

\* A file already called to loses its name.
Renamed(fs, from, to) ==
    [fs EXCEPT !.name[to] = fs.name[from], !.name[from] = NoFile]

CanOpen(fs, p, f) ==
    /\ f.read \/ f.write \/ f.append
    /\ f.create \/ f.truncate \/ f.exclusive => f.write \/ f.append
    /\ f.truncate /\ f.append => f.exclusive
    /\ IF Exists(fs, p) THEN ~f.exclusive ELSE f.create \/ f.exclusive

\* exclusive overrides create and truncate.
Opened(fs, p, f) ==
    LET there == IF Exists(fs, p) THEN fs ELSE Created(fs, p)
        ready == IF f.truncate THEN PathSetLen(there, p, 0) ELSE there
    IN  [ready EXCEPT !.desc = Append(ready.desc,
            [ino |-> ready.name[p], pos |-> 0, read |-> f.read,
             write |-> f.write \/ f.append, append |-> f.append])]

=============================================================================
