----------------------------- MODULE MCFileOps -----------------------------
\* Instances of FileOps: the ways programs open files.
EXTENDS FileOps, TLC

Opens(r, w, a, c, t, x) ==
    [read |-> r, write |-> w, append |-> a, create |-> c, truncate |-> t,
     exclusive |-> x]

ReadWrite == Opens(TRUE, TRUE, FALSE, FALSE, FALSE, FALSE)
Appending == Opens(FALSE, FALSE, TRUE, TRUE, FALSE, FALSE)
CreateNew == Opens(TRUE, TRUE, FALSE, TRUE, FALSE, FALSE)
Emptied == Opens(FALSE, TRUE, FALSE, FALSE, TRUE, FALSE)
ReadAppend == Opens(TRUE, FALSE, TRUE, FALSE, FALSE, FALSE)

Symmetry == Permutations(Paths)

MCAccess == {CreateNew, Emptied, Appending}
MCInherited == {ReadWrite, ReadAppend}
ForkAccess == {CreateNew}
ForkInherited == {ReadWrite}
=============================================================================
