--------------------------- MODULE FileOps_proofs ---------------------------
(***************************************************************************)
(* Proofs about FileOps: its types; that live fds are usable and access    *)
(* goes through a handle; and, unless the branches of a Fork share files,  *)
(* that going back is exact and never fails.                               *)
(*                                                                         *)
(* Going back: each call of a branch is taken back by the inverse it       *)
(* pushes (TakesBack), as far as can be told through what the branch       *)
(* reaches (Like).  A stack therefore leads from the system as it is       *)
(* through a chain of sets of systems that look alike (Chain, Sound), and  *)
(* along it cursors are where each call found them (Steady, Tracks).       *)
(* Other branches change nothing that shows in what a branch reaches; at   *)
(* the Join the chains of both branches follow each other, as neither      *)
(* disturbs what the other one's inverses are about.                       *)
(***************************************************************************)
EXTENDS FileOps, FiniteSetTheorems, SequenceTheorems, TLAPS

-----------------------------------------------------------------------------
(* File systems *)

\* Those in which every name and every description has its file.
Systems ==
    {x \in Files :
        /\ \A p \in Paths : x.name[p] \in 0 .. Len(x.data)
        /\ \A d \in 1 .. Len(x.desc) : x.desc[d].ino \in 1 .. Len(x.data)}

Contents == Seq(Nat)
Descriptions ==
    [ino : Nat, pos : Nat, read : BOOLEAN, write : BOOLEAN, append : BOOLEAN]

LEMMA SystemFacts ==
    ASSUME NEW x \in Systems
    PROVE  /\ x = [name |-> x.name, data |-> x.data, desc |-> x.desc]
           /\ x.name \in [Paths -> Nat]
           /\ x.data \in Seq(Contents) /\ Len(x.data) \in Nat
           /\ DOMAIN x.data = 1 .. Len(x.data)
           /\ x.desc \in Seq(Descriptions) /\ Len(x.desc) \in Nat
           /\ DOMAIN x.desc = 1 .. Len(x.desc)
           /\ \A p \in Paths : x.name[p] \in 0 .. Len(x.data)
           /\ \A i \in 1 .. Len(x.data) : x.data[i] \in Contents
           /\ \A d \in 1 .. Len(x.desc) : /\ x.desc[d] \in Descriptions
                                          /\ x.desc[d].ino \in 1 .. Len(x.data)
                                          /\ x.desc[d].pos \in Nat
                                          /\ Data(x, d) \in Contents
<1>1. x \in Files
  BY DEF Systems
<1>2. /\ x = [name |-> x.name, data |-> x.data, desc |-> x.desc]
      /\ x.name \in [Paths -> Nat]
      /\ x.data \in Seq(Contents)
      /\ x.desc \in Seq(Descriptions)
  BY <1>1 DEF Files, Contents, Descriptions
<1>3. /\ Len(x.data) \in Nat /\ DOMAIN x.data = 1 .. Len(x.data)
      /\ Len(x.desc) \in Nat /\ DOMAIN x.desc = 1 .. Len(x.desc)
      /\ \A i \in 1 .. Len(x.data) : x.data[i] \in Contents
      /\ \A d \in 1 .. Len(x.desc) : x.desc[d] \in Descriptions
  BY <1>2
<1>4. /\ \A p \in Paths : x.name[p] \in 0 .. Len(x.data)
      /\ \A d \in 1 .. Len(x.desc) : x.desc[d].ino \in 1 .. Len(x.data)
  BY DEF Systems
<1>5. \A d \in 1 .. Len(x.desc) : x.desc[d].pos \in Nat
  BY <1>3 DEF Descriptions
<1> QED
  BY <1>2, <1>3, <1>4, <1>5 DEF Data

LEMMA SystemFrom ==
    ASSUME NEW name \in [Paths -> Nat], NEW data \in Seq(Contents),
           NEW desc \in Seq(Descriptions),
           \A p \in Paths : name[p] \in 0 .. Len(data),
           \A d \in 1 .. Len(desc) : desc[d].ino \in 1 .. Len(data)
    PROVE  [name |-> name, data |-> data, desc |-> desc] \in Systems
  BY DEF Systems, Files, Contents, Descriptions

\* Two of them with the same files behind the same names and descriptions.
LEMMA DataSystem ==
    ASSUME NEW x \in Systems, NEW i \in 1 .. Len(x.data), NEW c \in Contents
    PROVE  LET y == [x EXCEPT !.data[i] = c]
           IN  /\ y \in Systems
               /\ y.name = x.name
               /\ y.desc = x.desc
               /\ Len(y.data) = Len(x.data)
               /\ y.data[i] = c
               /\ \A j \in 1 .. Len(x.data) : j # i => y.data[j] = x.data[j]
<1> DEFINE data == [x.data EXCEPT ![i] = c]
           y == [name |-> x.name, data |-> data, desc |-> x.desc]
<1>. x = [name |-> x.name, data |-> x.data, desc |-> x.desc]
  BY SystemFacts
<1>1. [x EXCEPT !.data[i] = c] = y
  OBVIOUS
<1>2. /\ data \in Seq(Contents) /\ Len(data) = Len(x.data)
      /\ data[i] = c
      /\ \A j \in 1 .. Len(x.data) : j # i => data[j] = x.data[j]
  BY SystemFacts
<1> HIDE DEF data
<1>3. y \in Systems
  BY <1>2, SystemFacts, SystemFrom
<1> QED
  BY <1>1, <1>2, <1>3

LEMMA SeekSystem ==
    ASSUME NEW x \in Systems, NEW d \in 1 .. Len(x.desc), NEW pos \in Nat
    PROVE  LET y == Seek(x, d, pos)
           IN  /\ y \in Systems
               /\ y.name = x.name
               /\ y.data = x.data
               /\ Len(y.desc) = Len(x.desc)
               /\ y.desc[d] = [x.desc[d] EXCEPT !.pos = pos]
               /\ \A e \in 1 .. Len(x.desc) : e # d => y.desc[e] = x.desc[e]
               /\ Data(y, d) = Data(x, d)
<1> DEFINE desc == [x.desc EXCEPT ![d].pos = pos]
           y == [name |-> x.name, data |-> x.data, desc |-> desc]
<1>. x = [name |-> x.name, data |-> x.data, desc |-> x.desc]
  BY SystemFacts
<1>1. Seek(x, d, pos) = y
  BY SMTT(60) DEF Seek
<1>2. x.desc[d] \in Descriptions
  BY SystemFacts
<1>3. /\ [x.desc[d] EXCEPT !.pos = pos] \in Descriptions
      /\ [x.desc[d] EXCEPT !.pos = pos].ino = x.desc[d].ino
  BY <1>2 DEF Descriptions
<1>4. /\ desc \in Seq(Descriptions) /\ Len(desc) = Len(x.desc)
      /\ desc[d] = [x.desc[d] EXCEPT !.pos = pos]
      /\ \A e \in 1 .. Len(x.desc) : e # d => desc[e] = x.desc[e]
  BY <1>3, SystemFacts
<1> HIDE DEF desc
<1>5. \A e \in 1 .. Len(desc) : desc[e].ino = x.desc[e].ino
  BY <1>3, <1>4
<1>6. y \in Systems
  BY <1>4, <1>5, SystemFacts, SystemFrom
<1>7. Data(y, d) = Data(x, d)
  BY <1>3, <1>4 DEF Data
<1> QED
  BY <1>1, <1>3, <1>4, <1>6, <1>7
-----------------------------------------------------------------------------
(* Contents *)

LEMMA ContentsFrom ==
    ASSUME NEW n \in Nat, NEW c \in [1 .. n -> Nat]
    PROVE  c \in Contents /\ Len(c) = n
  BY DEF Contents

LEMMA ResizedContents ==
    ASSUME NEW c \in Contents, NEW n \in Nat
    PROVE  /\ Resized(c, n) \in Contents
           /\ Len(Resized(c, n)) = n
           /\ \A i \in 1 .. n :
                Resized(c, n)[i] = IF i <= Len(c) THEN c[i] ELSE Hole
<1>1. Len(c) \in Nat /\ \A i \in 1 .. Len(c) : c[i] \in Nat
  BY DEF Contents
<1>2. \A i \in 1 .. n : (IF i <= Len(c) THEN c[i] ELSE Hole) \in Nat
  BY <1>1 DEF Hole
<1>3. Resized(c, n) \in [1 .. n -> Nat]
  BY <1>2 DEF Resized
<1> QED
  BY <1>3, ContentsFrom DEF Resized

LEMMA SplicedContents ==
    ASSUME NEW c \in Contents, NEW at \in Nat, NEW bytes \in Contents
    PROVE  LET w == Spliced(c, at, bytes)
           IN  /\ w \in Contents
               /\ Len(w) = Larger(Len(c), at + Len(bytes))
               /\ \A i \in 1 .. Len(w) :
                    w[i] = IF i \in at + 1 .. at + Len(bytes) THEN bytes[i - at]
                           ELSE IF i <= Len(c) THEN c[i] ELSE Hole
<1> DEFINE n == Larger(Len(c), at + Len(bytes))
           w == Spliced(c, at, bytes)
<1>1. /\ Len(c) \in Nat /\ \A i \in 1 .. Len(c) : c[i] \in Nat
      /\ Len(bytes) \in Nat /\ \A i \in 1 .. Len(bytes) : bytes[i] \in Nat
  BY DEF Contents
<1>2. n \in Nat
  BY <1>1 DEF Larger
<1>3. \A i \in 1 .. n : Resized(c, i)[i] = IF i <= Len(c) THEN c[i] ELSE Hole
  BY <1>2, ResizedContents
<1>4. \A i \in at + 1 .. at + Len(bytes) : i - at \in 1 .. Len(bytes)
  BY <1>1
<1>5. w = [i \in 1 .. n |->
             IF i \in at + 1 .. at + Len(bytes) THEN bytes[i - at]
             ELSE IF i <= Len(c) THEN c[i] ELSE Hole]
  BY <1>3 DEF Spliced
<1> HIDE DEF w, n
<1>6. \A i \in 1 .. n : (IF i \in at + 1 .. at + Len(bytes) THEN bytes[i - at]
                        ELSE IF i <= Len(c) THEN c[i] ELSE Hole) \in Nat
  BY <1>1, <1>2, <1>4 DEF Hole
<1>7. w \in [1 .. n -> Nat]
  BY <1>5, <1>6
<1>8. w \in Contents /\ Len(w) = n
  BY <1>2, <1>7, ContentsFrom
<1> QED
  BY <1>5, <1>8 DEF w, n

LEMMA TakenContents ==
    ASSUME NEW c \in Contents, NEW pos \in Nat, NEW n \in Nat
    PROVE  LET e == SubSeq(c, pos + 1, Smaller(pos + n, Len(c)))
           IN  /\ e \in Contents
               /\ Len(e) = IF pos <= Smaller(pos + n, Len(c))
                           THEN Smaller(pos + n, Len(c)) - pos ELSE 0
               /\ \A i \in 1 .. Len(e) : e[i] = c[pos + i] /\ pos + i <= Len(c)
<1> DEFINE m == Smaller(pos + n, Len(c))
           e == SubSeq(c, pos + 1, m)
<1>1. Len(c) \in Nat /\ m \in Nat /\ m <= Len(c) /\ \A i \in 1 .. Len(c) : c[i] \in Nat
  BY DEF Contents, Smaller
<1>2. /\ e \in Contents
      /\ Len(e) = IF pos + 1 <= m THEN m - (pos + 1) + 1 ELSE 0
      /\ \A i \in 1 .. m - (pos + 1) + 1 : e[i] = c[pos + 1 + i - 1]
  <2>1. \A i \in pos + 1 .. m : c[i] \in Nat
    BY <1>1
  <2> QED
    BY <1>1, <2>1, SubSeqProperties DEF Contents
<1> HIDE DEF m, e
<1>3. \A i \in 1 .. Len(e) : i \in 1 .. m - pos /\ pos + 1 + i - 1 = pos + i
                            /\ pos + i <= Len(c)
  BY <1>1, <1>2
<1> QED
  BY <1>1, <1>2, <1>3 DEF e, m

-----------------------------------------------------------------------------
(* What the operations do to file systems *)

SameHandle(g, h) ==
    /\ g.ino = h.ino
    /\ g.read = h.read
    /\ g.write = h.write
    /\ g.append = h.append

\* y is x but for the contents of file i and the cursor of description d.
Touches(y, x, i, d) ==
    /\ y \in Systems
    /\ y.name = x.name
    /\ Len(y.data) = Len(x.data)
    /\ Len(y.desc) = Len(x.desc)
    /\ \A j \in 1 .. Len(x.data) : j # i => y.data[j] = x.data[j]
    /\ \A e \in 1 .. Len(x.desc) :
         SameHandle(y.desc[e], x.desc[e]) /\ (e # d => y.desc[e].pos = x.desc[e].pos)

LEMMA TouchesAlso ==
    ASSUME NEW x, NEW y, NEW z, NEW i, NEW d,
           Touches(y, x, i, d), Touches(z, y, i, d)
    PROVE  Touches(z, x, i, d)
  BY DEF Touches, SameHandle

\* Nothing at all is touched as well.
LEMMA TouchesNone ==
    ASSUME NEW x \in Systems, NEW i, NEW d
    PROVE  Touches(x, x, i, d)
  BY DEF Touches, SameHandle

LEMMA SeekTouches ==
    ASSUME NEW x \in Systems, NEW d \in 1 .. Len(x.desc), NEW pos \in Nat, NEW i
    PROVE  LET y == Seek(x, d, pos)
           IN  /\ Touches(y, x, i, d)
               /\ y.desc[d].pos = pos
               /\ Data(y, d) = Data(x, d)
<1> DEFINE y == Seek(x, d, pos)
<1>1. /\ y \in Systems
      /\ y.name = x.name
      /\ y.data = x.data
      /\ Len(y.desc) = Len(x.desc)
      /\ y.desc[d] = [x.desc[d] EXCEPT !.pos = pos]
      /\ \A e \in 1 .. Len(x.desc) : e # d => y.desc[e] = x.desc[e]
      /\ Data(y, d) = Data(x, d)
  BY SeekSystem
<1>2. x.desc[d] \in Descriptions
  BY SystemFacts
<1> HIDE DEF y
<1>3. SameHandle(y.desc[d], x.desc[d]) /\ y.desc[d].pos = pos
  BY <1>1, <1>2 DEF SameHandle, Descriptions
<1>4. \A e \in 1 .. Len(x.desc) :
        SameHandle(y.desc[e], x.desc[e]) /\ (e # d => y.desc[e].pos = x.desc[e].pos)
  BY <1>1, <1>3 DEF SameHandle
<1>5. Touches(y, x, i, d)
  BY <1>1, <1>4 DEF Touches
<1> QED
  BY <1>1, <1>3, <1>5 DEF y

LEMMA SetLenTouches ==
    ASSUME NEW x \in Systems, NEW d \in 1 .. Len(x.desc), NEW n \in Nat, NEW e
    PROVE  LET y == SetLen(x, d, n)
           IN  /\ Touches(y, x, x.desc[d].ino, e)
               /\ y.desc = x.desc
               /\ Data(y, d) = Resized(Data(x, d), n)
<1> DEFINE i == x.desc[d].ino
           c == Resized(Data(x, d), n)
           y == SetLen(x, d, n)
<1>1. i \in 1 .. Len(x.data) /\ c \in Contents
  BY SystemFacts, ResizedContents
<1>2. /\ y \in Systems /\ y.name = x.name /\ y.desc = x.desc
      /\ Len(y.data) = Len(x.data) /\ y.data[i] = c
      /\ \A j \in 1 .. Len(x.data) : j # i => y.data[j] = x.data[j]
  <2> HIDE DEF i, c
  <2>1. y = [x EXCEPT !.data[i] = c]
    BY DEF SetLen, i, c
  <2> HIDE DEF y
  <2> QED
    BY <1>1, <2>1, DataSystem
<1> HIDE DEF y
<1>3. Touches(y, x, i, e)
  BY <1>2 DEF Touches, SameHandle
<1>4. Data(y, d) = c
  BY <1>2 DEF Data
<1> QED
  BY <1>2, <1>3, <1>4 DEF y

\* Where a write lands.
At(x, d) == IF x.desc[d].append THEN Len(Data(x, d)) ELSE x.desc[d].pos

LEMMA WriteTouches ==
    ASSUME NEW x \in Systems, NEW d \in 1 .. Len(x.desc), NEW bytes \in Contents
    PROVE  LET y == WriteHere(x, d, bytes)
           IN  /\ Touches(y, x, x.desc[d].ino, d)
               /\ bytes = << >> => Data(y, d) = Data(x, d)
               /\ bytes # << >> => Data(y, d) = Spliced(Data(x, d), At(x, d), bytes)
<1> DEFINE i == x.desc[d].ino
           at == At(x, d)
           c == Spliced(Data(x, d), at, bytes)
           y == WriteHere(x, d, bytes)
           z == [x EXCEPT !.data[i] = c]
<1>1. i \in 1 .. Len(x.data) /\ at \in Nat /\ c \in Contents /\ at + Len(bytes) \in Nat
  <2>1. Data(x, d) \in Contents /\ x.desc[d].pos \in Nat /\ i \in 1 .. Len(x.data)
    BY SystemFacts
  <2>2. Len(Data(x, d)) \in Nat /\ Len(bytes) \in Nat
    BY <2>1 DEF Contents
  <2>3. at \in Nat
    BY <2>1, <2>2 DEF At
  <2>4. c \in Contents
    BY <2>1, <2>3, SplicedContents
  <2> QED
    BY <2>1, <2>2, <2>3, <2>4
<1>2. CASE bytes = << >>
  <2>1. y = x
    BY <1>2 DEF WriteHere
  <2> QED
    BY <1>2, <2>1, TouchesNone
<1>3. CASE bytes # << >>
  <2> HIDE DEF i, c
  <2>1. x = [name |-> x.name, data |-> x.data, desc |-> x.desc]
    BY SystemFacts
  <2>2. y = [x EXCEPT !.data[i] = c, !.desc[d].pos = at + Len(bytes)]
    BY <1>3 DEF WriteHere, i, c, At
  <2>3. y = Seek(z, d, at + Len(bytes))
    BY <2>1, <2>2 DEF Seek
  <2> HIDE DEF y, z, at
  <2>4. /\ z \in Systems /\ z.name = x.name /\ z.desc = x.desc
        /\ Len(z.data) = Len(x.data) /\ z.data[i] = c
        /\ \A j \in 1 .. Len(x.data) : j # i => z.data[j] = x.data[j]
    BY <1>1, DataSystem DEF z
  <2>5. Touches(z, x, i, d)
    BY <2>4 DEF Touches, SameHandle
  <2>6. Touches(y, z, i, d) /\ Data(y, d) = Data(z, d)
    BY <1>1, <2>3, <2>4, SeekTouches
  <2>7. Data(z, d) = c
    BY <2>4 DEF Data, i
  <2> QED
    BY <1>3, <2>5, <2>6, <2>7, TouchesAlso DEF y, i, c, at
<1> QED
  BY <1>2, <1>3

LEMMA PathSetLenTouches ==
    ASSUME NEW x \in Systems, NEW p \in Paths, Exists(x, p), NEW n \in Nat
    PROVE  LET y == PathSetLen(x, p, n)
           IN  /\ Touches(y, x, x.name[p], NoDesc)
               /\ y.desc = x.desc
               /\ PathData(y, p) = Resized(PathData(x, p), n)
<1> DEFINE i == x.name[p]
           c == Resized(PathData(x, p), n)
           y == PathSetLen(x, p, n)
<1>1. i \in 1 .. Len(x.data) /\ c \in Contents
  <2>1. i \in 1 .. Len(x.data) /\ x.data[i] \in Contents
    BY SystemFacts DEF Exists, NoFile
  <2> QED
    BY <2>1, ResizedContents DEF PathData
<1>2. /\ y \in Systems /\ y.name = x.name /\ y.desc = x.desc
      /\ Len(y.data) = Len(x.data) /\ y.data[i] = c
      /\ \A j \in 1 .. Len(x.data) : j # i => y.data[j] = x.data[j]
  <2> HIDE DEF i, c
  <2>1. y = [x EXCEPT !.data[i] = c]
    BY DEF PathSetLen, i, c
  <2> HIDE DEF y
  <2> QED
    BY <1>1, <2>1, DataSystem
<1> HIDE DEF y
<1>3. Touches(y, x, i, NoDesc)
  BY <1>2 DEF Touches, SameHandle
<1>4. PathData(y, p) = c
  BY <1>2 DEF PathData
<1> QED
  BY <1>2, <1>3, <1>4 DEF y

LEMMA PathPutTouches ==
    ASSUME NEW x \in Systems, NEW p \in Paths, Exists(x, p), NEW c \in Contents
    PROVE  LET y == PathPut(x, p, c)
           IN  /\ Touches(y, x, x.name[p], NoDesc)
               /\ y.desc = x.desc
               /\ PathData(y, p) = c
<1> DEFINE i == x.name[p]
           y == PathPut(x, p, c)
<1>1. i \in 1 .. Len(x.data)
  BY SystemFacts DEF Exists, NoFile
<1>2. /\ y \in Systems /\ y.name = x.name /\ y.desc = x.desc
      /\ Len(y.data) = Len(x.data) /\ y.data[i] = c
      /\ \A j \in 1 .. Len(x.data) : j # i => y.data[j] = x.data[j]
  <2> HIDE DEF i
  <2>1. y = [x EXCEPT !.data[i] = c]
    BY DEF PathPut, i
  <2> HIDE DEF y
  <2> QED
    BY <1>1, <2>1, DataSystem
<1> HIDE DEF y
<1>3. Touches(y, x, i, NoDesc)
  BY <1>2 DEF Touches, SameHandle
<1>4. PathData(y, p) = c
  BY <1>2 DEF PathData
<1> QED
  BY <1>2, <1>3, <1>4 DEF y

\* y is x but for the names in ps, which are those of files of x or none.
Renames(y, x, ps) ==
    /\ y \in Systems
    /\ y.data = x.data
    /\ y.desc = x.desc
    /\ \A p \in Paths \ ps : y.name[p] = x.name[p]

LEMMA UnlinkedRenames ==
    ASSUME NEW x \in Systems, NEW p \in Paths
    PROVE  Renames(Unlinked(x, p), x, {p}) /\ ~Exists(Unlinked(x, p), p)
<1> DEFINE name == [x.name EXCEPT ![p] = NoFile]
           y == [name |-> name, data |-> x.data, desc |-> x.desc]
<1>1. x = [name |-> x.name, data |-> x.data, desc |-> x.desc]
  BY SystemFacts
<1>2. Unlinked(x, p) = y
  BY <1>1 DEF Unlinked
<1>3. /\ name \in [Paths -> Nat] /\ name[p] = NoFile
      /\ \A q \in Paths : q # p => name[q] = x.name[q]
      /\ \A q \in Paths : name[q] \in 0 .. Len(x.data)
  BY SystemFacts DEF NoFile
<1> HIDE DEF name
<1>4. y \in Systems
  BY <1>3, SystemFacts, SystemFrom
<1> QED
  BY <1>2, <1>3, <1>4 DEF Renames, Exists

LEMMA RenamedRenames ==
    ASSUME NEW x \in Systems, NEW p \in Paths, NEW q \in Paths, p # q
    PROVE  LET y == Renamed(x, p, q)
           IN  Renames(y, x, {p, q}) /\ y.name[q] = x.name[p] /\ ~Exists(y, p)
<1> DEFINE name == [x.name EXCEPT ![q] = x.name[p], ![p] = NoFile]
           y == [name |-> name, data |-> x.data, desc |-> x.desc]
<1>1. x = [name |-> x.name, data |-> x.data, desc |-> x.desc]
  BY SystemFacts
<1>2. Renamed(x, p, q) = y
  <2> DEFINE n == [x.name EXCEPT ![q] = x.name[p]]
             z == [x EXCEPT !.name[q] = x.name[p]]
  <2>1. z = [name |-> n, data |-> x.data, desc |-> x.desc]
    BY <1>1
  <2>2. Renamed(x, p, q) = [z EXCEPT !.name[p] = NoFile]
    BY DEF Renamed
  <2>3. [z EXCEPT !.name[p] = NoFile] =
          [name |-> [n EXCEPT ![p] = NoFile], data |-> x.data, desc |-> x.desc]
    <3> HIDE DEF z, n
    <3> QED
      BY <2>1
  <2>4. name = [n EXCEPT ![p] = NoFile]
    OBVIOUS
  <2> HIDE DEF z, n, name
  <2> QED
    BY <2>2, <2>3, <2>4
<1>3. /\ name \in [Paths -> Nat] /\ name[p] = NoFile /\ name[q] = x.name[p]
      /\ \A r \in Paths : r \notin {p, q} => name[r] = x.name[r]
      /\ \A r \in Paths : name[r] \in 0 .. Len(x.data)
  BY SystemFacts DEF NoFile
<1> HIDE DEF name
<1>4. y \in Systems
  BY <1>3, SystemFacts, SystemFrom
<1> QED
  BY <1>2, <1>3, <1>4 DEF Renames, Exists

LEMMA CreatedSystem ==
    ASSUME NEW x \in Systems, NEW p \in Paths
    PROVE  LET y == Created(x, p)
               i == Len(x.data) + 1
           IN  /\ y \in Systems
               /\ y.desc = x.desc
               /\ y.name[p] = i
               /\ \A q \in Paths : q # p => y.name[q] = x.name[q]
               /\ Len(y.data) = i
               /\ y.data[i] = << >>
               /\ \A j \in 1 .. Len(x.data) : y.data[j] = x.data[j]
<1> DEFINE i == Len(x.data) + 1
           name == [x.name EXCEPT ![p] = i]
           data == Append(x.data, << >>)
           y == [name |-> name, data |-> data, desc |-> x.desc]
<1>1. x = [name |-> x.name, data |-> x.data, desc |-> x.desc]
  BY SystemFacts
<1>2. Created(x, p) = y
  <2> DEFINE z == [x EXCEPT !.name[p] = i]
  <2>1. z = [name |-> name, data |-> x.data, desc |-> x.desc]
    BY <1>1
  <2>2. Created(x, p) = [z EXCEPT !.data = data]
    BY DEF Created
  <2> HIDE DEF z, name, data
  <2> QED
    BY <2>1, <2>2
<1>3. /\ name \in [Paths -> Nat] /\ name[p] = i
      /\ \A q \in Paths : q # p => name[q] = x.name[q]
      /\ \A q \in Paths : name[q] \in 0 .. i
      /\ i \in Nat
  BY SystemFacts
<1>4. /\ data \in Seq(Contents) /\ Len(data) = i
      /\ data[i] = << >>
      /\ \A j \in 1 .. Len(x.data) : data[j] = x.data[j]
  <2>1. << >> \in Contents /\ x.data \in Seq(Contents)
    BY SystemFacts DEF Contents
  <2> QED
    BY <2>1, AppendProperties
<1>5. \A d \in 1 .. Len(x.desc) : x.desc[d].ino \in 1 .. i
  BY SystemFacts
<1> HIDE DEF name, data, i
<1>6. y \in Systems
  BY <1>3, <1>4, <1>5, SystemFacts, SystemFrom
<1> QED
  BY <1>2, <1>3, <1>4, <1>6 DEF i

\* Opening adds a description, may make a file and may empty it.
LEMMA OpenedSystem ==
    ASSUME NEW x \in Systems, NEW p \in Paths, NEW f \in Flags
    PROVE  LET y == Opened(x, p, f)
               d == Len(x.desc) + 1
               i == y.name[p]
           IN  /\ y \in Systems
               /\ Len(y.desc) = d
               /\ y.desc[d].ino = i
               /\ y.desc[d].append = f.append
               /\ \A e \in 1 .. Len(x.desc) : y.desc[e] = x.desc[e]
               /\ \A q \in Paths : q # p => y.name[q] = x.name[q]
               /\ Exists(x, p) => i = x.name[p] /\ Len(y.data) = Len(x.data)
               /\ ~Exists(x, p) => i = Len(x.data) + 1 /\ Len(y.data) = i
               /\ \A j \in 1 .. Len(x.data) : j # i => y.data[j] = x.data[j]
               /\ Exists(x, p) /\ ~f.truncate => y.data[i] = x.data[i]
               /\ f.truncate => y.data[i] = << >>
<1> DEFINE there == IF Exists(x, p) THEN x ELSE Created(x, p)
           ready == IF f.truncate THEN PathSetLen(there, p, 0) ELSE there
           i == there.name[p]
           new == [ino |-> ready.name[p], pos |-> 0, read |-> f.read,
                   write |-> f.write \/ f.append, append |-> f.append]
           y == [ready EXCEPT !.desc = Append(ready.desc, new)]
           desc == Append(ready.desc, new)
           z == [name |-> ready.name, data |-> ready.data, desc |-> desc]
<1>1. /\ there \in Systems
      /\ there.desc = x.desc
      /\ \A q \in Paths : q # p => there.name[q] = x.name[q]
      /\ Exists(x, p) => i = x.name[p] /\ Len(there.data) = Len(x.data)
      /\ ~Exists(x, p) => i = Len(x.data) + 1 /\ Len(there.data) = i
      /\ \A j \in 1 .. Len(x.data) : there.data[j] = x.data[j]
      /\ Exists(there, p)
  <2>1. CASE Exists(x, p)
    BY <2>1
  <2>2. CASE ~Exists(x, p)
    <3>1. Len(x.data) + 1 # 0 /\ Len(x.data) \in Nat
      BY SystemFacts
    <3> QED
      BY <2>2, <3>1, CreatedSystem DEF Exists, NoFile
  <2> QED
    BY <2>1, <2>2
<1> HIDE DEF there
<1>2. /\ ready \in Systems
      /\ ready.name = there.name
      /\ ready.desc = x.desc
      /\ Len(ready.data) = Len(there.data)
      /\ \A j \in 1 .. Len(there.data) : j # i => ready.data[j] = there.data[j]
      /\ ~f.truncate => ready.data[i] = there.data[i]
      /\ f.truncate => ready.data[i] = << >>
  <2>1. CASE ~f.truncate
    BY <1>1, <2>1
  <2>2. CASE f.truncate
    <3> DEFINE t == PathSetLen(there, p, 0)
    <3>1. /\ Touches(t, there, i, NoDesc)
          /\ t.desc = there.desc
          /\ PathData(t, p) = Resized(PathData(there, p), 0)
      BY <1>1, PathSetLenTouches
    <3>2. PathData(there, p) \in Contents
      BY <1>1, SystemFacts DEF PathData, Exists, NoFile
    <3>3. Resized(PathData(there, p), 0) = << >>
      BY <3>2, ResizedContents, EmptySeq DEF Contents
    <3>4. ready = t
      BY <2>2
    <3> HIDE DEF t, ready
    <3>5. t.data[i] = << >>
      BY <3>1, <3>3 DEF PathData, Touches
    <3> QED
      BY <1>1, <2>2, <3>1, <3>4, <3>5 DEF Touches
  <2> QED
    BY <2>1, <2>2
<1> HIDE DEF ready
<1>3. i \in 1 .. Len(ready.data) /\ i \in Nat
  BY <1>1, <1>2, SystemFacts DEF Exists, NoFile
<1>4. new \in Descriptions /\ new.ino = i /\ new.append = f.append
  <2>1. f.read \in BOOLEAN /\ f.append \in BOOLEAN
    BY DEF Flags
  <2> QED
    BY <1>2, <1>3, <2>1 DEF Descriptions
<1> HIDE DEF new
<1>5. /\ desc \in Seq(Descriptions) /\ Len(desc) = Len(x.desc) + 1
      /\ desc[Len(x.desc) + 1] = new
      /\ \A e \in 1 .. Len(x.desc) : desc[e] = x.desc[e]
  BY <1>2, <1>4, SystemFacts, AppendProperties
<1> HIDE DEF desc
<1>6. y = z
  <2>1. ready = [name |-> ready.name, data |-> ready.data, desc |-> ready.desc]
    BY <1>2, SystemFacts
  <2>2. y = [ready EXCEPT !.desc = desc]
    BY DEF desc
  <2> HIDE DEF y
  <2> QED
    BY <2>1, <2>2
<1>7. \A e \in 1 .. Len(desc) : desc[e].ino \in 1 .. Len(ready.data)
  <2>1. Len(x.desc) \in Nat /\ \A e \in 1 .. Len(x.desc) : x.desc[e].ino \in 1 .. Len(ready.data)
    BY <1>2, SystemFacts
  <2> QED
    BY <1>3, <1>4, <1>5, <2>1
<1>8. z \in Systems
  BY <1>2, <1>5, <1>7, SystemFacts, SystemFrom
<1>9. Opened(x, p, f) = y
  BY DEF Opened, there, ready, new
<1>10. y.name = there.name /\ y.data = ready.data /\ y.desc = desc
  BY <1>2, <1>6
<1> HIDE DEF y, z
<1>11. Len(x.desc) \in Nat /\ Len(x.data) \in Nat
  BY SystemFacts
<1>12. /\ y \in Systems
       /\ Len(y.desc) = Len(x.desc) + 1
       /\ y.desc[Len(x.desc) + 1].ino = i
       /\ y.desc[Len(x.desc) + 1].append = f.append
       /\ \A e \in 1 .. Len(x.desc) : y.desc[e] = x.desc[e]
       /\ y.name[p] = i
       /\ \A q \in Paths : q # p => y.name[q] = x.name[q]
  BY <1>1, <1>4, <1>5, <1>6, <1>8, <1>10
<1>13. /\ Exists(x, p) => i = x.name[p] /\ Len(y.data) = Len(x.data)
       /\ ~Exists(x, p) => i = Len(x.data) + 1 /\ Len(y.data) = i
  BY <1>1, <1>2, <1>10
<1>14. \A j \in 1 .. Len(x.data) : j # i => y.data[j] = x.data[j]
  BY <1>1, <1>2, <1>10, <1>11
<1>15. Exists(x, p) => i \in 1 .. Len(x.data)
  BY <1>1, SystemFacts DEF Exists, NoFile
<1>16. /\ Exists(x, p) /\ ~f.truncate => y.data[i] = x.data[i]
       /\ f.truncate => y.data[i] = << >>
  BY <1>1, <1>2, <1>10, <1>15
<1> QED
  BY <1>9, <1>12, <1>13, <1>14, <1>16

-----------------------------------------------------------------------------
(* Taking contents back *)

LEMMA ResizedBack ==
    ASSUME NEW c \in Contents, NEW w \in Contents, Len(c) <= Len(w),
           \A i \in 1 .. Len(c) : w[i] = c[i]
    PROVE  Resized(w, Len(c)) = c
<1>1. Len(c) \in Nat /\ Len(w) \in Nat
  BY DEF Contents
<1>2. /\ Resized(w, Len(c)) \in Contents /\ Len(Resized(w, Len(c))) = Len(c)
      /\ \A i \in 1 .. Len(c) :
           Resized(w, Len(c))[i] = IF i <= Len(w) THEN w[i] ELSE Hole
  BY <1>1, ResizedContents
<1>3. \A i \in 1 .. Len(c) : Resized(w, Len(c))[i] = c[i]
  BY <1>1, <1>2
<1> QED
  BY <1>2, <1>3, SeqEqual DEF Contents

\* A write past the contents is taken back by the old length.
LEMMA LengthRestores ==
    ASSUME NEW c \in Contents, NEW at \in Nat, NEW bytes \in Contents,
           at >= Len(c) \/ bytes = << >>
    PROVE  bytes # << >> => Resized(Spliced(c, at, bytes), Len(c)) = c
<1> SUFFICES ASSUME bytes # << >>
             PROVE  Resized(Spliced(c, at, bytes), Len(c)) = c
  OBVIOUS
<1> DEFINE w == Spliced(c, at, bytes)
<1>1. Len(c) \in Nat /\ Len(bytes) \in Nat
  BY DEF Contents
<1>2. /\ w \in Contents /\ Len(w) = Larger(Len(c), at + Len(bytes))
      /\ \A i \in 1 .. Len(w) :
           w[i] = IF i \in at + 1 .. at + Len(bytes) THEN bytes[i - at]
                  ELSE IF i <= Len(c) THEN c[i] ELSE Hole
  BY SplicedContents
<1> HIDE DEF w
<1>3. Len(c) <= Len(w) /\ \A i \in 1 .. Len(c) : w[i] = c[i]
  BY <1>1, <1>2 DEF Larger
<1> QED
  BY <1>2, <1>3, ResizedBack DEF w

Written(c, at, bytes) == IF bytes = << >> THEN c ELSE Spliced(c, at, bytes)

\* What is to be overwritten, written back where it was, with the old length.
LEMMA RegionRestores ==
    ASSUME NEW c \in Contents, NEW pos \in Nat, NEW n \in Nat, NEW bytes \in Contents,
           Len(bytes) <= n
    PROVE  LET old == SubSeq(c, pos + 1, Smaller(pos + n, Len(c)))
           IN  Resized(Written(Written(c, pos, bytes), pos, old), Len(c)) = c
<1> DEFINE w == Written(c, pos, bytes)
<1>1. w = (IF bytes = << >> THEN c ELSE Spliced(c, pos, bytes)) /\ w \in Contents
  BY SplicedContents DEF Written
<1> HIDE DEF w
<1> DEFINE old == SubSeq(c, pos + 1, Smaller(pos + n, Len(c)))
           v == Spliced(w, pos, old)
<1>2. Len(c) \in Nat /\ Len(bytes) \in Nat /\ Len(w) \in Nat
  BY <1>1 DEF Contents
<1>3. /\ old \in Contents
      /\ Len(old) = IF pos <= Smaller(pos + n, Len(c))
                    THEN Smaller(pos + n, Len(c)) - pos ELSE 0
      /\ \A i \in 1 .. Len(old) : old[i] = c[pos + i] /\ pos + i <= Len(c)
  BY TakenContents
<1> HIDE DEF old
<1>4. /\ Len(c) <= Len(w)
      /\ \A i \in 1 .. Len(c) : i \notin pos + 1 .. pos + Len(old) => w[i] = c[i]
  <2>1. CASE bytes = << >>
    BY <1>1, <1>2, <2>1
  <2>2. CASE bytes # << >>
    <3>1. /\ Len(w) = Larger(Len(c), pos + Len(bytes))
          /\ \A i \in 1 .. Len(w) :
               w[i] = IF i \in pos + 1 .. pos + Len(bytes) THEN bytes[i - pos]
                      ELSE IF i <= Len(c) THEN c[i] ELSE Hole
      BY <1>1, <2>2, SplicedContents
    <3>2. \A i \in 1 .. Len(c) : i \in pos + 1 .. pos + Len(bytes)
                                   => i \in pos + 1 .. pos + Len(old)
      BY <1>2, <1>3 DEF Smaller
    <3> QED
      BY <1>2, <3>1, <3>2 DEF Larger
  <2> QED
    BY <2>1, <2>2
<1>5. CASE old = << >>
  <2>1. \A i \in 1 .. Len(c) : i \notin pos + 1 .. pos + Len(old)
    BY <1>2, <1>5, EmptySeq
  <2> QED
    BY <1>1, <1>4, <1>5, <2>1, ResizedBack DEF old, w, Written
<1>6. CASE old # << >>
  <2>1. old \in Contents /\ w \in Contents
    BY <1>1, <1>3
  <2>2. /\ v \in Contents
        /\ Len(v) = Larger(Len(w), pos + Len(old))
        /\ \A i \in 1 .. Len(v) :
             v[i] = IF i \in pos + 1 .. pos + Len(old) THEN old[i - pos]
                    ELSE IF i <= Len(w) THEN w[i] ELSE Hole
    BY <2>1, SplicedContents, SMTT(60)
  <2> HIDE DEF v
  <2>3. Len(old) \in Nat
    BY <1>3 DEF Contents
  <2>4. Len(c) <= Len(v)
    BY <1>2, <1>4, <2>2, <2>3 DEF Larger
  <2>5. ASSUME NEW i \in 1 .. Len(c) PROVE v[i] = c[i]
    <3>1. i \in 1 .. Len(v) /\ i \in 1 .. Len(w)
      BY <1>2, <1>4, <2>2, <2>3, <2>4 DEF Larger
    <3>2. CASE i \in pos + 1 .. pos + Len(old)
      <4>1. i - pos \in 1 .. Len(old) /\ pos + (i - pos) = i
        BY <2>3, <3>2
      <4>2. old[i - pos] = c[i]
        BY <1>3, <4>1
      <4> QED
        BY <2>2, <3>1, <3>2, <4>2
    <3>3. CASE i \notin pos + 1 .. pos + Len(old)
      BY <1>4, <2>2, <3>1, <3>3
    <3> QED
      BY <3>2, <3>3
  <2> QED
    BY <1>6, <2>2, <2>4, <2>5, ResizedBack DEF old, v, w, Written
<1> QED
  BY <1>5, <1>6 DEF old, v, w

\* The same under O_APPEND: old and new land at the end.
LEMMA AppendRestores ==
    ASSUME NEW c \in Contents, NEW w \in Contents, NEW old \in Contents,
           Len(c) <= Len(w), \A i \in 1 .. Len(c) : w[i] = c[i]
    PROVE  Resized(Spliced(w, Len(w), old), Len(c)) = c
<1> DEFINE v == Spliced(w, Len(w), old)
<1>1. Len(c) \in Nat /\ Len(w) \in Nat /\ Len(old) \in Nat
  BY DEF Contents
<1>2. /\ v \in Contents /\ Len(v) = Larger(Len(w), Len(w) + Len(old))
      /\ \A i \in 1 .. Len(v) :
           v[i] = IF i \in Len(w) + 1 .. Len(w) + Len(old) THEN old[i - Len(w)]
                  ELSE IF i <= Len(w) THEN w[i] ELSE Hole
  BY <1>1, SplicedContents
<1> HIDE DEF v
<1>3. Len(c) <= Len(v) /\ \A i \in 1 .. Len(c) : v[i] = c[i]
  BY <1>1, <1>2 DEF Larger
<1> QED
  BY <1>2, <1>3, ResizedBack DEF v

-----------------------------------------------------------------------------
(* What a branch can reach *)

Scopes == [paths : SUBSET Paths, descs : SUBSET Nat]

Part(s, t) == s.paths \subseteq t.paths /\ s.descs \subseteq t.descs

\* The files behind the names and descriptions of s, as in Disjoint.
Inodes(x, s) ==
    {x.name[p] : p \in {q \in s.paths : Exists(x, q)}} \cup {x.desc[d].ino : d \in s.descs}

\* Through s, y looks like x but for the cursors.
Like(y, x, s) ==
    /\ s.descs \subseteq 1 .. Len(x.desc)
    /\ s.descs \subseteq 1 .. Len(y.desc)
    /\ \A p \in s.paths : y.name[p] = x.name[p]
    /\ \A d \in s.descs : SameHandle(y.desc[d], x.desc[d])
    /\ \A i \in Inodes(x, s) : y.data[i] = x.data[i]

LEMMA InodesBounds ==
    ASSUME NEW x \in Systems, NEW s \in Scopes, s.descs \subseteq 1 .. Len(x.desc)
    PROVE  Inodes(x, s) \subseteq 1 .. Len(x.data)
<1>1. s.paths \subseteq Paths
  BY DEF Scopes
<1>2. \A p \in s.paths : Exists(x, p) => x.name[p] \in 1 .. Len(x.data)
  BY <1>1, SystemFacts DEF Exists, NoFile
<1>3. \A d \in s.descs : x.desc[d].ino \in 1 .. Len(x.data)
  BY SystemFacts
<1> QED
  BY <1>2, <1>3 DEF Inodes

LEMMA LikeInodes ==
    ASSUME NEW x, NEW y, NEW s, Like(y, x, s)
    PROVE  Inodes(y, s) = Inodes(x, s)
<1>1. \A p \in s.paths : y.name[p] = x.name[p] /\ (Exists(y, p) <=> Exists(x, p))
  BY DEF Like, Exists
<1>2. \A d \in s.descs : y.desc[d].ino = x.desc[d].ino
  BY DEF Like, SameHandle
<1>3. {y.name[p] : p \in {q \in s.paths : Exists(y, q)}} =
        {x.name[p] : p \in {q \in s.paths : Exists(x, q)}}
  BY <1>1
<1>4. {y.desc[d].ino : d \in s.descs} = {x.desc[d].ino : d \in s.descs}
  BY <1>2
<1> QED
  BY <1>3, <1>4 DEF Inodes

LEMMA LikeSelf ==
    ASSUME NEW x, NEW s, s.descs \subseteq 1 .. Len(x.desc)
    PROVE  Like(x, x, s)
  BY DEF Like, SameHandle

LEMMA LikeBack ==
    ASSUME NEW x, NEW y, NEW s, Like(y, x, s)
    PROVE  Like(x, y, s)
  BY LikeInodes DEF Like, SameHandle

LEMMA LikeAlso ==
    ASSUME NEW x, NEW y, NEW z, NEW s, Like(y, x, s), Like(z, y, s)
    PROVE  Like(z, x, s)
  BY LikeInodes DEF Like, SameHandle

LEMMA LikePart ==
    ASSUME NEW x, NEW y, NEW s, NEW t, Like(y, x, t), Part(s, t)
    PROVE  Like(y, x, s)
<1>1. Inodes(x, s) \subseteq Inodes(x, t)
  BY DEF Inodes, Part
<1> QED
  BY <1>1 DEF Like, Part

\* Two parts are alike when each of them is.
LEMMA LikeBoth ==
    ASSUME NEW x, NEW y, NEW s, NEW t, NEW u, Like(y, x, s), Like(y, x, t),
           u.paths \subseteq s.paths \cup t.paths, u.descs \subseteq s.descs \cup t.descs
    PROVE  Like(y, x, u)
<1>1. Inodes(x, u) \subseteq Inodes(x, s) \cup Inodes(x, t)
  BY DEF Inodes
<1> QED
  BY <1>1 DEF Like

LEMMA LikeFiles ==
    ASSUME NEW x, NEW y, NEW s, Like(y, x, s)
    PROVE  /\ \A p \in s.paths : FileAt(y, p) = FileAt(x, p)
           /\ \A p \in s.paths : Exists(y, p) <=> Exists(x, p)
           /\ \A d \in s.descs : Data(y, d) = Data(x, d)
<1>1. ASSUME NEW p \in s.paths
      PROVE  FileAt(y, p) = FileAt(x, p) /\ (Exists(y, p) <=> Exists(x, p))
  <2>1. y.name[p] = x.name[p] /\ (Exists(y, p) <=> Exists(x, p))
    BY DEF Like, Exists
  <2>2. Exists(x, p) => x.name[p] \in Inodes(x, s)
    BY DEF Inodes
  <2> QED
    BY <2>1, <2>2 DEF Like, FileAt, PathData
<1>2. ASSUME NEW d \in s.descs PROVE Data(y, d) = Data(x, d)
  <2>1. x.desc[d].ino \in Inodes(x, s) /\ y.desc[d].ino = x.desc[d].ino
    BY DEF Inodes, Like, SameHandle
  <2> QED
    BY <2>1 DEF Like, Data
<1> QED
  BY <1>1, <1>2

-----------------------------------------------------------------------------
(* What a branch can change *)

\* y is x but for what can be reached through s, and for new files and descriptions.
Within(y, x, s) ==
    /\ y \in Systems
    /\ Len(x.data) <= Len(y.data)
    /\ Len(x.desc) <= Len(y.desc)
    /\ \A p \in Paths \ s.paths : y.name[p] = x.name[p]
    /\ \A p \in s.paths :
         Exists(y, p) => y.name[p] \in Inodes(x, s) \cup Len(x.data) + 1 .. Len(y.data)
    /\ \A d \in 1 .. Len(x.desc) :
         /\ SameHandle(y.desc[d], x.desc[d])
         /\ d \notin s.descs => y.desc[d].pos = x.desc[d].pos
    /\ \A i \in 1 .. Len(x.data) : i \notin Inodes(x, s) => y.data[i] = x.data[i]

LEMMA TouchesWithin ==
    ASSUME NEW x \in Systems, NEW y, NEW s \in Scopes,
           NEW i \in Inodes(x, s) \cup {NoFile}, NEW d \in s.descs \cup {NoDesc},
           Touches(y, x, i, d)
    PROVE  Within(y, x, s)
<1>1. Len(x.data) \in Nat /\ Len(x.desc) \in Nat
  BY SystemFacts
<1>2. \A p \in s.paths : Exists(y, p) => y.name[p] \in Inodes(x, s)
  BY DEF Touches, Inodes, Exists
<1>3. \A e \in 1 .. Len(x.desc) : e \notin s.descs => e # d
  BY <1>1 DEF NoDesc
<1>4. \A j \in 1 .. Len(x.data) : j \notin Inodes(x, s) => j # i
  BY <1>1 DEF NoFile
<1> QED
  BY <1>1, <1>2, <1>3, <1>4 DEF Touches, Within

LEMMA RenamesWithin ==
    ASSUME NEW x \in Systems, NEW y, NEW s \in Scopes, NEW ps, Renames(y, x, ps),
           ps \subseteq s.paths,
           \A p \in ps : Exists(y, p) => y.name[p] \in Inodes(x, s)
    PROVE  Within(y, x, s)
<1>1. Len(x.data) \in Nat /\ Len(x.desc) \in Nat /\ s.paths \subseteq Paths
  BY SystemFacts DEF Scopes
<1>2. \A p \in s.paths : Exists(y, p) => y.name[p] \in Inodes(x, s)
  BY <1>1 DEF Renames, Inodes, Exists
<1> QED
  BY <1>1, <1>2 DEF Renames, Within, SameHandle

\* Branches with nothing in common do not see what the other one changes.
LEMMA WithinLike ==
    ASSUME NEW x \in Systems, NEW y, NEW s \in Scopes, NEW t \in Scopes, Within(y, x, s),
           t.descs \subseteq 1 .. Len(x.desc),
           s.paths \cap t.paths = {}, s.descs \cap t.descs = {},
           Inodes(x, s) \cap Inodes(x, t) = {}
    PROVE  /\ Like(y, x, t)
           /\ \A d \in t.descs : y.desc[d].pos = x.desc[d].pos
<1>1. t.paths \subseteq Paths
  BY DEF Scopes
<1>2. Inodes(x, t) \subseteq 1 .. Len(x.data)
  BY InodesBounds
<1>3. t.descs \subseteq 1 .. Len(y.desc)
  BY SystemFacts DEF Within
<1> QED
  BY <1>1, <1>2, <1>3 DEF Within, Like

LEMMA WithinInodes ==
    ASSUME NEW x \in Systems, NEW y, NEW s \in Scopes, Within(y, x, s),
           s.descs \subseteq 1 .. Len(x.desc)
    PROVE  Inodes(y, s) \subseteq Inodes(x, s) \cup Len(x.data) + 1 .. Len(y.data)
<1>1. \A d \in s.descs : y.desc[d].ino \in Inodes(x, s)
  BY DEF Within, SameHandle, Inodes
<1> QED
  BY <1>1 DEF Within, Inodes

-----------------------------------------------------------------------------
(* Inverses *)

\* Those about descriptions have one of the first n.
Inverses(n) ==
    [op : {"seek"}, desc : 1 .. n, pos : Nat]
        \cup [op : {"set_len"}, desc : 1 .. n, len : Nat]
        \cup [op : {"cut"}, desc : 1 .. n, pos : Nat, len : Nat]
        \cup [op : {"region"}, desc : 1 .. n, pos : Nat, data : Contents, len : Nat]
        \cup [op : {"restore"}, path : Paths, data : Contents]
        \cup [op : {"unlink"}, path : Paths]
        \cup {u \in [op : {"rename"}, from : Paths, to : Paths] : u.from # u.to}

CanUndo(x, u) ==
    /\ u.op = "unlink" => Exists(x, u.path)
    /\ u.op = "rename" => Exists(x, u.to)

RegionFrom(x, u) ==
    Seek(SetLen(WriteHere(Seek(x, u.desc, u.pos), u.desc, u.data), u.desc, u.len),
         u.desc, u.pos)

\* What u makes of x.
UndoneFrom(x, u) ==
    CASE u.op = "seek"    -> Seek(x, u.desc, u.pos)
      [] u.op = "set_len" -> SetLen(x, u.desc, u.len)
      [] u.op = "cut"     -> SetLen(Seek(x, u.desc, u.pos), u.desc, u.len)
      [] u.op = "region"  -> RegionFrom(x, u)
      [] u.op = "restore" -> PathPut(x, u.path, u.data)
      [] u.op = "unlink"  -> Unlinked(x, u.path)
      [] u.op = "rename"  -> Renamed(x, u.to, u.from)

LEMMA UndoneHere ==
    ASSUME NEW u
    PROVE  Undone(u) = UndoneFrom(fs, u) /\ (Undoable(u) <=> CanUndo(fs, u))
  BY DEF Undone, UndoneFrom, RegionUndone, RegionFrom, Undoable, CanUndo

\* The inverses that move a cursor.
Moves(u, d) == u.op \in {"seek", "cut", "region"} /\ u.desc = d

\* What u is about can be reached through s.
Concerns(u, s) ==
    /\ u.op \in {"seek", "set_len", "cut", "region"} => u.desc \in s.descs
    /\ u.op \in {"restore", "unlink"} => u.path \in s.paths
    /\ u.op = "rename" => u.from \in s.paths /\ u.to \in s.paths

LEMMA InverseCases ==
    ASSUME NEW n \in Nat, NEW u \in Inverses(n)
    PROVE  \/ u.op = "seek" /\ u.desc \in 1 .. n /\ u.pos \in Nat
           \/ u.op = "set_len" /\ u.desc \in 1 .. n /\ u.len \in Nat
           \/ u.op = "cut" /\ u.desc \in 1 .. n /\ u.pos \in Nat /\ u.len \in Nat
           \/ /\ u.op = "region" /\ u.desc \in 1 .. n /\ u.pos \in Nat
              /\ u.data \in Contents /\ u.len \in Nat
           \/ u.op = "restore" /\ u.path \in Paths /\ u.data \in Contents
           \/ u.op = "unlink" /\ u.path \in Paths
           \/ u.op = "rename" /\ u.from \in Paths /\ u.to \in Paths /\ u.from # u.to
  BY DEF Inverses

LEMMA InversesGrow ==
    ASSUME NEW n \in Nat, NEW m \in Nat, n <= m
    PROVE  Inverses(n) \subseteq Inverses(m)
<1>1. 1 .. n \subseteq 1 .. m
  OBVIOUS
<1> QED
  BY <1>1 DEF Inverses

\* A region is put back in three steps, through the description alone.
LEMMA RegionTouches ==
    ASSUME NEW x \in Systems, NEW n \in Nat, NEW u \in Inverses(n), n <= Len(x.desc),
           u.op = "region"
    PROVE  LET y == RegionFrom(x, u)
               at == IF x.desc[u.desc].append THEN Len(Data(x, u.desc)) ELSE u.pos
               w == IF u.data = << >> THEN Data(x, u.desc)
                    ELSE Spliced(Data(x, u.desc), at, u.data)
           IN  /\ Touches(y, x, x.desc[u.desc].ino, u.desc)
               /\ y.desc[u.desc].pos = u.pos
               /\ Data(y, u.desc) = Resized(w, u.len)
<1> DEFINE d == u.desc
           i == x.desc[d].ino
           x1 == Seek(x, d, u.pos)
           x2 == WriteHere(x1, d, u.data)
           x3 == SetLen(x2, d, u.len)
           y == Seek(x3, d, u.pos)
<1>1. d \in 1 .. Len(x.desc) /\ u.pos \in Nat /\ u.data \in Contents /\ u.len \in Nat
  <2>1. d \in 1 .. n /\ u.pos \in Nat /\ u.data \in Contents /\ u.len \in Nat
    BY InverseCases
  <2> QED
    BY <2>1, SystemFacts
<1>2. RegionFrom(x, u) = y
  BY DEF RegionFrom
<1> HIDE DEF y, d
<1>3. Touches(x1, x, i, d) /\ x1.desc[d].pos = u.pos /\ Data(x1, d) = Data(x, d)
  BY <1>1, SeekTouches
<1> HIDE DEF x1
<1>4. /\ x1 \in Systems /\ d \in 1 .. Len(x1.desc) /\ x1.desc[d].ino = i
      /\ x1.desc[d].append = x.desc[d].append
  BY <1>1, <1>3 DEF Touches, SameHandle
<1>5. /\ Touches(x2, x1, i, d)
      /\ u.data = << >> => Data(x2, d) = Data(x1, d)
      /\ u.data # << >> => Data(x2, d) = Spliced(Data(x1, d), At(x1, d), u.data)
  BY <1>1, <1>4, WriteTouches
<1> HIDE DEF x2
<1>6. x2 \in Systems /\ d \in 1 .. Len(x2.desc) /\ x2.desc[d].ino = i
  BY <1>4, <1>5 DEF Touches, SameHandle
<1>7. Touches(x3, x2, i, d) /\ Data(x3, d) = Resized(Data(x2, d), u.len)
  BY <1>1, <1>6, SetLenTouches
<1> HIDE DEF x3
<1>8. x3 \in Systems /\ d \in 1 .. Len(x3.desc)
  BY <1>6, <1>7 DEF Touches
<1>9. Touches(y, x3, i, d) /\ y.desc[d].pos = u.pos /\ Data(y, d) = Data(x3, d)
  BY <1>1, <1>8, SeekTouches DEF y
<1> HIDE DEF i
<1>10. Touches(y, x, i, d)
  <2>1. Touches(x2, x, i, d)
    BY <1>3, <1>5, TouchesAlso
  <2>2. Touches(x3, x, i, d)
    BY <1>7, <2>1, TouchesAlso
  <2> QED
    BY <1>9, <2>2, TouchesAlso
<1>11. At(x1, d) = IF x.desc[d].append THEN Len(Data(x, d)) ELSE u.pos
  BY <1>3, <1>4 DEF At
<1>12. Data(x2, d) = IF u.data = << >> THEN Data(x, d)
                     ELSE Spliced(Data(x, d), At(x1, d), u.data)
  BY <1>3, <1>5
<1> QED
  BY <1>2, <1>7, <1>9, <1>10, <1>11, <1>12 DEF d, i

\* Every inverse stays within what it is about; only some move a cursor.
LEMMA UndoneWithin ==
    ASSUME NEW x \in Systems, NEW u \in Inverses(Len(x.desc)), NEW s \in Scopes,
           s.descs \subseteq 1 .. Len(x.desc), Concerns(u, s)
    PROVE  LET y == UndoneFrom(x, u)
           IN  /\ y \in Systems
               /\ Within(y, x, s)
               /\ Len(y.desc) = Len(x.desc)
               /\ \A d \in 1 .. Len(x.desc) :
                    y.desc[d].pos = IF Moves(u, d) THEN u.pos ELSE x.desc[d].pos
<1> DEFINE y == UndoneFrom(x, u)
           Goal == /\ y \in Systems
                   /\ Within(y, x, s)
                   /\ Len(y.desc) = Len(x.desc)
                   /\ \A d \in 1 .. Len(x.desc) :
                        y.desc[d].pos = IF Moves(u, d) THEN u.pos ELSE x.desc[d].pos
<1> SUFFICES Goal
  OBVIOUS
<1> HIDE DEF y, Goal
<1>1. Len(x.desc) \in Nat /\ Len(x.data) \in Nat
  BY SystemFacts
<1>2. ASSUME u.op \in {"seek", "set_len", "cut", "region"},
             NEW e \in {u.desc, NoDesc},
             Touches(y, x, x.desc[u.desc].ino, e),
             IF e = NoDesc THEN u.op = "set_len" /\ y.desc = x.desc
             ELSE u.op # "set_len" /\ y.desc[u.desc].pos = u.pos
      PROVE  Goal
  <2>1. u.desc \in s.descs /\ u.desc \in 1 .. Len(x.desc) /\ u.desc # NoDesc
    BY <1>1, <1>2, InverseCases DEF Concerns, NoDesc
  <2>2. x.desc[u.desc].ino \in Inodes(x, s)
    BY <2>1 DEF Inodes
  <2>3. Within(y, x, s)
    BY <1>2, <2>1, <2>2, TouchesWithin
  <2>4. \A d \in 1 .. Len(x.desc) :
          y.desc[d].pos = IF Moves(u, d) THEN u.pos ELSE x.desc[d].pos
    <3>1. CASE e = NoDesc
      BY <1>2, <3>1 DEF Moves
    <3>2. CASE e # NoDesc
      <4>1. e = u.desc /\ y.desc[u.desc].pos = u.pos
            /\ u.op \in {"seek", "cut", "region"}
        BY <1>2, <3>2
      <4> QED
        BY <1>2, <4>1 DEF Moves, Touches
    <3> QED
      BY <3>1, <3>2
  <2> QED
    BY <1>2, <2>3, <2>4 DEF Touches, Goal
<1>3. CASE u.op = "seek"
  <2>1. y = Seek(x, u.desc, u.pos) /\ u.desc \in 1 .. Len(x.desc) /\ u.pos \in Nat
    BY <1>1, <1>3, InverseCases DEF UndoneFrom, y
  <2>2. u.desc # NoDesc
    BY <2>1 DEF NoDesc
  <2>3. Touches(y, x, x.desc[u.desc].ino, u.desc) /\ y.desc[u.desc].pos = u.pos
    BY <2>1, SeekTouches
  <2> QED
    BY <1>2, <1>3, <2>2, <2>3
<1>4. CASE u.op = "set_len"
  <2>1. y = SetLen(x, u.desc, u.len) /\ u.desc \in 1 .. Len(x.desc) /\ u.len \in Nat
    BY <1>1, <1>4, InverseCases DEF UndoneFrom, y
  <2>2. Touches(y, x, x.desc[u.desc].ino, NoDesc) /\ y.desc = x.desc
    BY <2>1, SetLenTouches
  <2> QED
    BY <1>2, <1>4, <2>2
<1>5. CASE u.op = "cut"
  <2> DEFINE z == Seek(x, u.desc, u.pos)
             i == x.desc[u.desc].ino
  <2>1. /\ y = SetLen(z, u.desc, u.len)
        /\ u.desc \in 1 .. Len(x.desc) /\ u.pos \in Nat /\ u.len \in Nat
    BY <1>1, <1>5, InverseCases DEF UndoneFrom, y
  <2>2. Touches(z, x, i, u.desc) /\ z.desc[u.desc].pos = u.pos
    BY <2>1, SeekTouches
  <2> HIDE DEF z
  <2>3. z \in Systems /\ u.desc \in 1 .. Len(z.desc) /\ z.desc[u.desc].ino = i
    BY <2>1, <2>2 DEF Touches, SameHandle
  <2>4. Touches(y, z, i, u.desc) /\ y.desc = z.desc
    BY <2>1, <2>3, SetLenTouches
  <2>5. Touches(y, x, i, u.desc) /\ y.desc[u.desc].pos = u.pos
    BY <2>2, <2>4, TouchesAlso
  <2>6. u.desc # NoDesc
    BY <2>1 DEF NoDesc
  <2> QED
    BY <1>2, <1>5, <2>5, <2>6
<1>6. CASE u.op = "region"
  <2>1. y = RegionFrom(x, u) /\ u.desc # NoDesc
    BY <1>1, <1>6, InverseCases DEF UndoneFrom, y, NoDesc
  <2>2. Touches(y, x, x.desc[u.desc].ino, u.desc) /\ y.desc[u.desc].pos = u.pos
    BY <1>1, <1>6, <2>1, RegionTouches
  <2> QED
    BY <1>2, <1>6, <2>1, <2>2
<1>7. ASSUME u.op \in {"restore", "unlink", "rename"}, Within(y, x, s), y.desc = x.desc
      PROVE  Goal
  BY <1>7 DEF Within, Moves, Goal
<1>8. CASE u.op = "restore"
  <2> DEFINE p == u.path
             c == u.data
  <2>1. y = PathPut(x, p, c) /\ p \in Paths /\ c \in Contents /\ p \in s.paths
    BY <1>1, <1>8, InverseCases DEF UndoneFrom, y, Concerns
  <2>2. CASE Exists(x, p)
    <3>1. Touches(y, x, x.name[p], NoDesc) /\ y.desc = x.desc
      BY <2>1, <2>2, PathPutTouches
    <3>2. x.name[p] \in Inodes(x, s)
      BY <2>1, <2>2 DEF Inodes
    <3> QED
      BY <1>7, <1>8, <3>1, <3>2, TouchesWithin
  <2>3. CASE ~Exists(x, p)
    <3> DEFINE z == Created(x, p)
               i == Len(x.data) + 1
    <3>1. /\ z \in Systems /\ z.desc = x.desc /\ z.name[p] = i
          /\ \A q \in Paths : q # p => z.name[q] = x.name[q]
          /\ Len(z.data) = i
          /\ \A j \in 1 .. Len(x.data) : z.data[j] = x.data[j]
      BY <2>1, CreatedSystem
    <3>2. y = [z EXCEPT !.data[z.name[p]] = c]
      BY <2>1, <2>3 DEF PathPut
    <3> HIDE DEF z, p, c
    <3>3. i \in 1 .. Len(z.data)
      BY <1>1, <3>1
    <3>4. /\ y \in Systems /\ y.name = z.name /\ y.desc = z.desc
          /\ Len(y.data) = Len(z.data)
          /\ \A j \in 1 .. Len(z.data) : j # i => y.data[j] = z.data[j]
      BY <2>1, <3>1, <3>2, <3>3, DataSystem
    <3>5. \A q \in s.paths : Exists(y, q) =>
             y.name[q] \in Inodes(x, s) \cup Len(x.data) + 1 .. Len(y.data)
      <4>1. \A q \in s.paths : q # p => y.name[q] = x.name[q]
        BY <3>1, <3>4 DEF Scopes
      <4>2. y.name[p] \in Len(x.data) + 1 .. Len(y.data)
        BY <1>1, <3>1, <3>4
      <4> QED
        BY <4>1, <4>2 DEF Inodes, Exists
    <3>6. \A j \in 1 .. Len(x.data) : y.data[j] = x.data[j]
      BY <1>1, <3>1, <3>4
    <3>7. Within(y, x, s) /\ y.desc = x.desc
      BY <1>1, <2>1, <3>1, <3>4, <3>5, <3>6 DEF Within, SameHandle
    <3> QED
      BY <1>7, <1>8, <3>7
  <2> QED
    BY <2>2, <2>3
<1>9. CASE u.op = "unlink"
  <2>1. y = Unlinked(x, u.path) /\ u.path \in Paths /\ u.path \in s.paths
    BY <1>1, <1>9, InverseCases DEF UndoneFrom, y, Concerns
  <2>2. Renames(y, x, {u.path}) /\ ~Exists(y, u.path)
    BY <2>1, UnlinkedRenames
  <2>3. Within(y, x, s)
    BY <2>1, <2>2, RenamesWithin
  <2> QED
    BY <1>7, <1>9, <2>2, <2>3 DEF Renames
<1>10. CASE u.op = "rename"
  <2>1. /\ y = Renamed(x, u.to, u.from) /\ u.from \in Paths /\ u.to \in Paths
        /\ u.from # u.to /\ u.from \in s.paths /\ u.to \in s.paths
    BY <1>1, <1>10, InverseCases DEF UndoneFrom, y, Concerns
  <2>2. /\ Renames(y, x, {u.to, u.from})
        /\ y.name[u.from] = x.name[u.to] /\ ~Exists(y, u.to)
    BY <2>1, RenamedRenames
  <2>3. Exists(y, u.from) => y.name[u.from] \in Inodes(x, s)
    BY <2>1, <2>2 DEF Exists, Inodes
  <2>4. Within(y, x, s)
    BY <2>1, <2>2, <2>3, RenamesWithin
  <2> QED
    BY <1>7, <1>10, <2>2, <2>4 DEF Renames
<1> QED
  BY <1>1, <1>3, <1>4, <1>5, <1>6, <1>8, <1>9, <1>10, InverseCases

-----------------------------------------------------------------------------
(* What inverses take back *)

\* Whatever looks like y through t, u makes of it what looks like x through s.
TakesBack(u, y, t, x, s) ==
    \A z \in Systems :
        Like(z, y, t) => /\ CanUndo(z, u)
                         /\ UndoneFrom(z, u) \in Systems
                         /\ Like(UndoneFrom(z, u), x, s)

\* It is enough that the one file and the one cursor that were touched are again
\* what they were.
LEMMA TouchedBack ==
    ASSUME NEW x \in Systems, NEW y, NEW z \in Systems, NEW w, NEW s \in Scopes,
           s.descs \subseteq 1 .. Len(x.desc),
           NEW i \in Inodes(x, s), NEW d, NEW e,
           Touches(y, x, i, d), Like(z, y, s), Touches(w, z, i, e),
           w.data[i] = x.data[i]
    PROVE  Like(w, x, s)
<1>1. Inodes(x, s) \subseteq 1 .. Len(x.data)
  BY InodesBounds
<1>2. \A p \in s.paths : y.name[p] = x.name[p] /\ (Exists(y, p) <=> Exists(x, p))
  BY DEF Touches, Exists
<1>3. \A g \in s.descs : SameHandle(y.desc[g], x.desc[g])
  BY DEF Touches
<1>4. Inodes(y, s) = Inodes(x, s)
  <2>1. Like(y, y, s)
    BY LikeSelf DEF Like
  <2>2. {y.name[p] : p \in {q \in s.paths : Exists(y, q)}} =
          {x.name[p] : p \in {q \in s.paths : Exists(x, q)}}
    BY <1>2
  <2>3. {y.desc[g].ino : g \in s.descs} = {x.desc[g].ino : g \in s.descs}
    BY <1>3 DEF SameHandle
  <2> QED
    BY <2>2, <2>3 DEF Inodes
<1>5. ASSUME NEW j \in Inodes(x, s) PROVE w.data[j] = x.data[j]
  <2>1. CASE j = i
    BY <2>1
  <2>2. CASE j # i
    <3>1. y.data[j] = x.data[j]
      BY <1>1, <2>2 DEF Touches
    <3>2. z.data[j] = y.data[j]
      BY <1>4 DEF Like
    <3>3. j \in 1 .. Len(z.data)
      <4>1. Inodes(z, s) = Inodes(x, s) /\ s.descs \subseteq 1 .. Len(z.desc)
        BY <1>4, LikeInodes DEF Like
      <4> QED
        BY <4>1, InodesBounds
    <3> QED
      BY <2>2, <3>1, <3>2, <3>3 DEF Touches
  <2> QED
    BY <2>1, <2>2
<1>6. \A p \in s.paths : w.name[p] = x.name[p]
  BY <1>2 DEF Touches, Like
<1>7. \A g \in s.descs : SameHandle(w.desc[g], x.desc[g])
  <2>1. \A g \in s.descs : SameHandle(z.desc[g], y.desc[g]) /\ g \in 1 .. Len(z.desc)
    BY DEF Like
  <2>2. \A g \in s.descs : SameHandle(w.desc[g], z.desc[g])
    BY <2>1 DEF Touches
  <2> QED
    BY <1>3, <2>1, <2>2 DEF SameHandle
<1> QED
  BY <1>5, <1>6, <1>7 DEF Like, Touches

LEMMA DescBack ==
    ASSUME NEW x \in Systems, NEW y, NEW z \in Systems, NEW w, NEW s \in Scopes,
           s.descs \subseteq 1 .. Len(x.desc), NEW d \in s.descs, NEW e, NEW g,
           Touches(y, x, x.desc[d].ino, e), Like(z, y, s),
           Touches(w, z, x.desc[d].ino, g), Data(w, d) = Data(x, d)
    PROVE  Like(w, x, s)
<1> DEFINE i == x.desc[d].ino
<1>1. i \in Inodes(x, s)
  BY DEF Inodes
<1>2. w.desc[d].ino = i
  BY DEF Touches, Like, SameHandle
<1>3. w.data[i] = x.data[i]
  BY <1>2 DEF Data
<1> HIDE DEF i
<1> QED
  BY <1>1, <1>3, TouchedBack DEF i

\* What an operation on d found, through s.
LEMMA DescThere ==
    ASSUME NEW x \in Systems, NEW y, NEW z \in Systems, NEW s \in Scopes,
           s.descs \subseteq 1 .. Len(x.desc), NEW d \in s.descs, NEW e,
           Touches(y, x, x.desc[d].ino, e), Like(z, y, s)
    PROVE  /\ d \in 1 .. Len(z.desc)
           /\ z.desc[d].ino = x.desc[d].ino
           /\ z.desc[d].append = x.desc[d].append
           /\ Data(z, d) = Data(y, d)
<1>1. d \in 1 .. Len(z.desc) /\ SameHandle(z.desc[d], y.desc[d])
  BY DEF Like
<1>2. SameHandle(y.desc[d], x.desc[d])
  BY DEF Touches
<1>3. Data(z, d) = Data(y, d)
  BY LikeFiles
<1> QED
  BY <1>1, <1>2, <1>3 DEF SameHandle

LEMMA SeekBack ==
    ASSUME NEW x \in Systems, NEW s \in Scopes, s.descs \subseteq 1 .. Len(x.desc),
           NEW d \in s.descs, NEW pos \in Nat, NEW old \in Nat
    PROVE  TakesBack([op |-> "seek", desc |-> d, pos |-> old], Seek(x, d, pos), s, x, s)
<1> DEFINE u == [op |-> "seek", desc |-> d, pos |-> old]
           i == x.desc[d].ino
           y == Seek(x, d, pos)
<1>1. Touches(y, x, i, d) /\ Data(y, d) = Data(x, d)
  BY SeekTouches
<1> HIDE DEF y
<1> SUFFICES ASSUME NEW z \in Systems, Like(z, y, s)
             PROVE  /\ CanUndo(z, u)
                    /\ UndoneFrom(z, u) \in Systems
                    /\ Like(UndoneFrom(z, u), x, s)
  BY DEF TakesBack, y
<1> DEFINE w == Seek(z, d, old)
<1>2. UndoneFrom(z, u) = w /\ CanUndo(z, u)
  BY DEF UndoneFrom, CanUndo
<1>3. /\ d \in 1 .. Len(z.desc) /\ z.desc[d].ino = i
      /\ Data(z, d) = Data(y, d)
  BY <1>1, DescThere
<1>4. Touches(w, z, i, d) /\ Data(w, d) = Data(z, d)
  BY <1>3, SeekTouches
<1> HIDE DEF w, u
<1>5. w \in Systems
  BY <1>4 DEF Touches
<1>6. Like(w, x, s)
  BY <1>1, <1>3, <1>4, DescBack
<1> QED
  BY <1>2, <1>5, <1>6

\* A write that appended, or started past the end, is taken back by the length.
LEMMA WriteBack ==
    ASSUME NEW x \in Systems, NEW s \in Scopes, s.descs \subseteq 1 .. Len(x.desc),
           NEW d \in s.descs, NEW bytes \in Contents, NEW old \in Nat,
           At(x, d) >= Len(Data(x, d)), NEW u,
           \/ u = [op |-> "set_len", desc |-> d, len |-> Len(Data(x, d))]
           \/ u = [op |-> "cut", desc |-> d, pos |-> old, len |-> Len(Data(x, d))]
    PROVE  TakesBack(u, WriteHere(x, d, bytes), s, x, s)
<1> DEFINE i == x.desc[d].ino
           c == Data(x, d)
           y == WriteHere(x, d, bytes)
<1>1. c \in Contents /\ Len(c) \in Nat /\ At(x, d) \in Nat
  <2>1. c \in Contents /\ x.desc[d].pos \in Nat
    BY SystemFacts
  <2>2. Len(c) \in Nat
    BY <2>1 DEF Contents
  <2> QED
    BY <2>1, <2>2 DEF At
<1>2. /\ Touches(y, x, i, d)
      /\ bytes = << >> => Data(y, d) = c
      /\ bytes # << >> => Data(y, d) = Spliced(c, At(x, d), bytes)
  BY WriteTouches
<1>3. Resized(Data(y, d), Len(c)) = c
  <2>1. CASE bytes = << >>
    BY <1>1, <1>2, <2>1, ResizedBack
  <2>2. CASE bytes # << >>
    BY <1>1, <1>2, <2>2, LengthRestores
  <2> QED
    BY <2>1, <2>2
<1> HIDE DEF y, c
<1> SUFFICES ASSUME NEW z \in Systems, Like(z, y, s)
             PROVE  /\ CanUndo(z, u)
                    /\ UndoneFrom(z, u) \in Systems
                    /\ Like(UndoneFrom(z, u), x, s)
  BY DEF TakesBack, y
<1>4. /\ d \in 1 .. Len(z.desc) /\ z.desc[d].ino = i
      /\ Data(z, d) = Data(y, d)
  BY <1>2, DescThere
<1> DEFINE v == IF u.op = "cut" THEN Seek(z, d, old) ELSE z
           w == SetLen(v, d, Len(c))
<1>5. UndoneFrom(z, u) = w /\ CanUndo(z, u)
  BY DEF UndoneFrom, CanUndo, c
<1>6. Touches(v, z, i, d) /\ Data(v, d) = Data(z, d)
  BY <1>4, SeekTouches, TouchesNone
<1> HIDE DEF v
<1>7. v \in Systems /\ d \in 1 .. Len(v.desc) /\ v.desc[d].ino = i
  BY <1>4, <1>6 DEF Touches, SameHandle
<1>8. Touches(w, v, i, d) /\ Data(w, d) = Resized(Data(v, d), Len(c))
  BY <1>1, <1>7, SetLenTouches
<1> HIDE DEF w, i
<1>9. Touches(w, z, i, d) /\ Data(w, d) = c
  BY <1>3, <1>4, <1>6, <1>8, TouchesAlso
<1>10. w \in Systems
  BY <1>9 DEF Touches
<1>11. Like(w, x, s)
  BY <1>2, <1>9, DescBack DEF c, i
<1> QED
  BY <1>5, <1>10, <1>11

\* A write is taken back by what it is about to overwrite.
LEMMA RegionTakesBack ==
    ASSUME NEW x \in Systems, NEW s \in Scopes, s.descs \subseteq 1 .. Len(x.desc),
           NEW d \in s.descs, NEW n \in Nat, NEW bytes \in Contents, Len(bytes) <= n
    PROVE  TakesBack([op |-> "region", desc |-> d, pos |-> x.desc[d].pos,
                      data |-> ReadHere(x, d, n), len |-> Len(Data(x, d))],
                     WriteHere(x, d, bytes), s, x, s)
<1> DEFINE i == x.desc[d].ino
           c == Data(x, d)
           pos == x.desc[d].pos
           old == ReadHere(x, d, n)
           u == [op |-> "region", desc |-> d, pos |-> pos, data |-> old, len |-> Len(c)]
           y == WriteHere(x, d, bytes)
<1>1. c \in Contents /\ Len(c) \in Nat /\ pos \in Nat
  <2>1. c \in Contents /\ pos \in Nat
    BY SystemFacts
  <2> QED
    BY <2>1 DEF Contents
<1>2. /\ Touches(y, x, i, d)
      /\ bytes = << >> => Data(y, d) = c
      /\ bytes # << >> => Data(y, d) = Spliced(c, At(x, d), bytes)
  BY WriteTouches
<1>3. old = SubSeq(c, pos + 1, Smaller(pos + n, Len(c))) /\ old \in Contents
  BY <1>1, TakenContents DEF ReadHere
<1> HIDE DEF y, c, old, pos, u
<1> SUFFICES ASSUME NEW z \in Systems, Like(z, y, s)
             PROVE  /\ CanUndo(z, u)
                    /\ UndoneFrom(z, u) \in Systems
                    /\ Like(UndoneFrom(z, u), x, s)
  BY DEF TakesBack, y, c, old, pos, u
<1>4. /\ d \in 1 .. Len(z.desc) /\ z.desc[d].ino = i
      /\ z.desc[d].append = x.desc[d].append
      /\ Data(z, d) = Data(y, d)
  BY <1>2, DescThere
<1> DEFINE w == RegionFrom(z, u)
           b == Data(z, d)
           at == IF x.desc[d].append THEN Len(b) ELSE pos
           r == IF old = << >> THEN b ELSE Spliced(b, at, old)
<1>5. UndoneFrom(z, u) = w /\ CanUndo(z, u)
  BY DEF UndoneFrom, CanUndo, u
<1>6. b \in Contents
  BY <1>4, SystemFacts
<1>7. Len(z.desc) \in Nat /\ u \in Inverses(Len(z.desc))
  <2>1. Len(z.desc) \in Nat
    BY SystemFacts
  <2> QED
    BY <1>1, <1>3, <1>4, <2>1 DEF Inverses, u
<1>8. Touches(w, z, i, d) /\ Data(w, d) = Resized(r, Len(c))
  <2>1. u.op = "region" /\ u.desc = d /\ u.pos = pos /\ u.data = old /\ u.len = Len(c)
    BY DEF u
  <2>2. Len(z.desc) <= Len(z.desc)
    BY <1>7
  <2> DEFINE a == IF z.desc[u.desc].append THEN Len(Data(z, u.desc)) ELSE u.pos
             q == IF u.data = << >> THEN Data(z, u.desc)
                  ELSE Spliced(Data(z, u.desc), a, u.data)
  <2>3. Touches(w, z, z.desc[u.desc].ino, u.desc) /\ Data(w, u.desc) = Resized(q, u.len)
    BY <1>7, <2>1, <2>2, RegionTouches
  <2>4. q = r
    BY <1>4, <2>1
  <2> HIDE DEF q, r
  <2> QED
    BY <1>4, <2>1, <2>3, <2>4
<1> HIDE DEF w
<1>9. Resized(r, Len(c)) = c
  <2>1. CASE ~x.desc[d].append
    <3>1. At(x, d) = pos /\ at = pos
      BY <2>1 DEF At, pos
    <3>2. b = Written(c, pos, bytes)
      BY <1>2, <1>4, <3>1 DEF Written
    <3>3. r = Written(b, pos, old)
      BY <3>1 DEF Written
    <3> HIDE DEF b, r
    <3> QED
      BY <1>1, <1>3, <3>2, <3>3, RegionRestores
  <2>2. CASE x.desc[d].append
    <3>1. At(x, d) = Len(c) /\ at = Len(b)
      BY <2>2 DEF At, c
    <3>2. b = IF bytes = << >> THEN c ELSE Spliced(c, Len(c), bytes)
      BY <1>2, <1>4, <3>1
    <3> HIDE DEF b
    <3>3. Len(c) <= Len(b) /\ \A j \in 1 .. Len(c) : b[j] = c[j]
      <4>1. CASE bytes = << >>
        BY <1>1, <3>2, <4>1
      <4>2. CASE bytes # << >>
        <5>1. /\ Len(b) = Larger(Len(c), Len(c) + Len(bytes))
              /\ \A j \in 1 .. Len(b) :
                   b[j] = IF j \in Len(c) + 1 .. Len(c) + Len(bytes)
                          THEN bytes[j - Len(c)]
                          ELSE IF j <= Len(c) THEN c[j] ELSE Hole
          BY <1>1, <3>2, <4>2, SplicedContents
        <5>2. Len(bytes) \in Nat
          BY DEF Contents
        <5> QED
          BY <1>1, <5>1, <5>2 DEF Larger
      <4> QED
        BY <4>1, <4>2
    <3>4. CASE old = << >>
      BY <1>1, <1>6, <3>3, <3>4, ResizedBack
    <3>5. CASE old # << >>
      BY <1>1, <1>3, <1>6, <3>1, <3>3, <3>5, AppendRestores
    <3> QED
      BY <3>4, <3>5
  <2> QED
    BY <2>1, <2>2
<1>10. w \in Systems
  BY <1>8 DEF Touches
<1>11. Like(w, x, s)
  BY <1>2, <1>8, <1>9, DescBack DEF c
<1> QED
  BY <1>5, <1>10, <1>11

\* Contents put back at the path they were at.
LEMMA RestoreBack ==
    ASSUME NEW x \in Systems, NEW s \in Scopes, s.descs \subseteq 1 .. Len(x.desc),
           NEW p \in s.paths, Exists(x, p), NEW y,
           Touches(y, x, x.name[p], NoDesc)
    PROVE  TakesBack([op |-> "restore", path |-> p, data |-> PathData(x, p)], y, s, x, s)
<1> DEFINE i == x.name[p]
           c == PathData(x, p)
           u == [op |-> "restore", path |-> p, data |-> c]
<1>1. /\ p \in Paths /\ i \in 1 .. Len(x.data) /\ c \in Contents /\ i \in Inodes(x, s)
      /\ y.name[p] = i /\ y.name[p] # NoFile
  <2>1. p \in Paths
    BY DEF Scopes
  <2>2. i \in 1 .. Len(x.data)
    BY <2>1, SystemFacts DEF Exists, NoFile
  <2> QED
    BY <2>1, <2>2, SystemFacts DEF Inodes, PathData, Touches, Exists
<1> SUFFICES ASSUME NEW z \in Systems, Like(z, y, s)
             PROVE  /\ CanUndo(z, u)
                    /\ UndoneFrom(z, u) \in Systems
                    /\ Like(UndoneFrom(z, u), x, s)
  BY DEF TakesBack
<1> HIDE DEF c
<1>2. z.name[p] = i /\ Exists(z, p)
  BY <1>1 DEF Like, Exists
<1> DEFINE w == PathPut(z, p, c)
<1>3. UndoneFrom(z, u) = w /\ CanUndo(z, u)
  BY DEF UndoneFrom, CanUndo
<1>4. Touches(w, z, i, NoDesc) /\ PathData(w, p) = c
  BY <1>1, <1>2, PathPutTouches
<1> HIDE DEF w, u
<1>5. w.name[p] = i /\ w.data[i] = x.data[i]
  BY <1>2, <1>4 DEF Touches, PathData, c
<1>6. Like(w, x, s)
  <2> HIDE DEF i
  <2> QED
    BY <1>1, <1>4, <1>5, TouchedBack DEF i
<1> QED
  BY <1>3, <1>4, <1>6 DEF Touches

LEMMA RenameBack ==
    ASSUME NEW x \in Systems, NEW s \in Scopes, s.descs \subseteq 1 .. Len(x.desc),
           NEW p \in s.paths, NEW q \in s.paths, p # q, Exists(x, p), ~Exists(x, q)
    PROVE  TakesBack([op |-> "rename", from |-> p, to |-> q], Renamed(x, p, q), s, x, s)
<1> DEFINE u == [op |-> "rename", from |-> p, to |-> q]
           y == Renamed(x, p, q)
<1>1. p \in Paths /\ q \in Paths /\ s.paths \subseteq Paths
  BY DEF Scopes
<1>2. Renames(y, x, {p, q}) /\ y.name[q] = x.name[p] /\ ~Exists(y, p)
  BY <1>1, RenamedRenames
<1> HIDE DEF y
<1> SUFFICES ASSUME NEW z \in Systems, Like(z, y, s)
             PROVE  /\ CanUndo(z, u)
                    /\ UndoneFrom(z, u) \in Systems
                    /\ Like(UndoneFrom(z, u), x, s)
  BY DEF TakesBack, y
<1> DEFINE w == Renamed(z, q, p)
<1>3. z.name[q] = x.name[p] /\ Exists(z, q)
  BY <1>2 DEF Like, Exists
<1>4. UndoneFrom(z, u) = w /\ CanUndo(z, u)
  BY <1>3 DEF UndoneFrom, CanUndo
<1>5. Renames(w, z, {p, q}) /\ w.name[p] = z.name[q] /\ ~Exists(w, q)
  <2>1. Renames(w, z, {q, p}) /\ w.name[p] = z.name[q] /\ ~Exists(w, q)
    BY <1>1, RenamedRenames
  <2>2. {q, p} = {p, q}
    OBVIOUS
  <2> HIDE DEF w
  <2> QED
    BY <2>1, <2>2
<1> HIDE DEF w, u
<1>6. \A r \in s.paths : w.name[r] = x.name[r]
  BY <1>1, <1>2, <1>3, <1>5 DEF Renames, Like, Exists
<1>7. Inodes(x, s) = Inodes(y, s)
  <2>1. \A r \in s.paths : Exists(y, r) =>
          y.name[r] \in {x.name[t] : t \in {t \in s.paths : Exists(x, t)}}
    BY <1>1, <1>2 DEF Renames, Exists
  <2>2. \A r \in s.paths : Exists(x, r) =>
          x.name[r] \in {y.name[t] : t \in {t \in s.paths : Exists(y, t)}}
    BY <1>1, <1>2 DEF Renames, Exists
  <2>3. y.desc = x.desc
    BY <1>2 DEF Renames
  <2> QED
    BY <2>1, <2>2, <2>3 DEF Inodes
<1>8. Like(w, x, s)
  BY <1>2, <1>5, <1>6, <1>7 DEF Like, Renames
<1> QED
  BY <1>4, <1>5, <1>8 DEF Renames

\* A file that an open has made is unlinked again; one it has emptied is restored.
LEMMA OpenBack ==
    ASSUME NEW x \in Systems, NEW s \in Scopes, s.descs \subseteq 1 .. Len(x.desc),
           NEW p \in s.paths, NEW f \in Flags, NEW t \in Scopes, Part(s, t),
           NEW u,
           \/ u = [op |-> "unlink", path |-> p] /\ ~Exists(x, p)
           \/ /\ u = [op |-> "restore", path |-> p, data |-> PathData(x, p)]
              /\ Exists(x, p)
    PROVE  TakesBack(u, Opened(x, p, f), t, x, s)
<1> DEFINE y == Opened(x, p, f)
           i == y.name[p]
<1>1. p \in Paths /\ s.paths \subseteq Paths /\ Len(x.desc) \in Nat /\ Len(x.data) \in Nat
  BY SystemFacts DEF Scopes
<1>2. /\ y \in Systems
      /\ Len(y.desc) = Len(x.desc) + 1
      /\ \A e \in 1 .. Len(x.desc) : y.desc[e] = x.desc[e]
      /\ \A q \in Paths : q # p => y.name[q] = x.name[q]
      /\ Exists(x, p) => i = x.name[p]
      /\ ~Exists(x, p) => i = Len(x.data) + 1
      /\ \A j \in 1 .. Len(x.data) : j # i => y.data[j] = x.data[j]
  BY <1>1, OpenedSystem
<1> HIDE DEF y, i
<1> SUFFICES ASSUME NEW z \in Systems, Like(z, y, t)
             PROVE  /\ CanUndo(z, u)
                    /\ UndoneFrom(z, u) \in Systems
                    /\ Like(UndoneFrom(z, u), x, s)
  BY DEF TakesBack, y
<1>3. Like(z, y, s)
  BY LikePart
<1>4. y.name[p] = i /\ i # NoFile /\ z.name[p] = i /\ Exists(z, p)
  BY SMTT(60), <1>1, <1>2, <1>3 DEF i, Like, Exists, NoFile
<1>5. /\ s.descs \subseteq 1 .. Len(z.desc)
      /\ \A d \in s.descs : SameHandle(z.desc[d], x.desc[d])
  BY <1>2, <1>3 DEF Like, SameHandle
<1>6. Inodes(x, s) \subseteq 1 .. Len(x.data)
  BY InodesBounds
<1>7. ASSUME NEW j \in Inodes(x, s), j # i
      PROVE  z.data[j] = x.data[j] /\ j \in 1 .. Len(z.data)
  <2>1. j \in Inodes(y, s)
    <3>1. CASE \E d \in s.descs : j = x.desc[d].ino
      BY <1>2, <3>1 DEF Inodes
    <3>2. CASE \E q \in s.paths : Exists(x, q) /\ j = x.name[q]
      <4>1. PICK q \in s.paths : Exists(x, q) /\ j = x.name[q]
        BY <3>2
      <4>2. q # p
        BY <1>2, <1>7, <4>1
      <4>3. y.name[q] = x.name[q] /\ Exists(y, q)
        BY <1>1, <1>2, <4>1, <4>2 DEF Exists
      <4> QED
        BY <4>1, <4>3 DEF Inodes
    <3> QED
      BY <3>1, <3>2 DEF Inodes
  <2>2. z.data[j] = y.data[j] /\ y.data[j] = x.data[j]
    BY <1>2, <1>3, <1>6, <1>7, <2>1 DEF Like
  <2>3. Inodes(z, s) = Inodes(y, s) /\ Inodes(z, s) \subseteq 1 .. Len(z.data)
    BY <1>3, <1>5, LikeInodes, InodesBounds
  <2> QED
    BY <2>1, <2>2, <2>3
<1>8. CASE ~Exists(x, p)
  <2>1. u = [op |-> "unlink", path |-> p]
    BY <1>8
  <2> DEFINE w == Unlinked(z, p)
  <2>2. UndoneFrom(z, u) = w /\ CanUndo(z, u)
    BY <1>4, <2>1 DEF UndoneFrom, CanUndo
  <2>3. Renames(w, z, {p}) /\ ~Exists(w, p)
    BY <1>1, UnlinkedRenames
  <2> HIDE DEF w
  <2>4. \A q \in s.paths : w.name[q] = x.name[q]
    <3>1. w.name[p] = x.name[p]
      BY <1>1, <1>8, <2>3 DEF Exists
    <3>2. ASSUME NEW q \in s.paths, q # p PROVE w.name[q] = x.name[q]
      <4>1. y.name[q] = x.name[q] /\ z.name[q] = y.name[q]
        BY <1>1, <1>2, <1>3, <3>2 DEF Like
      <4> QED
        BY <1>1, <2>3, <3>2, <4>1 DEF Renames
    <3> QED
      BY <3>1, <3>2
  <2>5. \A j \in Inodes(x, s) : j # i
    BY <1>1, <1>2, <1>6, <1>8
  <2>6. Like(w, x, s)
    BY <1>5, <1>7, <2>3, <2>4, <2>5 DEF Like, Renames
  <2> QED
    BY <2>2, <2>3, <2>6 DEF Renames
<1>9. CASE Exists(x, p)
  <2>1. u = [op |-> "restore", path |-> p, data |-> PathData(x, p)]
    BY <1>9
  <2> DEFINE c == PathData(x, p)
             w == PathPut(z, p, c)
  <2>2. UndoneFrom(z, u) = w /\ CanUndo(z, u)
    BY <2>1 DEF UndoneFrom, CanUndo
  <2>3. c \in Contents /\ c = x.data[i]
    BY <1>1, <1>2, <1>9, SystemFacts DEF PathData, Exists, NoFile
  <2> HIDE DEF c
  <2>4. Touches(w, z, i, NoDesc) /\ PathData(w, p) = c
    BY <1>1, <1>4, <2>3, PathPutTouches
  <2> HIDE DEF w
  <2>5. w.data[i] = x.data[i]
    BY <1>4, <2>3, <2>4 DEF Touches, PathData
  <2>6. ASSUME NEW j \in Inodes(x, s) PROVE w.data[j] = x.data[j]
    <3>1. CASE j # i
      BY <1>7, <2>4, <3>1 DEF Touches
    <3> QED
      BY <2>5, <3>1
  <2>7. \A q \in s.paths : w.name[q] = x.name[q]
    <3>1. w.name = z.name
      BY <2>4 DEF Touches
    <3>2. w.name[p] = x.name[p]
      BY <1>2, <1>4, <1>9, <3>1
    <3>3. ASSUME NEW q \in s.paths, q # p PROVE w.name[q] = x.name[q]
      BY <1>1, <1>2, <1>3, <3>1, <3>3 DEF Like
    <3> QED
      BY <3>2, <3>3
  <2>8. \A d \in s.descs : SameHandle(w.desc[d], x.desc[d])
    BY <1>5, <2>4 DEF Touches, SameHandle
  <2>9. Like(w, x, s)
    BY <1>5, <2>4, <2>6, <2>7, <2>8 DEF Like, Touches
  <2> QED
    BY <2>2, <2>4, <2>9 DEF Touches
<1> QED
  BY <1>8, <1>9

-----------------------------------------------------------------------------
(* Stacks that lead back *)

Views == [file : [Paths -> SUBSET Contents], cursor : Seq(Nat)]
Entries(n) == [inverse : Inverses(n), before : Views, scope : Scopes]

\* The systems that are not told from x through s.
Likes(x, s) == {y \in Systems : Like(y, x, s)}

\* The undos of s, newest first, lead from C[Len(s) + 1] through the C[i], in each
\* of which the files are those that the i-th call found.  C[i] does not tell
\* systems that are alike through S[i], whose files are among I.
Chain(s, C, S, I) ==
    /\ C \in [1 .. Len(s) + 1 -> SUBSET Systems]
    /\ S \in [1 .. Len(s) + 1 -> Scopes]
    /\ \A i \in 1 .. Len(s) + 1 : \A x \in C[i] :
         /\ S[i].descs \subseteq 1 .. Len(x.desc)
         /\ Inodes(x, S[i]) \subseteq I
         /\ Likes(x, S[i]) \subseteq C[i]
    /\ \A i \in 1 .. Len(s) :
         /\ Concerns(s[i].inverse, S[i + 1])
         /\ Part(s[i].scope, S[i])
         /\ \A x \in C[i + 1] : /\ CanUndo(x, s[i].inverse)
                                /\ UndoneFrom(x, s[i].inverse) \in C[i]
         /\ \A x \in C[i] : \A p \in s[i].scope.paths :
              FileAt(x, p) = s[i].before.file[p]

\* s leads from x back to what looks like y through t; all within r and I.
Sound(s, x, r, I, y, t) ==
    \E C, S :
        /\ Chain(s, C, S, I)
        /\ \A i \in 1 .. Len(s) + 1 : Part(S[i], r)
        /\ x \in C[Len(s) + 1]
        /\ C[1] \subseteq Likes(y, t)
        /\ Part(t, S[1])

LEMMA SoundLike ==
    ASSUME NEW n, NEW s \in Seq(Entries(n)), NEW x, NEW r, NEW I, NEW y, NEW t,
           Sound(s, x, r, I, y, t), NEW z \in Systems, Like(z, x, r)
    PROVE  Sound(s, z, r, I, y, t)
<1> DEFINE k == Len(s) + 1
<1>1. PICK C, S : /\ Chain(s, C, S, I)
                  /\ \A i \in 1 .. k : Part(S[i], r)
                  /\ x \in C[k]
                  /\ C[1] \subseteq Likes(y, t)
                  /\ Part(t, S[1])
  BY DEF Sound
<1>2. Len(s) \in Nat /\ k \in 1 .. k
  OBVIOUS
<1> HIDE DEF k
<1>3. Like(z, x, S[k])
  BY <1>1, <1>2, LikePart
<1>4. z \in C[k]
  BY <1>1, <1>2, <1>3 DEF Chain, Likes, k
<1> QED
  BY <1>1, <1>4 DEF Sound, k

LEMMA SoundMore ==
    ASSUME NEW n, NEW s \in Seq(Entries(n)), NEW x, NEW r, NEW I, NEW y, NEW t,
           Sound(s, x, r, I, y, t), NEW q, NEW J, Part(r, q), I \subseteq J
    PROVE  Sound(s, x, q, J, y, t)
<1> DEFINE k == Len(s) + 1
<1>1. PICK C, S : /\ Chain(s, C, S, I)
                  /\ \A i \in 1 .. k : Part(S[i], r)
                  /\ x \in C[k]
                  /\ C[1] \subseteq Likes(y, t)
                  /\ Part(t, S[1])
  BY DEF Sound
<1>2. Chain(s, C, S, J)
  BY <1>1 DEF Chain
<1>3. \A i \in 1 .. k : Part(S[i], q)
  BY <1>1 DEF Part
<1> QED
  BY <1>1, <1>2, <1>3 DEF Sound

LEMMA SoundEmpty ==
    ASSUME NEW x \in Systems, NEW r \in Scopes, r.descs \subseteq 1 .. Len(x.desc),
           NEW I, Inodes(x, r) \subseteq I, NEW y, NEW t, Part(t, r), Like(x, y, t)
    PROVE  Sound(<< >>, x, r, I, y, t)
<1> DEFINE C == [i \in 1 .. 1 |-> Likes(x, r)]
           S == [i \in 1 .. 1 |-> r]
           s == << >>
<1>1. Len(s) = 0 /\ Len(s) + 1 = 1
  OBVIOUS
<1>2. C[1] = Likes(x, r) /\ S[1] = r
  OBVIOUS
<1>3. C \in [1 .. 1 -> SUBSET Systems] /\ S \in [1 .. 1 -> Scopes]
  BY DEF Likes
<1> HIDE DEF C, S, s
<1>4. \A z \in C[1] : /\ S[1].descs \subseteq 1 .. Len(z.desc)
                      /\ Inodes(z, S[1]) \subseteq I
                      /\ Likes(z, S[1]) \subseteq C[1]
  <2> SUFFICES ASSUME NEW z \in C[1]
               PROVE  /\ r.descs \subseteq 1 .. Len(z.desc)
                      /\ Inodes(z, r) \subseteq I
                      /\ Likes(z, r) \subseteq C[1]
    BY <1>2
  <2>1. Like(z, x, r)
    BY <1>2 DEF Likes
  <2>2. \A w \in Likes(z, r) : w \in Likes(x, r)
    BY <2>1, LikeAlso DEF Likes
  <2> QED
    BY <1>2, <2>1, <2>2, LikeInodes DEF Like
<1>5. \A i \in 1 .. 1 : i = 1
  OBVIOUS
<1>6. Chain(s, C, S, I)
  BY <1>1, <1>3, <1>4, <1>5 DEF Chain
<1>7. x \in C[1]
  BY <1>2, LikeSelf DEF Likes
<1>8. C[1] \subseteq Likes(y, t)
  <2> SUFFICES ASSUME NEW z \in Systems, Like(z, x, r) PROVE Like(z, y, t)
    BY <1>2 DEF Likes
  <2> QED
    BY LikePart, LikeAlso
<1>9. (\A i \in 1 .. 1 : Part(S[i], r)) /\ Part(t, S[1])
  BY <1>2, <1>5 DEF Part
<1> QED
  BY <1>1, <1>6, <1>7, <1>8, <1>9 DEF Sound, s

\* A call that its inverse takes back.
LEMMA SoundPush ==
    ASSUME NEW n, NEW s \in Seq(Entries(n)), NEW x \in Systems, NEW r \in Scopes,
           r.descs \subseteq 1 .. Len(x.desc), NEW I, Inodes(x, r) \subseteq I,
           NEW y, NEW t, Sound(s, x, r, I, y, t),
           NEW z \in Systems, NEW q \in Scopes, Part(r, q),
           q.descs \subseteq 1 .. Len(z.desc), NEW J, I \subseteq J, Inodes(z, q) \subseteq J,
           NEW m, NEW e \in Entries(m), e.scope = r,
           \A p \in r.paths : FileAt(x, p) = e.before.file[p],
           Concerns(e.inverse, q), TakesBack(e.inverse, z, q, x, r)
    PROVE  Sound(Append(s, e), z, q, J, y, t)
<1> DEFINE k == Len(s)
           w == Append(s, e)
<1>1. /\ k \in Nat /\ Len(w) = k + 1 /\ w[k + 1] = e
      /\ \A i \in 1 .. k : w[i] = s[i]
  OBVIOUS
<1> HIDE DEF w
<1>2. PICK C, S : /\ Chain(s, C, S, I)
                  /\ \A i \in 1 .. k + 1 : Part(S[i], r)
                  /\ x \in C[k + 1]
                  /\ C[1] \subseteq Likes(y, t)
                  /\ Part(t, S[1])
  BY DEF Sound
<1> DEFINE D == [i \in 1 .. k + 2 |-> IF i = k + 1 THEN Likes(x, r)
                                     ELSE IF i = k + 2 THEN Likes(z, q) ELSE C[i]]
           T == [i \in 1 .. k + 2 |-> IF i = k + 1 THEN r
                                     ELSE IF i = k + 2 THEN q ELSE S[i]]
<1>3. /\ D[k + 1] = Likes(x, r) /\ T[k + 1] = r
      /\ D[k + 2] = Likes(z, q) /\ T[k + 2] = q
      /\ \A i \in 1 .. k : D[i] = C[i] /\ T[i] = S[i]
  BY <1>1
<1>4. /\ D \in [1 .. k + 2 -> SUBSET Systems]
      /\ T \in [1 .. k + 2 -> Scopes]
  <2>1. \A i \in 1 .. k + 2 : i \notin {k + 1, k + 2} => i \in 1 .. k + 1
    BY <1>1
  <2>2. /\ \A i \in 1 .. k + 1 : C[i] \in SUBSET Systems /\ S[i] \in Scopes
        /\ Likes(x, r) \in SUBSET Systems /\ Likes(z, q) \in SUBSET Systems
    BY <1>2 DEF Chain, Likes
  <2> QED
    BY <2>1, <2>2
<1> HIDE DEF D, T, k
<1>5. \A i \in 1 .. k + 2 : i \in 1 .. k \/ i = k + 1 \/ i = k + 2
  BY <1>1
<1>6. ASSUME NEW v \in Systems, NEW g \in Scopes, g.descs \subseteq 1 .. Len(v.desc),
             Inodes(v, g) \subseteq J, NEW a \in Likes(v, g)
      PROVE  /\ g.descs \subseteq 1 .. Len(a.desc)
             /\ Inodes(a, g) \subseteq J
             /\ Likes(a, g) \subseteq Likes(v, g)
  <2>1. Like(a, v, g)
    BY <1>6 DEF Likes
  <2>2. \A b \in Likes(a, g) : b \in Likes(v, g)
    BY <2>1, LikeAlso DEF Likes
  <2> QED
    BY <1>6, <2>1, <2>2, LikeInodes DEF Like
<1>7. ASSUME NEW i \in 1 .. k + 2, NEW a \in D[i]
      PROVE  /\ T[i].descs \subseteq 1 .. Len(a.desc)
             /\ Inodes(a, T[i]) \subseteq J
             /\ Likes(a, T[i]) \subseteq D[i]
  <2>1. CASE i \in 1 .. k
    <3>1. i \in 1 .. k + 1
      BY <1>1, <2>1
    <3> QED
      BY <1>2, <1>3, <1>7, <2>1, <3>1 DEF Chain, k
  <2>2. CASE i = k + 1
    BY <1>3, <1>6, <1>7, <2>2
  <2>3. CASE i = k + 2
    BY <1>3, <1>6, <1>7, <2>3
  <2> QED
    BY <1>5, <2>1, <2>2, <2>3
<1>8. Likes(x, r) \subseteq C[k + 1]
  <2> SUFFICES ASSUME NEW a \in Systems, Like(a, x, r) PROVE a \in C[k + 1]
    BY DEF Likes
  <2>1. k + 1 \in 1 .. k + 1
    BY <1>1
  <2>2. Like(a, x, S[k + 1])
    BY <1>2, <2>1, LikePart
  <2> QED
    BY <1>2, <2>1, <2>2 DEF Chain, Likes, k
<1>9. \A i \in 1 .. k + 1 : D[i] \subseteq C[i]
  BY <1>1, <1>3, <1>8
<1>10. ASSUME NEW i \in 1 .. k + 1
       PROVE  /\ Concerns(w[i].inverse, T[i + 1])
              /\ Part(w[i].scope, T[i])
              /\ \A a \in D[i + 1] : /\ CanUndo(a, w[i].inverse)
                                     /\ UndoneFrom(a, w[i].inverse) \in D[i]
              /\ \A a \in D[i] : \A p \in w[i].scope.paths :
                   FileAt(a, p) = w[i].before.file[p]
  <2>1. CASE i \in 1 .. k
    <3>1. w[i] = s[i] /\ D[i] = C[i] /\ T[i] = S[i] /\ i + 1 \in 1 .. k + 1
      BY <1>1, <1>3, <2>1
    <3>2. /\ Concerns(s[i].inverse, S[i + 1])
          /\ Part(s[i].scope, S[i])
          /\ \A a \in C[i + 1] : /\ CanUndo(a, s[i].inverse)
                                 /\ UndoneFrom(a, s[i].inverse) \in C[i]
          /\ \A a \in C[i] : \A p \in s[i].scope.paths :
               FileAt(a, p) = s[i].before.file[p]
      BY <1>2, <2>1 DEF Chain, k
    <3>3. Concerns(s[i].inverse, T[i + 1])
      <4>1. CASE i + 1 \in 1 .. k
        BY <1>3, <3>2, <4>1
      <4>2. CASE i + 1 = k + 1
        <5>1. Part(S[k + 1], r) /\ T[i + 1] = r
          BY <1>1, <1>2, <1>3, <4>2
        <5> QED
          BY <3>2, <4>2, <5>1 DEF Concerns, Part
      <4> QED
        BY <1>1, <3>1, <4>1, <4>2
    <3> QED
      BY <1>9, <3>1, <3>2, <3>3
  <2>2. CASE i = k + 1
    <3>1. w[i] = e /\ i + 1 = k + 2
      BY <1>1, <2>2
    <3>2. \A a \in Likes(z, q) : /\ CanUndo(a, e.inverse)
                                 /\ UndoneFrom(a, e.inverse) \in Likes(x, r)
      BY DEF TakesBack, Likes
    <3>3. \A a \in Likes(x, r) : \A p \in r.paths : FileAt(a, p) = e.before.file[p]
      BY LikeFiles DEF Likes
    <3>4. Part(e.scope, r)
      BY DEF Part
    <3> QED
      BY <1>3, <2>2, <3>1, <3>2, <3>3, <3>4
  <2> QED
    BY <1>1, <2>1, <2>2
<1>11. Chain(w, D, T, J)
  <2>1. Len(w) + 1 = k + 2
    BY <1>1
  <2> QED
    BY <1>1, <1>4, <1>7, <1>10, <2>1 DEF Chain
<1>12. \A i \in 1 .. k + 2 : Part(T[i], q)
  <2>1. \A i \in 1 .. k : Part(T[i], r)
    BY <1>1, <1>2, <1>3
  <2> QED
    BY <1>3, <1>5, <2>1 DEF Part
<1>13. z \in D[k + 2]
  BY <1>3, LikeSelf DEF Likes
<1>14. D[1] \subseteq Likes(y, t) /\ Part(t, T[1])
  <2>1. D[1] \subseteq Likes(y, t)
    BY <1>1, <1>2, <1>9
  <2>2. CASE 1 \in 1 .. k
    BY <1>2, <1>3, <2>1, <2>2
  <2>3. CASE k + 1 = 1
    <3>1. Part(S[1], r)
      BY <1>2, <2>3
    <3> QED
      BY <1>2, <1>3, <2>1, <2>3, <3>1 DEF Part
  <2> QED
    BY <1>1, <2>2, <2>3
<1>15. Len(w) + 1 = k + 2
  BY <1>1
<1> QED
  BY <1>11, <1>12, <1>13, <1>14, <1>15 DEF Sound, w

\* The newest undo can be run, finds again what its call found, and leaves a stack
\* that leads back.
LEMMA SoundPop ==
    ASSUME NEW n, NEW s \in Seq(Entries(n)), s # << >>, NEW x, NEW r, NEW I,
           NEW y, NEW t, Sound(s, x, r, I, y, t)
    PROVE  LET u == s[Len(s)]
               z == UndoneFrom(x, u.inverse)
           IN  /\ CanUndo(x, u.inverse)
               /\ Concerns(u.inverse, r)
               /\ Sound(SubSeq(s, 1, Len(s) - 1), z, r, I, y, t)
               /\ \A p \in u.scope.paths : FileAt(z, p) = u.before.file[p]
<1> DEFINE k == Len(s) - 1
           w == SubSeq(s, 1, k)
           u == s[Len(s)]
           z == UndoneFrom(x, u.inverse)
<1>1. /\ Len(s) \in Nat /\ k \in Nat /\ Len(s) = k + 1 /\ Len(w) = k
      /\ \A i \in 1 .. k : w[i] = s[i]
  <2>1. Len(s) \in Nat /\ Len(s) # 0
    BY EmptySeq
  <2>2. \A i \in 1 .. k : s[i] \in Entries(n)
    BY <2>1
  <2>3. /\ Len(w) = IF 1 <= k THEN k - 1 + 1 ELSE 0
        /\ \A i \in 1 .. k - 1 + 1 : w[i] = s[1 + i - 1]
    BY <2>1, <2>2, SubSeqProperties
  <2>4. k \in Nat /\ Len(s) = k + 1
    BY <2>1
  <2> HIDE DEF k, w
  <2>5. \A i \in 1 .. k : i \in 1 .. k - 1 + 1 /\ 1 + i - 1 = i
    BY <2>4
  <2> QED
    BY <2>3, <2>4, <2>5
<1> HIDE DEF w
<1>2. PICK C, S : /\ Chain(s, C, S, I)
                  /\ \A i \in 1 .. k + 2 : Part(S[i], r)
                  /\ x \in C[k + 2]
                  /\ C[1] \subseteq Likes(y, t)
                  /\ Part(t, S[1])
  BY <1>1 DEF Sound
<1>3. /\ Concerns(u.inverse, S[k + 2])
      /\ \A a \in C[k + 2] : CanUndo(a, u.inverse) /\ UndoneFrom(a, u.inverse) \in C[k + 1]
      /\ \A a \in C[k + 1] : \A p \in u.scope.paths : FileAt(a, p) = u.before.file[p]
  <2>1. k + 1 \in 1 .. Len(s) /\ (k + 1) + 1 = k + 2
    BY <1>1
  <2> QED
    BY <1>1, <1>2, <2>1 DEF Chain
<1> DEFINE D == [i \in 1 .. k + 1 |-> C[i]]
           T == [i \in 1 .. k + 1 |-> S[i]]
<1> HIDE DEF k
<1>4. /\ \A i \in 1 .. k + 1 : D[i] = C[i] /\ T[i] = S[i] /\ i \in 1 .. k + 2
      /\ D \in [1 .. k + 1 -> SUBSET Systems]
      /\ T \in [1 .. k + 1 -> Scopes]
  BY <1>1, <1>2 DEF Chain
<1> HIDE DEF D, T, z, u
<1>5. Chain(w, D, T, I)
  <2>1. Len(w) + 1 = k + 1 /\ Len(s) + 1 = k + 2
    BY <1>1
  <2>2. ASSUME NEW i \in 1 .. k + 1, NEW a \in D[i]
        PROVE  /\ T[i].descs \subseteq 1 .. Len(a.desc)
               /\ Inodes(a, T[i]) \subseteq I
               /\ Likes(a, T[i]) \subseteq D[i]
    BY <1>2, <1>4, <2>1, <2>2 DEF Chain
  <2>3. ASSUME NEW i \in 1 .. k
        PROVE  /\ Concerns(w[i].inverse, T[i + 1])
               /\ Part(w[i].scope, T[i])
               /\ \A a \in D[i + 1] : /\ CanUndo(a, w[i].inverse)
                                      /\ UndoneFrom(a, w[i].inverse) \in D[i]
               /\ \A a \in D[i] : \A p \in w[i].scope.paths :
                    FileAt(a, p) = w[i].before.file[p]
    <3>1. i \in 1 .. k + 1 /\ i + 1 \in 1 .. k + 1 /\ i \in 1 .. Len(s) /\ w[i] = s[i]
      BY <1>1
    <3> QED
      BY <1>2, <1>4, <3>1 DEF Chain
  <2> QED
    BY <1>1, <1>4, <2>1, <2>2, <2>3 DEF Chain
<1>6. k + 1 \in 1 .. k + 1 /\ 1 \in 1 .. k + 1 /\ k + 2 \in 1 .. k + 2
  BY <1>1
<1>7. z \in C[k + 1] /\ CanUndo(x, u.inverse)
  BY <1>2, <1>3 DEF z
<1>8. Sound(w, z, r, I, y, t)
  <2>1. Len(w) + 1 = k + 1
    BY <1>1
  <2>2. \A i \in 1 .. k + 1 : Part(T[i], r)
    BY <1>2, <1>4
  <2>3. z \in D[k + 1] /\ D[1] \subseteq Likes(y, t) /\ Part(t, T[1])
    BY <1>2, <1>4, <1>6, <1>7
  <2> QED
    BY <1>5, <2>1, <2>2, <2>3 DEF Sound
<1>9. Concerns(u.inverse, r)
  <2>1. Part(S[k + 2], r)
    BY <1>2, <1>6
  <2> QED
    BY <1>3, <2>1 DEF Concerns, Part
<1>10. \A p \in u.scope.paths : FileAt(z, p) = u.before.file[p]
  BY <1>3, <1>7
<1> QED
  BY <1>7, <1>8, <1>9, <1>10 DEF w, k, u, z

-----------------------------------------------------------------------------
(* Joining stacks *)

\* An undo is not seen through scopes that have nothing in common with its own.
LEMMA UndoneApart ==
    ASSUME NEW x \in Systems, NEW u \in Inverses(Len(x.desc)), NEW s \in Scopes,
           NEW t \in Scopes, Concerns(u, s),
           s.descs \subseteq 1 .. Len(x.desc), t.descs \subseteq 1 .. Len(x.desc),
           s.paths \cap t.paths = {}, s.descs \cap t.descs = {},
           Inodes(x, s) \cap Inodes(x, t) = {}
    PROVE  Like(UndoneFrom(x, u), x, t)
<1>1. Within(UndoneFrom(x, u), x, s)
  BY UndoneWithin
<1> QED
  BY <1>1, WithinLike

LEMMA InversesFit ==
    ASSUME NEW n \in Nat, NEW m \in Nat, NEW u \in Inverses(n), NEW s, Concerns(u, s),
           s.descs \subseteq 1 .. m
    PROVE  u \in Inverses(m)
<1>1. u.op \in {"seek", "set_len", "cut", "region"} => u.desc \in 1 .. m
  BY DEF Concerns
<1> QED
  BY <1>1 DEF Inverses

Joined(s, t) == [paths |-> s.paths \cup t.paths, descs |-> s.descs \cup t.descs]

LEMMA PartJoined ==
    ASSUME NEW s, NEW t
    PROVE  Part(s, Joined(s, t)) /\ Part(t, Joined(s, t))
  BY DEF Part, Joined

LEMMA LikeJoined ==
    ASSUME NEW x, NEW s, NEW t
    PROVE  Inodes(x, Joined(s, t)) = Inodes(x, s) \cup Inodes(x, t)
<1>1. Joined(s, t).paths = s.paths \cup t.paths /\ Joined(s, t).descs = s.descs \cup t.descs
  BY DEF Joined
<1> QED
  BY <1>1 DEF Inodes

\* K does not tell systems that are alike through g, whose files are among J.
Blind(K, g, J) ==
    /\ K \in SUBSET Systems
    /\ g \in Scopes
    /\ \A x \in K : /\ g.descs \subseteq 1 .. Len(x.desc)
                    /\ Inodes(x, g) \subseteq J
                    /\ Likes(x, g) \subseteq K

Aside(k, S, g) ==
    \A i \in 1 .. k + 1 : S[i].paths \cap g.paths = {} /\ S[i].descs \cap g.descs = {}

Only(k, C, K) == [i \in 1 .. k + 1 |-> C[i] \cap K]
Widened(k, S, g) == [i \in 1 .. k + 1 |-> Joined(S[i], g)]

LEMMA ChainScopes ==
    ASSUME NEW n \in Nat, NEW s \in Seq(Entries(n)), NEW C, NEW S, NEW I,
           Chain(s, C, S, I), NEW K, NEW g, NEW J, Blind(K, g, J)
    PROVE  /\ Only(Len(s), C, K) \in [1 .. Len(s) + 1 -> SUBSET Systems]
           /\ Widened(Len(s), S, g) \in [1 .. Len(s) + 1 -> Scopes]
<1>1. \A i \in 1 .. Len(s) + 1 : C[i] \cap K \in SUBSET Systems /\ Joined(S[i], g) \in Scopes
  BY DEF Chain, Joined, Scopes, Blind
<1> QED
  BY <1>1 DEF Only, Widened

\* A stack keeps leading back among systems that are alike in what it is not about.
LEMMA ChainApart ==
    ASSUME NEW n \in Nat, NEW s \in Seq(Entries(n)), NEW C, NEW S, NEW I,
           Chain(s, C, S, I),
           NEW K, NEW g, NEW J, I \cap J = {}, Blind(K, g, J), Aside(Len(s), S, g)
    PROVE  Chain(s, Only(Len(s), C, K), Widened(Len(s), S, g), I \cup J)
<1> DEFINE k == Len(s)
           D == Only(k, C, K)
           T == Widened(k, S, g)
<1>1. k \in Nat
  OBVIOUS
<1>2. \A i \in 1 .. k + 1 : D[i] = C[i] \cap K /\ T[i] = Joined(S[i], g)
  BY DEF Only, Widened
<1>3. D \in [1 .. k + 1 -> SUBSET Systems] /\ T \in [1 .. k + 1 -> Scopes]
  BY ChainScopes
<1> HIDE DEF D, T, k
<1>b. /\ K \in SUBSET Systems
      /\ g \in Scopes
      /\ \A x \in K : /\ g.descs \subseteq 1 .. Len(x.desc)
                      /\ Inodes(x, g) \subseteq J
                      /\ Likes(x, g) \subseteq K
  BY DEF Blind
<1>a. \A i \in 1 .. k + 1 : S[i].paths \cap g.paths = {} /\ S[i].descs \cap g.descs = {}
  BY DEF Aside, k
<1>4. ASSUME NEW i \in 1 .. k + 1, NEW x \in D[i]
      PROVE  /\ T[i].descs \subseteq 1 .. Len(x.desc)
             /\ Inodes(x, T[i]) \subseteq I \cup J
             /\ Likes(x, T[i]) \subseteq D[i]
  <2>1. /\ x \in C[i] /\ x \in K /\ D[i] = C[i] \cap K /\ T[i] = Joined(S[i], g)
    BY <1>2, <1>4
  <2>2. /\ S[i].descs \subseteq 1 .. Len(x.desc)
        /\ Inodes(x, S[i]) \subseteq I
        /\ Likes(x, S[i]) \subseteq C[i]
    BY <2>1 DEF Chain, k
  <2>3. T[i].descs \subseteq 1 .. Len(x.desc)
    BY <1>b, <2>1, <2>2 DEF Joined
  <2>4. Inodes(x, T[i]) \subseteq I \cup J
    BY <1>b, <2>1, <2>2, LikeJoined
  <2>5. ASSUME NEW y \in Systems, Like(y, x, T[i]) PROVE y \in D[i]
    <3>1. Part(S[i], T[i]) /\ Part(g, T[i])
      BY <2>1, PartJoined
    <3>2. Like(y, x, S[i]) /\ Like(y, x, g)
      BY <2>5, <3>1, LikePart
    <3> QED
      BY <1>b, <2>1, <2>2, <2>5, <3>2 DEF Likes
  <2> QED
    BY <2>3, <2>4, <2>5 DEF Likes
<1>5. ASSUME NEW i \in 1 .. k
      PROVE  /\ Concerns(s[i].inverse, T[i + 1])
             /\ Part(s[i].scope, T[i])
             /\ \A x \in D[i + 1] : /\ CanUndo(x, s[i].inverse)
                                    /\ UndoneFrom(x, s[i].inverse) \in D[i]
             /\ \A x \in D[i] : \A p \in s[i].scope.paths :
                  FileAt(x, p) = s[i].before.file[p]
  <2> DEFINE u == s[i].inverse
  <2>1. i \in 1 .. k + 1 /\ i + 1 \in 1 .. k + 1
    BY <1>1
  <2>2. /\ Concerns(u, S[i + 1])
        /\ Part(s[i].scope, S[i])
        /\ \A x \in C[i + 1] : CanUndo(x, u) /\ UndoneFrom(x, u) \in C[i]
        /\ \A x \in C[i] : \A p \in s[i].scope.paths : FileAt(x, p) = s[i].before.file[p]
    BY DEF Chain, k
  <2>3. u \in Inverses(n)
    <3>1. s[i] \in Entries(n)
      BY DEF k
    <3> QED
      BY <3>1 DEF Entries
  <2> HIDE DEF u
  <2>4. Concerns(u, T[i + 1]) /\ Part(s[i].scope, T[i])
    <3>1. Part(S[i + 1], T[i + 1]) /\ Part(S[i], T[i])
      BY <1>2, <2>1, PartJoined
    <3> QED
      BY <2>2, <3>1 DEF Concerns, Part
  <2>5. ASSUME NEW x \in D[i + 1]
        PROVE  CanUndo(x, u) /\ UndoneFrom(x, u) \in D[i]
    <3>1. x \in C[i + 1] /\ x \in K
      BY <1>2, <2>1, <2>5
    <3>2. CanUndo(x, u) /\ UndoneFrom(x, u) \in C[i]
      BY <2>2, <3>1
    <3>3. /\ S[i + 1] \in Scopes
          /\ S[i + 1].descs \subseteq 1 .. Len(x.desc)
          /\ Inodes(x, S[i + 1]) \subseteq I
          /\ S[i + 1].paths \cap g.paths = {}
          /\ S[i + 1].descs \cap g.descs = {}
          /\ x \in Systems
      BY <1>a, <1>b, <2>1, <3>1 DEF Chain, k
    <3>4. Len(x.desc) \in Nat
      BY <3>3, SystemFacts
    <3>5. u \in Inverses(Len(x.desc))
      BY <2>2, <2>3, <3>3, <3>4, InversesFit
    <3>6. Inodes(x, g) \subseteq J /\ g.descs \subseteq 1 .. Len(x.desc)
      BY <1>b, <3>1
    <3>7. Inodes(x, S[i + 1]) \cap Inodes(x, g) = {}
      BY <3>3, <3>6
    <3>8. Like(UndoneFrom(x, u), x, g)
      BY <1>b, <2>2, <3>3, <3>5, <3>6, <3>7, UndoneApart
    <3>9. UndoneFrom(x, u) \in Systems
      BY <2>1, <3>2 DEF Chain, k
    <3>10. UndoneFrom(x, u) \in K
      BY <1>b, <3>1, <3>8, <3>9 DEF Likes
    <3> QED
      BY <1>2, <2>1, <3>2, <3>10
  <2>6. \A x \in D[i] : \A p \in s[i].scope.paths : FileAt(x, p) = s[i].before.file[p]
    BY <1>2, <2>1, <2>2
  <2> QED
    BY <2>4, <2>5, <2>6 DEF u
<1>6. Chain(s, D, T, I \cup J)
  BY <1>3, <1>4, <1>5 DEF Chain, k
<1> QED
  BY <1>6 DEF D, T, k

Spliced2(k, m, C, D) == [i \in 1 .. k + m + 1 |-> IF i <= k THEN C[i] ELSE D[i - k]]

LEMMA Spliced2Values ==
    ASSUME NEW k \in Nat, NEW m \in Nat, NEW C, NEW D
    PROVE  LET E == Spliced2(k, m, C, D)
           IN  /\ E[k + m + 1] = D[m + 1]
               /\ \A h \in 1 .. k : E[h] = C[h]
               /\ \A h \in 1 .. m + 1 : E[k + h] = D[h]
               /\ k = 0 => E[1] = D[1]
<1> DEFINE E == Spliced2(k, m, C, D)
<1>1. \A h \in 1 .. k + m + 1 : E[h] = IF h <= k THEN C[h] ELSE D[h - k]
  BY DEF Spliced2
<1> HIDE DEF E
<1>2. \A h \in 1 .. k : E[h] = C[h]
  BY <1>1
<1>3. ASSUME NEW h \in 1 .. m + 1 PROVE E[k + h] = D[h]
  <2>1. k + h \in 1 .. k + m + 1 /\ ~(k + h <= k) /\ (k + h) - k = h
    OBVIOUS
  <2> QED
    BY <1>1, <2>1
<1>4. E[k + m + 1] = D[m + 1]
  <2>1. m + 1 \in 1 .. m + 1 /\ k + (m + 1) = k + m + 1
    OBVIOUS
  <2> QED
    BY <1>3, <2>1
<1>5. k = 0 => E[1] = D[1]
  <2>1. 1 \in 1 .. m + 1 /\ (k = 0 => k + 1 = 1)
    OBVIOUS
  <2> QED
    BY <1>3, <2>1
<1> QED
  BY <1>2, <1>3, <1>4, <1>5 DEF E

\* What the second stack leads back to is what the first one leads back from.
LEMMA ChainJoin ==
    ASSUME NEW n, NEW s \in Seq(Entries(n)), NEW C, NEW S, NEW I, Chain(s, C, S, I),
           NEW w \in Seq(Entries(n)), NEW D, NEW T, Chain(w, D, T, I),
           D[1] \subseteq C[Len(s) + 1], Part(S[Len(s) + 1], T[1])
    PROVE  Chain(s \o w, Spliced2(Len(s), Len(w), C, D), Spliced2(Len(s), Len(w), S, T), I)
<1> DEFINE k == Len(s)
           m == Len(w)
           v == s \o w
           E == Spliced2(k, m, C, D)
           U == Spliced2(k, m, S, T)
<1>1. /\ k \in Nat /\ m \in Nat /\ Len(v) = k + m
      /\ \A i \in 1 .. k : v[i] = s[i]
      /\ \A i \in 1 .. k + m : i > k => v[i] = w[i - k] /\ i - k \in 1 .. m
  OBVIOUS
<1>2. \A i \in 1 .. k + m + 1 : /\ E[i] = IF i <= k THEN C[i] ELSE D[i - k]
                               /\ U[i] = IF i <= k THEN S[i] ELSE T[i - k]
  BY DEF Spliced2
<1>3. \A i \in 1 .. k + m + 1 : /\ i <= k => i \in 1 .. k /\ i \in 1 .. k + 1
                               /\ i > k => i - k \in 1 .. m + 1
  BY <1>1
<1> HIDE DEF v, k, m
<1>4. E \in [1 .. k + m + 1 -> SUBSET Systems] /\ U \in [1 .. k + m + 1 -> Scopes]
  <2>1. \A i \in 1 .. k + m + 1 :
          /\ (IF i <= k THEN C[i] ELSE D[i - k]) \in SUBSET Systems
          /\ (IF i <= k THEN S[i] ELSE T[i - k]) \in Scopes
    <3>1. /\ \A i \in 1 .. k + 1 : C[i] \in SUBSET Systems /\ S[i] \in Scopes
          /\ \A i \in 1 .. m + 1 : D[i] \in SUBSET Systems /\ T[i] \in Scopes
      BY DEF Chain, k, m
    <3> TAKE i \in 1 .. k + m + 1
    <3>2. CASE i <= k
      <4>1. i \in 1 .. k + 1
        BY <1>1, <3>2
      <4> QED
        BY <3>1, <3>2, <4>1
    <3>3. CASE ~(i <= k)
      <4>1. i - k \in 1 .. m + 1
        BY <1>1, <3>3
      <4> QED
        BY <3>1, <3>3, <4>1
    <3> QED
      BY <3>2, <3>3
  <2> QED
    BY <2>1 DEF Spliced2
<1> HIDE DEF E, U
<1>5. ASSUME NEW i \in 1 .. k + m + 1, NEW x \in E[i]
      PROVE  /\ U[i].descs \subseteq 1 .. Len(x.desc)
             /\ Inodes(x, U[i]) \subseteq I
             /\ Likes(x, U[i]) \subseteq E[i]
  <2>1. CASE i <= k
    <3>1. E[i] = C[i] /\ U[i] = S[i] /\ i \in 1 .. k + 1
      BY <1>1, <1>2, <2>1
    <3> QED
      BY <1>5, <3>1 DEF Chain, k
  <2>2. CASE i > k
    <3>1. k \in Nat /\ m \in Nat
      BY <1>1
    <3>2. ~(i <= k)
      BY <2>2, <3>1
    <3>3. i - k \in 1 .. m + 1
      BY <2>2, <3>1
    <3>4. E[i] = D[i - k] /\ U[i] = T[i - k]
      BY <1>2, <3>2
    <3> QED
      BY <1>5, <3>3, <3>4 DEF Chain, m
  <2> QED
    BY <1>1, <2>1, <2>2
<1>6. ASSUME NEW i \in 1 .. k + m
      PROVE  /\ Concerns(v[i].inverse, U[i + 1])
             /\ Part(v[i].scope, U[i])
             /\ \A x \in E[i + 1] : /\ CanUndo(x, v[i].inverse)
                                    /\ UndoneFrom(x, v[i].inverse) \in E[i]
             /\ \A x \in E[i] : \A p \in v[i].scope.paths :
                  FileAt(x, p) = v[i].before.file[p]
  <2>1. CASE i <= k
    <3>1. i \in 1 .. k /\ v[i] = s[i] /\ E[i] = C[i] /\ U[i] = S[i]
      BY <1>1, <1>2, <2>1
    <3>2. /\ Concerns(s[i].inverse, S[i + 1])
          /\ Part(s[i].scope, S[i])
          /\ \A x \in C[i + 1] : /\ CanUndo(x, s[i].inverse)
                                 /\ UndoneFrom(x, s[i].inverse) \in C[i]
          /\ \A x \in C[i] : \A p \in s[i].scope.paths :
               FileAt(x, p) = s[i].before.file[p]
      BY <3>1 DEF Chain, k
    <3>3. E[i + 1] \subseteq C[i + 1] /\ Part(S[i + 1], U[i + 1])
      <4>1. CASE i + 1 <= k
        <5>1. E[i + 1] = C[i + 1] /\ U[i + 1] = S[i + 1]
          BY <1>1, <1>2, <4>1
        <5> QED
          BY <5>1 DEF Part
      <4>2. CASE i = k
        <5>1. E[i + 1] = D[1] /\ U[i + 1] = T[1]
          BY <1>1, <1>2, <4>2
        <5> QED
          BY <4>2, <5>1 DEF k
      <4> QED
        BY <1>1, <2>1, <4>1, <4>2
    <3>4. Concerns(s[i].inverse, U[i + 1])
      BY <3>2, <3>3 DEF Concerns, Part
    <3> QED
      BY <3>1, <3>2, <3>3, <3>4
  <2>2. CASE i > k
    <3>1. i - k \in 1 .. m /\ v[i] = w[i - k] /\ E[i] = D[i - k] /\ U[i] = T[i - k]
          /\ E[i + 1] = D[i - k + 1] /\ U[i + 1] = T[i - k + 1]
      BY <1>1, <1>2, <2>2
    <3> QED
      BY <3>1 DEF Chain, m
  <2> QED
    BY <1>1, <2>1, <2>2
<1>7. Chain(v, E, U, I)
  BY <1>1, <1>4, <1>5, <1>6 DEF Chain
<1> QED
  BY <1>7 DEF v, E, U, k, m

LEMMA ChainMore ==
    ASSUME NEW s, NEW C, NEW S, NEW I, NEW J, Chain(s, C, S, I), I \subseteq J
    PROVE  Chain(s, C, S, J)
  BY DEF Chain

LEMMA ChainValues ==
    ASSUME NEW n, NEW s \in Seq(Entries(n)), NEW C, NEW S, NEW I, Chain(s, C, S, I),
           NEW h \in 1 .. Len(s) + 1
    PROVE  /\ C[h] \in SUBSET Systems
           /\ S[h] \in Scopes
           /\ Blind(C[h], S[h], I)
  BY DEF Chain, Blind

LEMMA LikesBlind ==
    ASSUME NEW f \in Systems, NEW t \in Scopes, t.descs \subseteq 1 .. Len(f.desc)
    PROVE  Blind(Likes(f, t), t, Inodes(f, t))
<1> DEFINE K == Likes(f, t)
<1>1. K \in SUBSET Systems
  BY DEF Likes
<1>2. ASSUME NEW z \in K
      PROVE  /\ t.descs \subseteq 1 .. Len(z.desc)
             /\ Inodes(z, t) \subseteq Inodes(f, t)
             /\ Likes(z, t) \subseteq K
  <2>1. Like(z, f, t)
    BY <1>2 DEF Likes
  <2>2. \A v \in Likes(z, t) : v \in K
    BY <2>1, LikeAlso DEF Likes
  <2> QED
    BY <2>1, <2>2, LikeInodes DEF Like
<1> HIDE DEF K
<1> QED
  BY <1>1, <1>2 DEF Blind, K

LEMMA Concat ==
    ASSUME NEW n, NEW s \in Seq(Entries(n)), NEW w \in Seq(Entries(n))
    PROVE  s \o w \in Seq(Entries(n)) /\ Len(s \o w) = Len(s) + Len(w)
  OBVIOUS

\* D follows C.
Meet(s, C, S, D, T) == D[1] \subseteq C[Len(s) + 1] /\ Part(S[Len(s) + 1], T[1])

\* The stacks m, l and r in a row.
Row(m, l, r, I, Cm, Sm, Tl, Dr, Tr) ==
    \E F, V : /\ Chain(m \o l \o r, F, V, I)
              /\ F[Len(m \o l \o r) + 1] = Dr[Len(r) + 1]
              /\ F[1] \subseteq Cm[1]
              /\ Part(Sm[1], V[1])
              /\ \A h \in 1 .. Len(m \o l \o r) + 1 :
                   \/ \E g \in 1 .. Len(m) + 1 : V[h] = Sm[g]
                   \/ \E g \in 1 .. Len(l) + 1 : V[h] = Tl[g]
                   \/ \E g \in 1 .. Len(r) + 1 : V[h] = Tr[g]

LEMMA ChainJoins ==
    ASSUME NEW n, NEW m \in Seq(Entries(n)), NEW l \in Seq(Entries(n)),
           NEW r \in Seq(Entries(n)), NEW I,
           NEW Cm, NEW Sm, NEW Dl, NEW Tl, NEW Dr, NEW Tr,
           Chain(m, Cm, Sm, I), Chain(l, Dl, Tl, I), Chain(r, Dr, Tr, I),
           Meet(m, Cm, Sm, Dl, Tl), Meet(l, Dl, Tl, Dr, Tr)
    PROVE  Row(m, l, r, I, Cm, Sm, Tl, Dr, Tr)
<1> DEFINE i == Len(m)
           j == Len(l)
           k == Len(r)
           v == m \o l
           w == v \o r
           E == Spliced2(i, j, Cm, Dl)
           U == Spliced2(i, j, Sm, Tl)
           F == Spliced2(i + j, k, E, Dr)
           V == Spliced2(i + j, k, U, Tr)
           Fits(A, B) == /\ Chain(w, A, B, I)
                         /\ A[Len(w) + 1] = Dr[k + 1]
                         /\ A[1] \subseteq Cm[1]
                         /\ Part(Sm[1], B[1])
                         /\ \A h \in 1 .. Len(w) + 1 : \/ \E g \in 1 .. i + 1 : B[h] = Sm[g]
                                                       \/ \E g \in 1 .. j + 1 : B[h] = Tl[g]
                                                       \/ \E g \in 1 .. k + 1 : B[h] = Tr[g]
<1>1. i \in Nat /\ j \in Nat /\ k \in Nat
  OBVIOUS
<1>2. v \in Seq(Entries(n)) /\ Len(v) = i + j
  BY Concat
<1>3. w \in Seq(Entries(n)) /\ Len(w) = i + j + k
  BY <1>2, Concat
<1>a. /\ Dl[1] \subseteq Cm[i + 1] /\ Part(Sm[i + 1], Tl[1])
      /\ Dr[1] \subseteq Dl[j + 1] /\ Part(Tl[j + 1], Tr[1])
  BY DEF Meet
<1>4. Chain(v, E, U, I)
  BY <1>a, ChainJoin
<1> HIDE DEF v, i, j, k
<1>5. /\ E[i + j + 1] = Dl[j + 1] /\ U[i + j + 1] = Tl[j + 1]
      /\ \A h \in 1 .. i : E[h] = Cm[h] /\ U[h] = Sm[h]
      /\ \A h \in 1 .. j + 1 : E[i + h] = Dl[h] /\ U[i + h] = Tl[h]
      /\ i = 0 => E[1] = Dl[1] /\ U[1] = Tl[1]
  BY SMTT(60), <1>1, Spliced2Values
<1> HIDE DEF E, U
<1>6. Dr[1] \subseteq E[Len(v) + 1] /\ Part(U[Len(v) + 1], Tr[1])
  BY <1>2, <1>5, <1>a
<1>7. Chain(w, F, V, I)
  <2>1. Chain(v \o r, Spliced2(Len(v), Len(r), E, Dr), Spliced2(Len(v), Len(r), U, Tr), I)
    BY <1>2, <1>4, <1>6, ChainJoin
  <2> QED
    BY <1>2, <2>1 DEF k
<1>8. i + j \in Nat
  BY <1>1
<1>9. /\ F[i + j + k + 1] = Dr[k + 1]
      /\ \A h \in 1 .. i + j : F[h] = E[h] /\ V[h] = U[h]
      /\ \A h \in 1 .. k + 1 : V[i + j + h] = Tr[h]
      /\ i + j = 0 => F[1] = Dr[1] /\ V[1] = Tr[1]
  BY <1>1, <1>8, Spliced2Values
<1> HIDE DEF F, V, w
<1>10. F[1] \subseteq Cm[1] /\ Part(Sm[1], V[1])
  <2>1. \A s : Part(s, s)
    BY DEF Part
  <2>2. CASE 1 <= i
    <3>1. 1 \in 1 .. i /\ 1 \in 1 .. i + j
      BY <1>1, <2>2
    <3> QED
      BY <1>5, <1>9, <2>1, <3>1
  <2>3. CASE i = 0 /\ 1 <= j
    <3>1. 1 \in 1 .. i + j /\ i + 1 = 1
      BY <1>1, <2>3
    <3> QED
      BY <1>5, <1>9, <1>a, <2>3, <3>1
  <2>4. CASE i = 0 /\ j = 0
    <3>1. i + j = 0 /\ i + 1 = 1 /\ j + 1 = 1
      BY <1>1, <2>4
    <3>2. Dr[1] \subseteq Cm[1] /\ Part(Sm[1], Tr[1])
      BY <1>a, <3>1 DEF Part
    <3> QED
      BY <1>9, <3>1, <3>2
  <2> QED
    BY <1>1, <2>2, <2>3, <2>4
<1>11. ASSUME NEW h \in 1 .. i + j + k + 1
       PROVE  \/ \E g \in 1 .. i + 1 : V[h] = Sm[g]
              \/ \E g \in 1 .. j + 1 : V[h] = Tl[g]
              \/ \E g \in 1 .. k + 1 : V[h] = Tr[g]
  <2>1. CASE h <= i
    <3>1. h \in 1 .. i + j /\ h \in 1 .. i /\ h \in 1 .. i + 1
      BY <1>1, <2>1
    <3> QED
      BY <1>5, <1>9, <3>1
  <2>2. CASE i < h /\ h <= i + j
    <3>1. h \in 1 .. i + j /\ h - i \in 1 .. j + 1 /\ i + (h - i) = h
      BY <1>1, <2>2
    <3>2. V[h] = U[h] /\ U[i + (h - i)] = Tl[h - i]
      BY <1>5, <1>9, <3>1
    <3> QED
      BY <3>1, <3>2
  <2>3. CASE i + j < h
    <3>1. h - (i + j) \in 1 .. k + 1 /\ i + j + (h - (i + j)) = h
      BY <1>1, <2>3
    <3>2. V[i + j + (h - (i + j))] = Tr[h - (i + j)]
      BY <1>9, <3>1
    <3> QED
      BY <3>1, <3>2
  <2> QED
    BY <1>1, <2>1, <2>2, <2>3
<1>12. F[Len(w) + 1] = Dr[k + 1]
  BY <1>3, <1>9
<1>13. \A h \in 1 .. Len(w) + 1 : \/ \E g \in 1 .. i + 1 : V[h] = Sm[g]
                                  \/ \E g \in 1 .. j + 1 : V[h] = Tl[g]
                                  \/ \E g \in 1 .. k + 1 : V[h] = Tr[g]
  <2> TAKE h \in 1 .. Len(w) + 1
  <2>1. h \in 1 .. i + j + k + 1
    BY <1>3
  <2> QED
    BY <1>11, <2>1
<1>14. \E A, B : Fits(A, B)
  <2>1. Fits(F, V)
    BY <1>7, <1>10, <1>12, <1>13
  <2> HIDE DEF Fits
  <2> QED
    BY <2>1
<1> QED
  BY <1>14 DEF Row, w, v, i, j, k

\* The stack of a Fork, then those of its branches: these started from f, each with
\* its own part of it, and kept to files of their own.
LEMMA SoundJoin ==
    ASSUME NEW n \in Nat, NEW m \in Seq(Entries(n)), NEW l \in Seq(Entries(n)),
           NEW r \in Seq(Entries(n)),
           NEW f \in Systems, NEW x, NEW a, NEW b \in Scopes, NEW c \in Scopes,
           NEW tl \in Scopes, NEW tr \in Scopes, NEW Im, NEW Il, NEW Ir, NEW y, NEW t,
           Sound(m, f, a, Im, y, t), Sound(l, x, b, Il, f, tl), Sound(r, x, c, Ir, f, tr),
           tl.descs \subseteq 1 .. Len(f.desc), tr.descs \subseteq 1 .. Len(f.desc),
           a.paths \subseteq tl.paths \cup tr.paths,
           a.descs \subseteq tl.descs \cup tr.descs,
           Part(tr, c), b.paths \cap c.paths = {}, b.descs \cap c.descs = {},
           Inodes(f, tr) \subseteq Ir, Il \cap Ir = {},
           NEW q, Part(a, q), Part(b, q), Part(c, q),
           NEW J, Im \subseteq J, Il \subseteq J, Ir \subseteq J
    PROVE  Sound(m \o l \o r, x, q, J, y, t)
<1> DEFINE i == Len(m)
           j == Len(l)
           k == Len(r)
<1>1. i \in Nat /\ j \in Nat /\ k \in Nat
  OBVIOUS
<1>2. PICK Cm, Sm : /\ Chain(m, Cm, Sm, Im)
                    /\ \A h \in 1 .. i + 1 : Part(Sm[h], a)
                    /\ f \in Cm[i + 1]
                    /\ Cm[1] \subseteq Likes(y, t)
                    /\ Part(t, Sm[1])
  BY DEF Sound
<1>3. PICK Cl, Sl : /\ Chain(l, Cl, Sl, Il)
                    /\ \A h \in 1 .. j + 1 : Part(Sl[h], b)
                    /\ x \in Cl[j + 1]
                    /\ Cl[1] \subseteq Likes(f, tl)
                    /\ Part(tl, Sl[1])
  BY DEF Sound
<1>4. PICK Cr, Sr : /\ Chain(r, Cr, Sr, Ir)
                    /\ \A h \in 1 .. k + 1 : Part(Sr[h], c)
                    /\ x \in Cr[k + 1]
                    /\ Cr[1] \subseteq Likes(f, tr)
                    /\ Part(tr, Sr[1])
  BY DEF Sound
<1> HIDE DEF i, j, k
<1>5. /\ 1 \in 1 .. j + 1 /\ j + 1 \in 1 .. j + 1 /\ 1 \in 1 .. k + 1 /\ k + 1 \in 1 .. k + 1
      /\ i + 1 \in 1 .. i + 1 /\ 1 \in 1 .. i + 1
  BY <1>1
<1> DEFINE K == Likes(f, tr)
           Dl == Only(j, Cl, K)
           Tl == Widened(j, Sl, tr)
           L == Cl[j + 1]
           g == Sl[j + 1]
           Dr == Only(k, Cr, L)
           Tr == Widened(k, Sr, g)
<1>6. Chain(l, Dl, Tl, J)
  <2>1. Blind(K, tr, Inodes(f, tr))
    BY LikesBlind
  <2>2. Il \cap Inodes(f, tr) = {} /\ Il \cup Inodes(f, tr) \subseteq J
    OBVIOUS
  <2>3. Aside(j, Sl, tr)
    BY <1>3 DEF Part, Aside
  <2> HIDE DEF K
  <2>4. Chain(l, Dl, Tl, Il \cup Inodes(f, tr))
    BY <1>3, <2>1, <2>2, <2>3, ChainApart DEF j
  <2> QED
    BY <2>2, <2>4, ChainMore
<1>7. Chain(r, Dr, Tr, J)
  <2>1. Blind(L, g, Il)
    BY <1>3, <1>5, ChainValues DEF j
  <2>2. Ir \cap Il = {} /\ Ir \cup Il \subseteq J
    OBVIOUS
  <2>3. Aside(k, Sr, g)
    <3>1. Part(g, b)
      BY <1>3, <1>5
    <3> QED
      BY <1>4, <3>1 DEF Part, Aside
  <2> HIDE DEF L, g
  <2>4. Chain(r, Dr, Tr, Ir \cup Il)
    BY <1>4, <2>1, <2>2, <2>3, ChainApart DEF k
  <2> QED
    BY <2>2, <2>4, ChainMore
<1>8. Chain(m, Cm, Sm, J)
  BY <1>2, ChainMore
<1>9. /\ \A h \in 1 .. j + 1 : Dl[h] = Cl[h] \cap K /\ Tl[h] = Joined(Sl[h], tr)
      /\ \A h \in 1 .. k + 1 : Dr[h] = Cr[h] \cap L /\ Tr[h] = Joined(Sr[h], g)
  BY DEF Only, Widened
<1> HIDE DEF Dl, Tl, Dr, Tr
<1>10. Part(Sm[i + 1], Tl[1])
  <2>1. Part(Sm[i + 1], a)
    BY <1>2, <1>5
  <2>2. Tl[1] = Joined(Sl[1], tr)
    BY <1>5, <1>9
  <2> QED
    BY <1>3, <2>1, <2>2 DEF Part, Joined
<1>11. Dl[1] \subseteq Cm[i + 1]
  <2> SUFFICES ASSUME NEW z \in Cl[1], z \in K PROVE z \in Cm[i + 1]
    BY <1>5, <1>9
  <2>1. z \in Systems /\ Like(z, f, tl) /\ Like(z, f, tr)
    BY <1>3 DEF Likes
  <2>2. Part(Sm[i + 1], a)
    BY <1>2, <1>5
  <2>3. /\ Sm[i + 1].paths \subseteq tl.paths \cup tr.paths
        /\ Sm[i + 1].descs \subseteq tl.descs \cup tr.descs
    BY <2>2 DEF Part
  <2>4. Like(z, f, Sm[i + 1])
    BY <2>1, <2>3, LikeBoth
  <2> QED
    BY <1>2, <1>5, <2>1, <2>4 DEF Chain, Likes, i
<1>12. Dr[1] \subseteq Dl[j + 1] /\ Part(Tl[j + 1], Tr[1])
  <2>1. Cr[1] \subseteq K
    BY <1>4
  <2>2. Part(Joined(g, tr), Joined(Sr[1], g))
    BY <1>4 DEF Part, Joined
  <2>3. Dr[1] = Cr[1] \cap L /\ Dl[j + 1] = L \cap K
    BY <1>5, <1>9
  <2>4. Tl[j + 1] = Joined(g, tr) /\ Tr[1] = Joined(Sr[1], g)
    BY <1>5, <1>9
  <2> HIDE DEF K, L, g
  <2> QED
    BY <2>1, <2>2, <2>3, <2>4
<1>13. x \in Dr[k + 1]
  BY <1>3, <1>4, <1>5, <1>9
<1>14. (\A h \in 1 .. j + 1 : Part(Tl[h], q)) /\ (\A h \in 1 .. k + 1 : Part(Tr[h], q))
  <2>1. Part(g, b)
    BY <1>3, <1>5
  <2> HIDE DEF g, L, K
  <2>2. \A s, u : Part(s, q) /\ Part(u, q) => Part(Joined(s, u), q)
    BY DEF Part, Joined
  <2>3. \A s : (Part(s, b) => Part(s, q)) /\ (Part(s, c) => Part(s, q))
    BY DEF Part
  <2>4. \A h \in 1 .. j + 1 : Part(Tl[h], q)
    BY <1>3, <1>9, <2>2, <2>3
  <2>5. \A h \in 1 .. k + 1 : Part(Tr[h], q)
    BY <1>4, <1>9, <2>2, <2>1, <2>3
  <2> QED
    BY <2>4, <2>5
<1>15. \A h \in 1 .. i + 1 : Part(Sm[h], q)
  BY <1>2 DEF Part
<1> DEFINE w == m \o l \o r
<1>16. PICK F, V : /\ Chain(w, F, V, J)
                   /\ F[Len(w) + 1] = Dr[k + 1]
                   /\ F[1] \subseteq Cm[1]
                   /\ Part(Sm[1], V[1])
                   /\ \A h \in 1 .. Len(w) + 1 :
                        \/ \E e \in 1 .. i + 1 : V[h] = Sm[e]
                        \/ \E e \in 1 .. j + 1 : V[h] = Tl[e]
                        \/ \E e \in 1 .. k + 1 : V[h] = Tr[e]
  <2>1. Meet(m, Cm, Sm, Dl, Tl) /\ Meet(l, Dl, Tl, Dr, Tr)
    BY <1>10, <1>11, <1>12 DEF i, j, Meet
  <2>2. Row(m, l, r, J, Cm, Sm, Tl, Dr, Tr)
    BY <1>6, <1>7, <1>8, <2>1, ChainJoins
  <2> QED
    BY <2>2 DEF Row, i, j, k
<1> HIDE DEF w
<1>17. \A h \in 1 .. Len(w) + 1 : Part(V[h], q)
  BY <1>14, <1>15, <1>16
<1>18. F[1] \subseteq Likes(y, t) /\ Part(t, V[1])
  BY <1>2, <1>16 DEF Part
<1>19. x \in F[Len(w) + 1]
  BY <1>13, <1>16
<1>20. Sound(w, x, q, J, y, t)
  BY <1>16, <1>17, <1>18, <1>19 DEF Sound
<1> QED
  BY <1>20 DEF w

-----------------------------------------------------------------------------
(* Opening *)

\* A file that is there and not emptied is opened unseen.
LEMMA OpenedLike ==
    ASSUME NEW x \in Systems, NEW p \in Paths, NEW f \in Flags, Exists(x, p), ~f.truncate,
           NEW s \in Scopes, s.descs \subseteq 1 .. Len(x.desc)
    PROVE  Like(Opened(x, p, f), x, s)
<1> DEFINE y == Opened(x, p, f)
<1>1. /\ y \in Systems
      /\ Len(y.desc) = Len(x.desc) + 1
      /\ \A e \in 1 .. Len(x.desc) : y.desc[e] = x.desc[e]
      /\ \A q \in Paths : q # p => y.name[q] = x.name[q]
      /\ y.name[p] = x.name[p]
      /\ Len(y.data) = Len(x.data)
      /\ \A j \in 1 .. Len(x.data) : j # y.name[p] => y.data[j] = x.data[j]
      /\ y.data[y.name[p]] = x.data[y.name[p]]
  BY OpenedSystem
<1>2. Len(x.desc) \in Nat /\ Len(x.data) \in Nat
  BY SystemFacts
<1>3. Inodes(x, s) \subseteq 1 .. Len(x.data)
  BY InodesBounds
<1> HIDE DEF y
<1>4. \A q \in s.paths : y.name[q] = x.name[q]
  BY <1>1 DEF Scopes
<1>5. \A d \in s.descs : SameHandle(y.desc[d], x.desc[d])
  BY <1>1 DEF SameHandle
<1>6. \A j \in Inodes(x, s) : y.data[j] = x.data[j]
  BY <1>1, <1>3
<1>7. s.descs \subseteq 1 .. Len(y.desc)
  BY <1>1, <1>2
<1> QED
  BY <1>4, <1>5, <1>6, <1>7 DEF Like, y

LEMMA OpenedWithin ==
    ASSUME NEW x \in Systems, NEW p, NEW f \in Flags,
           NEW s \in Scopes, s.descs \subseteq 1 .. Len(x.desc), p \in s.paths
    PROVE  LET y == Opened(x, p, f)
               q == [s EXCEPT !.descs = @ \cup {Len(x.desc) + 1}]
           IN  /\ Within(y, x, s)
               /\ Inodes(y, q) \subseteq Inodes(x, s) \cup Len(x.data) + 1 .. Len(y.data)
<1> DEFINE y == Opened(x, p, f)
           d == Len(x.desc) + 1
           q == [s EXCEPT !.descs = @ \cup {d}]
           i == y.name[p]
<1>1. p \in Paths
  BY DEF Scopes
<1>2. /\ y \in Systems
      /\ Len(y.desc) = d
      /\ y.desc[d].ino = i
      /\ \A e \in 1 .. Len(x.desc) : y.desc[e] = x.desc[e]
      /\ \A g \in Paths : g # p => y.name[g] = x.name[g]
      /\ Exists(x, p) => i = x.name[p] /\ Len(y.data) = Len(x.data)
      /\ ~Exists(x, p) => i = Len(x.data) + 1 /\ Len(y.data) = i
      /\ \A j \in 1 .. Len(x.data) : j # i => y.data[j] = x.data[j]
  BY <1>1, OpenedSystem
<1>3. Len(x.desc) \in Nat /\ Len(x.data) \in Nat
  BY SystemFacts
<1>4. q.paths = s.paths /\ q.descs = s.descs \cup {d}
  BY DEF Scopes
<1> HIDE DEF y, q
<1>5. i \in Inodes(x, s) \cup Len(x.data) + 1 .. Len(y.data)
  <2>1. CASE Exists(x, p)
    BY <1>2, <2>1 DEF Inodes
  <2>2. CASE ~Exists(x, p)
    BY <1>2, <1>3, <2>2
  <2> QED
    BY <2>1, <2>2
<1>6. \A g \in s.paths : Exists(y, g) =>
         y.name[g] \in Inodes(x, s) \cup Len(x.data) + 1 .. Len(y.data)
  <2> TAKE g \in s.paths
  <2>1. CASE g = p
    BY <1>5, <2>1
  <2>2. CASE g # p
    <3>1. y.name[g] = x.name[g] /\ (Exists(y, g) <=> Exists(x, g))
      BY <1>2, <2>2 DEF Exists, Scopes
    <3> QED
      BY <3>1 DEF Inodes
  <2> QED
    BY <2>1, <2>2
<1>7. \A j \in 1 .. Len(x.data) : j \notin Inodes(x, s) => y.data[j] = x.data[j]
  <2>1. \A j \in 1 .. Len(x.data) : j \notin Len(x.data) + 1 .. Len(y.data)
    BY <1>3
  <2> QED
    BY <1>2, <1>5, <2>1
<1>8. \A e \in 1 .. Len(x.desc) : SameHandle(y.desc[e], x.desc[e])
                                  /\ y.desc[e].pos = x.desc[e].pos
  BY <1>2 DEF SameHandle
<1>9. Len(x.data) <= Len(y.data) /\ Len(x.desc) <= Len(y.desc)
  BY <1>2, <1>3
<1>10. \A g \in Paths \ s.paths : y.name[g] = x.name[g]
  BY <1>2
<1>11. Within(y, x, s)
  BY <1>2, <1>6, <1>7, <1>8, <1>9, <1>10 DEF Within
<1>12. Inodes(y, s) \subseteq Inodes(x, s) \cup Len(x.data) + 1 .. Len(y.data)
  BY <1>11, WithinInodes
<1>13. Inodes(y, q) = Inodes(y, s) \cup {i}
  BY <1>2, <1>4 DEF Inodes
<1> QED
  BY <1>5, <1>11, <1>12, <1>13 DEF y, q

-----------------------------------------------------------------------------
(* Cursors *)

\* Going back through s takes the cursor of d from now over what each call found to
\* start.
Steady(s, d, now, start) ==
    \E P \in [1 .. Len(s) + 1 -> Nat] :
        /\ P[Len(s) + 1] = now
        /\ P[1] = start
        /\ \A i \in 1 .. Len(s) :
             /\ Moves(s[i].inverse, d) => P[i] = s[i].inverse.pos
             /\ ~Moves(s[i].inverse, d) => P[i] = P[i + 1]
             /\ d \in s[i].scope.descs \cap DOMAIN s[i].before.cursor
                  => s[i].before.cursor[d] = P[i]

LEMMA SteadyAside ==
    ASSUME NEW n, NEW s \in Seq(Entries(n)), NEW d, NEW v \in Nat,
           \A i \in 1 .. Len(s) : ~Moves(s[i].inverse, d) /\ d \notin s[i].scope.descs
    PROVE  Steady(s, d, v, v)
<1> DEFINE P == [i \in 1 .. Len(s) + 1 |-> v]
<1>1. Len(s) \in Nat
  OBVIOUS
<1>2. P \in [1 .. Len(s) + 1 -> Nat]
  OBVIOUS
<1>3. \A i \in 1 .. Len(s) + 1 : P[i] = v
  OBVIOUS
<1>4. /\ 1 \in 1 .. Len(s) + 1 /\ Len(s) + 1 \in 1 .. Len(s) + 1
      /\ \A i \in 1 .. Len(s) : i \in 1 .. Len(s) + 1 /\ i + 1 \in 1 .. Len(s) + 1
  BY <1>1
<1> HIDE DEF P
<1>5. /\ P[Len(s) + 1] = v /\ P[1] = v
      /\ \A i \in 1 .. Len(s) : P[i] = P[i + 1]
  BY <1>3, <1>4
<1>6. \A i \in 1 .. Len(s) :
        /\ Moves(s[i].inverse, d) => P[i] = s[i].inverse.pos
        /\ ~Moves(s[i].inverse, d) => P[i] = P[i + 1]
        /\ d \in s[i].scope.descs \cap DOMAIN s[i].before.cursor
             => s[i].before.cursor[d] = P[i]
  BY <1>5
<1> QED
  BY <1>2, <1>5, <1>6 DEF Steady

LEMMA SteadyPush ==
    ASSUME NEW n, NEW s \in Seq(Entries(n)), NEW d, NEW now \in Nat, NEW v,
           Steady(s, d, now, v), NEW e, NEW next \in Nat,
           Moves(e.inverse, d) => now = e.inverse.pos,
           ~Moves(e.inverse, d) => now = next,
           d \in e.scope.descs \cap DOMAIN e.before.cursor => e.before.cursor[d] = now
    PROVE  Steady(Append(s, e), d, next, v)
<1> DEFINE k == Len(s)
           w == Append(s, e)
<1>1. /\ k \in Nat /\ Len(w) = k + 1 /\ w[k + 1] = e
      /\ \A i \in 1 .. k : w[i] = s[i]
  OBVIOUS
<1>2. PICK P \in [1 .. k + 1 -> Nat] :
        /\ P[k + 1] = now
        /\ P[1] = v
        /\ \A i \in 1 .. k :
             /\ Moves(s[i].inverse, d) => P[i] = s[i].inverse.pos
             /\ ~Moves(s[i].inverse, d) => P[i] = P[i + 1]
             /\ d \in s[i].scope.descs \cap DOMAIN s[i].before.cursor
                  => s[i].before.cursor[d] = P[i]
  BY DEF Steady
<1> DEFINE Q == [i \in 1 .. k + 2 |-> IF i = k + 2 THEN next ELSE P[i]]
<1> HIDE DEF k, w
<1>3. Q \in [1 .. k + 2 -> Nat]
  BY <1>1
<1>4. \A i \in 1 .. k + 1 : Q[i] = P[i]
  BY <1>1
<1>5. Q[k + 2] = next
  BY <1>1
<1> HIDE DEF Q
<1>6. ASSUME NEW i \in 1 .. k + 1
      PROVE  /\ Moves(w[i].inverse, d) => Q[i] = w[i].inverse.pos
             /\ ~Moves(w[i].inverse, d) => Q[i] = Q[i + 1]
             /\ d \in w[i].scope.descs \cap DOMAIN w[i].before.cursor
                  => w[i].before.cursor[d] = Q[i]
  <2>1. CASE i \in 1 .. k
    <3>1. w[i] = s[i] /\ Q[i] = P[i] /\ Q[i + 1] = P[i + 1]
      BY <1>1, <1>4, <2>1
    <3> QED
      BY <1>2, <2>1, <3>1
  <2>2. CASE i = k + 1
    <3>1. w[i] = e /\ Q[i] = now /\ Q[i + 1] = next
      BY <1>1, <1>2, <1>4, <1>5, <2>2
    <3> QED
      BY <3>1
  <2> QED
    BY <1>1, <2>1, <2>2
<1>7. 1 \in 1 .. k + 1 /\ Len(w) + 1 = k + 2
  BY <1>1
<1>8. Q[1] = v
  BY <1>2, <1>4, <1>7
<1>9. Q \in [1 .. Len(w) + 1 -> Nat] /\ Q[Len(w) + 1] = next
  BY <1>3, <1>5, <1>7
<1>10. \A i \in 1 .. Len(w) :
         /\ Moves(w[i].inverse, d) => Q[i] = w[i].inverse.pos
         /\ ~Moves(w[i].inverse, d) => Q[i] = Q[i + 1]
         /\ d \in w[i].scope.descs \cap DOMAIN w[i].before.cursor
              => w[i].before.cursor[d] = Q[i]
  BY <1>1, <1>6
<1> QED
  BY <1>8, <1>9, <1>10 DEF Steady, w

LEMMA SteadyPop ==
    ASSUME NEW n, NEW s \in Seq(Entries(n)), s # << >>, NEW d, NEW now, NEW v,
           Steady(s, d, now, v)
    PROVE  LET u == s[Len(s)]
               w == SubSeq(s, 1, Len(s) - 1)
           IN  \E next \in Nat :
                 /\ Moves(u.inverse, d) => next = u.inverse.pos
                 /\ ~Moves(u.inverse, d) => next = now
                 /\ d \in u.scope.descs \cap DOMAIN u.before.cursor
                      => u.before.cursor[d] = next
                 /\ Steady(w, d, next, v)
<1> DEFINE k == Len(s) - 1
           w == SubSeq(s, 1, k)
<1>1. /\ k \in Nat /\ Len(s) = k + 1 /\ Len(w) = k
      /\ \A i \in 1 .. k : w[i] = s[i]
  <2>1. Len(s) \in Nat /\ Len(s) # 0
    BY EmptySeq
  <2>2. \A i \in 1 .. k : s[i] \in Entries(n)
    BY <2>1
  <2>3. /\ Len(w) = IF 1 <= k THEN k - 1 + 1 ELSE 0
        /\ \A i \in 1 .. k - 1 + 1 : w[i] = s[1 + i - 1]
    BY <2>1, <2>2, SubSeqProperties
  <2>4. k \in Nat /\ Len(s) = k + 1
    BY <2>1
  <2> HIDE DEF k, w
  <2>5. \A i \in 1 .. k : i \in 1 .. k - 1 + 1 /\ 1 + i - 1 = i
    BY <2>4
  <2> QED
    BY <2>3, <2>4, <2>5
<1>2. PICK P \in [1 .. Len(s) + 1 -> Nat] :
        /\ P[Len(s) + 1] = now
        /\ P[1] = v
        /\ \A i \in 1 .. Len(s) :
             /\ Moves(s[i].inverse, d) => P[i] = s[i].inverse.pos
             /\ ~Moves(s[i].inverse, d) => P[i] = P[i + 1]
             /\ d \in s[i].scope.descs \cap DOMAIN s[i].before.cursor
                  => s[i].before.cursor[d] = P[i]
  BY DEF Steady
<1> DEFINE Q == [i \in 1 .. k + 1 |-> P[i]]
<1> HIDE DEF k, w
<1>3. Q \in [1 .. k + 1 -> Nat] /\ \A i \in 1 .. k + 1 : Q[i] = P[i]
  BY <1>1, <1>2
<1> HIDE DEF Q
<1>4. 1 \in 1 .. k + 1 /\ k + 1 \in 1 .. k + 1 /\ k + 1 \in 1 .. Len(s)
  BY <1>1
<1>5. ASSUME NEW i \in 1 .. k
      PROVE  /\ Moves(w[i].inverse, d) => Q[i] = w[i].inverse.pos
             /\ ~Moves(w[i].inverse, d) => Q[i] = Q[i + 1]
             /\ d \in w[i].scope.descs \cap DOMAIN w[i].before.cursor
                  => w[i].before.cursor[d] = Q[i]
  <2>1. w[i] = s[i] /\ Q[i] = P[i] /\ Q[i + 1] = P[i + 1] /\ i \in 1 .. Len(s)
    BY <1>1, <1>3
  <2> QED
    BY <1>2, <2>1
<1>6. Steady(w, d, Q[k + 1], v)
  BY <1>1, <1>2, <1>3, <1>4, <1>5 DEF Steady
<1>7. /\ Moves(s[Len(s)].inverse, d) => Q[k + 1] = s[Len(s)].inverse.pos
      /\ ~Moves(s[Len(s)].inverse, d) => Q[k + 1] = now
      /\ d \in s[Len(s)].scope.descs \cap DOMAIN s[Len(s)].before.cursor
           => s[Len(s)].before.cursor[d] = Q[k + 1]
  BY <1>1, <1>2, <1>3, <1>4
<1>8. Q[k + 1] \in Nat
  BY <1>3, <1>4
<1> QED
  BY <1>6, <1>7, <1>8 DEF w, k

LEMMA SteadyJoin ==
    ASSUME NEW n, NEW s \in Seq(Entries(n)), NEW w \in Seq(Entries(n)), NEW d, NEW a, NEW b,
           NEW c, Steady(s, d, b, c), Steady(w, d, a, b)
    PROVE  Steady(s \o w, d, a, c)
<1> DEFINE k == Len(s)
           m == Len(w)
           v == s \o w
<1>1. /\ k \in Nat /\ m \in Nat /\ Len(v) = k + m
      /\ \A i \in 1 .. k : v[i] = s[i]
      /\ \A i \in 1 .. k + m : i > k => v[i] = w[i - k] /\ i - k \in 1 .. m
  OBVIOUS
<1>2. PICK P \in [1 .. k + 1 -> Nat] :
        /\ P[k + 1] = b
        /\ P[1] = c
        /\ \A i \in 1 .. k :
             /\ Moves(s[i].inverse, d) => P[i] = s[i].inverse.pos
             /\ ~Moves(s[i].inverse, d) => P[i] = P[i + 1]
             /\ d \in s[i].scope.descs \cap DOMAIN s[i].before.cursor
                  => s[i].before.cursor[d] = P[i]
  BY DEF Steady
<1>3. PICK Q \in [1 .. m + 1 -> Nat] :
        /\ Q[m + 1] = a
        /\ Q[1] = b
        /\ \A i \in 1 .. m :
             /\ Moves(w[i].inverse, d) => Q[i] = w[i].inverse.pos
             /\ ~Moves(w[i].inverse, d) => Q[i] = Q[i + 1]
             /\ d \in w[i].scope.descs \cap DOMAIN w[i].before.cursor
                  => w[i].before.cursor[d] = Q[i]
  BY DEF Steady
<1> HIDE DEF k, m, v
<1> DEFINE R == [i \in 1 .. k + m + 1 |-> IF i <= k THEN P[i] ELSE Q[i - k]]
<1>4. R \in [1 .. k + m + 1 -> Nat]
  <2> SUFFICES ASSUME NEW i \in 1 .. k + m + 1
               PROVE  (IF i <= k THEN P[i] ELSE Q[i - k]) \in Nat
    OBVIOUS
  <2>1. CASE i <= k
    <3>1. i \in 1 .. k + 1
      BY <1>1, <2>1
    <3> QED
      BY <1>2, <2>1, <3>1
  <2>2. CASE ~(i <= k)
    <3>1. i - k \in 1 .. m + 1
      BY <1>1, <2>2
    <3> QED
      BY <1>3, <2>2, <3>1
  <2> QED
    BY <2>1, <2>2
<1>5. \A i \in 1 .. k + m + 1 : R[i] = IF i <= k THEN P[i] ELSE Q[i - k]
  OBVIOUS
<1> HIDE DEF R
<1>6. (\A i \in 1 .. k + 1 : R[i] = P[i]) /\ (\A i \in 1 .. m + 1 : R[k + i] = Q[i])
  <2>1. ASSUME NEW i \in 1 .. m + 1 PROVE R[k + i] = Q[i]
    <3>1. k + i \in 1 .. k + m + 1 /\ ~(k + i <= k) /\ (k + i) - k = i
      BY <1>1
    <3> QED
      BY <1>5, <3>1
  <2>2. R[k + 1] = P[k + 1]
    BY <1>1, <1>2, <1>3, <2>1
  <2>3. ASSUME NEW i \in 1 .. k PROVE R[i] = P[i]
    <3>1. i \in 1 .. k + m + 1 /\ i <= k
      BY <1>1
    <3> QED
      BY <1>5, <3>1
  <2> QED
    BY SMTT(60), <1>1, <2>1, <2>2, <2>3
<1>7. ASSUME NEW i \in 1 .. k + m
      PROVE  /\ Moves(v[i].inverse, d) => R[i] = v[i].inverse.pos
             /\ ~Moves(v[i].inverse, d) => R[i] = R[i + 1]
             /\ d \in v[i].scope.descs \cap DOMAIN v[i].before.cursor
                  => v[i].before.cursor[d] = R[i]
  <2>1. CASE i <= k
    <3>1. i \in 1 .. k /\ v[i] = s[i] /\ R[i] = P[i] /\ R[i + 1] = P[i + 1]
      BY <1>1, <1>6, <2>1
    <3> QED
      BY <1>2, <3>1
  <2>2. CASE i > k
    <3>1. /\ i - k \in 1 .. m /\ v[i] = w[i - k]
          /\ i - k \in 1 .. m + 1 /\ (i - k) + 1 \in 1 .. m + 1
          /\ k + (i - k) = i /\ k + ((i - k) + 1) = i + 1
      BY <1>1, <2>2
    <3>2. R[i] = Q[i - k] /\ R[i + 1] = Q[(i - k) + 1]
      BY <1>6, <3>1
    <3> QED
      BY <1>3, <3>1, <3>2
  <2> QED
    BY <1>1, <2>1, <2>2
<1>8. R[k + m + 1] = a /\ R[1] = c
  <2>1. m + 1 \in 1 .. m + 1 /\ 1 \in 1 .. k + 1 /\ k + (m + 1) = k + m + 1
    BY <1>1
  <2> QED
    BY <1>2, <1>3, <1>6, <2>1
<1>9. R \in [1 .. Len(v) + 1 -> Nat] /\ R[Len(v) + 1] = a
  BY <1>1, <1>4, <1>8
<1>10. \A i \in 1 .. Len(v) :
         /\ Moves(v[i].inverse, d) => R[i] = v[i].inverse.pos
         /\ ~Moves(v[i].inverse, d) => R[i] = R[i + 1]
         /\ d \in v[i].scope.descs \cap DOMAIN v[i].before.cursor
              => v[i].before.cursor[d] = R[i]
  BY <1>1, <1>7
<1> QED
  BY <1>8, <1>9, <1>10 DEF Steady, v

LEMMA SoundConcerns ==
    ASSUME NEW n, NEW s \in Seq(Entries(n)), NEW x, NEW r, NEW I, NEW y, NEW t,
           Sound(s, x, r, I, y, t)
    PROVE  /\ \A i \in 1 .. Len(s) : Concerns(s[i].inverse, r) /\ Part(s[i].scope, r)
           /\ Part(t, r)
<1>1. PICK C, S : /\ Chain(s, C, S, I)
                  /\ \A i \in 1 .. Len(s) + 1 : Part(S[i], r)
                  /\ Part(t, S[1])
  BY DEF Sound
<1>2. ASSUME NEW i \in 1 .. Len(s) PROVE Concerns(s[i].inverse, r) /\ Part(s[i].scope, r)
  <2>1. i \in 1 .. Len(s) + 1 /\ i + 1 \in 1 .. Len(s) + 1
    OBVIOUS
  <2>2. Concerns(s[i].inverse, S[i + 1]) /\ Part(s[i].scope, S[i])
    BY <1>1 DEF Chain
  <2>3. Part(S[i], r) /\ Part(S[i + 1], r)
    BY <1>1, <2>1
  <2> QED
    BY <2>2, <2>3 DEF Concerns, Part
<1>3. Part(S[1], r)
  BY <1>1
<1> QED
  BY <1>1, <1>2, <1>3 DEF Part

\* Cursors that none of the stack is about.
LEMMA SoundAside ==
    ASSUME NEW n, NEW s \in Seq(Entries(n)), NEW x, NEW r, NEW I, NEW y, NEW t,
           Sound(s, x, r, I, y, t), NEW d, d \notin r.descs, NEW v \in Nat
    PROVE  Steady(s, d, v, v) /\ d \notin t.descs
<1>1. ASSUME NEW i \in 1 .. Len(s) PROVE ~Moves(s[i].inverse, d) /\ d \notin s[i].scope.descs
  BY SoundConcerns DEF Concerns, Part, Moves
<1>2. Part(t, r)
  BY SoundConcerns
<1> QED
  BY <1>1, <1>2, SteadyAside DEF Part

\* Going back, every cursor but those in D gets to what each call found, and those
\* of t to what they are in y.
Tracks(s, x, r, D, y, t) ==
    \A d \in r.descs \ D :
        \E v \in Nat : /\ Steady(s, d, x.desc[d].pos, v)
                       /\ d \in t.descs => v = y.desc[d].pos

Leads(s, x, r, I, y, t, D) == Sound(s, x, r, I, y, t) /\ Tracks(s, x, r, D, y, t)

LEMMA PosNat ==
    ASSUME NEW x \in Systems, NEW d \in 1 .. Len(x.desc)
    PROVE  x.desc[d].pos \in Nat
  BY SystemFacts

\* What changes through r is at most cursors that are given up.
LEMMA LeadsLike ==
    ASSUME NEW n, NEW s \in Seq(Entries(n)), NEW x, NEW r, NEW I, NEW y, NEW t, NEW D,
           Leads(s, x, r, I, y, t, D), NEW z \in Systems, Like(z, x, r), NEW E, D \subseteq E,
           \A d \in r.descs \ E : z.desc[d].pos = x.desc[d].pos
    PROVE  Leads(s, z, r, I, y, t, E)
<1>1. Sound(s, z, r, I, y, t)
  BY SoundLike DEF Leads
<1>2. Tracks(s, z, r, E, y, t)
  BY DEF Leads, Tracks
<1> QED
  BY <1>1, <1>2 DEF Leads

\* More can be reached.
LEMMA LeadsMore ==
    ASSUME NEW n, NEW s \in Seq(Entries(n)), NEW x \in Systems, NEW r, NEW I, NEW y, NEW t,
           NEW D, Leads(s, x, r, I, y, t, D),
           NEW q, Part(r, q), q.descs \subseteq 1 .. Len(x.desc), NEW J, I \subseteq J
    PROVE  Leads(s, x, q, J, y, t, D)
<1>1. Sound(s, x, q, J, y, t)
  BY SoundMore DEF Leads
<1>2. ASSUME NEW d \in q.descs \ D
      PROVE  \E v \in Nat : /\ Steady(s, d, x.desc[d].pos, v)
                            /\ d \in t.descs => v = y.desc[d].pos
  <2>1. CASE d \in r.descs
    BY <2>1 DEF Leads, Tracks
  <2>2. CASE d \notin r.descs
    <3>1. x.desc[d].pos \in Nat
      BY PosNat
    <3>2. Steady(s, d, x.desc[d].pos, x.desc[d].pos) /\ d \notin t.descs
      BY <2>2, <3>1, SoundAside DEF Leads
    <3> QED
      BY <3>1, <3>2
  <2> QED
    BY <2>1, <2>2
<1> QED
  BY <1>1, <1>2 DEF Leads, Tracks

\* The stack of a branch that starts.
LEMMA LeadsEmpty ==
    ASSUME NEW x \in Systems, NEW r \in Scopes, r.descs \subseteq 1 .. Len(x.desc),
           NEW I, Inodes(x, r) \subseteq I, NEW t, t = r \/ t = Nowhere, NEW D, NEW n
    PROVE  << >> \in Seq(Entries(n)) /\ Leads(<< >>, x, r, I, x, t, D)
<1>1. Part(t, r) /\ t.descs \subseteq r.descs
  BY DEF Part, Nowhere
<1>2. Like(x, x, t)
  <2>1. t.descs \subseteq 1 .. Len(x.desc)
    BY <1>1
  <2> QED
    BY <2>1, LikeSelf
<1>3. Sound(<< >>, x, r, I, x, t)
  BY <1>1, <1>2, SoundEmpty
<1>4. << >> \in Seq(Entries(n)) /\ Len(<< >>) = 0
  OBVIOUS
<1>5. ASSUME NEW d \in r.descs \ D PROVE Steady(<< >>, d, x.desc[d].pos, x.desc[d].pos)
  <2>1. x.desc[d].pos \in Nat
    BY PosNat
  <2>2. \A i \in 1 .. Len(<< >>) : FALSE
    BY <1>4
  <2> QED
    BY <1>4, <2>1, <2>2, SteadyAside
<1>6. \A d \in r.descs : x.desc[d].pos \in Nat
  BY PosNat
<1> QED
  BY <1>3, <1>4, <1>5, <1>6 DEF Leads, Tracks

LEMMA LeadsPush ==
    ASSUME NEW n, NEW s \in Seq(Entries(n)), NEW x \in Systems, NEW r \in Scopes,
           r.descs \subseteq 1 .. Len(x.desc), NEW I, Inodes(x, r) \subseteq I,
           NEW y, NEW t, NEW D, Leads(s, x, r, I, y, t, D),
           NEW z \in Systems, NEW q \in Scopes, Part(r, q),
           q.descs \subseteq 1 .. Len(z.desc), NEW J, I \subseteq J, Inodes(z, q) \subseteq J,
           NEW m, NEW e \in Entries(m), e.scope = r,
           \A p \in r.paths : FileAt(x, p) = e.before.file[p],
           Concerns(e.inverse, r), TakesBack(e.inverse, z, q, x, r),
           NEW E, D \subseteq E,
           \A d \in r.descs \ E :
             /\ Moves(e.inverse, d) => x.desc[d].pos = e.inverse.pos
             /\ ~Moves(e.inverse, d) => x.desc[d].pos = z.desc[d].pos
             /\ e.before.cursor[d] = x.desc[d].pos
    PROVE  Leads(Append(s, e), z, q, J, y, t, E)
<1>1. Concerns(e.inverse, q)
  BY DEF Concerns, Part
<1>2. Sound(Append(s, e), z, q, J, y, t)
  <2>1. Sound(s, x, r, I, y, t)
    BY DEF Leads
  <2> QED
    BY <1>1, <2>1, SoundPush
<1>3. ASSUME NEW d \in q.descs \ E
      PROVE  \E v \in Nat : /\ Steady(Append(s, e), d, z.desc[d].pos, v)
                            /\ d \in t.descs => v = y.desc[d].pos
  <2>1. z.desc[d].pos \in Nat
    BY PosNat
  <2>2. CASE d \in r.descs
    <3>1. x.desc[d].pos \in Nat
      BY <2>2, PosNat
    <3>2. PICK v \in Nat : /\ Steady(s, d, x.desc[d].pos, v)
                           /\ d \in t.descs => v = y.desc[d].pos
      BY <2>2 DEF Leads, Tracks
    <3>3. /\ Moves(e.inverse, d) => x.desc[d].pos = e.inverse.pos
          /\ ~Moves(e.inverse, d) => x.desc[d].pos = z.desc[d].pos
          /\ d \in e.scope.descs \cap DOMAIN e.before.cursor
               => e.before.cursor[d] = x.desc[d].pos
      BY <2>2
    <3>4. Steady(Append(s, e), d, z.desc[d].pos, v)
      BY <2>1, <3>1, <3>2, <3>3, SteadyPush
    <3> QED
      BY <3>2, <3>4
  <2>3. CASE d \notin r.descs
    <3>1. Steady(s, d, z.desc[d].pos, z.desc[d].pos) /\ d \notin t.descs
      BY <2>1, <2>3, SoundAside DEF Leads
    <3>2. ~Moves(e.inverse, d) /\ d \notin e.scope.descs
      BY <2>3 DEF Concerns, Moves
    <3>3. Steady(Append(s, e), d, z.desc[d].pos, z.desc[d].pos)
      BY <2>1, <3>1, <3>2, SteadyPush
    <3> QED
      BY <2>1, <3>1, <3>3
  <2> QED
    BY <2>2, <2>3
<1> QED
  BY <1>2, <1>3 DEF Leads, Tracks

LEMMA LeadsPop ==
    ASSUME NEW n, NEW s \in Seq(Entries(n)), s # << >>, NEW x \in Systems, NEW r, NEW I,
           NEW y, NEW t, NEW D, Leads(s, x, r, I, y, t, D),
           r.descs \subseteq 1 .. Len(x.desc)
    PROVE  LET u == s[Len(s)]
               z == UndoneFrom(x, u.inverse)
           IN  /\ CanUndo(x, u.inverse)
               /\ Concerns(u.inverse, r)
               /\ Part(u.scope, r)
               /\ \A p \in u.scope.paths : FileAt(z, p) = u.before.file[p]
               /\ (\A d \in r.descs : z.desc[d].pos = IF Moves(u.inverse, d)
                                         THEN u.inverse.pos ELSE x.desc[d].pos)
                  => /\ Leads(SubSeq(s, 1, Len(s) - 1), z, r, I, y, t, D)
                     /\ \A d \in (u.scope.descs \cap DOMAIN u.before.cursor) \ D :
                          z.desc[d].pos = u.before.cursor[d]
<1> DEFINE u == s[Len(s)]
           z == UndoneFrom(x, u.inverse)
           w == SubSeq(s, 1, Len(s) - 1)
<1>1. Sound(s, x, r, I, y, t)
  BY DEF Leads
<1>2. /\ CanUndo(x, u.inverse)
      /\ Concerns(u.inverse, r)
      /\ Sound(w, z, r, I, y, t)
      /\ \A p \in u.scope.paths : FileAt(z, p) = u.before.file[p]
  BY <1>1, SoundPop
<1>3. Part(u.scope, r)
  <2>1. Len(s) \in 1 .. Len(s)
    BY EmptySeq
  <2> QED
    BY <1>1, <2>1, SoundConcerns
<1>4. ASSUME NEW d \in r.descs \ D,
             z.desc[d].pos = IF Moves(u.inverse, d) THEN u.inverse.pos ELSE x.desc[d].pos
      PROVE  /\ \E v \in Nat : /\ Steady(w, d, z.desc[d].pos, v)
                               /\ d \in t.descs => v = y.desc[d].pos
             /\ d \in u.scope.descs \cap DOMAIN u.before.cursor
                  => z.desc[d].pos = u.before.cursor[d]
  <2>1. PICK v \in Nat : /\ Steady(s, d, x.desc[d].pos, v)
                         /\ d \in t.descs => v = y.desc[d].pos
    BY DEF Leads, Tracks
  <2>2. PICK next \in Nat : /\ Moves(u.inverse, d) => next = u.inverse.pos
                            /\ ~Moves(u.inverse, d) => next = x.desc[d].pos
                            /\ d \in u.scope.descs \cap DOMAIN u.before.cursor
                                 => u.before.cursor[d] = next
                            /\ Steady(w, d, next, v)
    BY <2>1, SteadyPop
  <2> HIDE DEF u, z, w
  <2>3. z.desc[d].pos = next
    BY <1>4, <2>2
  <2> QED
    BY <2>1, <2>2, <2>3
<1> HIDE DEF u, z, w
<1>5. ASSUME \A d \in r.descs : z.desc[d].pos = IF Moves(u.inverse, d)
                                   THEN u.inverse.pos ELSE x.desc[d].pos
      PROVE  /\ Leads(w, z, r, I, y, t, D)
             /\ \A d \in (u.scope.descs \cap DOMAIN u.before.cursor) \ D :
                  z.desc[d].pos = u.before.cursor[d]
  <2>1. Tracks(w, z, r, D, y, t)
    BY <1>4, <1>5 DEF Tracks
  <2>2. \A d \in (u.scope.descs \cap DOMAIN u.before.cursor) \ D :
           z.desc[d].pos = u.before.cursor[d]
    BY <1>3, <1>4, <1>5 DEF Part
  <2> QED
    BY <1>2, <2>1, <2>2 DEF Leads
<1> QED
  BY <1>2, <1>3, <1>5 DEF u, z, w

\* Two branches with nothing in common, from f where m has led to.
Joinable(n, m, l, r, f, x, a, b, c, tl, tr, Im, Il, Ir, y, D, q, J) ==
    /\ n \in Nat /\ m \in Seq(Entries(n)) /\ l \in Seq(Entries(n)) /\ r \in Seq(Entries(n))
    /\ f \in Systems /\ x \in Systems /\ b \in Scopes /\ c \in Scopes
    /\ tl \in Scopes /\ tr \in Scopes
    /\ Leads(m, f, a, Im, y, Nowhere, D)
    /\ Leads(l, x, b, Il, f, tl, D)
    /\ Leads(r, x, c, Ir, f, tr, D)
    /\ tl.descs \subseteq 1 .. Len(f.desc) /\ tr.descs \subseteq 1 .. Len(f.desc)
    /\ a.paths \subseteq tl.paths \cup tr.paths
    /\ a.descs \subseteq tl.descs \cup tr.descs
    /\ Part(tr, c) /\ b.paths \cap c.paths = {} /\ b.descs \cap c.descs = {}
    /\ Inodes(f, tr) \subseteq Ir /\ Il \cap Ir = {}
    /\ Part(a, q) /\ Part(b, q) /\ Part(c, q) /\ q.descs \subseteq 1 .. Len(x.desc)
    /\ Im \subseteq J /\ Il \subseteq J /\ Ir \subseteq J

LEMMA LeadsJoin ==
    ASSUME NEW n, NEW m, NEW l, NEW r, NEW f, NEW x, NEW a, NEW b, NEW c, NEW tl, NEW tr,
           NEW Im, NEW Il, NEW Ir, NEW y, NEW D, NEW q, NEW J,
           Joinable(n, m, l, r, f, x, a, b, c, tl, tr, Im, Il, Ir, y, D, q, J)
    PROVE  Leads(m \o l \o r, x, q, J, y, Nowhere, D)
<1> USE DEF Joinable
<1>1. Sound(m, f, a, Im, y, Nowhere) /\ Sound(l, x, b, Il, f, tl) /\ Sound(r, x, c, Ir, f, tr)
  BY DEF Leads
<1>2. Sound(m \o l \o r, x, q, J, y, Nowhere)
  BY <1>1, SoundJoin
<1>3. Part(tl, b)
  BY <1>1, SoundConcerns
<1>4. \A d \in a.descs \ D : \E v \in Nat : Steady(m, d, f.desc[d].pos, v)
  BY DEF Leads, Tracks
<1>5. \A d \in b.descs \ D : \E v \in Nat : /\ Steady(l, d, x.desc[d].pos, v)
                                            /\ d \in tl.descs => v = f.desc[d].pos
  BY DEF Leads, Tracks
<1>6. \A d \in c.descs \ D : \E v \in Nat : /\ Steady(r, d, x.desc[d].pos, v)
                                            /\ d \in tr.descs => v = f.desc[d].pos
  BY DEF Leads, Tracks
<1>7. ASSUME NEW d \in q.descs \ D
      PROVE  \E v \in Nat : Steady(m \o l \o r, d, x.desc[d].pos, v)
  <2> DEFINE k == x.desc[d].pos
  <2>1. k \in Nat /\ (m \o l) \in Seq(Entries(n))
    BY PosNat, Concat
  <2> HIDE DEF k
  <2>2. \E v \in Nat : Steady(l, d, k, v) /\ (d \in b.descs => (d \in tl.descs => v = f.desc[d].pos))
                       /\ (d \notin b.descs => v = k)
    <3>1. CASE d \in b.descs
      <4>1. d \in b.descs \ D
        BY <3>1
      <4>2. PICK v \in Nat : /\ Steady(l, d, x.desc[d].pos, v)
                             /\ d \in tl.descs => v = f.desc[d].pos
        BY <1>5, <4>1
      <4> QED
        BY <3>1, <4>2 DEF k
    <3>2. CASE d \notin b.descs
      BY <1>1, <2>1, <3>2, SoundAside
    <3> QED
      BY <3>1, <3>2
  <2>3. \E v \in Nat : Steady(r, d, k, v) /\ (d \in c.descs => (d \in tr.descs => v = f.desc[d].pos))
                       /\ (d \notin c.descs => v = k)
    <3>1. CASE d \in c.descs
      <4>1. d \in c.descs \ D
        BY <3>1
      <4>2. PICK v \in Nat : /\ Steady(r, d, x.desc[d].pos, v)
                             /\ d \in tr.descs => v = f.desc[d].pos
        BY <1>6, <4>1
      <4> QED
        BY <3>1, <4>2 DEF k
    <3>2. CASE d \notin c.descs
      BY <1>1, <2>1, <3>2, SoundAside
    <3> QED
      BY <3>1, <3>2
  <2>4. PICK v2 \in Nat : /\ Steady(r, d, k, v2)
                          /\ d \in c.descs => (d \in tr.descs => v2 = f.desc[d].pos)
                          /\ d \notin c.descs => v2 = k
    BY <2>3
  <2>5. PICK v1 \in Nat : /\ Steady(l, d, v2, v1)
                          /\ d \in b.descs => (d \in tl.descs => v1 = f.desc[d].pos)
                          /\ d \notin b.descs => v1 = v2
    <3>1. CASE d \in b.descs
      <4>1. d \notin c.descs
        BY <3>1
      <4> QED
        BY <2>2, <2>4, <3>1, <4>1
    <3>2. CASE d \notin b.descs
      BY <1>1, <2>4, <3>2, SoundAside
    <3> QED
      BY <3>1, <3>2
  <2>6. \E v \in Nat : Steady(m, d, v1, v)
    <3>1. CASE d \in a.descs
      <4>1. CASE d \in tl.descs
        <5>1. v1 = f.desc[d].pos
          BY <1>3, <2>5, <4>1 DEF Part
        <5> QED
          BY <1>4, <3>1, <5>1
      <4>2. CASE d \in tr.descs
        <5>1. d \in c.descs /\ d \notin b.descs
          BY <4>2 DEF Part
        <5>2. v1 = f.desc[d].pos
          BY <2>4, <2>5, <4>2, <5>1
        <5> QED
          BY <1>4, <3>1, <5>2
      <4> QED
        BY <3>1, <4>1, <4>2
    <3>2. CASE d \notin a.descs
      BY <1>1, <2>5, <3>2, SoundAside
    <3> QED
      BY <3>1, <3>2
  <2>7. PICK v \in Nat : Steady(m, d, v1, v)
    BY <2>6
  <2>8. Steady(m \o l, d, v2, v)
    BY <2>5, <2>7, SteadyJoin
  <2>9. Steady(m \o l \o r, d, k, v)
    BY <2>1, <2>4, <2>8, SteadyJoin
  <2> QED
    BY <2>9 DEF k
<1>8. \A d : d \notin Nowhere.descs
  BY DEF Nowhere
<1> QED
  BY <1>2, <1>7, <1>8 DEF Leads, Tracks

-----------------------------------------------------------------------------
(* Types *)

Replacing == [op |-> "replace"]
Opening == [op : {"open"}, path : Paths, flags : Flags, existed : BOOLEAN,
            orig : SUBSET Contents, before : Views]
Sending == [op : {"send"}, out : Nat, bytes : Contents, before : Views]
Truncating == [op : {"truncate"}, path : Paths, len : Nat, orig : SUBSET Contents,
               before : Views]
Calls == {NoCall, Replacing} \cup Opening \cup Sending \cup Truncating

\* The stacks and the calls under way.
StackType ==
    /\ fs \in Systems
    /\ call \in [Branches -> Calls]
    /\ undo \in [Branches -> Seq(Entries(Len(fs.desc)))]
    /\ irreversible \in [Branches -> BOOLEAN]
    /\ failed \in [Branches -> BOOLEAN]
    /\ reach \in [Branches -> Scopes]
    /\ \A b \in Branches : reach[b].descs \subseteq 1 .. Len(fs.desc)
    /\ drift \subseteq 1 .. Len(fs.desc)

\* A table of fds, with n descriptions.
Table(t, n) == \E k \in Nat : t \in [0 .. k - 1 -> 0 .. n]

\* The tables and the registries.
TableType ==
    /\ Table(files, Len(fs.desc))
    /\ append_fds \subseteq DOMAIN files
    /\ live \in [Branches -> SUBSET DOMAIN files]
    /\ closed \subseteq DOMAIN files
    /\ phase \in {"alone", "forked", "joined"}
    /\ calls \in 0 .. MaxCalls
    /\ gaps \subseteq {"exclusive", "overwrite", "refused"}

TypeInv == StackType /\ TableType

LEMMA NewFdIs ==
    ASSUME NEW k \in Nat, DOMAIN files = 0 .. k - 1
    PROVE  NewFd = k
<1>1. Cardinality(0 .. k - 1) = IF 0 > k - 1 THEN 0 ELSE k - 1 - 0 + 1
  BY FS_Interval
<1> QED
  BY <1>1 DEF NewFd

LEMMA TableFacts ==
    ASSUME NEW n \in Nat, Table(files, n)
    PROVE  /\ NewFd \in Nat /\ DOMAIN files = 0 .. NewFd - 1 /\ NewFd \notin DOMAIN files
           /\ files \in [0 .. NewFd - 1 -> 0 .. n]
           /\ \A fd \in DOMAIN files : files[fd] \in 0 .. n
<1>1. PICK k \in Nat : files \in [0 .. k - 1 -> 0 .. n]
  BY DEF Table
<1>2. DOMAIN files = 0 .. k - 1 /\ NewFd = k
  BY <1>1, NewFdIs
<1> QED
  BY <1>1, <1>2

LEMMA TableFrom ==
    ASSUME NEW n \in Nat, Table(files, n), NEW m \in Nat, NEW t, DOMAIN t = DOMAIN files,
           t \in [DOMAIN t -> 0 .. m]
    PROVE  Table(t, m)
  BY TableFacts DEF Table

LEMMA InsertedTable ==
    ASSUME NEW n \in Nat, Table(files, n), NEW m \in Nat, NEW t, DOMAIN t = DOMAIN files,
           \A fd \in DOMAIN files : t[fd] \in 0 .. m, NEW d \in 0 .. m
    PROVE  /\ Table(Inserted(t, d), m)
           /\ DOMAIN Inserted(t, d) = DOMAIN files \cup {NewFd}
           /\ Inserted(t, d)[NewFd] = d
           /\ \A fd \in DOMAIN files : Inserted(t, d)[fd] = t[fd]
<1>1. NewFd \in Nat /\ DOMAIN files = 0 .. NewFd - 1 /\ NewFd \notin DOMAIN files
  BY TableFacts
<1>2. 0 .. NewFd = DOMAIN files \cup {NewFd}
  BY <1>1
<1>3. \A fd \in 0 .. NewFd : fd # NewFd => fd \in DOMAIN files
  BY <1>1
<1>4. Inserted(t, d) \in [0 .. NewFd -> 0 .. m]
  BY <1>3 DEF Inserted
<1>5. Inserted(t, d)[NewFd] = d /\ \A fd \in DOMAIN files : Inserted(t, d)[fd] = t[fd]
  BY <1>1, <1>2 DEF Inserted
<1>6. Table(Inserted(t, d), m)
  <2> DEFINE j == NewFd + 1
  <2>1. j \in Nat /\ 0 .. j - 1 = 0 .. NewFd
    BY <1>1
  <2> HIDE DEF j
  <2>2. Inserted(t, d) \in [0 .. j - 1 -> 0 .. m]
    BY <1>4, <2>1
  <2> QED
    BY <2>1, <2>2 DEF Table
<1> QED
  BY <1>2, <1>4, <1>5, <1>6

LEMMA ViewTyped ==
    ASSUME fs \in Systems
    PROVE  /\ View \in Views
           /\ \A p \in Paths : View.file[p] = FileAt(fs, p)
           /\ DOMAIN View.cursor = 1 .. Len(fs.desc)
           /\ \A d \in 1 .. Len(fs.desc) : View.cursor[d] = fs.desc[d].pos
<1>1. /\ Len(fs.desc) \in Nat /\ DOMAIN fs.desc = 1 .. Len(fs.desc)
      /\ \A d \in 1 .. Len(fs.desc) : fs.desc[d].pos \in Nat
      /\ \A p \in Paths : fs.name[p] \in 0 .. Len(fs.data)
      /\ \A i \in 1 .. Len(fs.data) : fs.data[i] \in Contents
      /\ Len(fs.data) \in Nat
  BY SystemFacts
<1>2. \A p \in Paths : FileAt(fs, p) \in SUBSET Contents
  <2> TAKE p \in Paths
  <2>1. Exists(fs, p) => fs.name[p] \in 1 .. Len(fs.data)
    BY <1>1 DEF Exists, NoFile
  <2>2. Exists(fs, p) => PathData(fs, p) \in Contents
    BY <1>1, <2>1 DEF PathData
  <2> QED
    BY <2>2 DEF FileAt
<1> DEFINE c == [d \in DOMAIN fs.desc |-> fs.desc[d].pos]
<1>3. c \in [1 .. Len(fs.desc) -> Nat]
  BY <1>1
<1>4. c \in Seq(Nat)
  BY <1>1, <1>3, ContentsFrom DEF Contents
<1>5. \A d \in 1 .. Len(fs.desc) : c[d] = fs.desc[d].pos
  BY <1>1
<1>6. DOMAIN c = 1 .. Len(fs.desc)
  BY <1>3
<1> HIDE DEF c
<1>7. View = [file |-> [p \in Paths |-> FileAt(fs, p)], cursor |-> c]
  BY DEF View, c
<1>8. [p \in Paths |-> FileAt(fs, p)] \in [Paths -> SUBSET Contents]
  BY <1>2
<1> QED
  BY <1>4, <1>5, <1>6, <1>7, <1>8 DEF Views

LEMMA EntriesGrow ==
    ASSUME NEW n \in Nat, NEW m \in Nat, n <= m
    PROVE  Entries(n) \subseteq Entries(m) /\ Seq(Entries(n)) \subseteq Seq(Entries(m))
<1>1. Entries(n) \subseteq Entries(m)
  BY InversesGrow DEF Entries
<1> QED
  BY <1>1

LEMMA InverseIsOne ==
    ASSUME NEW n \in Nat, NEW u \in Inverses(n)
    PROVE  u \notin {Identity, NonInvertible}
<1>1. u.op \in {"seek", "set_len", "cut", "region", "restore", "unlink", "rename"}
  BY InverseCases
<1>2. Identity.op = "identity" /\ NonInvertible.op = "noninvertible"
  BY DEF Identity, NonInvertible
<1> QED
  BY <1>1, <1>2

LEMMA IdentityIsNot ==
    Identity # NonInvertible
<1>1. Identity.op = "identity" /\ NonInvertible.op = "noninvertible"
  BY DEF Identity, NonInvertible
<1> QED
  BY <1>1

Entry(b, cap, before) == [inverse |-> cap, before |-> before, scope |-> reach[b]]

LEMMA SettlePush ==
    ASSUME StackType, NEW m \in Nat, Len(fs.desc) <= m, NEW b \in Branches,
           NEW cap \in Inverses(m), NEW before \in Views, Settle(b, cap, before)
    PROVE  /\ Entry(b, cap, before) \in Entries(m)
           /\ undo'[b] = Append(undo[b], Entry(b, cap, before))
           /\ \A c \in Branches : c # b => undo'[c] = undo[c]
           /\ undo' \in [Branches -> Seq(Entries(m))]
           /\ irreversible' = irreversible /\ failed' = failed
<1>1. cap \notin {Identity, NonInvertible}
  BY InverseIsOne
<1>2. undo' = [undo EXCEPT ![b] = Append(@, Entry(b, cap, before))]
  BY <1>1 DEF Settle, Entry
<1>3. Entry(b, cap, before) \in Entries(m)
  BY DEF Entry, Entries, StackType
<1>4. undo \in [Branches -> Seq(Entries(m))]
  <2>1. Len(fs.desc) \in Nat
    BY SystemFacts DEF StackType
  <2>2. Seq(Entries(Len(fs.desc))) \subseteq Seq(Entries(m))
    BY <2>1, EntriesGrow
  <2> QED
    BY <2>2 DEF StackType
<1>5. Append(undo[b], Entry(b, cap, before)) \in Seq(Entries(m))
  BY <1>3, <1>4, AppendProperties
<1>6. irreversible' = irreversible
  <2>1. irreversible' = [irreversible EXCEPT ![b] = @ \/ FALSE]
    BY <1>1 DEF Settle
  <2> QED
    BY <2>1 DEF StackType
<1>7. failed' = failed
  BY DEF Settle
<1> QED
  BY <1>2, <1>3, <1>4, <1>5, <1>6, <1>7

LEMMA SettleNot ==
    ASSUME StackType, NEW b \in Branches, NEW cap \in {Identity, NonInvertible}, NEW before,
           Settle(b, cap, before)
    PROVE  /\ undo' = undo /\ failed' = failed
           /\ irreversible' \in [Branches -> BOOLEAN]
           /\ \A c \in Branches : c # b => irreversible'[c] = irreversible[c]
           /\ cap = NonInvertible => irreversible'[b]
           /\ cap = Identity => irreversible' = irreversible
<1>1. irreversible' = [irreversible EXCEPT ![b] = @ \/ cap = NonInvertible]
  BY DEF Settle
<1>2. cap = Identity => irreversible' = [irreversible EXCEPT ![b] = @ \/ FALSE]
  BY <1>1, IdentityIsNot
<1>3. undo' = undo /\ failed' = failed
  BY DEF Settle
<1>4. irreversible \in [Branches -> BOOLEAN]
  BY DEF StackType
<1>5. cap = Identity => irreversible' = irreversible
  BY <1>2, <1>4
<1> QED
  BY <1>1, <1>3, <1>4, <1>5

LEMMA SettleType ==
    ASSUME StackType, NEW m \in Nat, Len(fs.desc) <= m, NEW b \in Branches,
           NEW cap \in {Identity, NonInvertible} \cup Inverses(m), NEW before \in Views,
           Settle(b, cap, before)
    PROVE  /\ undo' \in [Branches -> Seq(Entries(m))]
           /\ irreversible' \in [Branches -> BOOLEAN]
           /\ failed' = failed
           /\ \A c \in Branches : c # b => undo'[c] = undo[c]
                                           /\ irreversible'[c] = irreversible[c]
<1>1. CASE cap \in Inverses(m)
  BY <1>1, SettlePush DEF StackType
<1>2. CASE cap \in {Identity, NonInvertible}
  <2>1. undo \in [Branches -> Seq(Entries(m))]
    <3>1. Len(fs.desc) \in Nat
      BY SystemFacts DEF StackType
    <3>2. Seq(Entries(Len(fs.desc))) \subseteq Seq(Entries(m))
      BY <3>1, EntriesGrow
    <3> QED
      BY <3>2 DEF StackType
  <2> QED
    BY <1>2, <2>1, SettleNot
<1> QED
  BY <1>1, <1>2

\* What an operation on fd works on.
LEMMA FileOfFacts ==
    ASSUME TypeInv, NEW b \in Branches, NEW fd \in DOMAIN files, NEW d \in FileOf(b, fd)
    PROVE  /\ d = files[fd] /\ d # NoDesc /\ fd \in live[b]
           /\ d \in 1 .. Len(fs.desc)
           /\ MayUse(b, fd) => d \in reach[b].descs
<1>1. d = files[fd] /\ d # NoDesc /\ fd \in live[b]
  BY DEF FileOf, file_fd_stale
<1>2. Len(fs.desc) \in Nat
  BY SystemFacts DEF TypeInv, StackType
<1>3. files[fd] \in 0 .. Len(fs.desc)
  BY <1>2, TableFacts DEF TypeInv, TableType
<1> QED
  BY <1>1, <1>2, <1>3 DEF MayUse, NoDesc

-----------------------------------------------------------------------------
(* The inverses that calls return *)

LEMMA ReadTyped ==
    ASSUME NEW x \in Systems, NEW d \in 1 .. Len(x.desc), NEW n \in Nat
    PROVE  ReadHere(x, d, n) \in Contents /\ Len(ReadHere(x, d, n)) \in Nat
<1>1. Data(x, d) \in Contents /\ x.desc[d].pos \in Nat
  BY SystemFacts
<1>2. SubSeq(Data(x, d), x.desc[d].pos + 1, Smaller(x.desc[d].pos + n, Len(Data(x, d))))
        \in Contents
  BY <1>1, TakenContents
<1>3. ReadHere(x, d, n) \in Contents
  BY <1>2 DEF ReadHere
<1> QED
  BY <1>3 DEF Contents

LEMMA DescInverses ==
    ASSUME fs \in Systems, NEW d \in 1 .. Len(fs.desc), NEW n \in Nat
    PROVE  /\ CursorBack(d) \in Inverses(Len(fs.desc))
           /\ RegionBack(d, n) \in Inverses(Len(fs.desc))
           /\ LengthBack(d) \in Inverses(Len(fs.desc))
           /\ CutBack(d) \in Inverses(Len(fs.desc))
<1>1. fs.desc[d].pos \in Nat /\ Len(Data(fs, d)) \in Nat /\ ReadHere(fs, d, n) \in Contents
  BY SystemFacts, ReadTyped DEF Contents
<1>2. CursorBack(d) \in Inverses(Len(fs.desc))
  BY <1>1 DEF CursorBack, Inverses
<1>3. RegionBack(d, n) \in Inverses(Len(fs.desc))
  BY <1>1 DEF RegionBack, Inverses
<1>4. LengthBack(d) \in Inverses(Len(fs.desc))
  BY <1>1 DEF LengthBack, Inverses
<1>5. CutBack(d) \in Inverses(Len(fs.desc))
  BY <1>1 DEF CutBack, Inverses
<1> QED
  BY <1>2, <1>3, <1>4, <1>5

LEMMA WriteInverses ==
    ASSUME fs \in Systems, NEW d \in 1 .. Len(fs.desc), NEW n \in Nat, NEW fd
    PROVE  WriteInverse(fd, d, n) \in {Identity, NonInvertible} \cup Inverses(Len(fs.desc))
  BY DescInverses DEF WriteInverse

LEMMA OpenInverses ==
    ASSUME NEW c \in Opening, NEW m
    PROVE  /\ OpenInverse(c) \in {Identity, NonInvertible} \cup Inverses(m)
           /\ c.orig # {} => OpenInverse(c) = [op |-> "restore", path |-> c.path,
                                               data |-> CHOOSE o \in c.orig : TRUE]
           /\ c.orig # {} => (CHOOSE o \in c.orig : TRUE) \in c.orig
<1>1. c.orig # {} => (CHOOSE o \in c.orig : TRUE) \in c.orig
  OBVIOUS
<1>2. c.orig \subseteq Contents /\ c.path \in Paths
  BY DEF Opening
<1>3. CASE c.orig # {}
  BY <1>1, <1>2, <1>3 DEF OpenInverse, Inverses
<1>4. CASE c.orig = {}
  BY <1>2, <1>4 DEF OpenInverse, Inverses
<1> QED
  BY <1>3, <1>4

LEMMA TruncateInverses ==
    ASSUME NEW c \in Truncating, NEW m
    PROVE  /\ TruncateInverse(c) \in {Identity, NonInvertible} \cup Inverses(m)
           /\ c.orig # {} => (CHOOSE o \in c.orig : TRUE) \in c.orig
<1>1. c.orig # {} => (CHOOSE o \in c.orig : TRUE) \in c.orig
  OBVIOUS
<1>2. c.orig \subseteq Contents /\ c.path \in Paths
  BY DEF Truncating
<1> QED
  BY <1>1, <1>2 DEF TruncateInverse, Inverses

LEMMA CallOps ==
    ASSUME NEW c \in Calls
    PROVE  /\ c.op \in {"none", "open", "send", "truncate", "replace"}
           /\ c.op = "open" => c \in Opening
           /\ c.op = "send" => c \in Sending
           /\ c.op = "truncate" => c \in Truncating
           /\ c.op = "none" <=> c = NoCall
           /\ c.op = "replace" <=> c = Replacing
  BY DEF Calls, NoCall, Replacing, Opening, Sending, Truncating

-----------------------------------------------------------------------------
(* The steps of a branch *)

\* What a pending call or a stack is about stays in reach of its branch.
CallReach(b) ==
    /\ call[b].op \in {"open", "truncate"} => call[b].path \in reach[b].paths
    /\ call[b].op = "send" => call[b].out \in DOMAIN files /\ MayUse(b, call[b].out)
StackIn(s, r) == \A i \in 1 .. Len(s) : Concerns(s[i].inverse, r)
StackReach(b) == StackIn(undo[b], reach[b])

PhaseInv ==
    /\ \A b \in Branches : ~Runs(b) => call[b] = NoCall
    /\ \A b \in Branches : failed[b] => call[b] = Replacing
    /\ phase # "forked" => \A b \in {"left", "right"} : undo[b] = << >> /\ ~irreversible[b]
    /\ phase # "alone" => Forks

Base ==
    /\ TypeInv
    /\ \A b \in Branches : CallReach(b) /\ StackReach(b)
    /\ PhaseInv

NewInodes == Len(fs.data) + 1 .. Len(fs'.data)

\* A step of b: what the other branch has is left alone.
FsStep(b) ==
    /\ Within(fs', fs, reach[b])
    /\ reach' \in [Branches -> Scopes]
    /\ \A c \in Branches : c # b => reach'[c] = reach[c]
    /\ reach'[b].paths = reach[b].paths
    /\ reach[b].descs \subseteq reach'[b].descs
    /\ reach'[b].descs \subseteq reach[b].descs \cup Len(fs.desc) + 1 .. Len(fs'.desc)
    /\ Inodes(fs', reach'[b]) \subseteq Inodes(fs, reach[b]) \cup NewInodes
StackStep(b) ==
    /\ undo' \in [Branches -> Seq(Entries(Len(fs'.desc)))]
    /\ irreversible' \in [Branches -> BOOLEAN]
    /\ failed' \in [Branches -> BOOLEAN]
    /\ \A c \in Branches : c # b => /\ undo'[c] = undo[c]
                                    /\ irreversible'[c] = irreversible[c]
                                    /\ failed'[c] = failed[c]
    /\ StackReach(b)'
CallStep(b) ==
    /\ Runs(b)
    /\ phase' = phase
    /\ call' \in [Branches -> Calls]
    /\ \A c \in Branches : c # b => call'[c] = call[c]
    /\ CallReach(b)'
    /\ failed'[b] => call'[b] = Replacing
TableStep ==
    /\ TableType'
    /\ \A fd \in DOMAIN files : fd \in DOMAIN files' /\ files'[fd] \in {files[fd], NoDesc}
    /\ drift \subseteq drift'
    /\ drift' \subseteq 1 .. Len(fs.desc)
    /\ gaps \subseteq gaps'
StepOf(b) == FsStep(b) /\ StackStep(b) /\ CallStep(b) /\ TableStep

LEMMA BaseStep ==
    ASSUME Base, NEW b \in Branches, StepOf(b)
    PROVE  Base'
<1>1. /\ fs \in Systems /\ Len(fs.desc) \in Nat /\ Len(fs.data) \in Nat
      /\ \A c \in Branches : reach[c].descs \subseteq 1 .. Len(fs.desc)
  BY SystemFacts DEF Base, TypeInv, StackType
<1>2. fs' \in Systems /\ Len(fs.desc) <= Len(fs'.desc)
  BY DEF StepOf, FsStep, Within
<1>3. Len(fs'.desc) \in Nat
  BY <1>2, SystemFacts
<1>4. StackType'
  <2>1. ASSUME NEW c \in Branches PROVE reach'[c].descs \subseteq 1 .. Len(fs'.desc)
    BY <1>1, <1>2, <1>3 DEF StepOf, FsStep
  <2>2. drift' \subseteq 1 .. Len(fs'.desc)
    BY <1>1, <1>2, <1>3 DEF StepOf, TableStep
  <2> QED
    BY <1>2, <2>1, <2>2 DEF StackType, StepOf, FsStep, StackStep, CallStep
<1>5. ASSUME NEW c \in Branches PROVE CallReach(c)' /\ StackReach(c)'
  <2>1. CASE c = b
    BY <2>1 DEF StepOf, StackStep, CallStep
  <2>2. CASE c # b
    <3>1. /\ call'[c] = call[c] /\ reach'[c] = reach[c] /\ undo'[c] = undo[c]
          /\ CallReach(c) /\ StackReach(c)
      BY <2>2 DEF Base, StepOf, StackStep, CallStep, FsStep
    <3>2. \A fd \in DOMAIN files : MayUse(c, fd) => fd \in DOMAIN files' /\ MayUse(c, fd)'
      BY <3>1 DEF StepOf, TableStep, MayUse
    <3> QED
      BY <3>1, <3>2 DEF CallReach, StackReach, StackIn
  <2> QED
    BY <2>1, <2>2
<1>6. PhaseInv'
  <2>1. /\ phase' = phase /\ Runs(b)
        /\ \A c \in Branches : c # b => /\ call'[c] = call[c] /\ failed'[c] = failed[c]
                                        /\ undo'[c] = undo[c]
                                        /\ irreversible'[c] = irreversible[c]
        /\ failed'[b] => call'[b] = Replacing
    BY DEF StepOf, StackStep, CallStep
  <2>2. \A c \in Branches : Runs(c)' <=> Runs(c)
    BY <2>1 DEF Runs
  <2>3. phase # "forked" => b \notin {"left", "right"}
    BY <2>1 DEF Runs
  <2> QED
    BY <2>1, <2>2, <2>3 DEF Base, PhaseInv, Branches
<1> QED
  BY <1>4, <1>5, <1>6 DEF Base, TypeInv, StepOf, TableStep

\* Steps that leave the files alone.
LEMMA WithinSame ==
    ASSUME NEW x \in Systems, NEW s \in Scopes
    PROVE  Within(x, x, s)
  BY TouchesNone, TouchesWithin

LEMMA FsSame ==
    ASSUME StackType, NEW b \in Branches, fs' = fs, reach' = reach
    PROVE  FsStep(b)
  BY WithinSame DEF FsStep, StackType

LEMMA FsTouched ==
    ASSUME StackType, NEW b \in Branches, reach' = reach,
           NEW i \in Inodes(fs, reach[b]) \cup {NoFile}, NEW d \in reach[b].descs \cup {NoDesc},
           Touches(fs', fs, i, d)
    PROVE  FsStep(b) /\ Len(fs'.desc) = Len(fs.desc)
<1>1. Within(fs', fs, reach[b])
  BY TouchesWithin DEF StackType
<1>2. Inodes(fs', reach[b]) \subseteq Inodes(fs, reach[b]) \cup NewInodes
  BY <1>1, WithinInodes DEF StackType, NewInodes
<1> QED
  BY <1>1, <1>2 DEF FsStep, StackType, Touches

LEMMA FsRenamed ==
    ASSUME StackType, NEW b \in Branches, reach' = reach,
           NEW ps, ps \subseteq reach[b].paths, Renames(fs', fs, ps),
           \A p \in ps : Exists(fs', p) => fs'.name[p] \in Inodes(fs, reach[b])
    PROVE  FsStep(b) /\ Len(fs'.desc) = Len(fs.desc)
<1>1. Within(fs', fs, reach[b])
  BY RenamesWithin DEF StackType
<1>2. Inodes(fs', reach[b]) \subseteq Inodes(fs, reach[b]) \cup NewInodes
  BY <1>1, WithinInodes DEF StackType, NewInodes
<1> QED
  BY <1>1, <1>2 DEF FsStep, StackType, Renames

LEMMA TableSame ==
    ASSUME TypeInv, UNCHANGED <<files, append_fds, live, closed, phase>>,
           calls' \in 0 .. MaxCalls, Len(fs'.desc) = Len(fs.desc),
           gaps \subseteq gaps', gaps' \subseteq {"exclusive", "overwrite", "refused"},
           drift \subseteq drift', drift' \subseteq 1 .. Len(fs.desc)
    PROVE  TableStep
  BY DEF TypeInv, TableType, TableStep

LEMMA StackSame ==
    ASSUME Base, NEW b \in Branches, UNCHANGED <<undo, irreversible, failed, reach>>,
           Len(fs'.desc) = Len(fs.desc)
    PROVE  StackStep(b)
  BY DEF Base, TypeInv, StackType, StackStep, StackReach, StackIn

\* A call whose capability is cap, in a reach that may have grown.
LEMMA StackSettled ==
    ASSUME Base, NEW b \in Branches,
           NEW cap \in {Identity, NonInvertible} \cup Inverses(Len(fs'.desc)),
           NEW before \in Views, Settle(b, cap, before),
           fs' \in Systems, Len(fs.desc) <= Len(fs'.desc),
           cap \in Inverses(Len(fs'.desc)) => Concerns(cap, reach[b]), Part(reach[b], reach'[b])
    PROVE  StackStep(b)
<1>1. Len(fs'.desc) \in Nat /\ StackType
  BY SystemFacts DEF Base, TypeInv
<1>2. /\ undo' \in [Branches -> Seq(Entries(Len(fs'.desc)))]
      /\ irreversible' \in [Branches -> BOOLEAN]
      /\ failed' = failed
      /\ \A c \in Branches : c # b => undo'[c] = undo[c]
                                      /\ irreversible'[c] = irreversible[c]
  BY <1>1, SettleType
<1>3. StackReach(b)'
  <2>1. \A i \in 1 .. Len(undo[b]) : Concerns(undo[b][i].inverse, reach'[b])
    <3>1. StackReach(b)
      BY DEF Base
    <3> QED
      BY <3>1 DEF StackReach, StackIn, Concerns, Part
  <2>2. CASE cap \in Inverses(Len(fs'.desc))
    <3> DEFINE e == Entry(b, cap, before)
    <3>1. undo'[b] = Append(undo[b], e) /\ e.inverse = cap
      BY <1>1, <2>2, SettlePush DEF Entry
    <3>2. Concerns(cap, reach'[b])
      BY <2>2 DEF Concerns, Part
    <3> HIDE DEF e
    <3>3. undo[b] \in Seq(Entries(Len(fs.desc)))
      BY <1>1 DEF StackType
    <3>4. \A i \in 1 .. Len(undo'[b]) :
            \/ i \in 1 .. Len(undo[b]) /\ undo'[b][i] = undo[b][i]
            \/ undo'[b][i] = e
      BY <3>1, <3>3
    <3> QED
      BY <2>1, <3>1, <3>2, <3>4 DEF StackReach, StackIn
  <2>3. CASE cap \in {Identity, NonInvertible}
    <3>1. undo' = undo
      BY <1>1, <2>3, SettleNot
    <3> QED
      BY <2>1, <3>1 DEF StackReach, StackIn
  <2> QED
    BY <2>2, <2>3
<1> QED
  BY <1>1, <1>2, <1>3 DEF StackStep, StackType

LEMMA CallWhole ==
    ASSUME Base, NEW b \in Branches, NEW op, Whole(b, op), phase' = phase, failed' = failed
    PROVE  CallStep(b) /\ calls' \in 0 .. MaxCalls
<1>1. Runs(b) /\ call[b] = NoCall /\ calls < MaxCalls /\ calls' = calls + 1 /\ call' = call
  BY DEF Whole, Starts, Idle
<1>2. call' \in [Branches -> Calls] /\ calls \in 0 .. MaxCalls
  BY <1>1 DEF Base, TypeInv, StackType, TableType
<1>3. CallReach(b)'
  BY <1>1 DEF CallReach, NoCall
<1>4. failed'[b] => call'[b] = Replacing
  BY <1>1 DEF Base, PhaseInv
<1>5. calls' \in 0 .. MaxCalls
  BY <1>1, <1>2, BoundAssumption
<1> QED
  BY <1>1, <1>2, <1>3, <1>4, <1>5 DEF CallStep

LEMMA CallLooks ==
    ASSUME Base, NEW b \in Branches, NEW c \in Calls, Looks(b, c), phase' = phase,
           failed' = failed, reach' = reach, files' = files,
           c.op \in {"open", "truncate"} => c.path \in reach[b].paths,
           c.op = "send" => c.out \in DOMAIN files /\ MayUse(b, c.out)
    PROVE  CallStep(b) /\ calls' \in 0 .. MaxCalls /\ call'[b] = c
<1>1. Runs(b) /\ call[b] = NoCall /\ calls < MaxCalls /\ calls' = calls + 1
  BY DEF Looks, Starts, Idle
<1>2. call \in [Branches -> Calls] /\ calls \in 0 .. MaxCalls
  BY DEF Base, TypeInv, StackType, TableType
<1>3. /\ call' \in [Branches -> Calls]
      /\ call'[b] = c
      /\ \A a \in Branches : a # b => call'[a] = call[a]
  BY <1>2 DEF Looks
<1>4. CallReach(b)'
  BY <1>3 DEF CallReach, MayUse
<1>5. ~failed'[b]
  BY <1>1 DEF Base, PhaseInv, NoCall, Replacing
<1>6. calls' \in 0 .. MaxCalls
  BY <1>1, <1>2, BoundAssumption
<1> QED
  BY <1>1, <1>3, <1>4, <1>5, <1>6 DEF CallStep

LEMMA CallActs ==
    ASSUME Base, NEW b \in Branches, NEW op, op # "replace", Acts(b, op),
           phase' = phase, failed' = failed
    PROVE  CallStep(b) /\ calls' \in 0 .. MaxCalls /\ call'[b] = NoCall
<1>1. Runs(b) /\ call[b].op = op /\ calls' = calls
  BY DEF Acts
<1>2. call \in [Branches -> Calls] /\ calls \in 0 .. MaxCalls
  BY DEF Base, TypeInv, StackType, TableType
<1>3. /\ call' \in [Branches -> Calls]
      /\ call'[b] = NoCall
      /\ \A a \in Branches : a # b => call'[a] = call[a]
  BY <1>2 DEF Acts, Calls
<1>4. CallReach(b)'
  BY <1>3 DEF CallReach, NoCall
<1>5. ~failed'[b]
  BY <1>1 DEF Base, PhaseInv, Replacing
<1> QED
  BY <1>1, <1>2, <1>3, <1>4, <1>5 DEF CallStep

LEMMA DriftSame ==
    ASSUME TypeInv
    PROVE  /\ drift \subseteq 1 .. Len(fs.desc)
           /\ gaps \subseteq {"exclusive", "overwrite", "refused"}
  BY DEF TypeInv, StackType, TableType

LEMMA OpenLookStep ==
    ASSUME Base, NEW b \in Branches, NEW p \in Paths, NEW f \in Access, OpenLook(b, p, f)
    PROVE  StepOf(b)
<1>1. TypeInv /\ StackType /\ fs \in Systems
  BY DEF Base, TypeInv, StackType
<1> DEFINE c == [op |-> "open", path |-> p, flags |-> f, existed |-> Exists(fs, p),
                 orig |-> {o \in FileAt(fs, p) :
                             f.truncate /\ Len(o) < FULL_UNDO_MAX_BYTES},
                 before |-> View]
<1>2. /\ Looks(b, c) /\ p \in reach[b].paths
      /\ UNCHANGED <<fs, files, append_fds, live, phase, reach, undo, irreversible, failed,
                     closed, drift, gaps>>
  BY DEF OpenLook, registries, back
<1>3. c \in Calls
  <2>1. FileAt(fs, p) \in SUBSET Contents /\ View \in Views
    BY <1>1, ViewTyped DEF Views
  <2>2. f \in Flags
    BY AccessAssumption
  <2>3. Exists(fs, p) \in BOOLEAN
    BY DEF Exists
  <2> QED
    BY <2>1, <2>2, <2>3 DEF Calls, Opening
<1>4. c.op = "open" /\ c.path = p
  OBVIOUS
<1> HIDE DEF c
<1>5. CallStep(b) /\ calls' \in 0 .. MaxCalls
  BY <1>2, <1>3, <1>4, CallLooks
<1>6. FsStep(b) /\ StackStep(b)
  BY <1>1, <1>2, FsSame, StackSame
<1>7. TableStep
  BY <1>1, <1>2, <1>5, TableSame, DriftSame
<1> QED
  BY <1>5, <1>6, <1>7 DEF StepOf

LEMMA TruncateLookStep ==
    ASSUME Base, NEW b \in Branches, NEW p \in Paths, NEW n \in Offsets,
           TruncateLook(b, p, n)
    PROVE  StepOf(b)
<1>1. TypeInv /\ StackType /\ fs \in Systems
  BY DEF Base, TypeInv, StackType
<1> DEFINE c == [op |-> "truncate", path |-> p, len |-> n,
                 orig |-> {o \in FileAt(fs, p) : Len(o) < FULL_UNDO_MAX_BYTES},
                 before |-> View]
<1>2. /\ Looks(b, c) /\ p \in reach[b].paths
      /\ UNCHANGED <<fs, files, append_fds, live, phase, reach, undo, irreversible, failed,
                     closed, drift, gaps>>
  BY DEF TruncateLook, registries, back
<1>3. c \in Calls
  <2>1. FileAt(fs, p) \in SUBSET Contents /\ View \in Views
    BY <1>1, ViewTyped DEF Views
  <2>2. n \in Nat
    BY BoundAssumption
  <2> QED
    BY <2>1, <2>2 DEF Calls, Truncating
<1>4. c.op = "truncate" /\ c.path = p
  OBVIOUS
<1> HIDE DEF c
<1>5. CallStep(b) /\ calls' \in 0 .. MaxCalls
  BY <1>2, <1>3, <1>4, CallLooks
<1>6. FsStep(b) /\ StackStep(b)
  BY <1>1, <1>2, FsSame, StackSame
<1>7. TableStep
  BY <1>1, <1>2, <1>5, TableSame, DriftSame
<1> QED
  BY <1>5, <1>6, <1>7 DEF StepOf

\* The file of a description in reach is in reach.
LEMMA InoIn ==
    ASSUME NEW x, NEW s, NEW d \in s.descs
    PROVE  x.desc[d].ino \in Inodes(x, s)
  BY DEF Inodes

\* Calls that move the cursor of a description in reach.
LEMMA SeekStep ==
    ASSUME Base, NEW b \in Branches, NEW fd \in DOMAIN files, NEW d \in FileOf(b, fd),
           MayUse(b, fd), NEW pos \in Nat, fs' = Seek(fs, d, pos), reach' = reach
    PROVE  /\ FsStep(b) /\ Len(fs'.desc) = Len(fs.desc) /\ fs' \in Systems
           /\ d \in reach[b].descs /\ d \in 1 .. Len(fs.desc)
           /\ Touches(fs', fs, fs.desc[d].ino, d)
           /\ fs'.desc[d].pos = pos
<1>1. TypeInv /\ StackType /\ fs \in Systems
  BY DEF Base, TypeInv, StackType
<1>2. d \in reach[b].descs /\ d \in 1 .. Len(fs.desc)
  BY <1>1, FileOfFacts
<1>3. Touches(fs', fs, fs.desc[d].ino, d) /\ fs'.desc[d].pos = pos
  BY <1>1, <1>2, SeekTouches
<1>4. FsStep(b) /\ Len(fs'.desc) = Len(fs.desc)
  BY <1>1, <1>2, <1>3, InoIn, FsTouched
<1> QED
  BY <1>2, <1>3, <1>4 DEF Touches

LEMMA ReadStep ==
    ASSUME Base, NEW b \in Branches, NEW fd \in DOMAIN files, NEW n \in Lengths,
           Read(b, fd, n)
    PROVE  StepOf(b)
<1>1. TypeInv /\ StackType /\ fs \in Systems
  BY DEF Base, TypeInv, StackType
<1>2. PICK d \in FileOf(b, fd) :
        /\ Whole(b, "read") /\ MayUse(b, fd)
        /\ fs' = Seek(fs, d, fs.desc[d].pos + Len(ReadHere(fs, d, n)))
        /\ Settle(b, CursorBack(d), View)
        /\ UNCHANGED <<files, append_fds, live, phase, reach, closed, drift, gaps>>
  BY DEF Read, registries
<1>3. d \in reach[b].descs /\ d \in 1 .. Len(fs.desc)
  BY <1>1, <1>2, FileOfFacts
<1>4. fs.desc[d].pos + Len(ReadHere(fs, d, n)) \in Nat
  <2>1. n \in Nat /\ fs.desc[d].pos \in Nat
    BY <1>1, <1>3, BoundAssumption, SystemFacts
  <2> QED
    BY <1>1, <1>3, <2>1, ReadTyped
<1>5. FsStep(b) /\ Len(fs'.desc) = Len(fs.desc) /\ fs' \in Systems
  BY <1>2, <1>4, SeekStep
<1>6. CursorBack(d) \in Inverses(Len(fs'.desc)) /\ Concerns(CursorBack(d), reach[b])
  <2>1. CursorBack(d) \in Inverses(Len(fs.desc))
    BY <1>1, <1>3, DescInverses DEF CursorBack
  <2> QED
    BY <1>3, <1>5, <2>1 DEF Concerns, CursorBack
<1>7. failed' = failed
  BY <1>2 DEF Settle
<1>8. CallStep(b) /\ calls' \in 0 .. MaxCalls
  BY <1>2, <1>7, CallWhole
<1>9. StackStep(b)
  <2>1. View \in Views
    BY <1>1, ViewTyped
  <2>2. Part(reach[b], reach'[b]) /\ Len(fs.desc) <= Len(fs'.desc)
    BY <1>1, <1>2, <1>5, SystemFacts DEF Part
  <2> QED
    BY <1>2, <1>5, <1>6, <2>1, <2>2, StackSettled
<1>10. TableStep
  BY <1>1, <1>2, <1>5, <1>8, TableSame, DriftSame
<1> QED
  BY <1>5, <1>8, <1>9, <1>10 DEF StepOf

LEMMA SeekToStep ==
    ASSUME Base, NEW b \in Branches, NEW fd \in DOMAIN files, NEW pos \in Offsets,
           SeekTo(b, fd, pos)
    PROVE  StepOf(b)
<1>1. TypeInv /\ StackType /\ fs \in Systems
  BY DEF Base, TypeInv, StackType
<1>2. PICK d \in FileOf(b, fd) :
        /\ Whole(b, "seek") /\ MayUse(b, fd)
        /\ fs' = Seek(fs, d, pos)
        /\ Settle(b, CursorBack(d), View)
        /\ UNCHANGED <<files, append_fds, live, phase, reach, closed, drift, gaps>>
  BY DEF SeekTo, registries
<1>3. d \in reach[b].descs /\ d \in 1 .. Len(fs.desc)
  BY <1>1, <1>2, FileOfFacts
<1>4. pos \in Nat
  BY BoundAssumption
<1>5. FsStep(b) /\ Len(fs'.desc) = Len(fs.desc) /\ fs' \in Systems
  BY <1>2, <1>4, SeekStep
<1>6. CursorBack(d) \in Inverses(Len(fs'.desc)) /\ Concerns(CursorBack(d), reach[b])
  <2>1. CursorBack(d) \in Inverses(Len(fs.desc))
    BY <1>1, <1>3, DescInverses DEF CursorBack
  <2> QED
    BY <1>3, <1>5, <2>1 DEF Concerns, CursorBack
<1>7. failed' = failed
  BY <1>2 DEF Settle
<1>8. CallStep(b) /\ calls' \in 0 .. MaxCalls
  BY <1>2, <1>7, CallWhole
<1>9. StackStep(b)
  <2>1. View \in Views
    BY <1>1, ViewTyped
  <2>2. Part(reach[b], reach'[b]) /\ Len(fs.desc) <= Len(fs'.desc)
    BY <1>1, <1>2, <1>5, SystemFacts DEF Part
  <2> QED
    BY <1>2, <1>5, <1>6, <2>1, <2>2, StackSettled
<1>10. TableStep
  BY <1>1, <1>2, <1>5, <1>8, TableSame, DriftSame
<1> QED
  BY <1>5, <1>8, <1>9, <1>10 DEF StepOf

\* A call that leaves the tables alone.
LEMMA SettledStep ==
    ASSUME Base, NEW b \in Branches, FsStep(b), Len(fs'.desc) = Len(fs.desc), reach' = reach,
           UNCHANGED <<files, append_fds, live, closed, phase>>,
           CallStep(b), calls' \in 0 .. MaxCalls,
           NEW cap \in {Identity, NonInvertible} \cup Inverses(Len(fs.desc)),
           cap \in Inverses(Len(fs.desc)) => Concerns(cap, reach[b]),
           NEW before \in Views, Settle(b, cap, before),
           gaps \subseteq gaps', gaps' \subseteq {"exclusive", "overwrite", "refused"},
           drift \subseteq drift', drift' \subseteq 1 .. Len(fs.desc)
    PROVE  StepOf(b)
<1>1. TypeInv /\ StackType /\ fs \in Systems
  BY DEF Base, TypeInv, StackType
<1>2. fs' \in Systems /\ Len(fs.desc) \in Nat
  BY <1>1, SystemFacts DEF FsStep, Within
<1>3. Part(reach[b], reach'[b]) /\ Len(fs.desc) <= Len(fs'.desc)
  BY <1>2 DEF Part
<1>4. StackStep(b)
  BY <1>2, <1>3, StackSettled
<1>5. TableStep
  BY <1>1, TableSame
<1> QED
  BY <1>4, <1>5 DEF StepOf

LEMMA WriteStep ==
    ASSUME Base, NEW b \in Branches, NEW fd \in DOMAIN files, NEW n \in Lengths,
           Write(b, fd, n)
    PROVE  StepOf(b)
<1>1. TypeInv /\ StackType /\ fs \in Systems
  BY DEF Base, TypeInv, StackType
<1> DEFINE bytes == [i \in 1 .. n |-> calls + 1]
<1>2. PICK d \in FileOf(b, fd) :
        /\ Whole(b, "write") /\ MayUse(b, fd)
        /\ fs' = WriteHere(fs, d, bytes)
        /\ Settle(b, WriteInverse(fd, d, n), View)
        /\ drift' = drift \cup {e \in {d} : WriteInverse(fd, d, n) = LengthBack(d)}
        /\ UNCHANGED <<files, append_fds, live, phase, reach, closed, gaps>>
  BY DEF Write, registries
<1>3. d \in reach[b].descs /\ d \in 1 .. Len(fs.desc)
  BY <1>1, <1>2, FileOfFacts
<1>4. bytes \in Contents
  <2>1. n \in Nat /\ calls + 1 \in Nat
    BY <1>1, BoundAssumption DEF TypeInv, TableType
  <2>2. bytes \in [1 .. n -> Nat]
    BY <2>1
  <2> QED
    BY <2>1, <2>2, ContentsFrom
<1> HIDE DEF bytes
<1>5. Touches(fs', fs, fs.desc[d].ino, d)
  BY <1>1, <1>2, <1>3, <1>4, WriteTouches
<1>6. FsStep(b) /\ Len(fs'.desc) = Len(fs.desc)
  BY <1>1, <1>2, <1>3, <1>5, InoIn, FsTouched
<1>7. n \in Nat
  BY BoundAssumption
<1>8. WriteInverse(fd, d, n) \in {Identity, NonInvertible} \cup Inverses(Len(fs.desc))
  BY <1>1, <1>3, <1>7, WriteInverses
<1>9. WriteInverse(fd, d, n) \in Inverses(Len(fs.desc))
        => Concerns(WriteInverse(fd, d, n), reach[b])
  <2>1. NonInvertible \notin Inverses(Len(fs.desc))
    BY <1>1, InverseIsOne, SystemFacts
  <2> QED
    BY <1>3, <2>1 DEF WriteInverse, LengthBack, RegionBack, CutBack, Concerns
<1>10. failed' = failed
  BY <1>2 DEF Settle
<1>11. CallStep(b) /\ calls' \in 0 .. MaxCalls
  BY <1>2, <1>10, CallWhole
<1>12. View \in Views
  BY <1>1, ViewTyped
<1>13. drift' \subseteq 1 .. Len(fs.desc) /\ drift \subseteq drift'
  BY <1>1, <1>2, <1>3, DriftSame
<1>14. gaps \subseteq gaps' /\ gaps' \subseteq {"exclusive", "overwrite", "refused"}
  BY <1>1, <1>2, DriftSame
<1> QED
  BY <1>2, <1>6, <1>8, <1>9, <1>11, <1>12, <1>13, <1>14, SettledStep

LEMMA SendLookStep ==
    ASSUME Base, NEW b \in Branches, NEW out \in DOMAIN files, NEW in \in DOMAIN files,
           NEW offset \in Offsets, NEW n \in Lengths, SendLook(b, out, in, offset, n)
    PROVE  StepOf(b)
<1>1. TypeInv /\ StackType /\ fs \in Systems
  BY DEF Base, TypeInv, StackType
<1>2. PICK d \in FileOf(b, in) :
        LET there == Seek(fs, d, offset)
            bytes == ReadHere(there, d, n)
        IN  /\ MayUse(b, in) /\ MayUse(b, out)
            /\ drift' = drift \cup {d}
            /\ \/ /\ Looks(b, [op |-> "send", out |-> out, bytes |-> bytes,
                               before |-> View])
                  /\ fs' = Seek(fs, d, offset + Len(bytes))
               \/ /\ Whole(b, "send")
                  /\ fs' = there
            /\ UNCHANGED <<files, append_fds, live, phase, reach, undo, irreversible, failed,
                           closed, gaps>>
  BY DEF SendLook, registries, back
<1> DEFINE there == Seek(fs, d, offset)
           bytes == ReadHere(there, d, n)
           c == [op |-> "send", out |-> out, bytes |-> bytes, before |-> View]
<1>3. d \in reach[b].descs /\ d \in 1 .. Len(fs.desc)
  BY <1>1, <1>2, FileOfFacts
<1>4. offset \in Nat /\ n \in Nat
  BY BoundAssumption
<1>5. bytes \in Contents /\ Len(bytes) \in Nat
  <2>1. there \in Systems /\ Len(there.desc) = Len(fs.desc)
    BY <1>1, <1>3, <1>4, SeekSystem
  <2> HIDE DEF there
  <2> QED
    BY <1>3, <1>4, <2>1, ReadTyped
<1>6. c \in Calls /\ c.op = "send" /\ c.out = out
  <2>1. View \in Views
    BY <1>1, ViewTyped
  <2>2. out \in Nat
    BY <1>1 DEF TypeInv, TableType
  <2> HIDE DEF bytes
  <2>3. c \in Sending
    BY <1>5, <2>1, <2>2 DEF Sending
  <2> QED
    BY <2>3 DEF Calls
<1>7. /\ FsStep(b) /\ Len(fs'.desc) = Len(fs.desc)
      /\ CallStep(b) /\ calls' \in 0 .. MaxCalls
  <2>1. CASE Looks(b, c) /\ fs' = Seek(fs, d, offset + Len(bytes))
    <3>1. offset + Len(bytes) \in Nat
      BY <1>4, <1>5
    <3> HIDE DEF c, bytes
    <3>2. FsStep(b) /\ Len(fs'.desc) = Len(fs.desc)
      BY <1>2, <2>1, <3>1, SeekStep
    <3>3. CallStep(b) /\ calls' \in 0 .. MaxCalls
      BY <1>2, <1>6, <2>1, CallLooks
    <3> QED
      BY <3>2, <3>3
  <2>2. CASE Whole(b, "send") /\ fs' = there
    <3>1. FsStep(b) /\ Len(fs'.desc) = Len(fs.desc)
      BY <1>2, <1>4, <2>2, SeekStep
    <3>2. CallStep(b) /\ calls' \in 0 .. MaxCalls
      BY <1>2, <2>2, CallWhole
    <3> QED
      BY <3>1, <3>2
  <2> QED
    BY <1>2, <2>1, <2>2
<1>8. drift' \subseteq 1 .. Len(fs.desc) /\ drift \subseteq drift'
  BY <1>1, <1>2, <1>3, DriftSame
<1>9. gaps \subseteq gaps' /\ gaps' \subseteq {"exclusive", "overwrite", "refused"}
  BY <1>1, <1>2, DriftSame
<1>10. StackStep(b)
  BY <1>2, <1>7, StackSame
<1>11. TableStep
  BY <1>1, <1>2, <1>7, <1>8, <1>9, TableSame
<1> QED
  BY <1>7, <1>10, <1>11 DEF StepOf

\* What one write takes is some of the bytes it is given.
LEMMA HeadTyped ==
    ASSUME NEW bytes \in Contents, NEW head \in Heads(bytes)
    PROVE  head \in Contents /\ Len(head) \in Nat /\ Len(head) <= Len(bytes)
<1>1. Len(bytes) \in Nat
  BY DEF Contents
<1>2. PICK m \in Smaller(1, Len(bytes)) .. Len(bytes) : head = SubSeq(bytes, 1, m)
  BY DEF Heads
<1>3. m \in Nat /\ m <= Len(bytes) /\ Smaller(0 + m, Len(bytes)) = m
  BY <1>1, <1>2 DEF Smaller
<1>4. head = SubSeq(bytes, 0 + 1, Smaller(0 + m, Len(bytes)))
  BY <1>2, <1>3
<1>5. head \in Contents /\ Len(head) = Smaller(0 + m, Len(bytes)) - 0
  <2>1. 0 \in Nat /\ 0 <= Smaller(0 + m, Len(bytes))
    BY <1>3
  <2> HIDE DEF Smaller
  <2> QED
    BY <1>3, <1>4, <2>1, TakenContents
<1> QED
  BY <1>3, <1>5

LEMMA SendActStep ==
    ASSUME Base, NEW b \in Branches, SendAct(b)
    PROVE  StepOf(b)
<1>1. TypeInv /\ StackType /\ fs \in Systems
  BY DEF Base, TypeInv, StackType
<1> DEFINE c == call[b]
           outs == {d \in FileOf(b, c.out) : fs.desc[d].read /\ fs.desc[d].write}
<1>2. /\ Acts(b, "send")
      /\ \/ \E d \in outs, head \in Heads(c.bytes) :
              /\ fs' = WriteHere(fs, d, head)
              /\ Settle(b, RegionBack(d, Len(c.bytes)), c.before)
         \/ UNCHANGED <<fs, undo, irreversible, failed>>
      /\ UNCHANGED <<files, append_fds, live, phase, reach, closed, drift, gaps>>
  BY DEF SendAct, registries, back
<1>3. c \in Sending /\ c.out \in DOMAIN files /\ MayUse(b, c.out)
  <2>1. c \in Calls /\ c.op = "send"
    BY <1>1, <1>2 DEF Acts, StackType
  <2>2. CallReach(b)
    BY DEF Base
  <2> QED
    BY <2>1, <2>2, CallOps DEF CallReach
<1>4. failed' = failed
  BY <1>2 DEF Settle
<1>5. CallStep(b) /\ calls' \in 0 .. MaxCalls
  BY <1>2, <1>4, CallActs
<1>6. drift' = drift /\ gaps' = gaps /\ drift \subseteq 1 .. Len(fs.desc)
      /\ gaps \subseteq {"exclusive", "overwrite", "refused"}
  BY <1>1, <1>2, DriftSame
<1>7. CASE UNCHANGED <<fs, undo, irreversible, failed>>
  <2>1. FsStep(b) /\ StackStep(b)
    BY <1>1, <1>2, <1>7, FsSame, StackSame
  <2>2. TableStep
    BY <1>1, <1>2, <1>5, <1>6, <1>7, TableSame
  <2> QED
    BY <1>5, <2>1, <2>2 DEF StepOf
<1>8. CASE \E d \in outs, head \in Heads(c.bytes) :
              /\ fs' = WriteHere(fs, d, head)
              /\ Settle(b, RegionBack(d, Len(c.bytes)), c.before)
  <2>1. PICK d \in FileOf(b, c.out), head \in Heads(c.bytes) :
          /\ fs' = WriteHere(fs, d, head)
          /\ Settle(b, RegionBack(d, Len(c.bytes)), c.before)
    BY <1>8
  <2>2. c.bytes \in Contents /\ Len(c.bytes) \in Nat /\ c.before \in Views
        /\ head \in Contents
    BY <1>3, HeadTyped DEF Sending, Contents
  <2> HIDE DEF c
  <2>3. d \in reach[b].descs /\ d \in 1 .. Len(fs.desc)
    BY <1>1, <1>3, FileOfFacts
  <2>4. Touches(fs', fs, fs.desc[d].ino, d)
    BY <1>1, <2>1, <2>2, <2>3, WriteTouches
  <2>5. FsStep(b) /\ Len(fs'.desc) = Len(fs.desc)
    BY <1>1, <1>2, <2>3, <2>4, InoIn, FsTouched
  <2>6. RegionBack(d, Len(c.bytes)) \in Inverses(Len(fs.desc))
    BY <1>1, <2>2, <2>3, DescInverses
  <2>7. Concerns(RegionBack(d, Len(c.bytes)), reach[b])
    BY <2>3 DEF RegionBack, Concerns
  <2> QED
    BY <1>2, <1>5, <1>6, <2>1, <2>2, <2>5, <2>6, <2>7, SettledStep
<1> QED
  BY <1>2, <1>7, <1>8

LEMMA TruncateActStep ==
    ASSUME Base, NEW b \in Branches, TruncateAct(b)
    PROVE  StepOf(b)
<1>1. TypeInv /\ StackType /\ fs \in Systems
  BY DEF Base, TypeInv, StackType
<1> DEFINE c == call[b]
<1>2. /\ Acts(b, "truncate")
      /\ \/ /\ Exists(fs, c.path)
            /\ fs' = PathSetLen(fs, c.path, c.len)
            /\ Settle(b, TruncateInverse(c), c.before)
         \/ UNCHANGED <<fs, undo, irreversible, failed>>
      /\ UNCHANGED <<files, append_fds, live, phase, reach, closed, drift, gaps>>
  BY DEF TruncateAct, registries, back
<1>3. c \in Truncating /\ c.path \in reach[b].paths
  <2>1. c \in Calls /\ c.op = "truncate"
    BY <1>1, <1>2 DEF Acts, StackType
  <2>2. CallReach(b)
    BY DEF Base
  <2> QED
    BY <2>1, <2>2, CallOps DEF CallReach
<1>4. failed' = failed
  BY <1>2 DEF Settle
<1>5. CallStep(b) /\ calls' \in 0 .. MaxCalls
  BY <1>2, <1>4, CallActs
<1>6. drift' = drift /\ gaps' = gaps /\ drift \subseteq 1 .. Len(fs.desc)
      /\ gaps \subseteq {"exclusive", "overwrite", "refused"}
  BY <1>1, <1>2, DriftSame
<1>7. CASE UNCHANGED <<fs, undo, irreversible, failed>>
  <2>1. FsStep(b) /\ StackStep(b)
    BY <1>1, <1>2, <1>7, FsSame, StackSame
  <2>2. TableStep
    BY <1>1, <1>2, <1>5, <1>6, <1>7, TableSame
  <2> QED
    BY <1>5, <2>1, <2>2 DEF StepOf
<1>8. CASE /\ Exists(fs, c.path)
           /\ fs' = PathSetLen(fs, c.path, c.len)
           /\ Settle(b, TruncateInverse(c), c.before)
  <2>1. c.path \in Paths /\ c.len \in Nat /\ c.before \in Views
    BY <1>3 DEF Truncating
  <2> HIDE DEF c
  <2>2. Touches(fs', fs, fs.name[c.path], NoDesc)
    BY <1>1, <1>8, <2>1, PathSetLenTouches
  <2>3. fs.name[c.path] \in Inodes(fs, reach[b])
    BY <1>3, <1>8 DEF Inodes
  <2>4. FsStep(b) /\ Len(fs'.desc) = Len(fs.desc)
    BY <1>1, <1>2, <2>2, <2>3, FsTouched
  <2>5. TruncateInverse(c) \in {Identity, NonInvertible} \cup Inverses(Len(fs.desc))
    BY <1>3, TruncateInverses
  <2>6. TruncateInverse(c) \in Inverses(Len(fs.desc))
          => Concerns(TruncateInverse(c), reach[b])
    <3>1. NonInvertible \notin Inverses(Len(fs.desc))
      BY <1>1, InverseIsOne, SystemFacts
    <3> QED
      BY <1>3, <3>1 DEF TruncateInverse, Concerns
  <2> QED
    BY <1>2, <1>5, <1>6, <1>8, <2>1, <2>4, <2>5, <2>6, SettledStep
<1> QED
  BY <1>2, <1>7, <1>8

LEMMA UnlinkStep ==
    ASSUME Base, NEW b \in Branches, NEW p \in Paths, Unlink(b, p)
    PROVE  StepOf(b)
<1>1. TypeInv /\ StackType /\ fs \in Systems
  BY DEF Base, TypeInv, StackType
<1>2. /\ Whole(b, "unlink") /\ p \in reach[b].paths
      /\ fs' = Unlinked(fs, p)
      /\ Settle(b, NonInvertible, View)
      /\ UNCHANGED <<files, append_fds, live, phase, reach, closed, drift, gaps>>
  BY DEF Unlink, registries
<1>3. Renames(fs', fs, {p}) /\ ~Exists(fs', p)
  BY <1>1, <1>2, UnlinkedRenames
<1>4. FsStep(b) /\ Len(fs'.desc) = Len(fs.desc)
  <2>1. {p} \subseteq reach[b].paths
    BY <1>2
  <2>2. \A q \in {p} : Exists(fs', q) => fs'.name[q] \in Inodes(fs, reach[b])
    BY <1>3
  <2> QED
    BY <1>1, <1>2, <1>3, <2>1, <2>2, FsRenamed
<1>5. failed' = failed
  BY <1>2 DEF Settle
<1>6. CallStep(b) /\ calls' \in 0 .. MaxCalls
  BY <1>2, <1>5, CallWhole
<1>7. View \in Views
  BY <1>1, ViewTyped
<1>8. drift' = drift /\ gaps' = gaps /\ drift \subseteq 1 .. Len(fs.desc)
      /\ gaps \subseteq {"exclusive", "overwrite", "refused"}
  BY <1>1, <1>2, DriftSame
<1>9. NonInvertible \notin Inverses(Len(fs.desc))
  BY <1>1, InverseIsOne, SystemFacts
<1> QED
  BY <1>2, <1>4, <1>6, <1>7, <1>8, <1>9, SettledStep

LEMMA RenameStep ==
    ASSUME Base, NEW b \in Branches, NEW p \in Paths, NEW q \in Paths, Rename(b, p, q)
    PROVE  StepOf(b)
<1>1. TypeInv /\ StackType /\ fs \in Systems
  BY DEF Base, TypeInv, StackType
<1> DEFINE u == [op |-> "rename", from |-> p, to |-> q]
<1>2. /\ Whole(b, "rename") /\ p \in reach[b].paths /\ q \in reach[b].paths /\ p # q
      /\ Exists(fs, p)
      /\ fs' = Renamed(fs, p, q)
      /\ Settle(b, u, View)
      /\ gaps' = gaps \cup {g \in {"overwrite"} : Exists(fs, q)}
      /\ UNCHANGED <<files, append_fds, live, phase, reach, closed, drift>>
  BY DEF Rename, registries
<1>3. Renames(fs', fs, {p, q}) /\ fs'.name[q] = fs.name[p] /\ ~Exists(fs', p)
  BY <1>1, <1>2, RenamedRenames
<1>4. FsStep(b) /\ Len(fs'.desc) = Len(fs.desc)
  <2>1. {p, q} \subseteq reach[b].paths
    BY <1>2
  <2>2. fs.name[p] \in Inodes(fs, reach[b])
    BY <1>2 DEF Inodes
  <2>3. \A r \in {p, q} : Exists(fs', r) => fs'.name[r] \in Inodes(fs, reach[b])
    BY <1>3, <2>2
  <2> QED
    BY <1>1, <1>2, <1>3, <2>1, <2>3, FsRenamed
<1>5. failed' = failed
  BY <1>2 DEF Settle
<1>6. CallStep(b) /\ calls' \in 0 .. MaxCalls
  BY <1>2, <1>5, CallWhole
<1>7. View \in Views
  BY <1>1, ViewTyped
<1>8. /\ drift' = drift /\ gaps \subseteq gaps' /\ drift \subseteq 1 .. Len(fs.desc)
      /\ gaps' \subseteq {"exclusive", "overwrite", "refused"}
  BY <1>1, <1>2, DriftSame
<1>9. u \in Inverses(Len(fs.desc)) /\ Concerns(u, reach[b])
  BY <1>2 DEF Inverses, Concerns
<1> HIDE DEF u
<1> QED
  BY <1>2, <1>4, <1>6, <1>7, <1>8, <1>9, SettledStep

LEMMA OpenActStep ==
    ASSUME Base, NEW b \in Branches, OpenAct(b)
    PROVE  StepOf(b)
<1>1. TypeInv /\ StackType /\ fs \in Systems
  BY DEF Base, TypeInv, StackType
<1> DEFINE c == call[b]
           d == Len(fs.desc) + 1
<1>2. /\ Acts(b, "open")
      /\ \/ /\ fs' = Opened(fs, c.path, c.flags)
            /\ files' = Inserted(files, d)
            /\ append_fds' = append_fds \cup {n \in {NewFd} : c.flags.append}
            /\ live' = [live EXCEPT ![b] = @ \cup {NewFd}]
            /\ reach' = [reach EXCEPT ![b].descs = @ \cup {d}]
            /\ Settle(b, OpenInverse(c), c.before)
            /\ gaps' = gaps \cup {g \in {"exclusive"} :
                          ~Exists(fs, c.path) /\ ~c.flags.create}
         \/ UNCHANGED <<fs, files, append_fds, live, reach, undo, irreversible, failed, gaps>>
      /\ UNCHANGED <<phase, closed, drift>>
  BY DEF OpenAct, back
<1>3. c \in Opening /\ c.path \in reach[b].paths
  <2>1. c \in Calls /\ c.op = "open"
    BY <1>1, <1>2 DEF Acts, StackType
  <2>2. CallReach(b)
    BY DEF Base
  <2> QED
    BY <2>1, <2>2, CallOps DEF CallReach
<1>4. failed' = failed
  BY <1>2 DEF Settle
<1>5. CallStep(b) /\ calls' \in 0 .. MaxCalls
  BY <1>2, <1>4, CallActs
<1>6. drift' = drift /\ drift \subseteq 1 .. Len(fs.desc)
      /\ gaps \subseteq {"exclusive", "overwrite", "refused"}
  BY <1>1, <1>2, DriftSame
<1>7. CASE UNCHANGED <<fs, files, append_fds, live, reach, undo, irreversible, failed, gaps>>
  <2>1. FsStep(b) /\ StackStep(b)
    BY <1>1, <1>2, <1>7, FsSame, StackSame
  <2>2. TableStep
    BY <1>1, <1>2, <1>5, <1>6, <1>7, TableSame
  <2> QED
    BY <1>5, <2>1, <2>2 DEF StepOf
<1>8. CASE /\ fs' = Opened(fs, c.path, c.flags)
           /\ files' = Inserted(files, d)
           /\ append_fds' = append_fds \cup {n \in {NewFd} : c.flags.append}
           /\ live' = [live EXCEPT ![b] = @ \cup {NewFd}]
           /\ reach' = [reach EXCEPT ![b].descs = @ \cup {d}]
           /\ Settle(b, OpenInverse(c), c.before)
           /\ gaps' = gaps \cup {g \in {"exclusive"} :
                         ~Exists(fs, c.path) /\ ~c.flags.create}
  <2>1. c.path \in Paths /\ c.flags \in Flags /\ c.before \in Views
    BY <1>3 DEF Opening
  <2> HIDE DEF c
  <2>2. Len(fs.desc) \in Nat /\ d \in Nat /\ Len(fs.desc) <= d /\ Len(fs'.desc) = d
        /\ fs' \in Systems
    BY <1>1, <1>8, <2>1, OpenedSystem, SystemFacts
  <2>3. reach[b] \in Scopes /\ reach[b].descs \subseteq 1 .. Len(fs.desc)
    BY <1>1 DEF StackType
  <2>4. /\ reach' \in [Branches -> Scopes]
        /\ \A a \in Branches : a # b => reach'[a] = reach[a]
        /\ reach'[b] = [reach[b] EXCEPT !.descs = @ \cup {d}]
        /\ reach'[b].paths = reach[b].paths
        /\ reach'[b].descs = reach[b].descs \cup {d}
    BY <1>1, <1>8, <2>2 DEF StackType, Scopes
  <2>5. /\ Within(fs', fs, reach[b])
        /\ Inodes(fs', reach'[b]) \subseteq Inodes(fs, reach[b]) \cup NewInodes
    BY <1>1, <1>3, <1>8, <2>1, <2>3, <2>4, OpenedWithin DEF NewInodes
  <2>6. FsStep(b)
    <3>1. {d} \subseteq Len(fs.desc) + 1 .. Len(fs'.desc)
      BY <2>2
    <3> HIDE DEF d
    <3> QED
      BY <2>4, <2>5, <3>1 DEF FsStep
  <2>7. StackStep(b)
    <3>1. OpenInverse(c) \in {Identity, NonInvertible} \cup Inverses(Len(fs'.desc))
      BY <1>3, OpenInverses
    <3>2. OpenInverse(c) \in Inverses(Len(fs'.desc)) => Concerns(OpenInverse(c), reach[b])
      <4>1. NonInvertible \notin Inverses(Len(fs'.desc))
            /\ Identity \notin Inverses(Len(fs'.desc))
        BY <2>2, InverseIsOne
      <4> QED
        BY <1>3, <4>1 DEF OpenInverse, Concerns
    <3>3. Part(reach[b], reach'[b])
      BY <2>4 DEF Part
    <3> QED
      BY <1>8, <2>1, <2>2, <3>1, <3>2, <3>3, StackSettled
  <2>8. TableStep
    <3>1. /\ Table(files, Len(fs.desc))
          /\ append_fds \subseteq DOMAIN files
          /\ live \in [Branches -> SUBSET DOMAIN files]
          /\ closed \subseteq DOMAIN files
          /\ phase \in {"alone", "forked", "joined"}
      BY <1>1 DEF TypeInv, TableType
    <3>2. \A fd \in DOMAIN files : files[fd] \in 0 .. d
      BY <2>2, <3>1, TableFacts
    <3>3. /\ Table(files', d)
          /\ DOMAIN files' = DOMAIN files \cup {NewFd}
          /\ \A fd \in DOMAIN files : files'[fd] = files[fd]
      <4>1. d \in 0 .. d
        BY <2>2
      <4> HIDE DEF d
      <4>2. PICK n \in Nat : n = Len(fs.desc)
        BY <2>2
      <4>3. Table(files, n) /\ d \in Nat
        BY <2>2, <3>1, <4>2
      <4>4. /\ Table(Inserted(files, d), d)
            /\ DOMAIN Inserted(files, d) = DOMAIN files \cup {NewFd}
            /\ \A fd \in DOMAIN files : Inserted(files, d)[fd] = files[fd]
        BY <3>2, <4>1, <4>3, InsertedTable
      <4> QED
        BY <1>8, <4>4
    <3>4. live' \in [Branches -> SUBSET DOMAIN files']
      BY <1>8, <3>1, <3>3
    <3>5. gaps \subseteq gaps' /\ gaps' \subseteq {"exclusive", "overwrite", "refused"}
      BY <1>6, <1>8
    <3>6. append_fds' \subseteq DOMAIN files' /\ closed' \subseteq DOMAIN files'
      BY <1>2, <1>8, <3>1, <3>3
    <3>7. TableType'
      BY <1>2, <1>5, <2>2, <3>1, <3>3, <3>4, <3>5, <3>6 DEF TableType
    <3> QED
      BY <1>6, <3>3, <3>5, <3>7 DEF TableStep
  <2> QED
    BY <1>5, <2>6, <2>7, <2>8 DEF StepOf
<1> QED
  BY <1>2, <1>7, <1>8

LEMMA TablesStep ==
    ASSUME Base, NEW b \in Branches, NEW op, Whole(b, op),
           UNCHANGED <<fs, reach, undo, irreversible, failed, phase, append_fds, drift, gaps>>,
           Table(files', Len(fs.desc)),
           \A fd \in DOMAIN files : fd \in DOMAIN files' /\ files'[fd] \in {files[fd], NoDesc},
           live' \in [Branches -> SUBSET DOMAIN files'], closed' \subseteq DOMAIN files'
    PROVE  StepOf(b)
<1>1. TypeInv /\ StackType
  BY DEF Base, TypeInv
<1>2. CallStep(b) /\ calls' \in 0 .. MaxCalls
  BY CallWhole
<1>3. FsStep(b) /\ StackStep(b)
  BY <1>1, FsSame, StackSame
<1>4. TableType'
  BY <1>1, <1>2 DEF TypeInv, TableType
<1>5. TableStep
  BY <1>1, <1>4, DriftSame DEF TableStep
<1> QED
  BY <1>2, <1>3, <1>5 DEF StepOf

\* The new fd of a duplicate, in tables in which some fds may just have been closed.
LEMMA DupTables ==
    ASSUME Base, NEW t, DOMAIN t = DOMAIN files,
           \A fd \in DOMAIN files : t[fd] \in {files[fd], NoDesc},
           NEW fd \in DOMAIN files, files' = Inserted(t, files[fd])
    PROVE  /\ Table(files', Len(fs.desc))
           /\ DOMAIN files' = DOMAIN files \cup {NewFd}
           /\ \A n \in DOMAIN files : files'[n] = t[n]
<1>1. TypeInv /\ StackType /\ fs \in Systems /\ Table(files, Len(fs.desc))
  BY DEF Base, TypeInv, StackType, TableType
<1>2. PICK m \in Nat : m = Len(fs.desc)
  BY <1>1, SystemFacts
<1>3. Table(files, m) /\ NoDesc \in 0 .. m
  BY <1>1, <1>2 DEF NoDesc
<1>4. \A n \in DOMAIN files : files[n] \in 0 .. m
  BY <1>3, TableFacts
<1>5. \A n \in DOMAIN files : t[n] \in 0 .. m
  BY <1>3, <1>4
<1>6. PICK d \in 0 .. m : d = files[fd]
  BY <1>4
<1>7. /\ Table(Inserted(t, d), m)
      /\ DOMAIN Inserted(t, d) = DOMAIN files \cup {NewFd}
      /\ \A n \in DOMAIN files : Inserted(t, d)[n] = t[n]
  BY <1>3, <1>5, InsertedTable
<1> QED
  BY <1>2, <1>6, <1>7

LEMMA FreedTable ==
    ASSUME Base, NEW t, DOMAIN t = DOMAIN files, t \in [DOMAIN files -> Nat],
           \A fd \in DOMAIN files : t[fd] \in {files[fd], NoDesc}
    PROVE  Table(t, Len(fs.desc))
<1>1. TypeInv /\ StackType /\ fs \in Systems /\ Table(files, Len(fs.desc))
  BY DEF Base, TypeInv, StackType, TableType
<1>2. PICK m \in Nat : m = Len(fs.desc)
  BY <1>1, SystemFacts
<1>3. Table(files, m) /\ NoDesc \in 0 .. m
  BY <1>1, <1>2 DEF NoDesc
<1>4. \A n \in DOMAIN files : files[n] \in 0 .. m
  BY <1>3, TableFacts
<1>5. t \in [DOMAIN t -> 0 .. m]
  BY <1>3, <1>4
<1>6. Table(t, m)
  BY <1>3, <1>5, TableFrom
<1> QED
  BY <1>2, <1>6

LEMMA TypedTables ==
    ASSUME Base
    PROVE  /\ live \in [Branches -> SUBSET DOMAIN files]
           /\ closed \subseteq DOMAIN files
           /\ files \in [DOMAIN files -> Nat]
           /\ fs \in Systems
<1>1. TypeInv /\ StackType /\ fs \in Systems /\ Table(files, Len(fs.desc))
  BY DEF Base, TypeInv, StackType, TableType
<1>2. \A fd \in DOMAIN files : files[fd] \in 0 .. Len(fs.desc)
  BY <1>1, SystemFacts, TableFacts
<1>3. files = [n \in DOMAIN files |-> files[n]]
  BY <1>1 DEF Table
<1> QED
  BY <1>1, <1>2, <1>3 DEF TypeInv, TableType

LEMMA DupStep ==
    ASSUME Base, NEW b \in Branches, NEW fd \in DOMAIN files, Dup(b, fd)
    PROVE  StepOf(b)
<1>1. /\ Whole(b, "dup")
      /\ files' = Inserted(files, files[fd])
      /\ live' = [live EXCEPT ![b] = @ \cup {NewFd}]
      /\ closed' = closed \cup {n \in {NewFd} : fd \in closed}
      /\ UNCHANGED <<fs, reach, undo, irreversible, failed, phase, append_fds, drift, gaps>>
  BY DEF Dup, back
<1>2. /\ Table(files', Len(fs.desc))
      /\ DOMAIN files' = DOMAIN files \cup {NewFd}
      /\ \A n \in DOMAIN files : files'[n] = files[n]
  BY <1>1, DupTables
<1>3. live' \in [Branches -> SUBSET DOMAIN files'] /\ closed' \subseteq DOMAIN files'
  BY <1>1, <1>2, TypedTables
<1> QED
  BY <1>1, <1>2, <1>3, TablesStep

LEMMA CloseStep ==
    ASSUME Base, NEW b \in Branches, NEW fd \in DOMAIN files, Close(b, fd)
    PROVE  StepOf(b)
<1>1. /\ Whole(b, "close")
      /\ files' = [files EXCEPT ![fd] = NoDesc]
      /\ live' = [live EXCEPT ![b] = @ \ {fd}]
      /\ closed' = closed \cup {fd}
      /\ UNCHANGED <<fs, reach, undo, irreversible, failed, phase, append_fds, drift, gaps>>
  BY DEF Close, back
<1>2. /\ DOMAIN files' = DOMAIN files
      /\ files' \in [DOMAIN files -> Nat]
      /\ \A n \in DOMAIN files : files'[n] \in {files[n], NoDesc}
  BY <1>1, TypedTables DEF NoDesc
<1>3. Table(files', Len(fs.desc))
  BY <1>2, FreedTable
<1>4. live' \in [Branches -> SUBSET DOMAIN files'] /\ closed' \subseteq DOMAIN files'
  BY <1>1, <1>2, TypedTables
<1> QED
  BY <1>1, <1>2, <1>3, <1>4, TablesStep

LEMMA Dup2Step ==
    ASSUME Base, NEW b \in Branches, NEW old \in DOMAIN files, NEW new \in DOMAIN files,
           Dup2(b, old, new)
    PROVE  StepOf(b)
<1> DEFINE kept == live[b] \ {new}
           freed == IF new \in live[b] THEN [files EXCEPT ![new] = NoDesc] ELSE files
<1>1. /\ Whole(b, "dup2")
      /\ closed' = closed \cup ({new} \cap live[b])
                        \cup {n \in {NewFd} : old \in closed /\ old \in kept}
      /\ \/ /\ old \in kept
            /\ files' = Inserted(freed, files[old])
            /\ live' = [live EXCEPT ![b] = kept \cup {NewFd}]
         \/ /\ old \notin kept
            /\ files' = freed
            /\ live' = [live EXCEPT ![b] = kept]
      /\ UNCHANGED <<fs, reach, undo, irreversible, failed, phase, append_fds, drift, gaps>>
  BY DEF Dup2, back
<1>2. /\ DOMAIN freed = DOMAIN files
      /\ freed \in [DOMAIN files -> Nat]
      /\ \A n \in DOMAIN files : freed[n] \in {files[n], NoDesc}
  BY TypedTables DEF NoDesc
<1>3. kept \subseteq DOMAIN files
  BY TypedTables
<1> HIDE DEF kept, freed
<1>4. CASE /\ old \in kept
           /\ files' = Inserted(freed, files[old])
           /\ live' = [live EXCEPT ![b] = kept \cup {NewFd}]
  <2>1. /\ Table(files', Len(fs.desc))
        /\ DOMAIN files' = DOMAIN files \cup {NewFd}
        /\ \A n \in DOMAIN files : files'[n] = freed[n]
    BY <1>2, <1>4, DupTables
  <2>2. live' \in [Branches -> SUBSET DOMAIN files'] /\ closed' \subseteq DOMAIN files'
    BY <1>1, <1>3, <1>4, <2>1, TypedTables
  <2> QED
    BY <1>1, <1>2, <2>1, <2>2, TablesStep
<1>5. CASE /\ old \notin kept
           /\ files' = freed
           /\ live' = [live EXCEPT ![b] = kept]
  <2>1. Table(files', Len(fs.desc))
    BY <1>2, <1>5, FreedTable
  <2>2. live' \in [Branches -> SUBSET DOMAIN files'] /\ closed' \subseteq DOMAIN files'
    BY <1>1, <1>2, <1>3, <1>5, TypedTables
  <2> QED
    BY <1>1, <1>2, <1>5, <2>1, <2>2, TablesStep
<1> QED
  BY <1>1, <1>4, <1>5

LEMMA ReplaceStep ==
    ASSUME Base, NEW b \in Branches, Replace(b)
    PROVE  StepOf(b)
<1>1. TypeInv /\ StackType
  BY DEF Base, TypeInv
<1>2. /\ Idle(b)
      /\ call' = [call EXCEPT ![b] = Replacing]
      /\ UNCHANGED <<fs, files, append_fds, live, phase, reach, undo, irreversible, failed,
                     calls, closed, drift, gaps>>
  BY DEF Replace, registries, back, Replacing
<1>3. /\ call' \in [Branches -> Calls] /\ call'[b] = Replacing
      /\ \A a \in Branches : a # b => call'[a] = call[a]
  BY <1>1, <1>2 DEF StackType, Calls
<1>4. CallReach(b)'
  BY <1>3 DEF CallReach, Replacing
<1>5. CallStep(b)
  BY <1>2, <1>3, <1>4 DEF CallStep, Idle
<1>6. FsStep(b) /\ StackStep(b)
  BY <1>1, <1>2, FsSame, StackSame
<1>7. TableStep
  <2>1. calls' \in 0 .. MaxCalls
    BY <1>1, <1>2 DEF TypeInv, TableType
  <2> QED
    BY <1>1, <1>2, <2>1, TableSame, DriftSame
<1> QED
  BY <1>5, <1>6, <1>7 DEF StepOf

LEMMA ReplaceDoneStep ==
    ASSUME Base, NEW b \in Branches, ReplaceDone(b)
    PROVE  StepOf(b)
<1>1. TypeInv /\ StackType /\ fs \in Systems
  BY DEF Base, TypeInv, StackType
<1>2. /\ call[b].op = "replace"
      /\ call' = [call EXCEPT ![b] = NoCall]
      /\ irreversible' = [irreversible EXCEPT ![b] = FALSE]
      /\ failed' = [failed EXCEPT ![b] = FALSE]
      /\ files' = files
      /\ live' = live \/ live' = [live EXCEPT ![b] = {}]
      /\ gaps' = gaps \cup {g \in {"refused"} : b # "main" /\ irreversible[b]}
      /\ UNCHANGED <<fs, append_fds, phase, undo, calls, reach, closed, drift>>
  BY DEF ReplaceDone, Clear
<1>3. Runs(b)
  <2>1. call[b] # NoCall
    BY <1>2 DEF NoCall
  <2> QED
    BY <2>1 DEF Base, PhaseInv
<1>4. /\ call' \in [Branches -> Calls] /\ call'[b] = NoCall
      /\ \A a \in Branches : a # b => call'[a] = call[a]
  BY <1>1, <1>2 DEF StackType, Calls
<1>5. /\ irreversible' \in [Branches -> BOOLEAN]
      /\ failed' \in [Branches -> BOOLEAN] /\ ~failed'[b]
      /\ \A a \in Branches : a # b => /\ irreversible'[a] = irreversible[a]
                                      /\ failed'[a] = failed[a]
  BY <1>1, <1>2 DEF StackType
<1>6. CallStep(b)
  <2>1. CallReach(b)'
    BY <1>4 DEF CallReach, NoCall
  <2> QED
    BY <1>2, <1>3, <1>4, <1>5, <2>1 DEF CallStep
<1>7. FsStep(b)
  BY <1>1, <1>2, FsSame
<1>8. StackStep(b)
  BY <1>1, <1>2, <1>5 DEF Base, StackStep, StackReach, StackIn, StackType
<1>9. TableStep
  <2>1. live' \in [Branches -> SUBSET DOMAIN files']
    BY <1>2, TypedTables
  <2>2. gaps \subseteq gaps' /\ gaps' \subseteq {"exclusive", "overwrite", "refused"}
    BY <1>1, <1>2, DriftSame
  <2>3. TableType'
    BY <1>1, <1>2, <2>1, <2>2 DEF TypeInv, TableType
  <2> QED
    BY <1>1, <1>2, <2>2, <2>3, DriftSame DEF TableStep
<1> QED
  BY <1>6, <1>7, <1>8, <1>9 DEF StepOf

LEMMA Shortened ==
    ASSUME NEW E, NEW s \in Seq(E), s # << >>
    PROVE  /\ Len(s) \in Nat \ {0}
           /\ SubSeq(s, 1, Len(s) - 1) \in Seq(E)
           /\ Len(SubSeq(s, 1, Len(s) - 1)) = Len(s) - 1
           /\ \A i \in 1 .. Len(s) - 1 : SubSeq(s, 1, Len(s) - 1)[i] = s[i]
<1> DEFINE k == Len(s) - 1
           w == SubSeq(s, 1, k)
<1>1. Len(s) \in Nat \ {0} /\ k \in Nat /\ Len(s) = k + 1
  BY EmptySeq
<1>2. \A i \in 1 .. k : s[i] \in E
  BY <1>1
<1>3. /\ w \in Seq(E)
      /\ Len(w) = IF 1 <= k THEN k - 1 + 1 ELSE 0
      /\ \A i \in 1 .. k - 1 + 1 : w[i] = s[1 + i - 1]
  BY <1>1, <1>2, SubSeqProperties
<1> HIDE DEF k, w
<1>4. \A i \in 1 .. k : i \in 1 .. k - 1 + 1 /\ 1 + i - 1 = i
  BY <1>1
<1>5. Len(w) = k /\ \A i \in 1 .. k : w[i] = s[i]
  BY <1>1, <1>3, <1>4
<1> QED
  BY <1>1, <1>3, <1>5 DEF k, w

LEMMA UndoStepStep ==
    ASSUME Base, NEW b \in Branches, UndoStep(b)
    PROVE  /\ StepOf(b)
           /\ undo[b] \in Seq(Entries(Len(fs.desc))) /\ undo[b] # << >>
           /\ Newest(b).inverse \in Inverses(Len(fs.desc))
           /\ Concerns(Newest(b).inverse, reach[b])
           /\ undo'[b] = SubSeq(undo[b], 1, Len(undo[b]) - 1)
           /\ \/ /\ CanUndo(fs, Newest(b).inverse) /\ failed' = failed
                 /\ fs' = UndoneFrom(fs, Newest(b).inverse)
              \/ ~CanUndo(fs, Newest(b).inverse) /\ fs' = fs
<1>1. TypeInv /\ StackType /\ fs \in Systems
  BY DEF Base, TypeInv, StackType
<1>2. /\ call[b].op = "replace"
      /\ undo[b] # << >>
      /\ undo' = [undo EXCEPT ![b] = SubSeq(@, 1, Len(@) - 1)]
      /\ \/ /\ Undoable(Newest(b).inverse)
            /\ fs' = Undone(Newest(b).inverse)
            /\ UNCHANGED failed
         \/ /\ ~Undoable(Newest(b).inverse)
            /\ failed' = [failed EXCEPT ![b] = TRUE]
            /\ UNCHANGED fs
      /\ UNCHANGED <<files, append_fds, live, phase, reach, call, irreversible, calls,
                     closed, drift, gaps>>
  BY DEF UndoStep, registries
<1>3. undo[b] \in Seq(Entries(Len(fs.desc)))
  BY <1>1 DEF StackType
<1>4. /\ Len(undo[b]) \in Nat \ {0}
      /\ SubSeq(undo[b], 1, Len(undo[b]) - 1) \in Seq(Entries(Len(fs.desc)))
      /\ Len(SubSeq(undo[b], 1, Len(undo[b]) - 1)) = Len(undo[b]) - 1
      /\ \A i \in 1 .. Len(undo[b]) - 1 :
           SubSeq(undo[b], 1, Len(undo[b]) - 1)[i] = undo[b][i]
  BY <1>2, <1>3, Shortened
<1>5. Newest(b) \in Entries(Len(fs.desc))
  BY <1>3, <1>4 DEF Newest
<1>6. Newest(b).inverse \in Inverses(Len(fs.desc))
  BY <1>5 DEF Entries
<1>7. Concerns(Newest(b).inverse, reach[b])
  <2>1. StackReach(b) /\ Len(undo[b]) \in 1 .. Len(undo[b])
    BY <1>4 DEF Base
  <2> QED
    BY <2>1 DEF StackReach, StackIn, Newest
<1>8. undo'[b] = SubSeq(undo[b], 1, Len(undo[b]) - 1)
      /\ \A a \in Branches : a # b => undo'[a] = undo[a]
  BY <1>1, <1>2 DEF StackType
<1>9. \/ /\ CanUndo(fs, Newest(b).inverse) /\ failed' = failed
         /\ fs' = UndoneFrom(fs, Newest(b).inverse)
      \/ /\ ~CanUndo(fs, Newest(b).inverse) /\ fs' = fs
  BY <1>2, UndoneHere
<1>10. FsStep(b) /\ Len(fs'.desc) = Len(fs.desc)
  <2>1. CASE fs' = UndoneFrom(fs, Newest(b).inverse)
    <3>1. reach[b] \in Scopes /\ reach[b].descs \subseteq 1 .. Len(fs.desc)
      BY <1>1 DEF StackType
    <3>2. /\ Within(fs', fs, reach[b])
          /\ Len(fs'.desc) = Len(fs.desc)
      BY <1>1, <1>6, <1>7, <2>1, <3>1, UndoneWithin
    <3>3. Inodes(fs', reach[b]) \subseteq Inodes(fs, reach[b]) \cup NewInodes
      BY <1>1, <3>1, <3>2, WithinInodes DEF NewInodes
    <3> QED
      BY <1>1, <1>2, <3>2, <3>3 DEF FsStep, StackType
  <2>2. CASE fs' = fs
    BY <1>1, <1>2, <2>2, FsSame
  <2> QED
    BY <1>9, <2>1, <2>2
<1>11. /\ failed' \in [Branches -> BOOLEAN]
       /\ \A a \in Branches : a # b => failed'[a] = failed[a]
  BY <1>1, <1>2 DEF StackType
<1>12. StackStep(b)
  <2>1. StackReach(b)'
    <3>1. Len(undo'[b]) = Len(undo[b]) - 1
          /\ \A i \in 1 .. Len(undo[b]) - 1 : undo'[b][i] = undo[b][i]
      BY <1>4, <1>8
    <3>2. StackReach(b) /\ reach' = reach
      BY <1>2 DEF Base
    <3>3. \A i \in 1 .. Len(undo[b]) - 1 : i \in 1 .. Len(undo[b])
      BY <1>4
    <3> QED
      BY <3>1, <3>2, <3>3 DEF StackReach, StackIn
  <2>2. undo' \in [Branches -> Seq(Entries(Len(fs'.desc)))]
    BY <1>1, <1>2, <1>4, <1>10 DEF StackType
  <2> QED
    BY <1>1, <1>2, <1>8, <1>11, <2>1, <2>2 DEF StackStep, StackType
<1>13. CallStep(b)
  <2>1. call[b] # NoCall
    BY <1>2 DEF NoCall
  <2>2. Runs(b)
    BY <2>1 DEF Base, PhaseInv
  <2>3. call[b] = Replacing
    BY <1>1, <1>2, CallOps DEF StackType
  <2>4. CallReach(b)'
    BY <1>2 DEF CallReach
  <2> QED
    BY <1>1, <1>2, <2>2, <2>3, <2>4 DEF CallStep, StackType
<1>14. TableStep
  <2>1. calls' \in 0 .. MaxCalls
    BY <1>1, <1>2 DEF TypeInv, TableType
  <2> QED
    BY <1>1, <1>2, <1>10, <2>1, TableSame, DriftSame
<1> QED
  BY <1>2, <1>3, <1>6, <1>7, <1>8, <1>9, <1>10, <1>12, <1>13, <1>14 DEF StepOf

-----------------------------------------------------------------------------
(* The steps together *)

LEMMA CallStepOf ==
    ASSUME Base, NEW b \in Branches, Call(b)
    PROVE  StepOf(b)
<1>1. CASE \E p \in Paths, f \in Access : OpenLook(b, p, f)
  BY <1>1, OpenLookStep
<1>2. CASE OpenAct(b)
  BY <1>2, OpenActStep
<1>3. CASE \E fd \in DOMAIN files, n \in Lengths : Read(b, fd, n) \/ Write(b, fd, n)
  BY <1>3, ReadStep, WriteStep
<1>4. CASE \E fd \in DOMAIN files, pos \in Offsets : SeekTo(b, fd, pos)
  BY <1>4, SeekToStep
<1>5. CASE \E out, in \in DOMAIN files, offset \in Offsets, n \in Lengths :
              SendLook(b, out, in, offset, n)
  BY <1>5, SendLookStep
<1>6. CASE SendAct(b)
  BY <1>6, SendActStep
<1>7. CASE \E p \in Paths, n \in Offsets : TruncateLook(b, p, n)
  BY <1>7, TruncateLookStep
<1>8. CASE TruncateAct(b)
  BY <1>8, TruncateActStep
<1>9. CASE \E p \in Paths : Unlink(b, p)
  BY <1>9, UnlinkStep
<1>10. CASE \E p, q \in Paths : Rename(b, p, q)
  BY <1>10, RenameStep
<1>11. CASE \E fd \in DOMAIN files : Dup(b, fd) \/ Close(b, fd)
  BY <1>11, DupStep, CloseStep
<1>12. CASE \E old, new \in DOMAIN files : Dup2(b, old, new)
  BY <1>12, Dup2Step
<1> QED
  BY <1>1, <1>2, <1>3, <1>4, <1>5, <1>6, <1>7, <1>8, <1>9, <1>10, <1>11, <1>12 DEF Call

BranchNext(b) == Call(b) \/ Replace(b) \/ UndoStep(b) \/ ReplaceDone(b)

LEMMA BranchStepOf ==
    ASSUME Base, NEW b \in Branches, BranchNext(b)
    PROVE  StepOf(b)
  BY CallStepOf, ReplaceStep, UndoStepStep, ReplaceDoneStep DEF BranchNext

LEMMA NextCases ==
    ASSUME Next
    PROVE  (\E b \in Branches : BranchNext(b)) \/ Fork \/ Join
  BY DEF Next, BranchNext

\* What the two branches get: parts of what there is.
LEMMA SplitsFacts ==
    ASSUME StackType, NEW s \in Splits
    PROVE  /\ s[1] \in Scopes /\ s[2] \in Scopes
           /\ Part(s[1], reach["main"]) /\ Part(s[2], reach["main"])
           /\ reach["main"].paths \subseteq s[1].paths \cup s[2].paths
           /\ reach["main"].descs \subseteq s[1].descs \cup s[2].descs
           /\ ~Sharing => /\ Inodes(fs, s[1]) \cap Inodes(fs, s[2]) = {}
                          /\ s[1].paths \cap s[2].paths = {}
                          /\ s[1].descs \cap s[2].descs = {}
<1> DEFINE all == reach["main"]
           rest(l) == [paths |-> all.paths \ l.paths, descs |-> all.descs \ l.descs]
           halves == [paths : SUBSET all.paths, descs : SUBSET all.descs]
<1>1. all \in Scopes
  BY DEF StackType, Branches
<1>2. CASE Sharing
  <2>1. s = <<all, all>>
    BY <1>2 DEF Splits
  <2> QED
    BY <1>1, <1>2, <2>1 DEF Part
<1>3. CASE ~Sharing
  <2>1. PICK l \in halves : s = <<l, rest(l)>> /\ Disjoint(l, rest(l))
    BY <1>3 DEF Splits
  <2>2. l \in Scopes /\ rest(l) \in Scopes
    BY <1>1 DEF Scopes
  <2>3. Inodes(fs, l) \cap Inodes(fs, rest(l)) = {}
    BY <2>1 DEF Disjoint, Inodes
  <2> QED
    BY <2>1, <2>2, <2>3 DEF Part
<1> QED
  BY <1>2, <1>3

LEMMA ForkFacts ==
    ASSUME Base, Fork
    PROVE  /\ \A b \in {"left", "right"} : undo[b] = << >> /\ ~irreversible[b] /\ ~failed[b]
           /\ \A b \in Branches : call[b] = NoCall
           /\ phase = "alone" /\ phase' = "forked" /\ Forks
           /\ reach' \in [Branches -> Scopes]
           /\ reach'["main"] = reach["main"]
           /\ Part(reach'["left"], reach["main"]) /\ Part(reach'["right"], reach["main"])
           /\ reach["main"].paths \subseteq reach'["left"].paths \cup reach'["right"].paths
           /\ reach["main"].descs \subseteq reach'["left"].descs \cup reach'["right"].descs
           /\ ~Sharing => /\ Inodes(fs, reach'["left"]) \cap Inodes(fs, reach'["right"]) = {}
                          /\ reach'["left"].paths \cap reach'["right"].paths = {}
                          /\ reach'["left"].descs \cap reach'["right"].descs = {}
<1>1. StackType /\ PhaseInv
  BY DEF Base, TypeInv
<1>2. phase = "alone" /\ Idle("main") /\ Forks /\ phase' = "forked"
  BY DEF Fork
<1>3. PICK s \in Splits : reach' = [reach EXCEPT !["left"] = s[1], !["right"] = s[2]]
  BY DEF Fork
<1>4. /\ reach' \in [Branches -> Scopes]
      /\ reach'["main"] = reach["main"] /\ reach'["left"] = s[1] /\ reach'["right"] = s[2]
  BY <1>1, <1>3, SplitsFacts DEF StackType, Branches
<1>5. \A b \in Branches : call[b] = NoCall
  BY <1>1, <1>2 DEF PhaseInv, Runs, Idle, Branches
<1>6. \A b \in Branches : ~failed[b]
  BY <1>1, <1>5 DEF PhaseInv, NoCall, Replacing
<1>7. \A b \in {"left", "right"} : undo[b] = << >> /\ ~irreversible[b]
  BY <1>1, <1>2 DEF PhaseInv
<1> QED
  BY <1>1, <1>2, <1>4, <1>5, <1>6, <1>7, SplitsFacts DEF Branches

LEMMA StackInEmpty ==
    ASSUME NEW r
    PROVE  StackIn(<< >>, r)
  BY DEF StackIn

LEMMA ForkBase ==
    ASSUME Base, Fork
    PROVE  Base'
<1>1. StackType /\ TableType /\ PhaseInv
  BY DEF Base, TypeInv
<1>2. UNCHANGED <<fs, files, append_fds, call, undo, irreversible, failed, calls, closed,
                  drift, gaps>>
  BY DEF Fork, back
<1>3. live' \in [Branches -> SUBSET DOMAIN files]
  BY <1>1 DEF Fork, TableType, Branches
<1>4. \A b \in Branches : reach'[b].descs \subseteq 1 .. Len(fs.desc)
  <2>1. reach["main"].descs \subseteq 1 .. Len(fs.desc)
    BY <1>1 DEF StackType, Branches
  <2> QED
    BY <2>1, ForkFacts DEF Part, Branches
<1>5. StackType'
  BY <1>1, <1>2, <1>4, ForkFacts DEF StackType
<1>6. TableType'
  BY <1>1, <1>2, <1>3, ForkFacts DEF TableType
<1>7. ASSUME NEW b \in Branches PROVE CallReach(b)' /\ StackReach(b)'
  <2>1. CallReach(b)'
    BY <1>2, ForkFacts DEF CallReach, NoCall
  <2>2. CASE b = "main"
    <3>1. StackReach(b)
      BY DEF Base
    <3> QED
      BY <1>2, <2>1, <2>2, <3>1, ForkFacts DEF StackReach
  <2>3. CASE b # "main"
    <3>1. undo'[b] = << >>
      BY <1>2, <2>3, ForkFacts DEF Branches
    <3> QED
      BY <2>1, <3>1, StackInEmpty DEF StackReach
  <2> QED
    BY <2>1, <2>2, <2>3
<1>8. PhaseInv'
  BY <1>1, <1>2, ForkFacts DEF PhaseInv
<1> QED
  BY <1>5, <1>6, <1>7, <1>8 DEF Base, TypeInv

LEMMA ConcatRange ==
    ASSUME NEW E, NEW s \in Seq(E), NEW w \in Seq(E), NEW i \in 1 .. Len(s \o w)
    PROVE  \/ \E j \in 1 .. Len(s) : (s \o w)[i] = s[j]
           \/ \E j \in 1 .. Len(w) : (s \o w)[i] = w[j]
<1>1. Len(s) \in Nat /\ Len(w) \in Nat /\ Len(s \o w) = Len(s) + Len(w)
  OBVIOUS
<1>2. CASE i <= Len(s)
  BY <1>1, <1>2
<1>3. CASE i > Len(s)
  <2>1. i - Len(s) \in 1 .. Len(w) /\ (s \o w)[i] = w[i - Len(s)]
    BY <1>1, <1>3
  <2> QED
    BY <2>1
<1> QED
  BY <1>1, <1>2, <1>3

Whole0 == [paths |-> Paths, descs |-> DOMAIN fs.desc]

LEMMA JoinFacts ==
    ASSUME Base, Join
    PROVE  /\ phase = "forked" /\ phase' = "joined"
           /\ \A b \in Branches : call[b] = NoCall /\ ~failed[b]
           /\ fs' = fs /\ call' = call /\ failed' = failed /\ drift' = drift /\ gaps' = gaps
           /\ undo'["main"] = undo["main"] \o undo["left"] \o undo["right"]
           /\ undo' \in [Branches -> Seq(Entries(Len(fs.desc)))]
           /\ irreversible' \in [Branches -> BOOLEAN]
           /\ irreversible'["main"] <=> \E c \in Branches : irreversible[c]
           /\ \A b \in {"left", "right"} : undo'[b] = << >> /\ ~irreversible'[b]
           /\ reach' \in [Branches -> Scopes]
           /\ reach'["main"] = Whole0
           /\ \A b \in Branches : Part(reach[b], Whole0)
           /\ \A b \in Branches : reach'[b].descs \subseteq 1 .. Len(fs.desc)
<1>1. StackType /\ PhaseInv /\ fs \in Systems
  BY DEF Base, TypeInv, StackType
<1>2. /\ Idle("left") /\ Idle("right") /\ phase' = "joined"
      /\ undo' = [b \in Branches |->
                    IF b = "main" THEN undo["main"] \o undo["left"] \o undo["right"]
                    ELSE << >>]
      /\ irreversible' = [b \in Branches |->
                            b = "main" /\ \E c \in Branches : irreversible[c]]
      /\ reach' = [b \in Branches |-> IF b = "main" THEN Whole0 ELSE Nowhere]
      /\ fs' = fs /\ call' = call /\ failed' = failed /\ drift' = drift /\ gaps' = gaps
  BY DEF Join, Whole0
<1>3. phase = "forked"
  BY <1>2 DEF Idle, Runs
<1>4. \A b \in Branches : call[b] = NoCall
  BY <1>1, <1>2, <1>3 DEF PhaseInv, Runs, Idle, Branches
<1>5. \A b \in Branches : ~failed[b]
  BY <1>1, <1>4 DEF PhaseInv, NoCall, Replacing
<1>6. \A b \in Branches : undo[b] \in Seq(Entries(Len(fs.desc)))
  BY <1>1 DEF StackType
<1>7. undo["main"] \o undo["left"] \o undo["right"] \in Seq(Entries(Len(fs.desc)))
  <2> DEFINE E == Entries(Len(fs.desc))
  <2>1. undo["main"] \in Seq(E) /\ undo["left"] \in Seq(E) /\ undo["right"] \in Seq(E)
    BY <1>6 DEF Branches
  <2> HIDE DEF E
  <2>2. undo["main"] \o undo["left"] \o undo["right"] \in Seq(E)
    BY <2>1, ConcatProperties
  <2> QED
    BY <2>2 DEF E
<1>8. << >> \in Seq(Entries(Len(fs.desc)))
  OBVIOUS
<1>9. undo' \in [Branches -> Seq(Entries(Len(fs.desc)))]
  BY <1>2, <1>7, <1>8
<1>10. DOMAIN fs.desc = 1 .. Len(fs.desc) /\ 1 .. Len(fs.desc) \subseteq Nat
  BY <1>1, SystemFacts
<1>11. Whole0 \in Scopes /\ Nowhere \in Scopes
  BY <1>10 DEF Whole0, Nowhere, Scopes
<1>12. reach' \in [Branches -> Scopes] /\ reach'["main"] = Whole0
  BY <1>2, <1>11 DEF Branches
<1>13. \A b \in Branches : Part(reach[b], Whole0)
  BY <1>1, <1>10 DEF Part, Whole0, StackType, Scopes
<1>14. \A b \in Branches : reach'[b].descs \subseteq 1 .. Len(fs.desc)
  BY <1>2, <1>10 DEF Whole0, Nowhere
<1> QED
  BY <1>2, <1>3, <1>4, <1>5, <1>9, <1>12, <1>13, <1>14 DEF Branches

LEMMA JoinBase ==
    ASSUME Base, Join
    PROVE  Base'
<1>1. StackType /\ TableType /\ PhaseInv /\ fs \in Systems
  BY DEF Base, TypeInv, StackType
<1>2. UNCHANGED <<fs, files, append_fds, call, failed, calls, closed, drift, gaps>>
  BY DEF Join
<1>3. live' \in [Branches -> SUBSET DOMAIN files]
  <2>1. \A c \in Branches : live[c] \subseteq DOMAIN files
    BY <1>1 DEF TableType
  <2>2. UNION {live[c] : c \in Branches} \subseteq DOMAIN files
    BY <2>1
  <2> QED
    BY <2>2 DEF Join
<1>4. StackType'
  BY <1>1, <1>2, JoinFacts DEF StackType
<1>5. TableType'
  BY <1>1, <1>2, <1>3, JoinFacts DEF TableType
<1>6. ASSUME NEW b \in Branches PROVE CallReach(b)' /\ StackReach(b)'
  <2>1. CallReach(b)'
    BY JoinFacts DEF CallReach, NoCall
  <2>2. CASE b = "main"
    <3>1. \A c \in Branches : \A i \in 1 .. Len(undo[c]) :
            Concerns(undo[c][i].inverse, reach'[b])
      <4>1. ASSUME NEW c \in Branches PROVE Part(reach[c], reach'[b]) /\ StackReach(c)
        BY <2>2, JoinFacts DEF Base
      <4> QED
        BY <4>1 DEF StackReach, StackIn, Concerns, Part
    <3> DEFINE E == Entries(Len(fs.desc))
               m == undo["main"]
               l == undo["left"]
               r == undo["right"]
    <3>2. m \in Seq(E) /\ l \in Seq(E) /\ r \in Seq(E)
      BY <1>1 DEF StackType, Branches
    <3>3. /\ \A i \in 1 .. Len(m) : Concerns(m[i].inverse, reach'[b])
          /\ \A i \in 1 .. Len(l) : Concerns(l[i].inverse, reach'[b])
          /\ \A i \in 1 .. Len(r) : Concerns(r[i].inverse, reach'[b])
      BY <3>1 DEF Branches
    <3> HIDE DEF m, l, r, E
    <3>4. m \o l \in Seq(E)
      BY <3>2
    <3>5. \A i \in 1 .. Len(m \o l) : Concerns((m \o l)[i].inverse, reach'[b])
      BY <3>2, <3>3, ConcatRange
    <3>6. \A i \in 1 .. Len(m \o l \o r) : Concerns((m \o l \o r)[i].inverse, reach'[b])
      BY <3>2, <3>3, <3>4, <3>5, ConcatRange
    <3>7. undo'[b] = m \o l \o r
      BY <2>2, JoinFacts DEF m, l, r
    <3> QED
      BY <2>1, <3>6, <3>7 DEF StackReach, StackIn
  <2>3. CASE b # "main"
    <3>1. undo'[b] = << >>
      BY <2>3, JoinFacts DEF Branches
    <3> QED
      BY <2>1, <3>1, StackInEmpty DEF StackReach
  <2> QED
    BY <2>1, <2>2, <2>3
<1>7. PhaseInv'
  BY <1>1, JoinFacts DEF PhaseInv
<1> QED
  BY <1>4, <1>5, <1>6, <1>7 DEF Base, TypeInv

-----------------------------------------------------------------------------
(* The initial states *)

\* An fd opened for appending has a description that appends.
AppendInv ==
    \A fd \in append_fds : files[fd] # NoDesc => fs.desc[files[fd]].append

Started(names, named) ==
    [name |-> [p \in Paths |-> IF p \in names THEN named[p] ELSE NoFile],
     data |-> [i \in 1 .. Cardinality(names) |-> <<100 + i, 110 + i>>],
     desc |-> << >>]

LEMMA InitFs ==
    ASSUME NEW names \in SUBSET Paths, NEW f \in Inherited, NEW p0 \in names,
           NEW named \in Injection(names, 1 .. Cardinality(names))
    PROVE  LET z == Opened(Started(names, named), p0, f)
           IN  z \in Systems /\ Len(z.desc) = 1 /\ z.desc[1].append = f.append
<1> DEFINE n == Cardinality(names)
           name == [p \in Paths |-> IF p \in names THEN named[p] ELSE NoFile]
           data == [i \in 1 .. n |-> <<100 + i, 110 + i>>]
           x == [name |-> name, data |-> data, desc |-> << >>]
           z == Opened(Started(names, named), p0, f)
<1>1. n \in Nat
  BY BoundAssumption, FS_Subset, FS_CardinalityType
<1>2. \A p \in names : named[p] \in 1 .. n
  BY DEF Injection
<1>3. name \in [Paths -> Nat] /\ \A p \in Paths : name[p] \in 0 .. n
  BY <1>1, <1>2 DEF NoFile
<1>4. data \in Seq(Contents) /\ Len(data) = n
  <2>1. \A i \in 1 .. n : <<100 + i, 110 + i>> \in Contents
    BY <1>1 DEF Contents
  <2>2. data \in [1 .. n -> Contents]
    BY <2>1
  <2> HIDE DEF data
  <2> QED
    BY <1>1, <2>2
<1>5. << >> \in Seq(Descriptions) /\ Len(<< >>) = 0 /\ 1 .. 0 = {}
  OBVIOUS
<1> HIDE DEF name, data, n
<1>6. x \in Systems
  BY <1>3, <1>4, <1>5, SystemFrom
<1>7. x.desc = << >> /\ Len(x.desc) + 1 = 1
  BY <1>5
<1>8. f \in Flags /\ p0 \in Paths
  BY AccessAssumption
<1>9. z = Opened(x, p0, f)
  BY DEF n, name, data, Started
<1> HIDE DEF x, z
<1>10. /\ z \in Systems /\ Len(z.desc) = Len(x.desc) + 1
       /\ z.desc[Len(x.desc) + 1].append = f.append
  BY <1>6, <1>8, <1>9, OpenedSystem
<1> QED
  BY <1>7, <1>10 DEF z

LEMMA InitBase ==
    ASSUME Init
    PROVE  Base /\ AppendInv
<1>1. fs \in Systems /\ Len(fs.desc) = 1
      /\ \E f \in Inherited : /\ fs.desc[1].append = f.append
                              /\ append_fds = IF f.append THEN {0} ELSE {}
  <2>1. PICK names \in SUBSET Paths, f \in Inherited : \E p0 \in names :
          \E named \in Injection(names, 1 .. Cardinality(names)) :
            /\ fs = Opened(Started(names, named), p0, f)
            /\ append_fds = IF f.append THEN {0} ELSE {}
    BY DEF Init, Started
  <2>2. fs \in Systems /\ Len(fs.desc) = 1 /\ fs.desc[1].append = f.append
    BY <2>1, InitFs
  <2> QED
    BY <2>1, <2>2
<1>2. files = [n \in {0} |-> 1] /\ DOMAIN files = {0} /\ files[0] = 1
  BY DEF Init
<1>3. Table(files, Len(fs.desc))
  <2>1. files \in [0 .. 1 - 1 -> 0 .. Len(fs.desc)]
    BY <1>1, <1>2
  <2> QED
    BY <2>1 DEF Table
<1>4. reach \in [Branches -> Scopes] /\ \A b \in Branches : reach[b].descs \subseteq {1}
  <2> DEFINE all == [paths |-> Paths, descs |-> {1}]
  <2>1. all \in Scopes /\ Nowhere \in Scopes
    BY DEF Scopes, Nowhere
  <2>2. reach = [b \in Branches |-> IF b = "main" THEN all ELSE Nowhere]
    BY DEF Init
  <2>3. all.descs = {1} /\ Nowhere.descs = {}
    BY DEF Nowhere
  <2> HIDE DEF all
  <2> QED
    BY <2>1, <2>2, <2>3
<1>5. undo \in [Branches -> Seq(Entries(Len(fs.desc)))]
  <2>1. << >> \in Seq(Entries(Len(fs.desc)))
    OBVIOUS
  <2> QED
    BY <2>1 DEF Init
<1>6. call \in [Branches -> Calls] /\ \A b \in Branches : call[b] = NoCall
  BY DEF Init, Calls
<1>7. StackType
  <2>1. {1} \subseteq 1 .. Len(fs.desc)
    BY <1>1
  <2> QED
    BY <1>1, <1>4, <1>5, <1>6, <2>1 DEF Init, StackType
<1>8. TableType
  <2>1. append_fds \subseteq {0} /\ calls = 0 /\ phase = "alone" /\ gaps = {} /\ closed = {}
        /\ live \in [Branches -> SUBSET {0}]
    BY <1>1 DEF Init
  <2>2. 0 \in 0 .. MaxCalls
    BY BoundAssumption
  <2> QED
    BY <1>2, <1>3, <2>1, <2>2 DEF TableType
<1>9. ASSUME NEW b \in Branches PROVE CallReach(b) /\ StackReach(b)
  <2>1. CallReach(b)
    BY <1>6 DEF CallReach, NoCall
  <2>2. undo[b] = << >>
    BY DEF Init
  <2> QED
    BY <2>1, <2>2, StackInEmpty DEF StackReach
<1>10. PhaseInv
  BY <1>6 DEF Init, PhaseInv, Branches
<1>11. AppendInv
  BY <1>1, <1>2 DEF AppendInv
<1> QED
  BY <1>7, <1>8, <1>9, <1>10, <1>11 DEF Base, TypeInv

LEMMA BaseNext ==
    ASSUME Base, [Next]_vars
    PROVE  Base'
<1>1. CASE UNCHANGED vars
  <2>1. TypeInv'
    BY <1>1 DEF vars, Base, TypeInv, StackType, TableType
  <2>2. \A b \in Branches : CallReach(b)' /\ StackReach(b)'
    BY <1>1 DEF vars, Base, CallReach, MayUse, StackReach
  <2>3. PhaseInv'
    BY <1>1 DEF vars, Base, PhaseInv, Runs
  <2> QED
    BY <2>1, <2>2, <2>3 DEF Base
<1>2. CASE Next
  BY <1>2, NextCases, BranchStepOf, BaseStep, ForkBase, JoinBase
<1> QED
  BY <1>1, <1>2

\* Types, what each branch reaches, and which call may be under way when.
THEOREM BaseHolds ==
    Spec => []Base
<1>1. Init => Base
  BY InitBase
<1>2. Base /\ [Next]_vars => Base'
  BY BaseNext
<1> QED
  BY <1>1, <1>2, PTL DEF Spec

LEMMA BaseType ==
    ASSUME Base
    PROVE  TypeOK
<1>1. StackType /\ TableType /\ fs \in Systems
  BY DEF Base, TypeInv, StackType
<1>2. fs \in Files /\ DOMAIN fs.desc = 1 .. Len(fs.desc) /\ Len(fs.desc) \in Nat
  BY <1>1, SystemFacts DEF Systems
<1>3. files \in [0 .. NewFd - 1 -> 0 .. Len(fs.desc)]
  BY <1>1, <1>2, TableFacts DEF TableType
<1>4. \A b \in Branches : call[b].op \in {"none", "open", "send", "truncate", "replace"}
  BY <1>1, CallOps DEF StackType
<1> QED
  BY <1>1, <1>2, <1>3, <1>4 DEF TypeOK, StackType, TableType

\* Every table, stack and file is of its type.
THEOREM TypeCorrect ==
    Spec => []TypeOK
<1>1. Base => TypeOK
  BY BaseType
<1> QED
  BY <1>1, BaseHolds, PTL

-----------------------------------------------------------------------------
(* Handles *)

LEMMA AppendsOnly ==
    ASSUME NEW b \in Branches, BranchNext(b)
    PROVE  OpenAct(b) \/ append_fds' = append_fds
<1>1. Call(b) => OpenAct(b) \/ append_fds' = append_fds
  BY DEF Call, OpenLook, Read, Write, SeekTo, SendLook, SendAct, TruncateLook, TruncateAct,
         Unlink, Rename, Dup, Close, Dup2
<1>2. Replace(b) \/ UndoStep(b) \/ ReplaceDone(b) => append_fds' = append_fds
  BY DEF Replace, UndoStep, ReplaceDone
<1> QED
  BY <1>1, <1>2 DEF BranchNext

LEMMA AppendInvNext ==
    ASSUME Base, AppendInv, [Next]_vars
    PROVE  AppendInv'
<1>1. TypeInv /\ StackType /\ TableType /\ fs \in Systems
  BY DEF Base, TypeInv, StackType
<1>2. CASE append_fds' = append_fds /\ fs' = fs /\ files' = files
  BY <1>2 DEF AppendInv
<1>3. ASSUME NEW b \in Branches, BranchNext(b) PROVE AppendInv'
  <2>1. FsStep(b) /\ TableStep
    BY <1>3, BranchStepOf DEF StepOf
  <2>2. ASSUME NEW fd \in append_fds, files'[fd] # NoDesc
        PROVE  fs'.desc[files'[fd]].append
    <3>1. fd \in DOMAIN files /\ files'[fd] = files[fd]
      BY <1>1, <2>1, <2>2 DEF TableType, TableStep
    <3>2. files[fd] \in 1 .. Len(fs.desc)
      <4>1. files[fd] \in 0 .. Len(fs.desc)
        BY <1>1, <3>1, SystemFacts, TableFacts DEF TableType
      <4> QED
        BY <1>1, <2>2, <3>1, <4>1, SystemFacts DEF NoDesc
    <3>3. SameHandle(fs'.desc[files[fd]], fs.desc[files[fd]])
      BY <2>1, <3>2 DEF FsStep, Within
    <3> QED
      BY <2>2, <3>1, <3>3 DEF AppendInv, SameHandle
  <2>3. CASE append_fds' = append_fds
    BY <2>2, <2>3 DEF AppendInv
  <2>4. CASE OpenAct(b) /\ append_fds' # append_fds
    <3> DEFINE c == call[b]
               d == Len(fs.desc) + 1
    <3>1. /\ c.op = "open"
          /\ fs' = Opened(fs, c.path, c.flags)
          /\ files' = Inserted(files, d)
          /\ append_fds' = append_fds \cup {n \in {NewFd} : c.flags.append}
      BY <2>4 DEF OpenAct, Acts
    <3>2. c \in Opening
      BY <1>1, <3>1, CallOps DEF StackType
    <3>3. c.path \in Paths /\ c.flags \in Flags
      BY <3>2 DEF Opening
    <3> HIDE DEF c
    <3>4. files'[NewFd] = d
      <4>1. NewFd \in 0 .. NewFd
        BY <1>1, SystemFacts, TableFacts DEF TableType
      <4> QED
        BY <3>1, <4>1 DEF Inserted
    <3>5. fs'.desc[d].append = c.flags.append
      BY <1>1, <3>1, <3>3, OpenedSystem
    <3> QED
      BY <2>2, <3>1, <3>4, <3>5 DEF AppendInv
  <2> QED
    BY <1>3, <2>3, <2>4, AppendsOnly
<1>4. CASE UNCHANGED vars
  BY <1>2, <1>4 DEF vars
<1>5. CASE Fork \/ Join
  BY <1>2, <1>5 DEF Fork, Join
<1> QED
  BY <1>3, <1>4, <1>5, NextCases

\* And an fd opened for appending keeps a description that appends.
THEOREM AppendHolds ==
    Spec => [](Base /\ AppendInv)
<1>1. Init => Base /\ AppendInv
  BY InitBase
<1>2. Base /\ AppendInv /\ [Next]_vars => (Base /\ AppendInv)'
  BY BaseNext, AppendInvNext
<1> QED
  BY <1>1, <1>2, PTL DEF Spec

\* Steps that give out no new fds and free only closed ones.
LEMMA UsableKept ==
    ASSUME LiveFdUsable, DOMAIN files' = DOMAIN files,
           closed \subseteq closed',
           \A b \in Branches, fd \in DOMAIN files :
             /\ fd \in live'[b] \ closed' => \E c \in Branches : fd \in live[c]
             /\ files'[fd] = files[fd] \/ fd \notin live'[b] \/ fd \in closed'
    PROVE  LiveFdUsable'
  BY DEF LiveFdUsable

\* Steps that give out one.
LEMMA UsableMore ==
    ASSUME LiveFdUsable, DOMAIN files' = DOMAIN files \cup {NewFd},
           closed \subseteq closed', NewFd \in closed' \/ files'[NewFd] # NoDesc,
           \A b \in Branches, fd \in DOMAIN files :
             /\ fd \in live'[b] \ closed' => \E c \in Branches : fd \in live[c]
             /\ files'[fd] = files[fd] \/ fd \notin live'[b] \/ fd \in closed'
    PROVE  LiveFdUsable'
  BY DEF LiveFdUsable

LEMMA UsableOpen ==
    ASSUME Base, LiveFdUsable, NEW b \in Branches, OpenAct(b)
    PROVE  LiveFdUsable'
<1> DEFINE d == Len(fs.desc) + 1
<1>1. /\ \/ files' = Inserted(files, d) /\ live' = [live EXCEPT ![b] = @ \cup {NewFd}]
         \/ files' = files /\ live' = live
      /\ closed' = closed
  BY DEF OpenAct
<1>2. CASE files' = files /\ live' = live
  BY <1>1, <1>2 DEF LiveFdUsable
<1>3. CASE files' = Inserted(files, d) /\ live' = [live EXCEPT ![b] = @ \cup {NewFd}]
  <2>1. Table(files, Len(fs.desc)) /\ Len(fs.desc) \in Nat
    BY SystemFacts DEF Base, TypeInv, TableType, StackType
  <2>2. PICK n \in Nat : n = Len(fs.desc)
    BY <2>1
  <2>3. /\ Table(files, n) /\ d \in Nat /\ d \in 0 .. d /\ d # NoDesc
        /\ \A fd \in DOMAIN files : files[fd] \in 0 .. d
    BY <2>1, <2>2, TableFacts DEF NoDesc
  <2> HIDE DEF d
  <2>4. /\ DOMAIN files' = DOMAIN files \cup {NewFd}
        /\ files'[NewFd] = d
        /\ \A fd \in DOMAIN files : files'[fd] = files[fd]
    <3>1. /\ DOMAIN Inserted(files, d) = DOMAIN files \cup {NewFd}
          /\ Inserted(files, d)[NewFd] = d
          /\ \A fd \in DOMAIN files : Inserted(files, d)[fd] = files[fd]
      BY <2>3, InsertedTable
    <3> QED
      BY <1>3, <3>1
  <2>5. NewFd \notin DOMAIN files
    BY <2>3, TableFacts
  <2>6. \A a \in Branches, fd \in DOMAIN files : fd \in live'[a] => fd \in live[a]
    BY <1>3, <2>5, TypedTables
  <2> QED
    BY <1>1, <2>3, <2>4, <2>6, UsableMore
<1> QED
  BY <1>1, <1>2, <1>3

LEMMA DupValue ==
    ASSUME Base, NEW t, NEW d, files' = Inserted(t, d)
    PROVE  files'[NewFd] = d /\ NewFd \notin DOMAIN files
<1>1. NewFd \in 0 .. NewFd /\ NewFd \notin DOMAIN files
  <2>1. Table(files, Len(fs.desc)) /\ Len(fs.desc) \in Nat
    BY SystemFacts DEF Base, TypeInv, TableType, StackType
  <2> QED
    BY <2>1, TableFacts
<1> QED
  BY <1>1 DEF Inserted

LEMMA UsableDup ==
    ASSUME Base, LiveFdUsable, NEW b \in Branches, NEW fd \in DOMAIN files, Dup(b, fd)
    PROVE  LiveFdUsable'
<1>1. /\ fd \in live[b]
      /\ files' = Inserted(files, files[fd])
      /\ live' = [live EXCEPT ![b] = @ \cup {NewFd}]
      /\ closed' = closed \cup {n \in {NewFd} : fd \in closed}
  BY DEF Dup
<1>2. /\ DOMAIN files' = DOMAIN files \cup {NewFd}
      /\ \A n \in DOMAIN files : files'[n] = files[n]
  BY <1>1, DupTables
<1>3. files'[NewFd] = files[fd] /\ NewFd \notin DOMAIN files
  BY <1>1, DupValue
<1>4. NewFd \in closed' \/ files'[NewFd] # NoDesc
  BY <1>1, <1>3 DEF LiveFdUsable
<1>5. \A a \in Branches, n \in DOMAIN files : n \in live'[a] => n \in live[a]
  BY <1>1, <1>3, TypedTables
<1> QED
  BY <1>1, <1>2, <1>4, <1>5, UsableMore

LEMMA UsableClose ==
    ASSUME Base, LiveFdUsable, NEW b \in Branches, NEW fd \in DOMAIN files, Close(b, fd)
    PROVE  LiveFdUsable'
<1>1. /\ files' = [files EXCEPT ![fd] = NoDesc]
      /\ live' = [live EXCEPT ![b] = @ \ {fd}]
      /\ closed' = closed \cup {fd}
  BY DEF Close
<1>2. \A a \in Branches, n \in DOMAIN files : n \in live'[a] => n \in live[a]
  BY <1>1, TypedTables
<1>3. DOMAIN files' = DOMAIN files
      /\ \A n \in DOMAIN files : files'[n] = files[n] \/ n \in closed'
  BY <1>1
<1> QED
  BY <1>1, <1>2, <1>3, UsableKept

LEMMA UsableDup2 ==
    ASSUME Base, LiveFdUsable, NEW b \in Branches, NEW old \in DOMAIN files,
           NEW new \in DOMAIN files, Dup2(b, old, new)
    PROVE  LiveFdUsable'
<1> DEFINE kept == live[b] \ {new}
           freed == IF new \in live[b] THEN [files EXCEPT ![new] = NoDesc] ELSE files
<1>1. /\ closed' = closed \cup ({new} \cap live[b])
                        \cup {n \in {NewFd} : old \in closed /\ old \in kept}
      /\ \/ /\ old \in kept
            /\ files' = Inserted(freed, files[old])
            /\ live' = [live EXCEPT ![b] = kept \cup {NewFd}]
         \/ /\ old \notin kept
            /\ files' = freed
            /\ live' = [live EXCEPT ![b] = kept]
  BY DEF Dup2
<1>2. /\ DOMAIN freed = DOMAIN files
      /\ \A n \in DOMAIN files : freed[n] \in {files[n], NoDesc}
      /\ \A n \in DOMAIN files : freed[n] = files[n] \/ n \in closed'
  BY <1>1, TypedTables
<1>3. kept \subseteq live[b]
  OBVIOUS
<1>4. closed \subseteq closed'
  BY <1>1
<1> HIDE DEF freed
<1>5. CASE /\ old \in kept
           /\ files' = Inserted(freed, files[old])
           /\ live' = [live EXCEPT ![b] = kept \cup {NewFd}]
  <2>1. /\ DOMAIN files' = DOMAIN files \cup {NewFd}
        /\ \A n \in DOMAIN files : files'[n] = freed[n]
    BY <1>2, <1>5, DupTables
  <2>2. files'[NewFd] = files[old] /\ NewFd \notin DOMAIN files
    BY <1>5, DupValue
  <2>3. NewFd \in closed' \/ files'[NewFd] # NoDesc
    BY <1>1, <1>5, <2>2 DEF LiveFdUsable
  <2>4. \A a \in Branches, n \in DOMAIN files : n \in live'[a] => n \in live[a]
    BY <1>5, <2>2, TypedTables
  <2> QED
    BY <1>2, <1>4, <2>1, <2>3, <2>4, UsableMore
<1>6. CASE /\ files' = freed
           /\ live' = [live EXCEPT ![b] = kept]
  <2>1. \A a \in Branches, n \in DOMAIN files : n \in live'[a] => n \in live[a]
    BY <1>6, TypedTables
  <2> QED
    BY <1>2, <1>4, <1>6, <2>1, UsableKept
<1> QED
  BY <1>1, <1>5, <1>6

LEMMA UsableNext ==
    ASSUME Base, LiveFdUsable, [Next]_vars
    PROVE  LiveFdUsable'
<1>1. CASE files' = files /\ live' = live /\ closed' = closed
  BY <1>1 DEF LiveFdUsable
<1>2. ASSUME NEW b \in Branches, Call(b) PROVE LiveFdUsable'
  <2>1. \/ OpenAct(b)
        \/ \E fd \in DOMAIN files : Dup(b, fd) \/ Close(b, fd)
        \/ \E old, new \in DOMAIN files : Dup2(b, old, new)
        \/ files' = files /\ live' = live /\ closed' = closed
    BY ZenonT(60), <1>2 DEF Call, OpenLook, Read, Write, SeekTo, SendLook, SendAct, TruncateLook,
                TruncateAct, Unlink, Rename, registries
  <2> QED
    BY <1>1, <2>1, UsableOpen, UsableDup, UsableClose, UsableDup2
<1>3. ASSUME NEW b \in Branches, Replace(b) \/ UndoStep(b) PROVE LiveFdUsable'
  BY <1>1, <1>3 DEF Replace, UndoStep, registries
<1>4. ASSUME NEW b \in Branches, ReplaceDone(b) PROVE LiveFdUsable'
  <2>1. /\ files' = files /\ closed' = closed
        /\ live' = live \/ live' = [live EXCEPT ![b] = {}]
    BY <1>4 DEF ReplaceDone, Clear
  <2>2. \A a \in Branches, n \in DOMAIN files : n \in live'[a] => n \in live[a]
    BY <2>1, TypedTables
  <2> QED
    BY <2>1, <2>2, UsableKept
<1>5. CASE Fork
  <2>1. files' = files /\ closed' = closed /\ live' = [a \in Branches |-> live["main"]]
    BY <1>5 DEF Fork
  <2>2. \A a \in Branches, n \in DOMAIN files : n \in live'[a] => n \in live["main"]
    BY <2>1
  <2> QED
    BY <2>1, <2>2, UsableKept DEF Branches
<1>6. CASE Join
  <2>1. /\ files' = files /\ closed' = closed
        /\ live' = [a \in Branches |->
                      IF a = "main" THEN UNION {live[c] : c \in Branches} ELSE {}]
    BY <1>6 DEF Join
  <2>2. \A a \in Branches, n \in DOMAIN files :
          n \in live'[a] => \E c \in Branches : n \in live[c]
    BY <2>1
  <2> QED
    BY <2>1, <2>2, UsableKept
<1>7. CASE UNCHANGED vars
  BY <1>1, <1>7 DEF vars
<1> QED
  BY <1>2, <1>3, <1>4, <1>5, <1>6, <1>7 DEF Next

\* What a Replace in one branch does to the shared tables leaves the fds of the
\* other one usable: a live fd that was not closed elsewhere has its description.
THEOREM LiveFdUsableHolds ==
    Spec => []LiveFdUsable
<1>1. Init => Base /\ LiveFdUsable
  <2> SUFFICES ASSUME Init PROVE Base /\ LiveFdUsable
    OBVIOUS
  <2>1. files = [n \in {0} |-> 1]
    BY DEF Init
  <2> QED
    BY <2>1, InitBase DEF LiveFdUsable, NoDesc
<1>2. Base /\ LiveFdUsable /\ [Next]_vars => (Base /\ LiveFdUsable)'
  BY BaseNext, UsableNext
<1> QED
  BY <1>1, <1>2, PTL DEF Spec

-----------------------------------------------------------------------------
(* Stacks that lead back *)

\* The stack of b leads from here back to F, as far as t tells; I are the files b can get at.
BranchInv(b, F, t, I) ==
    /\ t \in Scopes /\ t.descs \subseteq 1 .. Len(F.desc) /\ Part(t, reach[b])
    /\ Inodes(F, t) \subseteq I
    /\ Inodes(fs, reach[b]) \subseteq I
    /\ I \subseteq 1 .. Len(fs.data)
    /\ irreversible[b] \/ Leads(undo[b], fs, reach[b], I, F, t, drift)

\* What a call under way has looked at is still so.
CallView(b) ==
    LET c == call[b]
    IN  /\ c.op \in {"open", "send", "truncate"} =>
             /\ \A p \in reach[b].paths : FileAt(fs, p) = c.before.file[p]
             /\ \A d \in reach[b].descs \ drift : c.before.cursor[d] = fs.desc[d].pos
        /\ c.op = "open" =>
             /\ c.existed = Exists(fs, c.path)
             /\ c.orig = {o \in FileAt(fs, c.path) :
                            c.flags.truncate /\ Len(o) < FULL_UNDO_MAX_BYTES}
        /\ c.op = "truncate" =>
             c.orig = {o \in FileAt(fs, c.path) : Len(o) < FULL_UNDO_MAX_BYTES}

\* What a step of b brings, whatever it does to the stack.
LEMMA BranchFrame ==
    ASSUME Base, NEW b \in Branches, StepOf(b), NEW F, NEW t, NEW I, NEW J,
           BranchInv(b, F, t, I), J = I \cup NewInodes
    PROVE  /\ t \in Scopes /\ t.descs \subseteq 1 .. Len(F.desc) /\ Part(t, reach'[b])
           /\ Inodes(F, t) \subseteq J /\ Inodes(fs', reach'[b]) \subseteq J
           /\ J \subseteq 1 .. Len(fs'.data)
           /\ I \subseteq J
           /\ fs \in Systems /\ fs' \in Systems
           /\ Part(reach[b], reach'[b]) /\ reach[b] \in Scopes /\ reach'[b] \in Scopes
           /\ reach[b].descs \subseteq 1 .. Len(fs.desc)
           /\ reach[b].descs \subseteq 1 .. Len(fs'.desc)
           /\ reach'[b].descs \subseteq 1 .. Len(fs'.desc)
           /\ undo[b] \in Seq(Entries(Len(fs.desc)))
           /\ drift \subseteq drift'
<1>1. Base'
  BY BaseStep
<1>2. /\ fs \in Systems /\ reach[b] \in Scopes /\ reach[b].descs \subseteq 1 .. Len(fs.desc)
      /\ undo[b] \in Seq(Entries(Len(fs.desc)))
  BY DEF Base, TypeInv, StackType
<1>3. /\ fs' \in Systems /\ reach'[b] \in Scopes /\ reach'[b].descs \subseteq 1 .. Len(fs'.desc)
  BY <1>1 DEF Base, TypeInv, StackType
<1>4. /\ Part(reach[b], reach'[b]) /\ Len(fs.data) <= Len(fs'.data)
      /\ Inodes(fs', reach'[b]) \subseteq Inodes(fs, reach[b]) \cup NewInodes
  BY DEF StepOf, FsStep, Within, Part
<1>5. Part(t, reach'[b])
  BY <1>4 DEF BranchInv, Part
<1>6. J \subseteq 1 .. Len(fs'.data)
  <2>1. Len(fs.data) \in Nat /\ Len(fs'.data) \in Nat
    BY <1>2, <1>3, SystemFacts
  <2>2. I \subseteq 1 .. Len(fs.data)
    BY DEF BranchInv
  <2>3. 1 .. Len(fs.data) \subseteq 1 .. Len(fs'.data) /\ NewInodes \subseteq 1 .. Len(fs'.data)
    BY <1>4, <2>1 DEF NewInodes
  <2> QED
    BY <2>2, <2>3
<1>7. drift \subseteq drift'
  BY DEF StepOf, TableStep
<1>8. reach[b].descs \subseteq reach'[b].descs
  BY <1>4 DEF Part
<1> QED
  BY <1>2, <1>3, <1>4, <1>5, <1>6, <1>7, <1>8 DEF BranchInv

\* A step of b that leaves its stack and what it reaches alone.
LEMMA KeepStep ==
    ASSUME Base, NEW b \in Branches, StepOf(b), NEW F, NEW t, NEW I, NEW J,
           BranchInv(b, F, t, I), J = I \cup NewInodes, undo'[b] = undo[b],
           \/ irreversible'[b]
           \/ /\ irreversible'[b] = irreversible[b]
              /\ Like(fs', fs, reach[b])
              /\ \A d \in reach[b].descs \ drift' : fs'.desc[d].pos = fs.desc[d].pos
    PROVE  BranchInv(b, F, t, J)'
<1>1. /\ t \in Scopes /\ t.descs \subseteq 1 .. Len(F.desc) /\ Part(t, reach'[b])
      /\ Inodes(F, t) \subseteq J /\ Inodes(fs', reach'[b]) \subseteq J
      /\ J \subseteq 1 .. Len(fs'.data)
      /\ I \subseteq J
      /\ fs \in Systems /\ fs' \in Systems
      /\ Part(reach[b], reach'[b]) /\ reach[b] \in Scopes /\ reach'[b] \in Scopes
      /\ reach[b].descs \subseteq 1 .. Len(fs.desc)
      /\ reach[b].descs \subseteq 1 .. Len(fs'.desc)
      /\ reach'[b].descs \subseteq 1 .. Len(fs'.desc)
      /\ undo[b] \in Seq(Entries(Len(fs.desc)))
      /\ drift \subseteq drift'
  BY ZenonT(60), BranchFrame
<1>2. irreversible'[b] \/ Leads(undo'[b], fs', reach'[b], J, F, t, drift')
  <2>1. SUFFICES ASSUME ~irreversible'[b]
                 PROVE  Leads(undo[b], fs', reach'[b], J, F, t, drift')
    OBVIOUS
  <2>2. Leads(undo[b], fs, reach[b], I, F, t, drift)
    BY <2>1 DEF BranchInv
  <2>3. Leads(undo[b], fs', reach[b], I, F, t, drift')
    BY <2>1, <2>2, <1>1, LeadsLike
  <2>4. Leads(undo[b], fs', reach'[b], J, F, t, drift')
    BY <2>3, <1>1, LeadsMore
  <2> QED
    BY <2>4
<1> QED
  BY <1>1, <1>2 DEF BranchInv

\* A call of b that pushes an inverse that takes it back.
LEMMA PushStep ==
    ASSUME Base, NEW b \in Branches, StepOf(b), NEW F, NEW t, NEW I, NEW J,
           BranchInv(b, F, t, I), J = I \cup NewInodes,
           NEW cap \in Inverses(Len(fs'.desc)), NEW before \in Views,
           Settle(b, cap, before), Concerns(cap, reach[b]),
           TakesBack(cap, fs', reach'[b], fs, reach[b]),
           \A p \in reach[b].paths : FileAt(fs, p) = before.file[p],
           \A d \in reach[b].descs \ drift' :
             /\ Moves(cap, d) => fs.desc[d].pos = cap.pos
             /\ ~Moves(cap, d) => fs.desc[d].pos = fs'.desc[d].pos
             /\ before.cursor[d] = fs.desc[d].pos
    PROVE  BranchInv(b, F, t, J)'
<1> DEFINE e == Entry(b, cap, before)
<1>1. /\ t \in Scopes /\ t.descs \subseteq 1 .. Len(F.desc) /\ Part(t, reach'[b])
      /\ Inodes(F, t) \subseteq J /\ Inodes(fs', reach'[b]) \subseteq J
      /\ J \subseteq 1 .. Len(fs'.data)
      /\ I \subseteq J
      /\ fs \in Systems /\ fs' \in Systems
      /\ Part(reach[b], reach'[b]) /\ reach[b] \in Scopes /\ reach'[b] \in Scopes
      /\ reach[b].descs \subseteq 1 .. Len(fs.desc)
      /\ reach[b].descs \subseteq 1 .. Len(fs'.desc)
      /\ reach'[b].descs \subseteq 1 .. Len(fs'.desc)
      /\ undo[b] \in Seq(Entries(Len(fs.desc)))
      /\ drift \subseteq drift'
  BY ZenonT(60), BranchFrame
<1>2. /\ e \in Entries(Len(fs'.desc)) /\ undo'[b] = Append(undo[b], e)
      /\ irreversible' = irreversible
  <2>1. StackType /\ Len(fs'.desc) \in Nat /\ Len(fs.desc) <= Len(fs'.desc)
    BY <1>1, SystemFacts DEF Base, TypeInv, StepOf, FsStep, Within
  <2> QED
    BY <2>1, SettlePush
<1>3. e.inverse = cap /\ e.before = before /\ e.scope = reach[b]
  BY DEF Entry
<1> HIDE DEF e
<1>4. irreversible'[b] \/ Leads(undo'[b], fs', reach'[b], J, F, t, drift')
  <2>1. SUFFICES ASSUME ~irreversible[b]
                 PROVE  Leads(Append(undo[b], e), fs', reach'[b], J, F, t, drift')
    BY <1>2
  <2>2. Leads(undo[b], fs, reach[b], I, F, t, drift) /\ Inodes(fs, reach[b]) \subseteq I
    BY <2>1 DEF BranchInv
  <2>3. /\ \A p \in reach[b].paths : FileAt(fs, p) = e.before.file[p]
        /\ Concerns(e.inverse, reach[b])
        /\ TakesBack(e.inverse, fs', reach'[b], fs, reach[b])
        /\ \A d \in reach[b].descs \ drift' :
             /\ Moves(e.inverse, d) => fs.desc[d].pos = e.inverse.pos
             /\ ~Moves(e.inverse, d) => fs.desc[d].pos = fs'.desc[d].pos
             /\ e.before.cursor[d] = fs.desc[d].pos
    BY <1>3
  <2> QED
    BY <1>2, <1>3, <2>2, <2>3, <1>1, LeadsPush
<1> QED
  BY <1>1, <1>4 DEF BranchInv

\* A step of a is nothing to b when they have nothing in common.
LEMMA OtherStep ==
    ASSUME Base, NEW a \in Branches, NEW b \in Branches, a # b, StepOf(a),
           NEW F, NEW t, NEW I, BranchInv(b, F, t, I),
           reach[a].paths \cap reach[b].paths = {},
           reach[a].descs \cap reach[b].descs = {},
           Inodes(fs, reach[a]) \cap Inodes(fs, reach[b]) = {}
    PROVE  /\ BranchInv(b, F, t, I)'
           /\ CallView(b) => CallView(b)'
<1>1. /\ fs \in Systems /\ reach \in [Branches -> Scopes]
      /\ \A c \in Branches : reach[c].descs \subseteq 1 .. Len(fs.desc)
      /\ undo[b] \in Seq(Entries(Len(fs.desc))) /\ call[b] \in Calls
  BY DEF Base, TypeInv, StackType
<1>2. /\ reach'[b] = reach[b] /\ undo'[b] = undo[b] /\ irreversible'[b] = irreversible[b]
      /\ call'[b] = call[b] /\ drift \subseteq drift'
      /\ Within(fs', fs, reach[a])
  BY DEF StepOf, FsStep, StackStep, CallStep, TableStep
<1>3. /\ Like(fs', fs, reach[b])
      /\ \A d \in reach[b].descs : fs'.desc[d].pos = fs.desc[d].pos
  BY <1>1, <1>2, WithinLike
<1>4. fs' \in Systems /\ Len(fs.data) <= Len(fs'.data)
  BY <1>2 DEF Within
<1>5. Inodes(fs', reach[b]) = Inodes(fs, reach[b])
  BY <1>3, LikeInodes
<1>6. irreversible'[b] \/ Leads(undo'[b], fs', reach'[b], I, F, t, drift')
  <2>1. SUFFICES ASSUME ~irreversible[b]
                 PROVE  Leads(undo[b], fs', reach[b], I, F, t, drift')
    BY <1>2
  <2>2. Leads(undo[b], fs, reach[b], I, F, t, drift)
    BY <2>1 DEF BranchInv
  <2> QED
    BY <1>1, <1>2, <1>3, <1>4, <2>2, LeadsLike
<1>7. I \subseteq 1 .. Len(fs'.data)
  <2>1. 1 .. Len(fs.data) \subseteq 1 .. Len(fs'.data)
    BY <1>1, <1>4, SystemFacts
  <2> QED
    BY <2>1 DEF BranchInv
<1>8. BranchInv(b, F, t, I)'
  BY <1>2, <1>5, <1>6, <1>7 DEF BranchInv
<1>9. ASSUME CallView(b) PROVE CallView(b)'
  <2>1. /\ \A p \in reach[b].paths : FileAt(fs', p) = FileAt(fs, p)
        /\ \A p \in reach[b].paths : Exists(fs', p) <=> Exists(fs, p)
    BY <1>3, LikeFiles
  <2>2. call[b].op \in {"open", "truncate"} => call[b].path \in reach[b].paths
    BY DEF Base, CallReach
  <2>3. call[b].op = "open" => call[b].existed \in BOOLEAN
    BY <1>1, CallOps DEF Opening
  <2>4. \A d \in reach[b].descs \ drift' : d \in reach[b].descs \ drift
    BY <1>2
  <2> DEFINE c == call[b]
  <2>5. c.op \in {"open", "send", "truncate"} =>
          /\ \A p \in reach[b].paths : FileAt(fs', p) = c.before.file[p]
          /\ \A d \in reach[b].descs \ drift' : c.before.cursor[d] = fs'.desc[d].pos
    BY <1>3, <1>9, <2>1, <2>4 DEF CallView
  <2>6. c.op = "open" =>
          /\ c.existed = Exists(fs', c.path)
          /\ c.orig = {o \in FileAt(fs', c.path) :
                            c.flags.truncate /\ Len(o) < FULL_UNDO_MAX_BYTES}
    <3>1. Exists(fs, c.path) \in BOOLEAN /\ Exists(fs', c.path) \in BOOLEAN
      BY DEF Exists
    <3> QED
      BY <1>9, <2>1, <2>2, <2>3, <3>1 DEF CallView
  <2>7. c.op = "truncate" =>
             c.orig = {o \in FileAt(fs', c.path) : Len(o) < FULL_UNDO_MAX_BYTES}
    BY <1>9, <2>1, <2>2 DEF CallView
  <2> HIDE DEF c
  <2>8. call'[b] = c /\ reach'[b] = reach[b]
    BY <1>2 DEF c
  <2> QED
    BY <2>5, <2>6, <2>7, <2>8 DEF CallView
<1> QED
  BY <1>8, <1>9

-----------------------------------------------------------------------------
(* Every call is taken back by its inverse *)

LEMMA ViewHere ==
    ASSUME Base, NEW b \in Branches
    PROVE  /\ View \in Views
           /\ \A p \in reach[b].paths : FileAt(fs, p) = View.file[p]
           /\ \A d \in reach[b].descs : View.cursor[d] = fs.desc[d].pos
<1>1. /\ fs \in Systems /\ reach[b] \in Scopes /\ reach[b].descs \subseteq 1 .. Len(fs.desc)
  BY DEF Base, TypeInv, StackType
<1>2. reach[b].paths \subseteq Paths
  BY <1>1 DEF Scopes
<1> QED
  BY <1>1, <1>2, ViewTyped

\* A call that changes at most one file and one cursor, and leaves its reach as it is.
LEMMA TouchStep ==
    ASSUME Base, NEW b \in Branches, StepOf(b), NEW F, NEW t, NEW I, NEW J,
           BranchInv(b, F, t, I), J = I \cup NewInodes, reach' = reach,
           NEW i, NEW d, Touches(fs', fs, i, d),
           NEW cap \in Inverses(Len(fs.desc)), NEW before \in Views,
           Settle(b, cap, before), Concerns(cap, reach[b]),
           TakesBack(cap, fs', reach[b], fs, reach[b]),
           d \in drift' \/ (Moves(cap, d) /\ cap.pos = fs.desc[d].pos) \/ d \notin reach[b].descs,
           \A e \in reach[b].descs : Moves(cap, e) => e = d,
           \A p \in reach[b].paths : FileAt(fs, p) = before.file[p],
           \A e \in reach[b].descs \ drift' : before.cursor[e] = fs.desc[e].pos
    PROVE  BranchInv(b, F, t, J)'
<1>1. reach[b].descs \subseteq 1 .. Len(fs.desc)
  BY DEF Base, TypeInv, StackType
<1>2. Len(fs'.desc) = Len(fs.desc) /\ cap \in Inverses(Len(fs'.desc))
  BY DEF Touches
<1>3. \A e \in reach[b].descs \ drift' :
        /\ Moves(cap, e) => fs.desc[e].pos = cap.pos
        /\ ~Moves(cap, e) => fs.desc[e].pos = fs'.desc[e].pos
        /\ before.cursor[e] = fs.desc[e].pos
  BY <1>1 DEF Touches
<1> QED
  BY <1>2, <1>3, PushStep

LEMMA SeekKeeps ==
    ASSUME Base, NEW b \in Branches, StepOf(b), NEW F, NEW t, NEW I, NEW J,
           BranchInv(b, F, t, I), J = I \cup NewInodes, reach' = reach,
           NEW fd \in DOMAIN files, NEW d \in FileOf(b, fd), MayUse(b, fd), NEW pos \in Nat,
           fs' = Seek(fs, d, pos), Settle(b, CursorBack(d), View)
    PROVE  BranchInv(b, F, t, J)'
<1>1. TypeInv /\ fs \in Systems /\ reach[b] \in Scopes
      /\ reach[b].descs \subseteq 1 .. Len(fs.desc)
  BY DEF Base, TypeInv, StackType
<1>2. d \in reach[b].descs /\ d \in 1 .. Len(fs.desc)
  BY <1>1, FileOfFacts
<1>3. Touches(fs', fs, fs.desc[d].ino, d) /\ fs.desc[d].pos \in Nat
  BY <1>1, <1>2, SeekTouches, SystemFacts
<1>4. CursorBack(d) \in Inverses(Len(fs.desc))
  BY <1>1, <1>2, DescInverses
<1>5. TakesBack(CursorBack(d), fs', reach[b], fs, reach[b])
  BY <1>1, <1>2, <1>3, SeekBack DEF CursorBack
<1>6. /\ Concerns(CursorBack(d), reach[b])
      /\ Moves(CursorBack(d), d) /\ CursorBack(d).pos = fs.desc[d].pos
      /\ \A e \in reach[b].descs : Moves(CursorBack(d), e) => e = d
  BY <1>2 DEF Concerns, Moves, CursorBack
<1> QED
  BY <1>3, <1>4, <1>5, <1>6, ViewHere, TouchStep

LEMMA ReadKeeps ==
    ASSUME Base, NEW b \in Branches, StepOf(b), NEW F, NEW t, NEW I, NEW J,
           BranchInv(b, F, t, I), J = I \cup NewInodes,
           NEW fd \in DOMAIN files, NEW n \in Lengths, Read(b, fd, n)
    PROVE  BranchInv(b, F, t, J)'
<1>1. TypeInv /\ fs \in Systems
  BY DEF Base, TypeInv, StackType
<1>2. PICK d \in FileOf(b, fd) :
        /\ MayUse(b, fd)
        /\ fs' = Seek(fs, d, fs.desc[d].pos + Len(ReadHere(fs, d, n)))
        /\ Settle(b, CursorBack(d), View)
        /\ reach' = reach
  BY DEF Read, registries
<1>3. d \in 1 .. Len(fs.desc)
  BY <1>1, <1>2, FileOfFacts
<1>4. fs.desc[d].pos + Len(ReadHere(fs, d, n)) \in Nat
  <2>1. n \in Nat /\ fs.desc[d].pos \in Nat
    BY <1>1, <1>3, BoundAssumption, SystemFacts
  <2> QED
    BY <1>1, <1>3, <2>1, ReadTyped
<1> QED
  BY <1>2, <1>4, SeekKeeps

LEMMA SeekToKeeps ==
    ASSUME Base, NEW b \in Branches, StepOf(b), NEW F, NEW t, NEW I, NEW J,
           BranchInv(b, F, t, I), J = I \cup NewInodes,
           NEW fd \in DOMAIN files, NEW pos \in Offsets, SeekTo(b, fd, pos)
    PROVE  BranchInv(b, F, t, J)'
<1>1. PICK d \in FileOf(b, fd) :
        /\ MayUse(b, fd)
        /\ fs' = Seek(fs, d, pos)
        /\ Settle(b, CursorBack(d), View)
        /\ reach' = reach
  BY DEF SeekTo, registries
<1>2. pos \in Nat
  BY BoundAssumption
<1> QED
  BY <1>1, <1>2, SeekKeeps

LEMMA WriteKeeps ==
    ASSUME Base, AppendInv, NEW b \in Branches, StepOf(b), NEW F, NEW t, NEW I, NEW J,
           BranchInv(b, F, t, I), J = I \cup NewInodes,
           NEW fd \in DOMAIN files, NEW n \in Lengths, Write(b, fd, n)
    PROVE  BranchInv(b, F, t, J)'
<1>1. /\ TypeInv /\ StackType /\ fs \in Systems /\ reach[b] \in Scopes
      /\ reach[b].descs \subseteq 1 .. Len(fs.desc)
  BY DEF Base, TypeInv, StackType
<1> DEFINE bytes == [i \in 1 .. n |-> calls + 1]
<1>2. PICK d \in FileOf(b, fd) :
        /\ MayUse(b, fd)
        /\ WriteInverse(fd, d, n) = CutBack(d) => fs.desc[d].pos >= Len(Data(fs, d))
        /\ fs' = WriteHere(fs, d, bytes)
        /\ Settle(b, WriteInverse(fd, d, n), View)
        /\ drift' = drift \cup {e \in {d} : WriteInverse(fd, d, n) = LengthBack(d)}
        /\ reach' = reach
  BY DEF Write, registries
<1>3. /\ d = files[fd] /\ d # NoDesc
      /\ d \in reach[b].descs /\ d \in 1 .. Len(fs.desc)
  BY <1>1, <1>2, FileOfFacts
<1>4. n \in Nat /\ bytes \in Contents /\ Len(bytes) = n
  <2>1. n \in Nat /\ calls + 1 \in Nat
    BY <1>1, BoundAssumption DEF TypeInv, TableType
  <2>2. bytes \in [1 .. n -> Nat]
    BY <2>1
  <2> QED
    BY <2>1, <2>2, ContentsFrom
<1> HIDE DEF bytes
<1>5. Touches(fs', fs, fs.desc[d].ino, d)
  BY <1>1, <1>2, <1>3, <1>4, WriteTouches
<1>6. /\ RegionBack(d, n) \in Inverses(Len(fs.desc))
      /\ LengthBack(d) \in Inverses(Len(fs.desc))
      /\ CutBack(d) \in Inverses(Len(fs.desc))
  BY <1>1, <1>3, <1>4, DescInverses
<1>7. fs.desc[d].pos \in Nat /\ Data(fs, d) \in Contents /\ Len(Data(fs, d)) \in Nat
  BY <1>1, <1>3, SystemFacts DEF Contents
<1>8. CASE WriteInverse(fd, d, n) = LengthBack(d) /\ fd \in append_fds
  <2>1. fs.desc[d].append
    BY <1>3, <1>8 DEF AppendInv
  <2>2. At(fs, d) >= Len(Data(fs, d))
    BY <1>7, <2>1 DEF At
  <2>3. TakesBack(LengthBack(d), fs', reach[b], fs, reach[b])
    BY <1>1, <1>2, <1>3, <1>4, <1>7, <2>2, WriteBack DEF LengthBack
  <2>4. /\ Concerns(LengthBack(d), reach[b])
        /\ \A e \in reach[b].descs : Moves(LengthBack(d), e) => e = d
    BY <1>3 DEF Concerns, Moves, LengthBack
  <2>5. d \in drift' /\ Settle(b, LengthBack(d), View) /\ reach' = reach
    BY <1>2, <1>8
  <2> QED
    BY <1>5, <1>6, <2>3, <2>4, <2>5, ViewHere, TouchStep
<1>9. CASE WriteInverse(fd, d, n) = NonInvertible
  <2>1. Settle(b, NonInvertible, View)
    BY <1>2, <1>9
  <2>2. undo' = undo /\ irreversible'[b]
    BY <1>1, <2>1, SettleNot
  <2> QED
    BY <2>2, KeepStep
<1>10. CASE WriteInverse(fd, d, n) = RegionBack(d, n)
  <2>1. TakesBack(RegionBack(d, n), fs', reach[b], fs, reach[b])
    BY <1>1, <1>2, <1>3, <1>4, RegionTakesBack DEF RegionBack
  <2>2. /\ Concerns(RegionBack(d, n), reach[b])
        /\ \A e \in reach[b].descs : Moves(RegionBack(d, n), e) => e = d
        /\ Moves(RegionBack(d, n), d) /\ RegionBack(d, n).pos = fs.desc[d].pos
    BY <1>3 DEF Concerns, Moves, RegionBack
  <2>3. Settle(b, RegionBack(d, n), View)
    BY <1>2, <1>10
  <2> QED
    BY <1>2, <1>5, <1>6, <2>1, <2>2, <2>3, ViewHere, TouchStep
<1>11. CASE WriteInverse(fd, d, n) = CutBack(d)
  <2>1. At(fs, d) >= Len(Data(fs, d))
    BY <1>2, <1>7, <1>11 DEF At
  <2>2. TakesBack(CutBack(d), fs', reach[b], fs, reach[b])
    BY <1>1, <1>2, <1>3, <1>4, <1>7, <2>1, WriteBack DEF CutBack
  <2>3. /\ Concerns(CutBack(d), reach[b])
        /\ \A e \in reach[b].descs : Moves(CutBack(d), e) => e = d
        /\ Moves(CutBack(d), d) /\ CutBack(d).pos = fs.desc[d].pos
    BY <1>3 DEF Concerns, Moves, CutBack
  <2>4. Settle(b, CutBack(d), View)
    BY <1>2, <1>11
  <2> QED
    BY <1>2, <1>5, <1>6, <2>2, <2>3, <2>4, ViewHere, TouchStep
<1> QED
  BY <1>8, <1>9, <1>10, <1>11 DEF WriteInverse

\* The input side of SendFile moves one cursor, which is adrift from then on.
LEMMA SendLookLike ==
    ASSUME Base, NEW b \in Branches,
           NEW out \in DOMAIN files, NEW in \in DOMAIN files,
           NEW offset \in Offsets, NEW n \in Lengths, SendLook(b, out, in, offset, n)
    PROVE  /\ Like(fs', fs, reach[b])
           /\ \A d \in reach[b].descs \ drift' : fs'.desc[d].pos = fs.desc[d].pos
           /\ \A p \in reach[b].paths : FileAt(fs', p) = FileAt(fs, p)
<1>1. /\ TypeInv /\ StackType /\ fs \in Systems /\ reach[b] \in Scopes
      /\ reach[b].descs \subseteq 1 .. Len(fs.desc)
  BY DEF Base, TypeInv, StackType
<1>2. PICK d \in FileOf(b, in) :
        /\ MayUse(b, in)
        /\ drift' = drift \cup {d}
        /\ \/ fs' = Seek(fs, d, offset + Len(ReadHere(Seek(fs, d, offset), d, n)))
           \/ fs' = Seek(fs, d, offset)
  BY DEF SendLook
<1>3. d \in reach[b].descs /\ d \in 1 .. Len(fs.desc)
  BY <1>1, <1>2, FileOfFacts
<1>4. offset \in Nat /\ n \in Nat
  BY BoundAssumption
<1>5. Len(ReadHere(Seek(fs, d, offset), d, n)) \in Nat
  <2> DEFINE there == Seek(fs, d, offset)
  <2>1. there \in Systems /\ Len(there.desc) = Len(fs.desc)
    BY <1>1, <1>3, <1>4, SeekSystem
  <2> HIDE DEF there
  <2>2. Len(ReadHere(there, d, n)) \in Nat
    BY <1>3, <1>4, <2>1, ReadTyped
  <2> QED
    BY <2>2 DEF there
<1>6. PICK pos \in Nat : fs' = Seek(fs, d, pos)
  BY <1>2, <1>4, <1>5
<1>7. Touches(fs', fs, fs.desc[d].ino, d) /\ fs'.data = fs.data
  BY <1>1, <1>3, <1>6, SeekTouches, SeekSystem
<1>8. Like(fs', fs, reach[b])
  <2>1. reach[b].paths \subseteq Paths
    BY <1>1 DEF Scopes
  <2> QED
    BY <1>1, <1>7, <2>1 DEF Like, Touches
<1>9. \A e \in reach[b].descs \ drift' : fs'.desc[e].pos = fs.desc[e].pos
  BY <1>1, <1>2, <1>7 DEF Touches
<1> QED
  BY <1>8, <1>9, LikeFiles

LEMMA SendLookKeeps ==
    ASSUME Base, NEW b \in Branches, StepOf(b), NEW F, NEW t, NEW I, NEW J,
           BranchInv(b, F, t, I), J = I \cup NewInodes,
           NEW out \in DOMAIN files, NEW in \in DOMAIN files,
           NEW offset \in Offsets, NEW n \in Lengths, SendLook(b, out, in, offset, n)
    PROVE  BranchInv(b, F, t, J)'
<1>1. undo'[b] = undo[b] /\ irreversible'[b] = irreversible[b]
  BY DEF SendLook, back
<1>2. /\ Like(fs', fs, reach[b])
      /\ \A d \in reach[b].descs \ drift' : fs'.desc[d].pos = fs.desc[d].pos
  BY SendLookLike
<1> QED
  BY <1>1, <1>2, KeepStep

LEMMA SendActKeeps ==
    ASSUME Base, NEW b \in Branches, StepOf(b), NEW F, NEW t, NEW I, NEW J,
           BranchInv(b, F, t, I), J = I \cup NewInodes, CallView(b), SendAct(b)
    PROVE  BranchInv(b, F, t, J)'
<1>1. /\ TypeInv /\ StackType /\ fs \in Systems /\ reach[b] \in Scopes
      /\ reach[b].descs \subseteq 1 .. Len(fs.desc)
  BY DEF Base, TypeInv, StackType
<1> DEFINE c == call[b]
<1>2. /\ c.op = "send"
      /\ \/ \E d \in FileOf(b, c.out), head \in Heads(c.bytes) :
              /\ fs' = WriteHere(fs, d, head)
              /\ Settle(b, RegionBack(d, Len(c.bytes)), c.before)
         \/ UNCHANGED <<fs, undo, irreversible, failed>>
      /\ reach' = reach /\ drift' = drift
  BY DEF SendAct, Acts, registries, back
<1>3. c \in Sending /\ c.out \in DOMAIN files /\ MayUse(b, c.out)
  <2>1. c \in Calls
    BY <1>1 DEF StackType
  <2>2. CallReach(b)
    BY DEF Base
  <2> QED
    BY <1>2, <2>1, <2>2, CallOps DEF CallReach
<1>4. CASE UNCHANGED <<fs, undo, irreversible, failed>>
  <2>1. Like(fs', fs, reach[b])
    BY <1>1, <1>4, LikeSelf
  <2> QED
    BY <1>4, <2>1, KeepStep
<1>5. CASE \E d \in FileOf(b, c.out), head \in Heads(c.bytes) :
              /\ fs' = WriteHere(fs, d, head)
              /\ Settle(b, RegionBack(d, Len(c.bytes)), c.before)
  <2>1. PICK d \in FileOf(b, c.out), head \in Heads(c.bytes) :
          /\ fs' = WriteHere(fs, d, head)
          /\ Settle(b, RegionBack(d, Len(c.bytes)), c.before)
    BY <1>5
  <2>2. c.bytes \in Contents /\ Len(c.bytes) \in Nat /\ c.before \in Views
        /\ head \in Contents /\ Len(head) <= Len(c.bytes)
    BY <1>3, HeadTyped DEF Sending, Contents
  <2>3. /\ \A p \in reach[b].paths : FileAt(fs, p) = c.before.file[p]
        /\ \A d1 \in reach[b].descs \ drift' : c.before.cursor[d1] = fs.desc[d1].pos
    BY <1>2 DEF CallView
  <2> HIDE DEF c
  <2>4. d \in reach[b].descs /\ d \in 1 .. Len(fs.desc)
    BY <1>1, <1>3, FileOfFacts
  <2>5. Touches(fs', fs, fs.desc[d].ino, d)
    BY <1>1, <2>1, <2>2, <2>4, WriteTouches
  <2>6. RegionBack(d, Len(c.bytes)) \in Inverses(Len(fs.desc))
    BY <1>1, <2>2, <2>4, DescInverses
  <2>7. TakesBack(RegionBack(d, Len(c.bytes)), fs', reach[b], fs, reach[b])
    BY <1>1, <2>1, <2>2, <2>4, RegionTakesBack DEF RegionBack
  <2>8. /\ Concerns(RegionBack(d, Len(c.bytes)), reach[b])
        /\ \A e \in reach[b].descs : Moves(RegionBack(d, Len(c.bytes)), e) => e = d
        /\ Moves(RegionBack(d, Len(c.bytes)), d)
        /\ RegionBack(d, Len(c.bytes)).pos = fs.desc[d].pos
    BY <2>4 DEF Concerns, Moves, RegionBack
  <2> QED
    BY <1>2, <2>1, <2>2, <2>3, <2>5, <2>6, <2>7, <2>8, TouchStep
<1> QED
  BY <1>2, <1>4, <1>5

LEMMA TruncateActKeeps ==
    ASSUME Base, NEW b \in Branches, StepOf(b), NEW F, NEW t, NEW I, NEW J,
           BranchInv(b, F, t, I), J = I \cup NewInodes, CallView(b), TruncateAct(b)
    PROVE  BranchInv(b, F, t, J)'
<1>1. /\ TypeInv /\ StackType /\ fs \in Systems /\ reach[b] \in Scopes
      /\ reach[b].descs \subseteq 1 .. Len(fs.desc)
  BY DEF Base, TypeInv, StackType
<1> DEFINE c == call[b]
<1>2. /\ c.op = "truncate"
      /\ \/ /\ Exists(fs, c.path)
            /\ fs' = PathSetLen(fs, c.path, c.len)
            /\ Settle(b, TruncateInverse(c), c.before)
         \/ UNCHANGED <<fs, undo, irreversible, failed>>
      /\ reach' = reach /\ drift' = drift
  BY DEF TruncateAct, Acts, registries, back
<1>3. c \in Truncating /\ c.path \in reach[b].paths
  <2>1. c \in Calls
    BY <1>1 DEF StackType
  <2>2. CallReach(b)
    BY DEF Base
  <2> QED
    BY <1>2, <2>1, <2>2, CallOps DEF CallReach
<1>4. CASE UNCHANGED <<fs, undo, irreversible, failed>>
  <2>1. Like(fs', fs, reach[b])
    BY <1>1, <1>4, LikeSelf
  <2> QED
    BY <1>4, <2>1, KeepStep
<1>5. CASE /\ Exists(fs, c.path)
           /\ fs' = PathSetLen(fs, c.path, c.len)
           /\ Settle(b, TruncateInverse(c), c.before)
  <2>1. c.path \in Paths /\ c.len \in Nat /\ c.before \in Views
    BY <1>3 DEF Truncating
  <2>2. /\ \A p \in reach[b].paths : FileAt(fs, p) = c.before.file[p]
        /\ \A d1 \in reach[b].descs \ drift' : c.before.cursor[d1] = fs.desc[d1].pos
        /\ c.orig = {o \in FileAt(fs, c.path) : Len(o) < FULL_UNDO_MAX_BYTES}
    BY <1>2 DEF CallView
  <2> HIDE DEF c
  <2>3. Touches(fs', fs, fs.name[c.path], NoDesc)
    BY <1>1, <1>5, <2>1, PathSetLenTouches
  <2>4. CASE c.orig = {}
    <3>1. Settle(b, NonInvertible, c.before)
      BY <1>5, <2>4 DEF TruncateInverse
    <3>2. undo' = undo /\ irreversible'[b]
      BY <1>1, <3>1, SettleNot
    <3> QED
      BY <3>2, KeepStep
  <2>5. CASE c.orig # {}
    <3> DEFINE u == [op |-> "restore", path |-> c.path, data |-> PathData(fs, c.path)]
    <3>1. (CHOOSE o \in c.orig : TRUE) = PathData(fs, c.path)
      BY <2>2, <2>5 DEF FileAt
    <3>2. TruncateInverse(c) = u
      BY <2>5, <3>1 DEF TruncateInverse
    <3>3. u \in Inverses(Len(fs.desc))
      <4>1. TruncateInverse(c) \in {Identity, NonInvertible} \cup Inverses(Len(fs.desc))
        BY <1>3, TruncateInverses
      <4>2. u.op = "restore" /\ Identity.op # "restore" /\ NonInvertible.op # "restore"
        BY DEF Identity, NonInvertible
      <4> QED
        BY <3>2, <4>1, <4>2
    <3>4. TakesBack(u, fs', reach[b], fs, reach[b])
      BY <1>1, <1>3, <1>5, <2>3, RestoreBack
    <3>5. Concerns(u, reach[b]) /\ \A e : ~Moves(u, e)
      BY <1>3 DEF Concerns, Moves
    <3>6. Settle(b, u, c.before)
      BY <1>5, <3>2
    <3>7. NoDesc \notin reach[b].descs
      BY <1>1 DEF NoDesc
    <3> HIDE DEF u
    <3> QED
      BY <1>2, <2>1, <2>2, <2>3, <3>3, <3>4, <3>5, <3>6, <3>7, TouchStep
  <2> QED
    BY <2>4, <2>5
<1> QED
  BY <1>2, <1>4, <1>5

LEMMA UnlinkKeeps ==
    ASSUME Base, NEW b \in Branches, StepOf(b), NEW F, NEW t, NEW I, NEW J,
           BranchInv(b, F, t, I), J = I \cup NewInodes, NEW p \in Paths, Unlink(b, p)
    PROVE  BranchInv(b, F, t, J)'
<1>1. Settle(b, NonInvertible, View) /\ StackType
  BY DEF Unlink, Base, TypeInv
<1>2. undo' = undo /\ irreversible'[b]
  BY <1>1, SettleNot
<1> QED
  BY <1>2, KeepStep

LEMMA RenameKeeps ==
    ASSUME Base, NEW b \in Branches, StepOf(b), NEW F, NEW t, NEW I, NEW J,
           BranchInv(b, F, t, I), J = I \cup NewInodes, gaps' = {},
           NEW p \in Paths, NEW q \in Paths, Rename(b, p, q)
    PROVE  BranchInv(b, F, t, J)'
<1>1. /\ TypeInv /\ StackType /\ fs \in Systems /\ reach[b] \in Scopes
      /\ reach[b].descs \subseteq 1 .. Len(fs.desc)
  BY DEF Base, TypeInv, StackType
<1> DEFINE u == [op |-> "rename", from |-> p, to |-> q]
<1>2. /\ p \in reach[b].paths /\ q \in reach[b].paths /\ p # q
      /\ Exists(fs, p) /\ ~Exists(fs, q)
      /\ fs' = Renamed(fs, p, q)
      /\ Settle(b, u, View)
      /\ reach' = reach /\ drift' = drift
  BY DEF Rename, registries
<1>3. Renames(fs', fs, {p, q})
  BY <1>1, <1>2, RenamedRenames
<1>4. u \in Inverses(Len(fs'.desc)) /\ Concerns(u, reach[b]) /\ \A e : ~Moves(u, e)
  BY <1>2 DEF Inverses, Concerns, Moves
<1>5. TakesBack(u, fs', reach[b], fs, reach[b])
  BY <1>1, <1>2, RenameBack
<1> HIDE DEF u
<1>6. TakesBack(u, fs', reach'[b], fs, reach[b])
  BY <1>2, <1>5
<1>7. \A d \in reach[b].descs \ drift' :
        /\ Moves(u, d) => fs.desc[d].pos = u.pos
        /\ ~Moves(u, d) => fs.desc[d].pos = fs'.desc[d].pos
        /\ View.cursor[d] = fs.desc[d].pos
  BY <1>3, <1>4, ViewHere DEF Renames
<1> QED
  BY <1>2, <1>4, <1>6, <1>7, ViewHere, PushStep

LEMMA OpenActKeeps ==
    ASSUME Base, NEW b \in Branches, StepOf(b), NEW F, NEW t, NEW I, NEW J,
           BranchInv(b, F, t, I), J = I \cup NewInodes, gaps' = {}, CallView(b), OpenAct(b)
    PROVE  BranchInv(b, F, t, J)'
<1>1. /\ TypeInv /\ StackType /\ fs \in Systems /\ reach[b] \in Scopes
      /\ reach[b].descs \subseteq 1 .. Len(fs.desc)
  BY DEF Base, TypeInv, StackType
<1> DEFINE c == call[b]
           d == Len(fs.desc) + 1
<1>2. /\ c.op = "open"
      /\ \/ /\ fs' = Opened(fs, c.path, c.flags)
            /\ Settle(b, OpenInverse(c), c.before)
            /\ Exists(fs, c.path) \/ c.flags.create
         \/ UNCHANGED <<fs, undo, irreversible>>
      /\ drift' = drift
  BY DEF OpenAct, Acts, back
<1>3. c \in Opening /\ c.path \in reach[b].paths
  <2>1. c \in Calls
    BY <1>1 DEF StackType
  <2>2. CallReach(b)
    BY DEF Base
  <2> QED
    BY <1>2, <2>1, <2>2, CallOps DEF CallReach
<1>4. CASE UNCHANGED <<fs, undo, irreversible>>
  <2>1. Like(fs', fs, reach[b])
    BY <1>1, <1>4, LikeSelf
  <2> QED
    BY <1>4, <2>1, KeepStep
<1>5. CASE /\ fs' = Opened(fs, c.path, c.flags)
           /\ Settle(b, OpenInverse(c), c.before)
           /\ Exists(fs, c.path) \/ c.flags.create
  <2>1. c.path \in Paths /\ c.flags \in Flags /\ c.before \in Views /\ c.existed \in BOOLEAN
    BY <1>3 DEF Opening
  <2>2. /\ \A p \in reach[b].paths : FileAt(fs, p) = c.before.file[p]
        /\ \A e \in reach[b].descs \ drift' : c.before.cursor[e] = fs.desc[e].pos
        /\ c.existed = Exists(fs, c.path)
        /\ c.orig = {o \in FileAt(fs, c.path) :
                       c.flags.truncate /\ Len(o) < FULL_UNDO_MAX_BYTES}
    BY <1>2 DEF CallView
  <2> HIDE DEF c
  <2>3. \A e \in reach[b].descs : fs'.desc[e].pos = fs.desc[e].pos
    BY <1>1, <1>5, <2>1, OpenedSystem
  <2>4. Part(reach[b], reach'[b]) /\ reach'[b] \in Scopes
    BY BranchFrame
  <2>5. ASSUME NEW u \in Inverses(Len(fs'.desc)), u = OpenInverse(c),
               \A e : ~Moves(u, e), Concerns(u, reach[b]),
               TakesBack(u, fs', reach'[b], fs, reach[b])
        PROVE  BranchInv(b, F, t, J)'
    <3>1. Settle(b, u, c.before)
      BY <1>5, <2>5
    <3>2. \A e \in reach[b].descs \ drift' :
            /\ Moves(u, e) => fs.desc[e].pos = u.pos
            /\ ~Moves(u, e) => fs.desc[e].pos = fs'.desc[e].pos
            /\ c.before.cursor[e] = fs.desc[e].pos
      BY <2>2, <2>3, <2>5
    <3> QED
      BY <2>1, <2>2, <2>5, <3>1, <3>2, PushStep
  <2>6. CASE c.orig # {}
    <3> DEFINE u == [op |-> "restore", path |-> c.path, data |-> PathData(fs, c.path)]
    <3>1. (CHOOSE o \in c.orig : TRUE) = PathData(fs, c.path) /\ Exists(fs, c.path)
      BY <2>2, <2>6 DEF FileAt
    <3>2. OpenInverse(c) = u
      BY <2>6, <3>1 DEF OpenInverse
    <3>3. u \in Inverses(Len(fs'.desc))
      <4>1. OpenInverse(c) \in {Identity, NonInvertible} \cup Inverses(Len(fs'.desc))
        BY <1>3, OpenInverses
      <4>2. u.op = "restore" /\ Identity.op # "restore" /\ NonInvertible.op # "restore"
        BY DEF Identity, NonInvertible
      <4> QED
        BY <3>2, <4>1, <4>2
    <3>4. Concerns(u, reach[b]) /\ \A e : ~Moves(u, e)
      BY <1>3 DEF Concerns, Moves
    <3>5. TakesBack(u, fs', reach'[b], fs, reach[b])
      BY <1>1, <1>3, <1>5, <2>1, <2>4, <3>1, OpenBack
    <3> HIDE DEF u
    <3> QED
      BY <2>5, <3>2, <3>3, <3>4, <3>5
  <2>7. CASE c.orig = {} /\ c.flags.create /\ ~c.existed
    <3> DEFINE u == [op |-> "unlink", path |-> c.path]
    <3>1. OpenInverse(c) = u /\ ~Exists(fs, c.path)
      BY <2>2, <2>7 DEF OpenInverse
    <3>2. u \in Inverses(Len(fs'.desc))
      BY <2>1 DEF Inverses
    <3>3. Concerns(u, reach[b]) /\ \A e : ~Moves(u, e)
      BY <1>3 DEF Concerns, Moves
    <3>4. TakesBack(u, fs', reach'[b], fs, reach[b])
      BY <1>1, <1>3, <1>5, <2>1, <2>4, <3>1, OpenBack
    <3> HIDE DEF u
    <3> QED
      BY <2>5, <3>1, <3>2, <3>3, <3>4
  <2>8. CASE c.orig = {} /\ ~(c.flags.create /\ ~c.existed) /\ c.flags.truncate
    <3>1. Settle(b, NonInvertible, c.before)
      BY <1>5, <2>8 DEF OpenInverse
    <3>2. undo' = undo /\ irreversible'[b]
      BY <1>1, <3>1, SettleNot
    <3> QED
      BY <3>2, KeepStep
  <2>9. CASE c.orig = {} /\ ~(c.flags.create /\ ~c.existed) /\ ~c.flags.truncate
    <3>1. Settle(b, Identity, c.before)
      BY <1>5, <2>9 DEF OpenInverse
    <3>2. undo' = undo /\ irreversible' = irreversible
      BY <1>1, <3>1, SettleNot
    <3>3. Exists(fs, c.path)
      BY <1>5, <2>2, <2>9
    <3>4. Like(fs', fs, reach[b])
      BY <1>1, <1>5, <2>1, <2>9, <3>3, OpenedLike
    <3> QED
      BY <2>3, <3>2, <3>4, KeepStep
  <2> QED
    BY <2>6, <2>7, <2>8, <2>9
<1> QED
  BY <1>2, <1>4, <1>5

\* An inverse of a stack that leads back succeeds, and puts back what its call found.
LEMMA UndoKeeps ==
    ASSUME Base, NEW b \in Branches, NEW F, NEW t, NEW I, NEW J,
           BranchInv(b, F, t, I), J = I \cup NewInodes, UndoStep(b)
    PROVE  /\ BranchInv(b, F, t, J)'
           /\ ~irreversible[b] =>
                /\ CanUndo(fs, Newest(b).inverse)
                /\ FilesBack(Newest(b))
                /\ CursorsBack(Newest(b))
<1> DEFINE u == Newest(b)
           z == UndoneFrom(fs, u.inverse)
<1>1. /\ StepOf(b)
      /\ undo[b] \in Seq(Entries(Len(fs.desc))) /\ undo[b] # << >>
      /\ u.inverse \in Inverses(Len(fs.desc))
      /\ Concerns(u.inverse, reach[b])
      /\ undo'[b] = SubSeq(undo[b], 1, Len(undo[b]) - 1)
      /\ \/ /\ CanUndo(fs, u.inverse) /\ failed' = failed
            /\ fs' = z
         \/ ~CanUndo(fs, u.inverse) /\ fs' = fs
  BY UndoStepStep
<1>2. irreversible' = irreversible /\ reach' = reach /\ drift' = drift
  BY DEF UndoStep, registries
<1>3. /\ t \in Scopes /\ t.descs \subseteq 1 .. Len(F.desc) /\ Part(t, reach'[b])
      /\ Inodes(F, t) \subseteq J /\ Inodes(fs', reach'[b]) \subseteq J
      /\ J \subseteq 1 .. Len(fs'.data)
      /\ I \subseteq J
      /\ fs \in Systems /\ fs' \in Systems
      /\ reach[b] \in Scopes
      /\ reach[b].descs \subseteq 1 .. Len(fs.desc)
      /\ reach[b].descs \subseteq 1 .. Len(fs'.desc)
  BY <1>1, BranchFrame
<1>4. CASE irreversible[b]
  BY <1>2, <1>3, <1>4 DEF BranchInv
<1>5. CASE ~irreversible[b]
  <2>1. Leads(undo[b], fs, reach[b], I, F, t, drift)
    BY <1>5 DEF BranchInv
  <2>2. /\ CanUndo(fs, u.inverse)
        /\ Part(u.scope, reach[b])
        /\ \A p \in u.scope.paths : FileAt(z, p) = u.before.file[p]
        /\ (\A d \in reach[b].descs : z.desc[d].pos = IF Moves(u.inverse, d)
                                  THEN u.inverse.pos ELSE fs.desc[d].pos)
           => /\ Leads(SubSeq(undo[b], 1, Len(undo[b]) - 1), z, reach[b], I, F, t, drift)
              /\ \A d \in (u.scope.descs \cap DOMAIN u.before.cursor) \ drift :
                   z.desc[d].pos = u.before.cursor[d]
    BY SMTT(60), <1>1, <1>3, <2>1, LeadsPop DEF Newest
  <2>3. fs' = z
    BY <1>1, <2>2
  <2> HIDE DEF u
  <2>4. \A d \in 1 .. Len(fs.desc) :
          z.desc[d].pos = IF Moves(u.inverse, d) THEN u.inverse.pos ELSE fs.desc[d].pos
    BY <1>1, <1>3, UndoneWithin
  <2> HIDE DEF z
  <2>5. \A d \in reach[b].descs :
          z.desc[d].pos = IF Moves(u.inverse, d) THEN u.inverse.pos ELSE fs.desc[d].pos
    BY <1>3, <2>4
  <2>6. /\ Leads(undo'[b], fs', reach[b], I, F, t, drift)
        /\ \A d \in (u.scope.descs \cap DOMAIN u.before.cursor) \ drift :
             fs'.desc[d].pos = u.before.cursor[d]
    BY <1>1, <2>2, <2>3, <2>5
  <2>7. Leads(undo'[b], fs', reach[b], J, F, t, drift)
    <3>1. \E s \in Seq(Entries(Len(fs.desc))) : s = undo'[b]
      BY <1>1, Shortened
    <3>2. Part(reach[b], reach[b])
      BY DEF Part
    <3> QED
      BY <1>3, <2>6, <3>1, <3>2, LeadsMore
  <2>8. BranchInv(b, F, t, J)'
    BY <1>2, <1>3, <2>7 DEF BranchInv
  <2>9. /\ \A p \in Paths : View'.file[p] = FileAt(fs', p)
        /\ \A d \in 1 .. Len(fs'.desc) : View'.cursor[d] = fs'.desc[d].pos
    <3>1. DOMAIN fs'.desc = 1 .. Len(fs'.desc)
      BY <1>3, SystemFacts
    <3> QED
      BY <3>1 DEF View
  <2>10. FilesBack(u)
    <3>1. u.scope.paths \subseteq Paths
      BY <1>3, <2>2 DEF Part, Scopes
    <3> QED
      BY <2>2, <2>3, <2>9, <3>1 DEF FilesBack
  <2>11. CursorsBack(u)
    <3>1. u.scope.descs \subseteq 1 .. Len(fs'.desc)
      BY <1>3, <2>2 DEF Part
    <3> QED
      BY <2>6, <2>9, <3>1 DEF CursorsBack
  <2> QED
    BY <2>2, <2>8, <2>10, <2>11 DEF u
<1> QED
  BY <1>4, <1>5

LEMMA ReplaceDoneKeeps ==
    ASSUME Base, NEW b \in Branches, StepOf(b), NEW F, NEW t, NEW I, NEW J,
           BranchInv(b, F, t, I), J = I \cup NewInodes, gaps' = {}, ReplaceDone(b)
    PROVE  \/ BranchInv(b, F, t, J)'
           \/ b = "main" /\ \E y \in Systems : BranchInv(b, y, Nowhere, J)'
<1>1. /\ undo[b] = << >> /\ fs' = fs
      /\ irreversible' = [irreversible EXCEPT ![b] = FALSE]
      /\ "refused" \notin gaps' => b = "main" \/ ~irreversible[b]
      /\ UNCHANGED <<undo, reach, drift>>
  BY DEF ReplaceDone
<1>2. fs \in Systems /\ reach[b].descs \subseteq 1 .. Len(fs.desc)
      /\ irreversible \in [Branches -> BOOLEAN] /\ reach[b] \in Scopes
  BY DEF Base, TypeInv, StackType
<1>3. CASE ~irreversible[b]
  <2>1. Like(fs', fs, reach[b]) /\ irreversible'[b] = irreversible[b]
    BY <1>1, <1>2, <1>3, LikeSelf
  <2> QED
    BY <1>1, <2>1, KeepStep
<1>4. CASE irreversible[b]
  <2>1. b = "main"
    BY <1>1, <1>4
  <2>2. /\ Inodes(fs', reach'[b]) \subseteq J /\ J \subseteq 1 .. Len(fs'.data)
    BY BranchFrame
  <2>3. Leads(<< >>, fs, reach[b], J, fs, Nowhere, drift)
    BY <1>1, <1>2, <2>2, LeadsEmpty
  <2>4. Nowhere \in Scopes /\ Nowhere.descs = {} /\ Nowhere.paths = {}
    BY DEF Nowhere, Scopes
  <2>5. PICK y : y = fs
    OBVIOUS
  <2>6. Inodes(y, Nowhere) = {}
    BY <2>4 DEF Inodes
  <2>7. Leads(undo'[b], fs', reach'[b], J, y, Nowhere, drift')
    BY <1>1, <2>3, <2>5
  <2>8. BranchInv(b, y, Nowhere, J)'
    BY <2>2, <2>4, <2>6, <2>7 DEF BranchInv, Part
  <2> QED
    BY <1>2, <2>1, <2>5, <2>8
<1> QED
  BY <1>3, <1>4

\* Steps of b that only look.
LEMMA LookKeeps ==
    ASSUME Base, NEW b \in Branches, StepOf(b), NEW F, NEW t, NEW I, NEW J,
           BranchInv(b, F, t, I), J = I \cup NewInodes,
           UNCHANGED <<fs, undo, irreversible>>
    PROVE  BranchInv(b, F, t, J)'
<1>1. reach[b].descs \subseteq 1 .. Len(fs.desc)
  BY DEF Base, TypeInv, StackType
<1>2. Like(fs', fs, reach[b])
  BY <1>1, LikeSelf
<1> QED
  BY <1>2, KeepStep

LEMMA OwnStep ==
    ASSUME Base, AppendInv, NEW b \in Branches, NEW F, NEW t, NEW I, NEW J,
           BranchInv(b, F, t, I), J = I \cup NewInodes, gaps' = {}, CallView(b),
           BranchNext(b)
    PROVE  \/ BranchInv(b, F, t, J)'
           \/ b = "main" /\ \E y \in Systems : BranchInv(b, y, Nowhere, J)'
<1>1. StepOf(b)
  BY BranchStepOf
<1>2. ASSUME Call(b) PROVE BranchInv(b, F, t, J)'
  <2>1. CASE \E p \in Paths, f \in Access : OpenLook(b, p, f)
    <3>1. UNCHANGED <<fs, undo, irreversible>>
      BY <2>1 DEF OpenLook, back
    <3> QED
      BY <1>1, <3>1, LookKeeps
  <2>2. CASE OpenAct(b)
    BY <1>1, <2>2, OpenActKeeps
  <2>3. CASE \E fd \in DOMAIN files, n \in Lengths : Read(b, fd, n) \/ Write(b, fd, n)
    BY <1>1, <2>3, ReadKeeps, WriteKeeps
  <2>4. CASE \E fd \in DOMAIN files, pos \in Offsets : SeekTo(b, fd, pos)
    BY <1>1, <2>4, SeekToKeeps
  <2>5. CASE \E out, in \in DOMAIN files, offset \in Offsets, n \in Lengths :
                SendLook(b, out, in, offset, n)
    BY <1>1, <2>5, SendLookKeeps
  <2>6. CASE SendAct(b)
    BY <1>1, <2>6, SendActKeeps
  <2>7. CASE \E p \in Paths, n \in Offsets : TruncateLook(b, p, n)
    <3>1. UNCHANGED <<fs, undo, irreversible>>
      BY <2>7 DEF TruncateLook, back
    <3> QED
      BY <1>1, <3>1, LookKeeps
  <2>8. CASE TruncateAct(b)
    BY <1>1, <2>8, TruncateActKeeps
  <2>9. CASE \E p \in Paths : Unlink(b, p)
    BY <1>1, <2>9, UnlinkKeeps
  <2>10. CASE \E p, q \in Paths : Rename(b, p, q)
    BY <1>1, <2>10, RenameKeeps
  <2>11. CASE \/ \E fd \in DOMAIN files : Dup(b, fd) \/ Close(b, fd)
              \/ \E old, new \in DOMAIN files : Dup2(b, old, new)
    <3>1. UNCHANGED <<fs, undo, irreversible>>
      BY <2>11 DEF Dup, Close, Dup2, back
    <3> QED
      BY <1>1, <3>1, LookKeeps
  <2> QED
    BY <1>2, <2>1, <2>2, <2>3, <2>4, <2>5, <2>6, <2>7, <2>8, <2>9, <2>10, <2>11 DEF Call
<1>3. ASSUME Replace(b) PROVE BranchInv(b, F, t, J)'
  <2>1. UNCHANGED <<fs, undo, irreversible>>
    BY <1>3 DEF Replace, back
  <2> QED
    BY <1>1, <2>1, LookKeeps
<1>4. ASSUME UndoStep(b) PROVE BranchInv(b, F, t, J)'
  BY <1>4, UndoKeeps
<1>5. ASSUME ReplaceDone(b)
      PROVE  \/ BranchInv(b, F, t, J)'
             \/ b = "main" /\ \E y \in Systems : BranchInv(b, y, Nowhere, J)'
  BY <1>1, <1>5, ReplaceDoneKeeps
<1> QED
  BY <1>2, <1>3, <1>4, <1>5 DEF BranchNext

LEMMA OwnView ==
    ASSUME Base, NEW b \in Branches, BranchNext(b)
    PROVE  CallView(b)'
<1>1. /\ fs \in Systems /\ reach[b] \in Scopes /\ reach[b].descs \subseteq 1 .. Len(fs.desc)
      /\ call \in [Branches -> Calls]
  BY DEF Base, TypeInv, StackType
<1>2. CASE call'[b].op \notin {"open", "send", "truncate"}
  BY <1>2 DEF CallView
<1>3. ASSUME NEW op, Whole(b, op) PROVE CallView(b)'
  <2>1. call'[b] = NoCall
    BY <1>3 DEF Whole, Starts, Idle
  <2> QED
    BY <1>2, <2>1 DEF NoCall
<1>4. ASSUME NEW op, Acts(b, op) PROVE CallView(b)'
  <2>1. call'[b] = NoCall
    BY <1>1, <1>4 DEF Acts
  <2> QED
    BY <1>2, <2>1 DEF NoCall
<1>5. ASSUME NEW p \in Paths, NEW f \in Access, OpenLook(b, p, f) PROVE CallView(b)'
  <2> DEFINE c == [op |-> "open", path |-> p, flags |-> f, existed |-> Exists(fs, p),
                   orig |-> {o \in FileAt(fs, p) :
                               f.truncate /\ Len(o) < FULL_UNDO_MAX_BYTES},
                   before |-> View]
  <2>1. call'[b] = c /\ fs' = fs /\ reach' = reach /\ drift' = drift
    BY <1>1, <1>5 DEF OpenLook, Looks, registries
  <2>2. /\ c.op = "open" /\ c.path = p /\ c.before = View /\ c.existed = Exists(fs, p)
        /\ c.orig = {o \in FileAt(fs, c.path) :
                       c.flags.truncate /\ Len(o) < FULL_UNDO_MAX_BYTES}
    OBVIOUS
  <2> HIDE DEF c
  <2> QED
    BY <2>1, <2>2, ViewHere DEF CallView
<1>6. ASSUME NEW p \in Paths, NEW n \in Offsets, TruncateLook(b, p, n) PROVE CallView(b)'
  <2> DEFINE c == [op |-> "truncate", path |-> p, len |-> n,
                   orig |-> {o \in FileAt(fs, p) : Len(o) < FULL_UNDO_MAX_BYTES},
                   before |-> View]
  <2>1. call'[b] = c /\ fs' = fs /\ reach' = reach /\ drift' = drift
    BY <1>1, <1>6 DEF TruncateLook, Looks, registries
  <2>2. /\ c.op = "truncate" /\ c.path = p /\ c.before = View
        /\ c.orig = {o \in FileAt(fs, c.path) : Len(o) < FULL_UNDO_MAX_BYTES}
    OBVIOUS
  <2> HIDE DEF c
  <2> QED
    BY <2>1, <2>2, ViewHere DEF CallView
<1>7. ASSUME NEW out \in DOMAIN files, NEW in \in DOMAIN files,
             NEW offset \in Offsets, NEW n \in Lengths, SendLook(b, out, in, offset, n)
      PROVE  CallView(b)'
  <2>1. CASE Whole(b, "send")
    BY <1>3, <2>1
  <2>2. CASE ~Whole(b, "send")
    <3>1. PICK bytes : call' = [call EXCEPT ![b] = [op |-> "send", out |-> out,
                                       bytes |-> bytes, before |-> View]]
      BY <1>7, <2>2 DEF SendLook, Looks
    <3>2. reach' = reach
      BY <1>7 DEF SendLook, registries
    <3> DEFINE c == [op |-> "send", out |-> out, bytes |-> bytes, before |-> View]
    <3>3. call'[b] = c
      BY <1>1, <3>1
    <3>4. c.op = "send" /\ c.before = View
      OBVIOUS
    <3> HIDE DEF c
    <3>5. /\ \A d \in reach[b].descs \ drift' : fs'.desc[d].pos = fs.desc[d].pos
          /\ \A p \in reach[b].paths : FileAt(fs', p) = FileAt(fs, p)
      BY <1>7, SendLookLike
    <3>6. /\ \A p \in reach[b].paths : FileAt(fs', p) = View.file[p]
          /\ \A d \in reach[b].descs \ drift' : View.cursor[d] = fs'.desc[d].pos
      BY <3>5, ViewHere
    <3> QED
      BY <3>2, <3>3, <3>4, <3>6 DEF CallView
  <2> QED
    BY <2>1, <2>2
<1>8. ASSUME Call(b) PROVE CallView(b)'
  <2>1. CASE \E p \in Paths, f \in Access : OpenLook(b, p, f)
    BY <1>5, <2>1
  <2>2. CASE OpenAct(b) \/ SendAct(b) \/ TruncateAct(b)
    <3>1. \E op : Acts(b, op)
      BY <2>2 DEF OpenAct, SendAct, TruncateAct
    <3> QED
      BY <1>4, <3>1
  <2>3. CASE \E out, in \in DOMAIN files, offset \in Offsets, n \in Lengths :
                SendLook(b, out, in, offset, n)
    BY <1>7, <2>3
  <2>4. CASE \E p \in Paths, n \in Offsets : TruncateLook(b, p, n)
    BY <1>6, <2>4
  <2>5. CASE \/ \E fd \in DOMAIN files, n \in Lengths : Read(b, fd, n) \/ Write(b, fd, n)
             \/ \E fd \in DOMAIN files, pos \in Offsets : SeekTo(b, fd, pos)
             \/ \E p \in Paths : Unlink(b, p)
             \/ \E p, q \in Paths : Rename(b, p, q)
             \/ \E fd \in DOMAIN files : Dup(b, fd) \/ Close(b, fd)
             \/ \E old, new \in DOMAIN files : Dup2(b, old, new)
    <3>1. \E op : Whole(b, op)
      BY <2>5 DEF Read, Write, SeekTo, Unlink, Rename, Dup, Close, Dup2
    <3> QED
      BY <1>3, <3>1
  <2> QED
    BY <1>8, <2>1, <2>2, <2>3, <2>4, <2>5 DEF Call
<1>9. ASSUME Replace(b) \/ UndoStep(b) \/ ReplaceDone(b) PROVE CallView(b)'
  <2>1. call'[b].op \in {"replace", "none"}
    BY <1>1, <1>9 DEF Replace, UndoStep, ReplaceDone, NoCall
  <2> QED
    BY <1>2, <2>1
<1> QED
  BY <1>8, <1>9 DEF BranchNext

-----------------------------------------------------------------------------
(* The stacks of all branches *)

\* Main leads from F back to y.
MainLeads(F, y, I) ==
    /\ I \subseteq 1 .. Len(fs.data)
    /\ \/ irreversible["main"]
       \/ Leads(undo["main"], F, reach["main"], I, y, Nowhere, drift)

Parted(a, c) ==
    /\ reach[a].paths \cap reach[c].paths = {}
    /\ reach[a].descs \cap reach[c].descs = {}

\* At the Fork the system was F; each branch leads back to it, main from there.
ForkedBy(F, y, tl, tr, Il, Ir, Im) ==
    /\ F \in Systems
    /\ MainLeads(F, y, Im)
    /\ reach["main"].paths \subseteq tl.paths \cup tr.paths
    /\ reach["main"].descs \subseteq tl.descs \cup tr.descs
    /\ BranchInv("left", F, tl, Il)
    /\ BranchInv("right", F, tr, Ir)
    /\ Il \cap Ir = {}
    /\ Parted("left", "right")

AloneInv == \E y, I : BranchInv("main", y, Nowhere, I)
ForkedInv == \E F, y, tl, tr, Il, Ir, Im : ForkedBy(F, y, tl, tr, Il, Ir, Im)

UndoInv ==
    gaps = {} => /\ \A b \in Branches : CallView(b)
                 /\ phase # "forked" => AloneInv
                 /\ phase = "forked" => ForkedInv

LEMMA SidesStep ==
    ASSUME Base, AppendInv, NEW a \in {"left", "right"}, NEW c \in {"left", "right"},
           a # c, BranchNext(a), gaps' = {}, NEW F, NEW ta, NEW tc, NEW Ia, NEW Ic, NEW J,
           BranchInv(a, F, ta, Ia), BranchInv(c, F, tc, Ic), Ia \cap Ic = {},
           Parted(a, c), CallView(a), CallView(c), J = Ia \cup NewInodes
    PROVE  /\ BranchInv(a, F, ta, J)' /\ BranchInv(c, F, tc, Ic)'
           /\ J \cap Ic = {}
           /\ Parted(a, c)'
           /\ CallView(a)' /\ CallView(c)'
<1>1. a \in Branches /\ c \in Branches /\ a # "main" /\ StepOf(a)
  BY BranchStepOf DEF Branches
<1>2. BranchInv(a, F, ta, J)'
  BY <1>1, OwnStep
<1>3. CallView(a)'
  BY <1>1, OwnView
<1>4. Inodes(fs, reach[a]) \cap Inodes(fs, reach[c]) = {}
  BY DEF BranchInv
<1>5. BranchInv(c, F, tc, Ic)' /\ CallView(c)'
  BY <1>1, <1>4, OtherStep DEF Parted
<1>6. Len(fs.data) \in Nat /\ Len(fs.desc) \in Nat /\ Len(fs'.data) \in Nat
      /\ reach[c].descs \subseteq 1 .. Len(fs.desc)
  <2>1. fs \in Systems /\ fs' \in Systems
    BY <1>1 DEF Base, TypeInv, StackType, StepOf, FsStep, Within
  <2> QED
    BY <1>1, <2>1, SystemFacts DEF Base, TypeInv, StackType
<1>7. J \cap Ic = {}
  <2>1. Ic \subseteq 1 .. Len(fs.data)
    BY DEF BranchInv
  <2>2. NewInodes \cap 1 .. Len(fs.data) = {}
    BY <1>6 DEF NewInodes
  <2> QED
    BY <2>1, <2>2
<1>8. Parted(a, c)'
  <2>1. /\ reach'[c] = reach[c] /\ reach'[a].paths = reach[a].paths
        /\ reach'[a].descs \subseteq reach[a].descs \cup Len(fs.desc) + 1 .. Len(fs'.desc)
    BY <1>1 DEF StepOf, FsStep
  <2>2. (Len(fs.desc) + 1 .. Len(fs'.desc)) \cap 1 .. Len(fs.desc) = {}
    BY <1>6
  <2> QED
    BY <1>6, <2>1, <2>2 DEF Parted
<1> QED
  BY <1>2, <1>3, <1>5, <1>7, <1>8

LEMMA MainStays ==
    ASSUME Base, NEW a \in {"left", "right"}, BranchNext(a),
           NEW F \in Systems, NEW y, NEW I, MainLeads(F, y, I),
           reach["main"].descs \subseteq 1 .. Len(F.desc)
    PROVE  /\ MainLeads(F, y, I)' /\ reach'["main"] = reach["main"]
           /\ CallView("main") => CallView("main")'
<1>1. a \in Branches /\ a # "main" /\ "main" \in Branches /\ StepOf(a)
  BY BranchStepOf DEF Branches
<1>2. /\ reach'["main"] = reach["main"] /\ undo'["main"] = undo["main"]
      /\ irreversible'["main"] = irreversible["main"]
      /\ call'["main"] = call["main"]
      /\ drift \subseteq drift' /\ Len(fs.data) <= Len(fs'.data) /\ phase' = phase
  BY <1>1 DEF StepOf, FsStep, Within, StackStep, CallStep, TableStep
<1>3. ASSUME Leads(undo["main"], F, reach["main"], I, y, Nowhere, drift)
      PROVE  Leads(undo["main"], F, reach["main"], I, y, Nowhere, drift')
  <2>1. Like(F, F, reach["main"])
    BY LikeSelf
  <2>2. undo["main"] \in Seq(Entries(Len(fs.desc)))
    BY <1>1 DEF Base, TypeInv, StackType
  <2> QED
    BY <1>2, <1>3, <2>1, <2>2, LeadsLike
<1>4. I \subseteq 1 .. Len(fs'.data)
  <2>1. Len(fs.data) \in Nat /\ Len(fs'.data) \in Nat
    BY <1>1, SystemFacts DEF Base, TypeInv, StackType, StepOf, FsStep, Within
  <2> QED
    BY <1>2, <2>1 DEF MainLeads
<1>5. call["main"] = NoCall
  BY <1>1 DEF Base, PhaseInv, StepOf, CallStep, Runs
<1>6. CallView("main")'
  BY <1>2, <1>5 DEF CallView, NoCall
<1> QED
  BY <1>2, <1>3, <1>4, <1>6 DEF MainLeads

\* A step of one of the two branches.
LEMMA ForkedStep ==
    ASSUME Base, AppendInv, NEW a \in {"left", "right"}, BranchNext(a), gaps' = {},
           \A b \in Branches : CallView(b), ForkedInv
    PROVE  ForkedInv' /\ \A b \in Branches : CallView(b)'
<1>1. PICK F, y, tl, tr, Il, Ir, Im : ForkedBy(F, y, tl, tr, Il, Ir, Im)
  BY DEF ForkedInv
<1>2. reach["main"].descs \subseteq 1 .. Len(F.desc)
  BY <1>1 DEF ForkedBy, BranchInv
<1>3. /\ MainLeads(F, y, Im)' /\ reach'["main"] = reach["main"] /\ CallView("main")'
  BY <1>1, <1>2, MainStays DEF ForkedBy, Branches
<1>4. CASE a = "left"
  <2>1. PICK K : K = Il \cup NewInodes
    OBVIOUS
  <2>2. /\ BranchInv("left", F, tl, Il) /\ BranchInv("right", F, tr, Ir)
        /\ Il \cap Ir = {} /\ Parted("left", "right")
        /\ CallView("left") /\ CallView("right")
    BY <1>1 DEF ForkedBy, Branches
  <2>3. /\ BranchInv("left", F, tl, K)' /\ BranchInv("right", F, tr, Ir)'
        /\ K \cap Ir = {} /\ Parted("left", "right")'
        /\ CallView("left")' /\ CallView("right")'
    BY <1>4, <2>1, <2>2, SidesStep
  <2>4. ForkedBy(F, y, tl, tr, K, Ir, Im)'
    BY <1>1, <1>3, <2>3 DEF ForkedBy
  <2> QED
    BY <1>3, <2>3, <2>4 DEF ForkedInv, Branches
<1>5. CASE a = "right"
  <2>1. PICK K : K = Ir \cup NewInodes
    OBVIOUS
  <2>2. /\ BranchInv("right", F, tr, Ir) /\ BranchInv("left", F, tl, Il)
        /\ Ir \cap Il = {} /\ Parted("right", "left")
        /\ CallView("left") /\ CallView("right")
    BY <1>1 DEF ForkedBy, Branches, Parted
  <2>3. /\ BranchInv("right", F, tr, K)' /\ BranchInv("left", F, tl, Il)'
        /\ K \cap Il = {} /\ Parted("right", "left")'
        /\ CallView("left")' /\ CallView("right")'
    BY <1>5, <2>1, <2>2, SidesStep
  <2>4. Il \cap K = {} /\ Parted("left", "right")'
    BY <2>3 DEF Parted
  <2>5. ForkedBy(F, y, tl, tr, Il, K, Im)'
    BY <1>1, <1>3, <2>3, <2>4 DEF ForkedBy
  <2> QED
    BY <1>3, <2>3, <2>5 DEF ForkedInv, Branches
<1> QED
  BY <1>4, <1>5

LEMMA NowhereFacts ==
    ASSUME NEW y, NEW r
    PROVE  /\ Nowhere \in Scopes /\ Nowhere.descs = {} /\ Nowhere.paths = {}
           /\ Inodes(y, Nowhere) = {} /\ Part(Nowhere, r)
  BY DEF Nowhere, Scopes, Inodes, Part

\* A step of main while there are no others.
LEMMA AloneStep ==
    ASSUME Base, AppendInv, NEW a \in Branches, BranchNext(a), gaps' = {},
           phase # "forked", \A b \in Branches : CallView(b), AloneInv
    PROVE  AloneInv' /\ \A b \in Branches : CallView(b)'
<1>1. StepOf(a) /\ a = "main"
  BY BranchStepOf DEF StepOf, CallStep, Runs
<1>2. PICK y, I : BranchInv("main", y, Nowhere, I)
  BY DEF AloneInv
<1>3. PICK J : J = I \cup NewInodes
  OBVIOUS
<1>4. \E z : BranchInv("main", z, Nowhere, J)'
  BY <1>1, <1>2, <1>3, OwnStep
<1>5. CallView("main")'
  BY <1>1, OwnView
<1>6. ASSUME NEW c \in Branches, c # "main" PROVE CallView(c)'
  <2>1. call'[c] = NoCall
    BY <1>1, <1>6 DEF Base, PhaseInv, StepOf, CallStep, Runs
  <2> QED
    BY <2>1 DEF CallView, NoCall
<1> QED
  BY <1>4, <1>5, <1>6 DEF AloneInv

LEMMA ForkUndo ==
    ASSUME Base, Fork, ~(Forks /\ Sharing), AloneInv
    PROVE  ForkedInv'
<1>1. /\ fs \in Systems /\ fs' = fs /\ undo' = undo /\ irreversible' = irreversible
      /\ drift' = drift
  BY DEF Base, TypeInv, StackType, Fork, back
<1>2. PICK y, I : BranchInv("main", y, Nowhere, I)
  BY DEF AloneInv
<1>3. PICK F : F = fs
  OBVIOUS
<1>4. PICK tl, tr : tl = reach'["left"] /\ tr = reach'["right"]
  OBVIOUS
<1>5. PICK Il, Ir : Il = Inodes(F, tl) /\ Ir = Inodes(F, tr)
  OBVIOUS
<1>6. /\ reach'["main"] = reach["main"]
      /\ Part(tl, reach["main"]) /\ Part(tr, reach["main"])
      /\ tl \in Scopes /\ tr \in Scopes
      /\ reach["main"].paths \subseteq tl.paths \cup tr.paths
      /\ reach["main"].descs \subseteq tl.descs \cup tr.descs
      /\ Il \cap Ir = {} /\ Parted("left", "right")'
      /\ \A b \in {"left", "right"} : undo[b] = << >>
  BY <1>3, <1>4, <1>5, ForkFacts DEF Branches, Parted
<1>7. tl.descs \subseteq 1 .. Len(F.desc) /\ tr.descs \subseteq 1 .. Len(F.desc)
  <2>1. reach["main"].descs \subseteq 1 .. Len(F.desc)
    BY <1>3 DEF Base, TypeInv, StackType, Branches
  <2> QED
    BY <1>6, <2>1 DEF Part
<1>8. Il \subseteq 1 .. Len(F.data) /\ Ir \subseteq 1 .. Len(F.data)
  BY <1>1, <1>3, <1>5, <1>6, <1>7, InodesBounds
<1>9. Leads(<< >>, F, tl, Il, F, tl, drift) /\ Leads(<< >>, F, tr, Ir, F, tr, drift)
  BY <1>1, <1>3, <1>5, <1>6, <1>7, LeadsEmpty
<1>10. BranchInv("left", F, tl, Il)'
  <2>1. Leads(undo'["left"], fs', reach'["left"], Il, F, tl, drift')
    BY <1>1, <1>3, <1>4, <1>6, <1>9
  <2> QED
    BY <1>1, <1>3, <1>4, <1>5, <1>6, <1>7, <1>8, <2>1 DEF BranchInv, Part
<1>11. BranchInv("right", F, tr, Ir)'
  <2>1. Leads(undo'["right"], fs', reach'["right"], Ir, F, tr, drift')
    BY <1>1, <1>3, <1>4, <1>6, <1>9
  <2> QED
    BY <1>1, <1>3, <1>4, <1>5, <1>6, <1>7, <1>8, <2>1 DEF BranchInv, Part
<1>12. MainLeads(F, y, I)'
  BY <1>1, <1>2, <1>3, <1>6 DEF MainLeads, BranchInv
<1>13. ForkedBy(F, y, tl, tr, Il, Ir, I)'
  BY <1>1, <1>3, <1>6, <1>10, <1>11, <1>12 DEF ForkedBy
<1> QED
  BY <1>13 DEF ForkedInv

LEMMA JoinUndo ==
    ASSUME Base, Join, ForkedInv
    PROVE  AloneInv'
<1>1. PICK F, y, tl, tr, Il, Ir, Im : ForkedBy(F, y, tl, tr, Il, Ir, Im)
  BY DEF ForkedInv
<1>2. PICK q, J : q = Whole0 /\ J = 1 .. Len(fs.data)
  OBVIOUS
<1>3. /\ fs \in Systems /\ fs' = fs /\ drift' = drift
      /\ Len(fs.desc) \in Nat
      /\ \A b \in Branches : undo[b] \in Seq(Entries(Len(fs.desc))) /\ reach[b] \in Scopes
  BY JoinFacts, SystemFacts DEF Base, TypeInv, StackType
<1>4. /\ undo'["main"] = undo["main"] \o undo["left"] \o undo["right"]
      /\ irreversible'["main"] <=> \E c \in Branches : irreversible[c]
      /\ reach'["main"] = q /\ q \in Scopes
      /\ \A b \in Branches : Part(reach[b], q)
      /\ q.descs \subseteq 1 .. Len(fs.desc)
  <2>1. "main" \in Branches
    BY DEF Branches
  <2> QED
    BY <1>2, <2>1, JoinFacts
<1>5. Inodes(fs, q) \subseteq J
  BY <1>2, <1>3, <1>4, InodesBounds
<1>6. ASSUME ~irreversible'["main"]
      PROVE  Leads(undo'["main"], fs, q, J, y, Nowhere, drift)
  <2>1. ~irreversible["main"] /\ ~irreversible["left"] /\ ~irreversible["right"]
    BY <1>4, <1>6 DEF Branches
  <2>2. /\ Leads(undo["main"], F, reach["main"], Im, y, Nowhere, drift)
        /\ Leads(undo["left"], fs, reach["left"], Il, F, tl, drift)
        /\ Leads(undo["right"], fs, reach["right"], Ir, F, tr, drift)
        /\ Im \subseteq J /\ Il \subseteq J /\ Ir \subseteq J
        /\ tl \in Scopes /\ tr \in Scopes
        /\ tl.descs \subseteq 1 .. Len(F.desc) /\ tr.descs \subseteq 1 .. Len(F.desc)
        /\ Part(tr, reach["right"]) /\ Inodes(F, tr) \subseteq Ir
        /\ F \in Systems /\ Il \cap Ir = {}
        /\ reach["main"].paths \subseteq tl.paths \cup tr.paths
        /\ reach["main"].descs \subseteq tl.descs \cup tr.descs
        /\ reach["left"].paths \cap reach["right"].paths = {}
        /\ reach["left"].descs \cap reach["right"].descs = {}
    BY <1>1, <1>2, <2>1 DEF ForkedBy, MainLeads, BranchInv, Parted
  <2>3. /\ undo["main"] \in Seq(Entries(Len(fs.desc)))
        /\ undo["left"] \in Seq(Entries(Len(fs.desc)))
        /\ undo["right"] \in Seq(Entries(Len(fs.desc)))
        /\ reach["left"] \in Scopes /\ reach["right"] \in Scopes
        /\ Part(reach["main"], q) /\ Part(reach["left"], q) /\ Part(reach["right"], q)
    BY <1>3, <1>4 DEF Branches
  <2>4. Leads(undo["main"] \o undo["left"] \o undo["right"], fs, q, J, y, Nowhere, drift)
    <3>1. PICK n \in Nat : n = Len(fs.desc)
      BY <1>3
    <3>2. PICK m, l, r : m = undo["main"] /\ l = undo["left"] /\ r = undo["right"]
      OBVIOUS
    <3>3. PICK rm, rl, rr : /\ rm = reach["main"] /\ rl = reach["left"]
                            /\ rr = reach["right"]
      OBVIOUS
    <3>4. m \in Seq(Entries(n)) /\ l \in Seq(Entries(n)) /\ r \in Seq(Entries(n))
      BY <2>3, <3>1, <3>2
    <3>5. Leads(m \o l \o r, fs, q, J, y, Nowhere, drift)
      <4>1. /\ Leads(m, F, rm, Im, y, Nowhere, drift)
            /\ Leads(l, fs, rl, Il, F, tl, drift)
            /\ Leads(r, fs, rr, Ir, F, tr, drift)
        BY <2>2, <3>2, <3>3
      <4>2. /\ rl \in Scopes /\ rr \in Scopes
            /\ Part(rm, q) /\ Part(rl, q) /\ Part(rr, q)
        BY <2>3, <3>3
      <4>3. /\ rm.paths \subseteq tl.paths \cup tr.paths
            /\ rm.descs \subseteq tl.descs \cup tr.descs
            /\ Part(tr, rr) /\ rl.paths \cap rr.paths = {} /\ rl.descs \cap rr.descs = {}
        BY <2>2, <3>3
      <4>4. PICK x, D : x = fs /\ D = drift
        OBVIOUS
      <4>5. x \in Systems /\ F \in Systems /\ q.descs \subseteq 1 .. Len(x.desc)
        BY <1>3, <1>4, <2>2, <4>4
      <4>6. /\ Im \subseteq J /\ Il \subseteq J /\ Ir \subseteq J /\ Il \cap Ir = {}
            /\ tl \in Scopes /\ tr \in Scopes
            /\ tl.descs \subseteq 1 .. Len(F.desc) /\ tr.descs \subseteq 1 .. Len(F.desc)
            /\ Inodes(F, tr) \subseteq Ir
        BY <2>2
      <4>7. /\ Leads(m, F, rm, Im, y, Nowhere, D)
            /\ Leads(l, x, rl, Il, F, tl, D)
            /\ Leads(r, x, rr, Ir, F, tr, D)
        BY <4>1, <4>4
      <4>8. Joinable(n, m, l, r, F, x, rm, rl, rr, tl, tr, Im, Il, Ir, y, D, q, J)
        BY <3>4, <4>2, <4>3, <4>5, <4>6, <4>7 DEF Joinable
      <4>9. Leads(m \o l \o r, x, q, J, y, Nowhere, D)
        BY <4>8, LeadsJoin
      <4> QED
        BY <4>4, <4>9
    <3> QED
      BY <3>2, <3>5
  <2> QED
    BY <1>4, <2>4
<1>7. BranchInv("main", y, Nowhere, J)'
  <2>1. irreversible'["main"] \/ Leads(undo'["main"], fs', reach'["main"], J, y, Nowhere, drift')
    BY <1>3, <1>4, <1>6
  <2>2. Nowhere \in Scopes /\ Nowhere.descs = {} /\ Inodes(y, Nowhere) = {}
        /\ Part(Nowhere, reach'["main"])
    BY NowhereFacts
  <2> QED
    BY <1>2, <1>3, <1>4, <1>5, <2>1, <2>2 DEF BranchInv
<1> QED
  BY <1>7 DEF AloneInv

LEMMA InitUndo ==
    ASSUME Init, Base
    PROVE  UndoInv
<1>1. /\ call = [b \in Branches |-> NoCall] /\ phase = "alone"
      /\ undo["main"] = << >>
  BY DEF Init, Branches
<1>2. /\ fs \in Systems /\ reach["main"] \in Scopes
      /\ reach["main"].descs \subseteq 1 .. Len(fs.desc)
  BY DEF Base, TypeInv, StackType, Branches
<1>3. PICK I : I = 1 .. Len(fs.data)
  OBVIOUS
<1>4. Inodes(fs, reach["main"]) \subseteq I
  BY <1>2, <1>3, InodesBounds
<1>5. Leads(<< >>, fs, reach["main"], I, fs, Nowhere, drift)
  BY <1>2, <1>4, LeadsEmpty
<1>6. BranchInv("main", fs, Nowhere, I)
  BY <1>1, <1>3, <1>4, <1>5, NowhereFacts DEF BranchInv
<1>7. \A b \in Branches : CallView(b)
  BY <1>1 DEF CallView, NoCall
<1> QED
  BY <1>1, <1>6, <1>7 DEF UndoInv, AloneInv

LEMMA UndoNext ==
    ASSUME Base, AppendInv, UndoInv, [Next]_vars, ~(Forks /\ Sharing)
    PROVE  UndoInv'
<1>1. CASE UNCHANGED vars
  <2>1. \A b \in Branches : CallView(b) => CallView(b)'
    BY <1>1 DEF vars, CallView
  <2>2. AloneInv => AloneInv'
    <3>1. \A y, I : BranchInv("main", y, Nowhere, I) => BranchInv("main", y, Nowhere, I)'
      BY <1>1 DEF vars, BranchInv
    <3> QED
      BY <3>1 DEF AloneInv
  <2>3. ForkedInv => ForkedInv'
    <3>1. ASSUME NEW F, NEW y, NEW tl, NEW tr, NEW Il, NEW Ir, NEW Im,
                 ForkedBy(F, y, tl, tr, Il, Ir, Im)
          PROVE  ForkedBy(F, y, tl, tr, Il, Ir, Im)'
      <4>1. MainLeads(F, y, Im)'
        BY <1>1, <3>1 DEF vars, ForkedBy, MainLeads
      <4>2. BranchInv("left", F, tl, Il)' /\ BranchInv("right", F, tr, Ir)'
        BY <1>1, <3>1 DEF vars, ForkedBy, BranchInv
      <4> QED
        BY <1>1, <3>1, <4>1, <4>2 DEF vars, ForkedBy, Parted
    <3> QED
      BY <3>1 DEF ForkedInv
  <2>4. gaps' = gaps /\ phase' = phase
    BY <1>1 DEF vars
  <2> QED
    BY <2>1, <2>2, <2>3, <2>4 DEF UndoInv
<1>2. ASSUME NEW a \in Branches, BranchNext(a) PROVE UndoInv'
  <2>1. SUFFICES ASSUME gaps' = {}
                 PROVE  /\ \A b \in Branches : CallView(b)'
                        /\ phase' # "forked" => AloneInv'
                        /\ phase' = "forked" => ForkedInv'
    BY DEF UndoInv
  <2>2. phase' = phase /\ Runs(a) /\ gaps = {}
    BY <1>2, <2>1, BranchStepOf DEF StepOf, CallStep, TableStep
  <2>3. CASE phase # "forked"
    BY <1>2, <2>1, <2>2, <2>3, AloneStep DEF UndoInv
  <2>4. CASE phase = "forked"
    <3>1. a \in {"left", "right"}
      BY <2>2, <2>4 DEF Runs, Branches
    <3> QED
      BY <1>2, <2>1, <2>2, <2>4, <3>1, ForkedStep DEF UndoInv
  <2> QED
    BY <2>3, <2>4
<1>3. CASE Fork
  <2>1. phase = "alone" /\ phase' = "forked" /\ gaps' = gaps /\ call' = call
    BY <1>3 DEF Fork
  <2>2. \A b \in Branches : CallView(b)'
    BY <2>1, <1>3, ForkFacts DEF CallView, NoCall
  <2> QED
    BY <1>3, <2>1, <2>2, ForkUndo DEF UndoInv
<1>4. CASE Join
  <2>1. phase = "forked" /\ phase' = "joined" /\ gaps' = gaps /\ call' = call
    BY <1>4, JoinFacts
  <2>2. \A b \in Branches : CallView(b)'
    BY <2>1, <1>4, JoinFacts DEF CallView, NoCall
  <2> QED
    BY <1>4, <2>1, <2>2, JoinUndo DEF UndoInv
<1> QED
  BY <1>1, <1>2, <1>3, <1>4, NextCases

\* A branch that runs has a stack that leads back.
LEMMA Covered ==
    ASSUME Base, UndoInv, gaps = {}, NEW b \in Branches, Runs(b)
    PROVE  \E F, t, I : BranchInv(b, F, t, I)
<1>1. CASE phase = "forked"
  <2>1. b \in {"left", "right"}
    BY <1>1 DEF Runs, Branches
  <2>2. \E F, y, tl, tr, Il, Ir, Im : ForkedBy(F, y, tl, tr, Il, Ir, Im)
    BY <1>1 DEF UndoInv, ForkedInv
  <2>3. PICK F, tl, tr, Il, Ir : BranchInv("left", F, tl, Il) /\ BranchInv("right", F, tr, Ir)
    BY <2>2 DEF ForkedBy
  <2> QED
    BY <2>1, <2>3
<1>2. CASE phase # "forked"
  BY <1>2 DEF Runs, UndoInv, AloneInv
<1> QED
  BY <1>1, <1>2

LEMMA UndoWorks ==
    ASSUME Base, UndoInv, gaps = {}, NEW b \in Branches, UndoStep(b), ~irreversible[b]
    PROVE  /\ CanUndo(fs, Newest(b).inverse)
           /\ FilesBack(Newest(b)) /\ CursorsBack(Newest(b))
<1>1. Runs(b)
  BY UndoStepStep DEF StepOf, CallStep
<1>2. PICK F, t, I : BranchInv(b, F, t, I)
  BY <1>1, Covered
<1>3. PICK J : J = I \cup NewInodes
  OBVIOUS
<1> QED
  BY <1>2, <1>3, UndoKeeps

LEMMA SucceedsNext ==
    ASSUME Base, UndoInv, UndoSucceeds, [Next]_vars
    PROVE  UndoSucceeds'
<1>1. StackType /\ PhaseInv
  BY DEF Base, TypeInv
<1>2. CASE UNCHANGED vars
  BY <1>2 DEF vars, UndoSucceeds
<1>3. ASSUME NEW a \in Branches, BranchNext(a) PROVE UndoSucceeds'
  <2>1. SUFFICES ASSUME gaps' = {}, NEW b \in Branches, failed'[b]
                 PROVE  irreversible'[b]
    BY DEF UndoSucceeds
  <2>2. gaps = {} /\ StepOf(a)
    BY <1>3, <2>1, BranchStepOf DEF StepOf, TableStep
  <2>3. CASE b # a
    BY <2>1, <2>2, <2>3 DEF UndoSucceeds, StepOf, StackStep
  <2>4. CASE b = a /\ (Call(a) \/ Replace(a))
    <3> DEFINE Same == failed' = failed /\ call[a].op # "replace"
    <3>1. Idle(a) => call[a].op # "replace"
      BY DEF Idle, NoCall
    <3>2. Same
      <4>1. CASE Replace(a)
        BY <3>1, <4>1 DEF Replace, back
      <4>2. CASE Call(a)
        <5>1. OpenAct(a) \/ SendAct(a) \/ TruncateAct(a) => Same
          BY DEF OpenAct, SendAct, TruncateAct, Settle, back, Acts
        <5>2. \A p \in Paths, f \in Access : OpenLook(a, p, f) => Same
          BY <3>1 DEF OpenLook, back, Looks, Starts
        <5>3. \A fd \in DOMAIN files, n \in Lengths : Read(a, fd, n) \/ Write(a, fd, n) => Same
          BY <3>1 DEF Read, Write, Settle, Whole, Starts
        <5>4. \A fd \in DOMAIN files, pos \in Offsets : SeekTo(a, fd, pos) => Same
          BY <3>1 DEF SeekTo, Settle, Whole, Starts
        <5>5. \A out, in \in DOMAIN files, offset \in Offsets, n \in Lengths :
                SendLook(a, out, in, offset, n) => Same
          BY <3>1 DEF SendLook, back, Whole, Looks, Starts
        <5>6. \A p \in Paths, n \in Offsets : TruncateLook(a, p, n) => Same
          BY <3>1 DEF TruncateLook, back, Looks, Starts
        <5>7. \A p \in Paths : Unlink(a, p) => Same
          BY <3>1 DEF Unlink, Settle, Whole, Starts
        <5>8. \A p, q \in Paths : Rename(a, p, q) => Same
          BY <3>1 DEF Rename, Settle, Whole, Starts
        <5>9. \A fd \in DOMAIN files : Dup(a, fd) \/ Close(a, fd) => Same
          BY <3>1 DEF Dup, Close, back, Whole, Starts
        <5>10. \A old, new \in DOMAIN files : Dup2(a, old, new) => Same
          BY <3>1 DEF Dup2, back, Whole, Starts
        <5> HIDE DEF Same
        <5> QED
          BY <4>2, <5>1, <5>2, <5>3, <5>4, <5>5, <5>6, <5>7, <5>8, <5>9, <5>10 DEF Call
      <4> QED
        BY <2>4, <4>1, <4>2
    <3>3. call[a] = Replacing
      BY <1>1, <2>1, <2>4, <3>2 DEF PhaseInv
    <3> QED
      BY <3>2, <3>3 DEF Replacing
  <2>5. CASE b = a /\ UndoStep(a)
    <3>1. irreversible' = irreversible
      BY <2>5 DEF UndoStep
    <3>2. CASE ~irreversible[a]
      <4>1. CanUndo(fs, Newest(a).inverse)
        BY <2>2, <2>5, <3>2, UndoWorks
      <4>2. failed' = failed
        BY <2>5, <4>1, UndoStepStep
      <4> QED
        BY <2>1, <2>2, <2>5, <3>2, <4>2 DEF UndoSucceeds
    <3> QED
      BY <2>5, <3>1, <3>2
  <2>6. CASE b = a /\ ReplaceDone(a)
    <3>1. failed'[a] = FALSE
      BY <1>1, <2>6 DEF ReplaceDone, StackType
    <3> QED
      BY <2>1, <2>6, <3>1
  <2> QED
    BY <1>3, <2>3, <2>4, <2>5, <2>6 DEF BranchNext
<1>4. CASE Fork
  BY <1>4 DEF Fork, back, UndoSucceeds
<1>5. CASE Join
  BY <1>5, JoinFacts DEF UndoSucceeds
<1> QED
  BY <1>2, <1>3, <1>4, <1>5, NextCases

\* Unless branches share files: stacks always lead back.
THEOREM UndoLeadsBack ==
    ASSUME ~(Forks /\ Sharing)
    PROVE  Spec => [](Base /\ AppendInv /\ UndoInv)
<1>1. Init => Base /\ AppendInv /\ UndoInv
  BY InitBase, InitUndo
<1>2. Base /\ AppendInv /\ UndoInv /\ [Next]_vars => (Base /\ AppendInv /\ UndoInv)'
  BY BaseNext, AppendInvNext, UndoNext
<1> QED
  BY <1>1, <1>2, PTL DEF Spec

\* As long as files are not lost to names and branches keep to their own files, no
\* inverse of a stack without an irreversible call fails: Replace gets to its target.
THEOREM UndoSucceedsHolds ==
    ASSUME ~(Forks /\ Sharing)
    PROVE  Spec => []UndoSucceeds
<1>1. Init => UndoSucceeds
  BY DEF Init, UndoSucceeds
<1>2. Base /\ UndoInv /\ UndoSucceeds /\ [Next]_vars => UndoSucceeds'
  BY SucceedsNext
<1> QED
  BY <1>1, <1>2, UndoLeadsBack, PTL DEF Spec

\* Inverses run newest first undo their calls exactly: every file and every cursor
\* is what it was when the call started (UndoOps of the file operations).
THEOREM UndoExactHolds ==
    ASSUME ~(Forks /\ Sharing)
    PROVE  Spec => UndoExact
<1> DEFINE Exactly == \A b \in Branches :
                        UndoStep(b) /\ ~irreversible[b] /\ gaps = {}
                          => FilesBack(Newest(b)) /\ CursorsBack(Newest(b))
<1>1. Base /\ UndoInv /\ [Next]_vars => [Exactly]_vars
  BY UndoWorks
<1> QED
  BY <1>1, UndoLeadsBack, PTL DEF Spec, UndoExact

=============================================================================
