----------------------- MODULE ForkTimeoutOnce_proofs -----------------------
(***************************************************************************)
(* More proofs about ForkTimeout: what an idempotent call was answered      *)
(* stands, and no two effective runs of a segment do.                       *)
(*                                                                          *)
(* The undo of a syscall is in one place only, a stack or a rollback, and   *)
(* in a branch that has marked its key COMMITTED it lies below the Revert   *)
(* of the key.  So a rollback that takes the effect back has reverted the   *)
(* key first, with no step of its own in between.                           *)
(*                                                                          *)
(* The tasks that the root still awaits, directly or not, form a tree, in   *)
(* which only one that nobody waits below can run, and only one can hold a  *)
(* given key; who has left it was told to stop at every depth and opens     *)
(* nothing.  A key has at most one Revert.  An effect of a run is taken     *)
(* back, lost, or some task of the tree that names the key is about to undo *)
(* it or has it below the Revert with no end of a Timeout between, so that  *)
(* it goes on undoing once it has reverted the key.                         *)
(***************************************************************************)
EXTENDS ForkTimeout_proofs, NaturalsInduction, WellFoundedInduction

-----------------------------------------------------------------------------
(* Undo stacks *)

\* The syscalls whose effects s takes back.
Syscalls(s) == {s[i].op : i \in {i \in 1 .. Len(s) : s[i].key = NoKey}}

\* No syscall is undone twice.
Single(s) ==
    \A i, j \in 1 .. Len(s) :
        s[i].key = NoKey /\ s[j].key = NoKey /\ s[i].op = s[j].op => i = j

\* The undo of syscall p is not reached before key k is reverted.
Guarded(s, k, p) ==
    \A i \in 1 .. Len(s) :
        s[i].key = NoKey /\ s[i].op = p => \E j \in i + 1 .. Len(s) : s[j].key = k

LEMMA EmptyUndos ==
    ASSUME NEW k, NEW p
    PROVE  Syscalls(<< >>) = {} /\ Single(<< >>) /\ Guarded(<< >>, k, p)
<1>1. Len(<< >>) = 0 /\ 1 .. 0 = {}
  OBVIOUS
<1> QED
  BY <1>1 DEF Syscalls, Single, Guarded

LEMMA JoinUndos ==
    ASSUME NEW s \in Seq(Undos), NEW t \in Seq(Undos)
    PROVE  /\ Syscalls(s \o t) = Syscalls(s) \cup Syscalls(t)
           /\ Single(s) /\ Single(t) /\ Syscalls(s) \cap Syscalls(t) = {} => Single(s \o t)
           /\ \A k, p : Guarded(s, k, p) /\ Guarded(t, k, p) => Guarded(s \o t, k, p)
<1> DEFINE w == s \o t
           m == Len(s)
           n == Len(t)
<1>1. /\ Len(w) = m + n /\ m \in Nat /\ n \in Nat
      /\ \A i \in 1 .. m : w[i] = s[i] /\ i \in 1 .. m + n
      /\ \A i \in 1 .. n : w[m + i] = t[i] /\ m + i \in 1 .. m + n
  BY JoinProperties
<1>2. \A i \in 1 .. m + n : i \in 1 .. m \/ (i - m \in 1 .. n /\ i = m + (i - m))
  BY <1>1
<1> HIDE DEF w, m, n
<1>3. Syscalls(w) = Syscalls(s) \cup Syscalls(t)
  <2>1. ASSUME NEW i \in 1 .. m + n, w[i].key = NoKey
        PROVE  w[i].op \in Syscalls(s) \cup Syscalls(t)
    <3>1. CASE i \in 1 .. m
      BY <1>1, <2>1, <3>1 DEF Syscalls, m
    <3>2. CASE i - m \in 1 .. n
      <4>1. w[i] = t[i - m]
        BY <1>1, <1>2, <3>2
      <4> QED
        BY <2>1, <3>2, <4>1 DEF Syscalls, n
    <3> QED
      BY <1>2, <3>1, <3>2
  <2>2. Syscalls(w) \subseteq Syscalls(s) \cup Syscalls(t)
    BY <1>1, <2>1 DEF Syscalls
  <2>3. ASSUME NEW i \in 1 .. m, s[i].key = NoKey PROVE s[i].op \in Syscalls(w)
    BY <1>1, <2>3 DEF Syscalls
  <2>4. ASSUME NEW i \in 1 .. n, t[i].key = NoKey PROVE t[i].op \in Syscalls(w)
    <3>1. m + i \in 1 .. Len(w) /\ w[m + i] = t[i]
      BY <1>1
    <3> QED
      BY <2>4, <3>1 DEF Syscalls
  <2>5. Syscalls(s) \subseteq Syscalls(w) /\ Syscalls(t) \subseteq Syscalls(w)
    BY <2>3, <2>4 DEF Syscalls, m, n
  <2> QED
    BY <2>2, <2>5
<1>4. ASSUME Single(s), Single(t), Syscalls(s) \cap Syscalls(t) = {},
             NEW a \in 1 .. m + n, NEW b \in 1 .. m + n,
             w[a].key = NoKey, w[b].key = NoKey, w[a].op = w[b].op
      PROVE  a = b
  <2>1. ASSUME NEW c \in 1 .. m + n, w[c].key = NoKey
        PROVE  \/ c \in 1 .. m /\ w[c] = s[c] /\ w[c].op \in Syscalls(s)
               \/ c - m \in 1 .. n /\ w[c] = t[c - m] /\ w[c].op \in Syscalls(t)
    <3>1. CASE c \in 1 .. m
      BY <1>1, <2>1, <3>1 DEF Syscalls, m
    <3>2. CASE c - m \in 1 .. n
      <4>1. w[c] = t[c - m]
        BY <1>1, <1>2, <3>2
      <4> QED
        BY <2>1, <3>2, <4>1 DEF Syscalls, n
    <3> QED
      BY <1>2, <3>1, <3>2
  <2>2. CASE a \in 1 .. m /\ b \in 1 .. m
    BY <1>1, <1>4, <2>2 DEF Single, m
  <2>3. CASE a - m \in 1 .. n /\ b - m \in 1 .. n
    <3>1. w[a] = t[a - m] /\ w[b] = t[b - m]
      BY <1>1, <1>2, <2>3
    <3>2. a - m = b - m
      BY <1>4, <2>3, <3>1 DEF Single, n
    <3> QED
      BY <1>1, <3>2
  <2>4. CASE (a \in 1 .. m /\ b - m \in 1 .. n) \/ (b \in 1 .. m /\ a - m \in 1 .. n)
    <3>1. ~(a \in 1 .. m /\ a - m \in 1 .. n) /\ ~(b \in 1 .. m /\ b - m \in 1 .. n)
      BY <1>1
    <3> QED
      BY <1>4, <2>1, <2>4, <3>1
  <2> QED
    BY <1>2, <2>2, <2>3, <2>4
<1>5. ASSUME NEW k, NEW p, Guarded(s, k, p), Guarded(t, k, p)
      PROVE  Guarded(w, k, p)
  <2> SUFFICES ASSUME NEW i \in 1 .. m + n, w[i].key = NoKey, w[i].op = p
               PROVE  \E g \in i + 1 .. m + n : w[g].key = k
    BY <1>1 DEF Guarded
  <2>1. CASE i \in 1 .. m
    <3>1. PICK g \in i + 1 .. m : s[g].key = k
      BY <1>1, <1>5, <2>1 DEF Guarded, m
    <3>2. g \in 1 .. m /\ g \in i + 1 .. m + n
      BY <1>1
    <3> QED
      BY <1>1, <3>1, <3>2
  <2>2. CASE i - m \in 1 .. n
    <3>1. w[i] = t[i - m]
      BY <1>1, <1>2, <2>2
    <3>2. PICK g \in (i - m) + 1 .. n : t[g].key = k
      BY <1>5, <2>2, <3>1 DEF Guarded, n
    <3>3. g \in 1 .. n /\ m + g \in i + 1 .. m + n
      BY <1>1, <2>2
    <3>4. w[m + g] = t[g]
      BY <1>1, <3>3
    <3> QED
      BY <3>2, <3>3, <3>4
  <2> QED
    BY <1>2, <2>1, <2>2
<1>6. Single(s) /\ Single(t) /\ Syscalls(s) \cap Syscalls(t) = {} => Single(w)
  BY <1>1, <1>4 DEF Single
<1>7. \A k, p : Guarded(s, k, p) /\ Guarded(t, k, p) => Guarded(w, k, p)
  BY <1>5
<1> QED
  BY <1>3, <1>6, <1>7 DEF w

LEMMA PushUndo ==
    ASSUME NEW s \in Seq(Undos), NEW u \in Undos
    PROVE  LET t == Append(s, u) IN
           /\ Syscalls(t) = Syscalls(s) \cup (IF u.key = NoKey THEN {u.op} ELSE {})
           /\ Single(s) /\ (u.key = NoKey => u.op \notin Syscalls(s)) => Single(t)
           /\ \A k, p : Guarded(s, k, p) /\ (u.key = NoKey => u.op # p) => Guarded(t, k, p)
<1> DEFINE t == Append(s, u)
           m == Len(s)
<1>1. /\ Len(t) = m + 1 /\ m \in Nat /\ t[m + 1] = u
      /\ \A i \in 1 .. m : t[i] = s[i]
  BY PushProperties
<1> HIDE DEF t, m
<1>2. 1 .. m + 1 = 1 .. m \cup {m + 1} /\ m + 1 \notin 1 .. m
  BY <1>1
<1>3. Syscalls(t) = Syscalls(s) \cup (IF u.key = NoKey THEN {u.op} ELSE {})
  BY <1>1, <1>2 DEF Syscalls, m
<1>4. Single(s) /\ (u.key = NoKey => u.op \notin Syscalls(s)) => Single(t)
  BY <1>1, <1>2 DEF Syscalls, Single, m
<1>5. ASSUME NEW k, NEW p, Guarded(s, k, p), u.key = NoKey => u.op # p
      PROVE  Guarded(t, k, p)
  <2> SUFFICES ASSUME NEW i \in 1 .. m + 1, t[i].key = NoKey, t[i].op = p
               PROVE  \E g \in i + 1 .. m + 1 : t[g].key = k
    BY <1>1 DEF Guarded
  <2>1. i \in 1 .. m /\ t[i] = s[i]
    BY <1>1, <1>2, <1>5
  <2>2. PICK g \in i + 1 .. m : s[g].key = k
    BY <1>5, <2>1 DEF Guarded, m
  <2>3. g \in 1 .. m /\ g \in i + 1 .. m + 1
    BY <1>1, <2>1
  <2> QED
    BY <1>1, <2>2, <2>3
<1>6. \A k, p : Guarded(s, k, p) /\ (u.key = NoKey => u.op # p) => Guarded(t, k, p)
  BY <1>5
<1> QED
  BY <1>3, <1>4, <1>6 DEF t

LEMMA PopUndos ==
    ASSUME NEW s \in Seq(Undos), Len(s) # 0
    PROVE  LET t == SubSeq(s, 1, Len(s) - 1)
               u == s[Len(s)]
           IN
           /\ Syscalls(t) \subseteq Syscalls(s)
           /\ u.key = NoKey => u.op \in Syscalls(s)
           /\ Single(s) => Single(t) /\ (u.key = NoKey => u.op \notin Syscalls(t))
           /\ \A k, p : Guarded(s, k, p) => /\ u.key # k => Guarded(t, k, p)
                                            /\ u.key = NoKey => u.op # p
<1> DEFINE m == Len(s) - 1
           t == SubSeq(s, 1, m)
           u == s[Len(s)]
<1>1. Len(s) \in Nat /\ m \in Nat /\ m \in 0 .. Len(s) /\ Len(s) = m + 1
  OBVIOUS
<1>2. Len(t) = m /\ \A i \in 1 .. m : t[i] = s[i]
  BY <1>1, CutProperties
<1>3. 1 .. m + 1 = 1 .. m \cup {m + 1} /\ m + 1 \notin 1 .. m /\ u = s[m + 1]
  BY <1>1
<1> HIDE DEF t, m, u
<1>4. Syscalls(t) \subseteq Syscalls(s) /\ (u.key = NoKey => u.op \in Syscalls(s))
  BY <1>1, <1>2, <1>3 DEF Syscalls
<1>5. Single(s) => Single(t) /\ (u.key = NoKey => u.op \notin Syscalls(t))
  BY <1>1, <1>2, <1>3 DEF Syscalls, Single
<1>6. ASSUME NEW k, NEW p, Guarded(s, k, p)
      PROVE  (u.key # k => Guarded(t, k, p)) /\ (u.key = NoKey => u.op # p)
  <2>1. ASSUME u.key = NoKey, u.op = p PROVE FALSE
    <3>1. \E j \in (m + 1) + 1 .. m + 1 : s[j].key = k
      BY <1>1, <1>3, <1>6, <2>1 DEF Guarded
    <3> QED
      BY <1>1, <3>1
  <2>2. ASSUME u.key # k, NEW i \in 1 .. m, t[i].key = NoKey, t[i].op = p
        PROVE  \E g \in i + 1 .. m : t[g].key = k
    <3>1. PICK g \in i + 1 .. m + 1 : s[g].key = k
      BY <1>1, <1>2, <1>3, <1>6, <2>2 DEF Guarded
    <3>2. g # m + 1
      BY <1>3, <2>2, <3>1
    <3>3. g \in i + 1 .. m /\ g \in 1 .. m
      BY <1>1, <3>2
    <3> QED
      BY <1>2, <3>1, <3>3
  <2>3. u.key # k => Guarded(t, k, p)
    BY <1>2, <2>2 DEF Guarded
  <2> QED
    BY <2>1, <2>3
<1> QED
  BY <1>4, <1>5, <1>6 DEF t, u, m

-----------------------------------------------------------------------------
(* The syscalls of a task *)

\* Those that n waits for, or is undoing,
Pend(n) == {u.op : u \in br[n].popped} \cup ({br[n].call.op} \ {0})

\* and those on its undo stack.
Mine(n) == Pend(n) \cup Syscalls(br[n].undo)

\* Each of them is in one place.
Apart(n) ==
    /\ Single(br[n].undo)
    /\ Pend(n) \cap Syscalls(br[n].undo) = {}
    /\ br[n].mode = "io" => br[n].call.op # 0

\* No two tasks answer for the same syscall, and none for one whose effect
\* was taken back.
OpsInv ==
    /\ undone \subseteq 1 .. ops
    /\ \A n \in Nodes : Mine(n) \subseteq (1 .. ops) \ undone /\ Apart(n)
    /\ \A a, b \in Nodes : a # b => Mine(a) \cap Mine(b) = {}

\* Syscalls go from a task in G to a task in G, or are new there.
LEMMA OpsFrom ==
    ASSUME StructInv, OpsInv, NEW G \in SUBSET Nodes, ops' \in Nat, ops' >= ops,
           \A m \in Nodes \ G : br'[m] = br[m],
           \A a \in G : Mine(a)' \subseteq (UNION {Mine(g) : g \in G}) \cup ops + 1 .. ops',
           \A a, b \in G : a # b => (Mine(a) \cap Mine(b))' = {},
           undone' \subseteq undone \cup UNION {Mine(g) : g \in G},
           \A a \in G : Mine(a)' \cap (undone' \ undone) = {} /\ Apart(a)'
    PROVE  OpsInv'
<1> DEFINE all == UNION {Mine(g) : g \in G}
           new == ops + 1 .. ops'
<1>1. ops \in Nat
  BY DEF StructInv, TypeOK
<1>2. \A m \in Nodes \ G : Mine(m)' = Mine(m) /\ Apart(m)' = Apart(m)
  BY DEF Mine, Pend, Apart
<1>3. \A m \in Nodes \ G : Mine(m) \cap all = {}
  BY DEF OpsInv
<1>4. \A m \in Nodes : Mine(m) \subseteq (1 .. ops) \ undone /\ Apart(m)
  BY DEF OpsInv
<1>5. all \subseteq (1 .. ops) \ undone
  BY <1>4
<1>6. 1 .. ops \subseteq 1 .. ops' /\ new \subseteq 1 .. ops' /\ new \cap 1 .. ops = {}
  BY <1>1
<1>7. undone \subseteq 1 .. ops
  BY DEF OpsInv
<1>a. \A a \in G : Mine(a)' \subseteq all \cup new /\ Mine(a)' \cap (undone' \ undone) = {}
  OBVIOUS
<1> HIDE DEF new, all
<1>8. undone' \subseteq 1 .. ops'
  BY <1>5, <1>6, <1>7 DEF all
<1>9. ASSUME NEW m \in Nodes PROVE Mine(m)' \subseteq (1 .. ops') \ undone' /\ Apart(m)'
  <2>1. CASE m \in G
    BY <1>5, <1>6, <1>7, <1>a, <2>1
  <2>2. CASE m \notin G
    <3>1. Mine(m)' = Mine(m) /\ Apart(m)'
      BY <1>2, <1>4, <2>2
    <3>2. Mine(m) \cap undone' = {}
      BY <1>3, <1>4, <2>2 DEF all
    <3> QED
      BY <1>4, <1>6, <3>1, <3>2
  <2> QED
    BY <2>1, <2>2
<1>10. ASSUME NEW a \in Nodes, NEW b \in Nodes, a # b
       PROVE  Mine(a)' \cap Mine(b)' = {}
  <2>1. CASE a \in G /\ b \in G
    BY <1>10, <2>1
  <2>2. CASE a \notin G /\ b \notin G
    BY <1>2, <1>10, <2>2 DEF OpsInv
  <2>3. ASSUME NEW c \in G, NEW d \in Nodes \ G PROVE Mine(c)' \cap Mine(d)' = {}
    <3>1. Mine(c)' \subseteq all \cup new /\ Mine(d)' = Mine(d)
      BY <1>2, <1>a
    <3> QED
      BY <1>3, <1>4, <1>6, <3>1
  <2> QED
    BY <2>1, <2>2, <2>3
<1> QED
  BY <1>8, <1>9, <1>10 DEF OpsInv

\* A step of one task.
LEMMA OpsAlone ==
    ASSUME StructInv, OpsInv, NEW n \in Nodes, ops' \in Nat, ops' >= ops,
           \A m \in Nodes \ {n} : br'[m] = br[m],
           Mine(n)' \subseteq Mine(n) \cup ops + 1 .. ops',
           undone' \subseteq undone \cup Mine(n),
           Mine(n)' \cap (undone' \ undone) = {}, Apart(n)'
    PROVE  OpsInv'
<1> DEFINE G == {n}
<1>1. UNION {Mine(g) : g \in G} = Mine(n)
  OBVIOUS
<1>2. G \in SUBSET Nodes /\ n \in G /\ \A m : m \in G => m = n
  OBVIOUS
<1>3. /\ \A m \in Nodes \ G : br'[m] = br[m]
      /\ \A a \in G : Mine(a)' \subseteq (UNION {Mine(g) : g \in G}) \cup ops + 1 .. ops'
      /\ \A a, b \in G : a # b => (Mine(a) \cap Mine(b))' = {}
      /\ undone' \subseteq undone \cup UNION {Mine(g) : g \in G}
      /\ \A a \in G : Mine(a)' \cap (undone' \ undone) = {} /\ Apart(a)'
  BY <1>1
<1> HIDE DEF G
<1> QED
  BY <1>2, <1>3, OpsFrom

\* The stack of undos is what it was, or less of it is left.
LEMMA OpsLess ==
    ASSUME StructInv, OpsInv, NEW n \in Nodes, UNCHANGED <<ops, undone>>,
           \A m \in Nodes \ {n} : br'[m] = br[m],
           br'[n].undo = br[n].undo, br'[n].popped = br[n].popped,
           \/ br'[n].call = br[n].call /\ br'[n].mode # "io"
           \/ br'[n].call = br[n].call /\ br'[n].mode = br[n].mode
           \/ br'[n].call = NoCall /\ br'[n].mode # "io"
    PROVE  OpsInv'
<1>1. ops \in Nat
  BY DEF StructInv, TypeOK
<1>2. Pend(n)' \subseteq Pend(n)
  BY DEF Pend, NoCall
<1>3. Mine(n)' \subseteq Mine(n)
  BY <1>2 DEF Mine
<1>4. Apart(n)'
  BY <1>2 DEF OpsInv, Apart
<1> QED
  BY <1>1, <1>3, <1>4, OpsAlone

LEMMA OpsQuiet ==
    ASSUME StructInv, OpsInv, NEW n \in Nodes,
           \/ Cancel(n) \/ Unwind(n) \/ RollbackDone(n) \/ Fail(n)
           \/ (n = Root /\ Report)
           \/ \E kind \in Kinds, key \in Keys \cup {NoKey} : Enter(n, kind, key)
    PROVE  OpsInv'
<1>1. TypeOK
  BY DEF StructInv
<1>2. UNCHANGED <<ops, undone>>
  BY DEF Cancel, Unwind, RollbackDone, Fail, Report, Enter, history
<1>3. CASE Cancel(n) \/ (n = Root /\ Report)
  <2>1. Becomes(n, br[n].stack, "err", br[n].undo, br[n].call, br[n].popped, br[n].fork)
        \/ Becomes(n, br[n].stack, "run", br[n].undo, br[n].call, br[n].popped, br[n].fork)
    BY <1>1, <1>3, ModeShape DEF Cancel, Report, Modes
  <2> QED
    BY <1>2, <2>1, OpsLess DEF Becomes, Turns
<1>4. CASE Fail(n)
  BY <1>1, <1>2, <1>4, FailShape, OpsLess DEF Becomes, Turns
<1>5. CASE Unwind(n)
  BY <1>1, <1>2, <1>5, UnwindShape, OpsLess DEF Becomes, Turns
<1>6. CASE RollbackDone(n)
  BY <1>1, <1>2, <1>6, RollbackDoneShape, OpsLess DEF Becomes, Turns
<1>7. CASE \E kind \in Kinds, key \in Keys \cup {NoKey} : Enter(n, kind, key)
  BY <1>1, <1>2, <1>7, EnterShape, OpsLess DEF Becomes, Turns
<1> QED
  BY <1>3, <1>4, <1>5, <1>6, <1>7

LEMMA OpsCall ==
    ASSUME StructInv, OpsInv, NEW n \in Nodes, NEW o \in Objects, Call(n, o)
    PROVE  OpsInv'
<1>1. TypeOK /\ ops \in Nat
  BY DEF StructInv, TypeOK
<1>2. ops' = ops + 1 /\ undone' = undone /\ br[n].mode = "run"
  BY DEF Call, history, Ready
<1>3. /\ br'[n].call = [obj |-> o, op |-> ops + 1] /\ br'[n].undo = br[n].undo
      /\ br'[n].popped = br[n].popped /\ \A m \in Nodes \ {n} : br'[m] = br[m]
  BY <1>1, CallShape DEF Becomes, Turns
<1>4. br[n].popped = {} /\ br'[n].call.op = ops + 1
  BY <1>2, <1>3 DEF StructInv, BranchInv, ShapeOf
<1>5. Pend(n)' = {ops + 1} /\ ops + 1 # 0
  BY <1>1, <1>3, <1>4 DEF Pend
<1>6. Mine(n)' \subseteq Mine(n) \cup ops + 1 .. ops'
  BY <1>1, <1>2, <1>3, <1>5 DEF Mine
<1>7. ops + 1 \notin Syscalls(br[n].undo) /\ Apart(n)
  <2>1. Syscalls(br[n].undo) \subseteq 1 .. ops
    BY DEF OpsInv, Mine
  <2> QED
    BY <1>1, <2>1 DEF OpsInv
<1>8. Apart(n)'
  BY <1>3, <1>4, <1>5, <1>7 DEF Apart
<1> QED
  BY <1>1, <1>2, <1>3, <1>6, <1>8, OpsAlone

LEMMA OpsSucceed ==
    ASSUME StructInv, OpsInv, NEW n \in Nodes, Succeed(n)
    PROVE  OpsInv'
<1> DEFINE u == Inverse(br[n].call)
<1>1. TypeOK /\ ops \in Nat /\ br[n].undo \in Seq(Undos)
  BY Fields DEF StructInv, TypeOK
<1>2. UNCHANGED <<ops, undone>> /\ br[n].mode = "io"
  BY DEF Succeed, history, Awaits
<1>3. br[n].call.obj \in Objects /\ br[n].popped = {}
  BY <1>2 DEF StructInv, BranchInv, ShapeOf
<1>4. /\ u \in Undos /\ br'[n].undo = Append(br[n].undo, u) /\ br'[n].mode = "run"
      /\ br'[n].call = NoCall /\ br'[n].popped = br[n].popped
      /\ \A m \in Nodes \ {n} : br'[m] = br[m]
  BY <1>1, <1>3, SucceedShape DEF Becomes, Turns
<1>5. u.key = NoKey /\ u.op = br[n].call.op
  BY DEF Inverse
<1>6. Apart(n) /\ br[n].call.op \in Pend(n) /\ u.op \notin Syscalls(br[n].undo)
  BY <1>2, <1>5 DEF OpsInv, Apart, Pend
<1> HIDE DEF u
<1>7. Pend(n)' = {}
  BY <1>3, <1>4 DEF Pend, NoCall
<1>8. Syscalls(br'[n].undo) = Syscalls(br[n].undo) \cup {u.op} /\ Single(br'[n].undo)
  BY <1>1, <1>4, <1>5, <1>6, PushUndo DEF Apart
<1>9. Mine(n)' \subseteq Mine(n) /\ Apart(n)'
  BY <1>4, <1>5, <1>6, <1>7, <1>8 DEF Mine, Apart
<1> QED
  BY <1>1, <1>2, <1>4, <1>9, OpsAlone

LEMMA OpsReturn ==
    ASSUME StructInv, OpsInv, NEW n \in Nodes, Return(n)
    PROVE  OpsInv'
<1>1. TypeOK /\ ops \in Nat /\ br[n].undo \in Seq(Undos)
  BY Fields DEF StructInv, TypeOK
<1>2. UNCHANGED <<ops, undone>>
  BY DEF Return
<1>3. /\ Depth(n) > 0 /\ br'[n].undo = Returned(n) /\ br'[n].mode = br[n].mode
      /\ br'[n].call = br[n].call /\ br'[n].popped = br[n].popped
      /\ \A m \in Nodes \ {n} : br'[m] = br[m]
  BY <1>1, ReturnShape DEF Becomes, Turns
<1>4. Syscalls(Returned(n)) = Syscalls(br[n].undo)
      /\ (Single(br[n].undo) => Single(Returned(n)))
  <2>1. CASE Top(n).kind = "idem" /\ Len(br[n].undo) > Top(n).mark
    <3>1. Top(n).key \in Keys \cup {NoKey} /\ Top(n).key # NoKey
      <4>1. Depth(n) \in 1 .. Depth(n)
        BY <1>1, <1>3, Fields
      <4> QED
        BY <2>1, <4>1, SentinelAssumption DEF StructInv, BranchInv, MarksOf, Top
    <3>2. Returned(n) = Append(br[n].undo, Revert(Top(n).key))
      BY <2>1 DEF Returned
    <3> QED
      BY <1>1, <3>1, <3>2, RevertTypes, PushUndo
  <2>2. CASE ~(Top(n).kind = "idem" /\ Len(br[n].undo) > Top(n).mark)
    BY <2>2 DEF Returned
  <2> QED
    BY <2>1, <2>2
<1>5. Pend(n)' = Pend(n) /\ Mine(n)' = Mine(n) /\ Apart(n)'
  BY <1>3, <1>4 DEF OpsInv, Pend, Mine, Apart
<1> QED
  BY <1>1, <1>2, <1>3, <1>5, OpsAlone

LEMMA OpsPop ==
    ASSUME StructInv, OpsInv, NEW n \in Nodes, PopUndo(n)
    PROVE  OpsInv'
<1> DEFINE u == br[n].undo[Len(br[n].undo)]
<1>1. TypeOK /\ ops \in Nat /\ br[n].undo \in Seq(Undos)
  BY Fields DEF StructInv, TypeOK
<1>2. UNCHANGED <<ops, undone>> /\ br[n].mode = "rollback" /\ br[n].popped = {}
  BY DEF PopUndo, history, Undoing
<1>3. /\ Len(br[n].undo) # 0
      /\ br'[n].undo = SubSeq(br[n].undo, 1, Len(br[n].undo) - 1)
      /\ br'[n].mode = br[n].mode /\ br'[n].call = br[n].call
      /\ br'[n].popped = IF u.key = NoKey THEN {u} ELSE {}
      /\ \A m \in Nodes \ {n} : br'[m] = br[m]
  BY <1>1, PopUndoShape DEF Becomes, Turns
<1>4. br[n].call.op = 0
  BY <1>2 DEF StructInv, BranchInv, ShapeOf, NoCall
<1> HIDE DEF u
<1>5. Pend(n)' = IF u.key = NoKey THEN {u.op} ELSE {}
  BY <1>3, <1>4 DEF Pend
<1>6. /\ Syscalls(br'[n].undo) \subseteq Syscalls(br[n].undo)
      /\ u.key = NoKey => u.op \in Syscalls(br[n].undo) /\ u.op \notin Syscalls(br'[n].undo)
      /\ Single(br'[n].undo)
  BY <1>1, <1>3, PopUndos DEF OpsInv, Apart, u
<1>7. Mine(n)' \subseteq Mine(n) /\ Apart(n)'
  BY <1>2, <1>3, <1>5, <1>6 DEF Mine, Apart
<1> QED
  BY <1>1, <1>2, <1>3, <1>7, OpsAlone

LEMMA OpsUndo ==
    ASSUME StructInv, OpsInv, NEW n \in Nodes, UndoOk(n) \/ UndoFails(n)
    PROVE  OpsInv'
<1>1. TypeOK /\ ops \in Nat
  BY DEF StructInv, TypeOK
<1>2. ops' = ops /\ br[n].mode = "rollback" /\ undone' \subseteq undone \cup Pend(n)
  BY DEF UndoOk, UndoFails, Undoing, Pend
<1>3. /\ br'[n].undo = br[n].undo /\ br'[n].mode = br[n].mode /\ br'[n].call = br[n].call
      /\ br'[n].popped = {} /\ \A m \in Nodes \ {n} : br'[m] = br[m]
  BY <1>1, UndoOkShape DEF Becomes, Turns
<1>4. Pend(n)' = {}
  BY <1>2, <1>3 DEF StructInv, BranchInv, ShapeOf, NoCall, Pend
<1>5. Mine(n)' = Syscalls(br[n].undo) /\ Apart(n)
  BY <1>3, <1>4 DEF Mine, OpsInv
<1>6. Mine(n)' \subseteq Mine(n) /\ Mine(n)' \cap (undone' \ undone) = {} /\ Apart(n)'
  BY <1>2, <1>3, <1>4, <1>5 DEF Mine, Apart
<1>7. undone' \subseteq undone \cup Mine(n)
  BY <1>2 DEF Mine
<1> QED
  BY <1>1, <1>2, <1>3, <1>6, <1>7, OpsAlone

LEMMA NobodyMine ==
    ASSUME NEW m \in Nodes, br'[m] = Nobody
    PROVE  Mine(m)' = {} /\ Apart(m)'
<1>1. /\ br'[m].undo = << >> /\ br'[m].popped = {} /\ br'[m].call.op = 0
      /\ br'[m].mode = "run"
  BY NobodyTypes DEF NoCall
<1> QED
  BY <1>1, EmptyUndos DEF Mine, Pend, Apart

LEMMA OpsFork ==
    ASSUME StructInv, OpsInv, NEW n \in Nodes, NEW split, Fork(n, split)
    PROVE  OpsInv'
<1> DEFINE l == LeftOf(forks + 1)
           r == RightOf(forks + 1)
           lnames == split[1]
           rnames == split[2]
           token == Token(n, Depth(n) + 1)
           G == {n, l, r}
<1>1. ops \in Nat
  BY DEF StructInv, TypeOK
<1>2. UNCHANGED <<ops, undone>>
  BY DEF Fork, ForkInto, history
<1>3. /\ l \in Nodes /\ r \in Nodes /\ l # r /\ l # n /\ r # n
      /\ \A m \in Nodes \ G : br'[m] = br[m]
      /\ Turns(n, br[n].stack, "forked", br[n].undo, br[n].call, br[n].popped, forks + 1)
      /\ br'[l] = Branch(lnames, token, world) /\ br'[r] = Branch(rnames, token, world)
      /\ br[n].mode = "run"
  BY ForkShape
<1> HIDE DEF l, r, lnames, rnames, token
<1>4. \A c \in {l, r} : /\ br'[c].undo = << >> /\ br'[c].popped = {}
                        /\ br'[c].call.op = 0 /\ br'[c].mode = "run"
  BY <1>3 DEF Branch, NoCall
<1>5. \A c \in {l, r} : Mine(c)' = {} /\ Apart(c)'
  BY <1>4, EmptyUndos DEF Mine, Pend, Apart
<1>6. Mine(n)' = Mine(n) /\ Apart(n)'
  BY <1>3 DEF Mine, Pend, Apart, OpsInv, Turns
<1> HIDE DEF G
<1>7. /\ G \in SUBSET Nodes /\ \A a \in G : a = n \/ a \in {l, r}
      /\ Mine(n) \subseteq UNION {Mine(g) : g \in G}
  BY <1>3 DEF G
<1>8. /\ \A a \in G : Mine(a)' \subseteq (UNION {Mine(g) : g \in G}) \cup ops + 1 .. ops'
      /\ \A a, b \in G : a # b => (Mine(a) \cap Mine(b))' = {}
      /\ \A a \in G : Mine(a)' \cap (undone' \ undone) = {} /\ Apart(a)'
  BY <1>2, <1>5, <1>6, <1>7
<1> QED
  BY <1>1, <1>2, <1>3, <1>7, <1>8, OpsFrom

\* Branches of n are merged or lost.
LEMMA OpsJoins ==
    ASSUME StructInv, OpsInv, NEW n \in Nodes, ops' = ops,
           \A m \in Nodes \ (Children(n) \cup {n}) : br'[m] = br[m],
           Children(n) \subseteq Nodes \ {n},
           NEW K \in SUBSET Children(n),
           Mine(n)' \subseteq Mine(n) \cup UNION {Mine(c) : c \in K}, Apart(n)',
           \A c \in K : Mine(c)' = {} /\ Apart(c)',
           \A c \in Children(n) \ K : br'[c] = br[c] \/ br'[c] = Nobody,
           undone' \subseteq undone \cup Mine(n), Mine(n)' \cap (undone' \ undone) = {}
    PROVE  OpsInv'
<1> DEFINE G == Children(n) \cup {n}
<1>1. ops \in Nat /\ \A m \in Nodes : Apart(m)
  BY DEF StructInv, TypeOK, OpsInv
<1>2. \A c \in Children(n) \ K : Mine(c)' \subseteq Mine(c) /\ Apart(c)'
  <2>1. TAKE c \in Children(n) \ K
  <2>2. CASE br'[c] = br[c]
    BY <1>1, <2>2 DEF Mine, Pend, Apart
  <2>3. CASE br'[c] = Nobody
    BY <2>3, NobodyMine
  <2> QED
    BY <2>2, <2>3
<1>3. \A c \in K : Mine(c)' = {} /\ Apart(c)'
  OBVIOUS
<1>4. \A a, b \in Nodes : a # b => Mine(a) \cap Mine(b) = {}
  BY DEF OpsInv
<1>5. \A c \in Children(n) \ K : Mine(c) \cap UNION {Mine(d) : d \in K} = {}
  BY <1>4
<1>6. G \in SUBSET Nodes /\ n \in G /\ n \notin Children(n) /\ K \subseteq Children(n)
      /\ \A a \in G : a = n \/ a \in K \/ a \in Children(n) \ K
  OBVIOUS
<1>7. UNION {Mine(c) : c \in K} \subseteq UNION {Mine(g) : g \in G}
      /\ Mine(n) \subseteq UNION {Mine(g) : g \in G}
      /\ \A c \in Children(n) : Mine(c) \subseteq UNION {Mine(g) : g \in G}
  OBVIOUS
<1> HIDE DEF G
<1>8. \A a \in G : Mine(a)' \subseteq UNION {Mine(g) : g \in G} /\ Apart(a)'
  BY <1>2, <1>3, <1>6, <1>7
<1>9. \A c \in Children(n) : Mine(n)' \cap Mine(c)' = {}
  <2>1. TAKE c \in Children(n)
  <2>2. CASE c \in K
    BY <1>3, <2>2
  <2>3. CASE c \notin K
    BY <1>2, <1>4, <1>5, <1>6, <2>3
  <2> QED
    BY <2>2, <2>3
<1>10. \A c, d \in Children(n) : c # d => Mine(c)' \cap Mine(d)' = {}
  BY <1>2, <1>3, <1>4
<1>11. \A a, b \in G : a # b => (Mine(a) \cap Mine(b))' = {}
  BY <1>6, <1>9, <1>10
<1>12. \A c \in Children(n) : Mine(c)' \cap (undone' \ undone) = {}
  BY <1>2, <1>3, <1>4, <1>6
<1>13. undone' \subseteq undone \cup UNION {Mine(g) : g \in G}
  BY <1>7
<1>14. \A a \in G : Mine(a)' \cap (undone' \ undone) = {}
  BY <1>6, <1>12
<1>15. \A m \in Nodes \ G : br'[m] = br[m]
  BY DEF G
<1> HIDE DEF G
<1>16. \A a \in G : Mine(a)' \subseteq (UNION {Mine(g) : g \in G}) \cup ops + 1 .. ops'
  BY <1>8
<1> QED
  BY <1>1, <1>6, <1>8, <1>11, <1>13, <1>14, <1>15, <1>16, OpsFrom

LEMMA OpsMergeLeft ==
    ASSUME StructInv, OpsInv, NEW n \in Nodes, JoinLeft(n), status[Right(n)] # "stashed"
    PROVE  OpsInv'
<1>1. TypeOK /\ UNCHANGED <<ops, undone>>
  BY DEF StructInv, JoinLeft, history
<1>a. br[n].fork # 0
  BY MergeLeftShape
<1>b. PICK l \in Nodes : l = Left(n)
  BY <1>a, KidFacts
<1>2. /\ br[n].fork # 0 /\ br[n].mode = "forked" /\ status[l] = "finished"
      /\ \A m \in Nodes \ {n, l} : br'[m] = br[m]
      /\ br'[n].undo = br[n].undo \o br[l].undo /\ br'[n].call = br[n].call
      /\ br'[n].popped = br[n].popped /\ br'[n].mode = br[n].mode
      /\ br'[l].undo = << >> /\ br'[l].call = br[l].call /\ br'[l].popped = br[l].popped
      /\ br'[l].mode = br[l].mode
  BY <1>b, MergeLeftShape DEF Turns
<1>3. l \in Nodes /\ l # n /\ Children(n) \subseteq Nodes \ {n} /\ l \in Children(n)
  BY <1>a, <1>b, KidFacts
<1>4. br[l].popped = {} /\ br[l].call.op = 0 /\ br[l].mode # "io"
  BY <1>2, <1>3 DEF StructInv, BranchInv, ShapeOf, NoCall
<1>5. br[n].undo \in Seq(Undos) /\ br[l].undo \in Seq(Undos)
  BY <1>1, <1>3, Fields
<1>6. Apart(n) /\ Apart(l) /\ Mine(n) \cap Mine(l) = {}
  BY <1>3 DEF OpsInv
<1>7. /\ Syscalls(br'[n].undo) = Syscalls(br[n].undo) \cup Syscalls(br[l].undo)
      /\ Single(br'[n].undo)
  BY <1>2, <1>5, <1>6, JoinUndos DEF Apart, Mine
<1>8. Mine(n)' \subseteq Mine(n) \cup Mine(l) /\ Apart(n)'
  <2>1. Pend(n)' = Pend(n)
    BY <1>2 DEF Pend
  <2> QED
    BY <1>2, <1>6, <1>7, <2>1 DEF Mine, Apart
<1>9. Mine(l)' = {} /\ Apart(l)'
  BY <1>2, <1>4, EmptyUndos DEF Mine, Pend, Apart
<1> DEFINE K == {l}
<1>10. /\ K \in SUBSET Children(n) /\ \A c \in K : Mine(c)' = {} /\ Apart(c)'
       /\ Mine(n)' \subseteq Mine(n) \cup UNION {Mine(c) : c \in K}
  BY <1>3, <1>8, <1>9
<1>11. \A m \in Nodes \ (Children(n) \cup {n}) : br'[m] = br[m]
  BY <1>2, <1>3
<1>12. /\ \A c \in Children(n) \ K : br'[c] = br[c]
       /\ Mine(n)' \cap (undone' \ undone) = {} /\ ops' = ops
       /\ undone' \subseteq undone \cup Mine(n)
  BY <1>1, <1>2, <1>3
<1> HIDE DEF K
<1> QED
  BY <1>3, <1>8, <1>10, <1>11, <1>12, OpsJoins

LEMMA OpsComplete ==
    ASSUME StructInv, OpsInv, NEW n \in Nodes, Completes(n)
    PROVE  OpsInv'
<1> DEFINE l == Left(n)
           r == Right(n)
<1>1. TypeOK /\ UNCHANGED <<ops, undone>>
  <2>1. CASE JoinLeft(n)
    BY <2>1 DEF StructInv, JoinLeft, history
  <2>2. CASE JoinRight(n)
    BY <2>2 DEF StructInv, JoinRight, history
  <2> QED
    BY <2>1, <2>2 DEF Completes
<1>2. /\ br[n].fork # 0 /\ br[n].mode = "forked"
      /\ \A m \in Nodes \ {n, l, r} : br'[m] = br[m]
      /\ br'[n].undo = (br[n].undo \o br[l].undo) \o br[r].undo
      /\ br'[n].call = br[n].call
      /\ br'[n].popped = br[n].popped /\ br'[n].mode \in {"run", "err"}
      /\ br'[l] = Nobody /\ br'[r] = Nobody
  BY CompleteShape DEF Turns
<1>3. /\ l \in Nodes /\ r \in Nodes /\ l # r /\ Children(n) \subseteq Nodes \ {n}
      /\ Children(n) = {l, r}
  BY <1>2, KidFacts
<1>4. br[n].popped = {} /\ br[n].call.op = 0
  BY <1>2, <1>3 DEF StructInv, BranchInv, ShapeOf, NoCall
<1> HIDE DEF l, r
<1>5. br[n].undo \in Seq(Undos) /\ br[l].undo \in Seq(Undos) /\ br[r].undo \in Seq(Undos)
      /\ br[n].undo \o br[l].undo \in Seq(Undos)
  BY <1>1, <1>3, Fields, JoinProperties
<1>6. /\ Apart(n) /\ Apart(l) /\ Apart(r) /\ Mine(n) \cap Mine(l) = {}
      /\ Mine(n) \cap Mine(r) = {} /\ Mine(l) \cap Mine(r) = {}
  BY <1>3 DEF OpsInv
<1>7. /\ Syscalls(br[n].undo \o br[l].undo) = Syscalls(br[n].undo) \cup Syscalls(br[l].undo)
      /\ Single(br[n].undo \o br[l].undo)
  BY <1>2, <1>5, <1>6, JoinUndos DEF Apart, Mine
<1>8. /\ Syscalls(br'[n].undo) = (Syscalls(br[n].undo) \cup Syscalls(br[l].undo))
                                    \cup Syscalls(br[r].undo)
      /\ Single(br'[n].undo)
  BY <1>2, <1>5, <1>6, <1>7, JoinUndos DEF Apart, Mine
<1>9. Mine(n)' \subseteq Mine(n) \cup (Mine(l) \cup Mine(r)) /\ Apart(n)'
  <2>1. Pend(n)' = {}
    BY <1>2, <1>4 DEF Pend
  <2> QED
    BY <1>2, <1>6, <1>8, <2>1 DEF Mine, Apart
<1>10. \A c \in {l, r} : Mine(c)' = {} /\ Apart(c)'
  BY <1>2, <1>3, NobodyMine
<1>11. UNION {Mine(c) : c \in {l, r}} = Mine(l) \cup Mine(r)
  OBVIOUS
<1>12. /\ Mine(n)' \subseteq Mine(n) \cup UNION {Mine(c) : c \in Children(n)}
       /\ \A c \in Children(n) : Mine(c)' = {} /\ Apart(c)'
       /\ \A m \in Nodes \ (Children(n) \cup {n}) : br'[m] = br[m]
  BY <1>2, <1>3, <1>9, <1>10, <1>11
<1> QED
  BY <1>1, <1>3, <1>9, <1>12, OpsJoins

\* What is kept of a Fork that is dropped.
LEMMA KeptCases ==
    ASSUME StructInv, NEW n \in Nodes
    PROVE  \/ Kept(n) = br[n].undo
           \/ /\ Children(n) = {Left(n), Right(n)} /\ br[n].fork # 0
              /\ status[Right(n)] = "stashed"
              /\ Kept(n) = br[n].undo \o br[Right(n)].undo
<1>1. ASSUME \E c \in Children(n) : status[c] = "stashed"
      PROVE  Children(n) = {Left(n), Right(n)} /\ br[n].fork # 0
             /\ status[Right(n)] = "stashed"
  <2>1. br[n].fork # 0 /\ Children(n) = {Left(n), Right(n)}
    BY <1>1, NoKids, KidFacts
  <2>2. status[Left(n)] # "stashed"
    BY <2>1 DEF StructInv, TreeInv
  <2> QED
    BY <1>1, <2>1, <2>2
<1> QED
  BY <1>1 DEF Kept

LEMMA OpsGrace ==
    ASSUME StructInv, OpsInv, NEW n \in Nodes, NEW t \in DOMAIN br[n].stack, GraceEnds(n, t)
    PROVE  OpsInv'
<1>1. TypeOK /\ ops' = ops /\ undone' \subseteq undone \cup Pend(n)
  BY DEF StructInv, GraceEnds, Pend
<1>2. /\ Children(n) \subseteq Nodes \ {n}
      /\ \A m \in Nodes \ (Children(n) \cup {n}) : br'[m] = br[m]
      /\ br'[n].undo = Kept(n) /\ br'[n].call = NoCall /\ br'[n].popped = {}
      /\ br'[n].mode = "rollback"
      /\ \A c \in Children(n) : br'[c] = br[c] \/ br'[c] = Nobody
      /\ \A c \in Children(n) : status[c] # "running" => br'[c] = Nobody
  BY GraceShape DEF Turns
<1>3. Pend(n)' = {}
  BY <1>2 DEF Pend, NoCall
<1>4. Apart(n) /\ undone' \subseteq undone \cup Mine(n)
  BY <1>1 DEF OpsInv, Mine
<1>5. CASE Kept(n) = br[n].undo
  <2>1. Mine(n)' \subseteq Mine(n) /\ Mine(n)' \cap (undone' \ undone) = {} /\ Apart(n)'
    BY <1>1, <1>2, <1>3, <1>4, <1>5 DEF Mine, Apart
  <2>2. {} \subseteq Children(n)
    OBVIOUS
  <2> QED
    BY <1>1, <1>2, <1>4, <2>1, <2>2, OpsJoins
<1>6. CASE /\ Children(n) = {Left(n), Right(n)} /\ br[n].fork # 0
           /\ status[Right(n)] = "stashed" /\ Kept(n) = br[n].undo \o br[Right(n)].undo
  <2>r. PICK r \in Nodes : r = Right(n)
    BY <1>6, KidFacts
  <2>1. r # n /\ r \in Children(n) /\ br'[r] = Nobody /\ Kept(n) = br[n].undo \o br[r].undo
    BY <1>2, <1>6, <2>r, KidFacts
  <2>2. br[n].undo \in Seq(Undos) /\ br[r].undo \in Seq(Undos)
    BY <1>1, <2>1, Fields
  <2>3. Apart(r) /\ Mine(n) \cap Mine(r) = {}
    BY <2>1 DEF OpsInv
  <2>4. /\ Syscalls(br'[n].undo) = Syscalls(br[n].undo) \cup Syscalls(br[r].undo)
        /\ Single(br'[n].undo)
    BY <1>2, <1>4, <2>1, <2>2, <2>3, JoinUndos DEF Apart, Mine
  <2>5. /\ Mine(n)' \subseteq Mine(n) \cup Mine(r) /\ Apart(n)'
        /\ Mine(n)' \cap (undone' \ undone) = {}
    BY <1>1, <1>2, <1>3, <1>4, <2>3, <2>4 DEF Mine, Apart
  <2> DEFINE K == {r}
  <2>6. /\ K \in SUBSET Children(n) /\ \A c \in K : Mine(c)' = {} /\ Apart(c)'
        /\ Mine(n)' \subseteq Mine(n) \cup UNION {Mine(c) : c \in K}
    BY <2>1, <2>5, NobodyMine
  <2> HIDE DEF K
  <2> QED
    BY <1>1, <1>2, <1>4, <2>5, <2>6, OpsJoins
<1> QED
  BY <1>5, <1>6, KeptCases

LEMMA OpsFinish ==
    ASSUME StructInv, OpsInv, NEW n \in Nodes, Finish(n)
    PROVE  OpsInv'
<1>1. TypeOK /\ ops \in Nat /\ UNCHANGED <<ops, undone>>
  BY DEF StructInv, TypeOK, Finish, history
<1>2. br' = br \/ br' = [br EXCEPT ![n] = Nobody]
  BY FinishShape
<1>3. CASE br' = br
  BY <1>1, <1>3 DEF OpsInv, Mine, Pend, Apart
<1>4. CASE br' = [br EXCEPT ![n] = Nobody]
  <2>1. br'[n] = Nobody /\ \A m \in Nodes \ {n} : br'[m] = br[m]
    BY <1>1, <1>4 DEF TypeOK
  <2> QED
    BY <1>1, <2>1, NobodyMine, OpsAlone
<1> QED
  BY <1>2, <1>3, <1>4

LEMMA OpsSame ==
    ASSUME OpsInv, UNCHANGED <<br, ops, undone>>
    PROVE  OpsInv'
  BY DEF OpsInv, Mine, Pend, Apart

LEMMA InitOps == Init => OpsInv
<1> SUFFICES ASSUME Init PROVE OpsInv
  OBVIOUS
<1>1. ASSUME NEW n \in Nodes
      PROVE  br[n].undo = << >> /\ br[n].popped = {} /\ br[n].call.op = 0 /\ br[n].mode = "run"
  <2>1. br[n] = Branch(Objects \cup Keys, 0, Blank) \/ br[n] = Nobody
    BY DEF Init
  <2> QED
    BY <2>1 DEF Nobody, Branch, NoCall
<1>2. \A n \in Nodes : Mine(n) = {} /\ Apart(n)
  BY <1>1, EmptyUndos DEF Mine, Pend, Apart
<1> QED
  BY <1>2 DEF Init, OpsInv

LEMMA OpsStep == StructInv /\ OpsInv /\ [Next]_vars => OpsInv'
<1> SUFFICES ASSUME StructInv, OpsInv, [Next]_vars PROVE OpsInv'
  OBVIOUS
<1>1. CASE UNCHANGED vars
  BY <1>1, OpsSame DEF vars
<1>2. CASE Report
  BY <1>2, OpsQuiet, NodeFacts
<1>3. ASSUME NEW n \in Nodes,
             \/ Cancel(n) \/ Unwind(n) \/ Stash(n) \/ RollbackDone(n) \/ Fail(n)
             \/ \E o \in Objects : Call(n, o)
             \/ \E kind \in Kinds, key \in Keys \cup {NoKey} : Enter(n, kind, key)
             \/ Succeed(n) \/ Return(n) \/ PopUndo(n) \/ UndoOk(n) \/ UndoFails(n)
             \/ AnyFork(n) \/ Finish(n) \/ JoinLeft(n) \/ JoinRight(n)
             \/ \E t \in DOMAIN br[n].stack : Fire(n, t) \/ GraceEnds(n, t)
      PROVE  OpsInv'
  <2>1. CASE Stash(n) \/ \E t \in DOMAIN br[n].stack : Fire(n, t)
    BY <2>1, OpsSame DEF Stash, Fire, history
  <2>2. CASE JoinLeft(n) \/ JoinRight(n)
    BY <2>2, OpsMergeLeft, OpsComplete DEF Completes
  <2> QED
    BY <1>3, <2>1, <2>2, OpsQuiet, OpsCall, OpsSucceed, OpsReturn, OpsPop, OpsUndo,
       OpsFork, OpsFinish, OpsGrace DEF AnyFork
<1> QED
  BY <1>1, <1>2, <1>3, Steps

-----------------------------------------------------------------------------
(* CommittedStands *)

\* The effect of syscall p stands, and cannot be taken back before k is reverted.
Stands(k, p) ==
    /\ p \in (1 .. ops) \ undone
    /\ \A n \in Nodes : p \notin Pend(n) /\ Guarded(br[n].undo, k, p)

CommitInv ==
    \A k \in Keys : idem[k] = "committed" =>
        \E run \in done[k] : \A effect \in run : Stands(k, effect[2])

\* A step of one task, whose undos are pushed or popped above those of k.
LEMMA StandsAlone ==
    ASSUME StructInv, NEW k, NEW p, Stands(k, p), NEW n \in Nodes,
           ops' \in Nat, ops' >= ops, undone' \subseteq undone \cup Pend(n),
           \A m \in Nodes \ {n} : br'[m] = br[m],
           p \notin Pend(n)', Guarded(br'[n].undo, k, p)
    PROVE  Stands(k, p)'
<1>1. ops \in Nat
  BY DEF StructInv, TypeOK
<1>2. p \in 1 .. ops' /\ p \notin undone'
  BY <1>1 DEF Stands
<1>3. \A m \in Nodes : p \notin Pend(m)' /\ Guarded(br'[m].undo, k, p)
  <2>1. TAKE m \in Nodes
  <2>2. CASE m = n
    BY <2>2
  <2>3. CASE m # n
    BY <2>3 DEF Stands, Pend
  <2> QED
    BY <2>2, <2>3
<1> QED
  BY <1>2, <1>3 DEF Stands

LEMMA StandsQuiet ==
    ASSUME StructInv, NEW k, NEW p, Stands(k, p), NEW n \in Nodes,
           \/ Cancel(n) \/ Unwind(n) \/ RollbackDone(n) \/ Fail(n)
           \/ (n = Root /\ Report)
           \/ \E kind \in Kinds, key \in Keys \cup {NoKey} : Enter(n, kind, key)
    PROVE  Stands(k, p)'
<1>1. TypeOK /\ ops \in Nat
  BY DEF StructInv, TypeOK
<1>2. UNCHANGED <<ops, undone>>
  BY DEF Cancel, Unwind, RollbackDone, Fail, Report, Enter, history
<1>3. /\ br'[n].undo = br[n].undo /\ br'[n].popped = br[n].popped
      /\ br'[n].call = br[n].call \/ br'[n].call = NoCall
      /\ \A m \in Nodes \ {n} : br'[m] = br[m]
  <2>1. CASE Cancel(n) \/ (n = Root /\ Report)
    <3>1. \E mode \in Modes :
            Becomes(n, br[n].stack, mode, br[n].undo, br[n].call, br[n].popped, br[n].fork)
      BY <1>1, <2>1, ModeShape DEF Cancel, Report, Modes
    <3> QED
      BY <3>1 DEF Becomes, Turns
  <2>2. CASE Fail(n)
    BY <1>1, <2>2, FailShape DEF Becomes, Turns
  <2>3. CASE Unwind(n)
    BY <1>1, <2>3, UnwindShape DEF Becomes, Turns
  <2>4. CASE RollbackDone(n)
    BY <1>1, <2>4, RollbackDoneShape DEF Becomes, Turns
  <2>5. CASE \E kind \in Kinds, key \in Keys \cup {NoKey} : Enter(n, kind, key)
    BY <1>1, <2>5, EnterShape DEF Becomes, Turns
  <2> QED
    BY <2>1, <2>2, <2>3, <2>4, <2>5
<1>4. p \notin Pend(n) /\ Guarded(br[n].undo, k, p)
  BY DEF Stands
<1>5. Pend(n)' \subseteq Pend(n)
  BY <1>3 DEF Pend, NoCall
<1> QED
  BY <1>1, <1>2, <1>3, <1>4, <1>5, StandsAlone

LEMMA StandsCall ==
    ASSUME StructInv, NEW k, NEW p, Stands(k, p), NEW n \in Nodes,
           NEW o \in Objects, Call(n, o)
    PROVE  Stands(k, p)'
<1>1. TypeOK /\ ops \in Nat
  BY DEF StructInv, TypeOK
<1>2. ops' = ops + 1 /\ undone' = undone
  BY DEF Call, history
<1>3. /\ br'[n].call = [obj |-> o, op |-> ops + 1] /\ br'[n].undo = br[n].undo
      /\ br'[n].popped = br[n].popped /\ \A m \in Nodes \ {n} : br'[m] = br[m]
  BY <1>1, CallShape DEF Becomes, Turns
<1>4. p \in 1 .. ops /\ p \notin Pend(n) /\ Guarded(br[n].undo, k, p)
  BY DEF Stands
<1>5. p # ops + 1
  BY <1>1, <1>4
<1>6. p \notin Pend(n)'
  BY <1>3, <1>4, <1>5 DEF Pend
<1> QED
  BY <1>1, <1>2, <1>3, <1>4, <1>6, StandsAlone

LEMMA StandsSucceed ==
    ASSUME StructInv, OpsInv, NEW k, NEW p, Stands(k, p), NEW n \in Nodes, Succeed(n)
    PROVE  Stands(k, p)'
<1> DEFINE u == Inverse(br[n].call)
<1>1. TypeOK /\ ops \in Nat /\ br[n].undo \in Seq(Undos)
  BY Fields DEF StructInv, TypeOK
<1>2. UNCHANGED <<ops, undone>> /\ br[n].mode = "io"
  BY DEF Succeed, history, Awaits
<1>3. br[n].call.obj \in Objects
  BY <1>2 DEF StructInv, BranchInv, ShapeOf
<1>4. /\ u \in Undos /\ br'[n].undo = Append(br[n].undo, u)
      /\ br'[n].call = NoCall /\ br'[n].popped = br[n].popped
      /\ \A m \in Nodes \ {n} : br'[m] = br[m]
  BY <1>1, <1>3, SucceedShape DEF Becomes, Turns
<1>5. u.op = br[n].call.op /\ br[n].call.op \in Pend(n)
  BY <1>2 DEF Inverse, OpsInv, Apart, Pend
<1> HIDE DEF u
<1>6. p \notin Pend(n) /\ Guarded(br[n].undo, k, p)
  BY DEF Stands
<1>7. Pend(n)' \subseteq Pend(n)
  BY <1>4 DEF Pend, NoCall
<1>8. Guarded(br'[n].undo, k, p)
  BY <1>1, <1>4, <1>5, <1>6, PushUndo
<1>9. ops' >= ops /\ ops' \in Nat /\ undone' \subseteq undone \cup Pend(n) /\ p \notin Pend(n)'
  BY <1>1, <1>2, <1>6, <1>7
<1> QED
  BY <1>4, <1>8, <1>9, StandsAlone

LEMMA StandsReturn ==
    ASSUME StructInv, NEW k, NEW p, Stands(k, p), NEW n \in Nodes, Return(n)
    PROVE  Stands(k, p)'
<1>1. TypeOK /\ ops \in Nat /\ br[n].undo \in Seq(Undos)
  BY Fields DEF StructInv, TypeOK
<1>2. UNCHANGED <<ops, undone>>
  BY DEF Return
<1>3. /\ Depth(n) > 0 /\ br'[n].undo = Returned(n)
      /\ br'[n].call = br[n].call /\ br'[n].popped = br[n].popped
      /\ \A m \in Nodes \ {n} : br'[m] = br[m]
  BY <1>1, ReturnShape DEF Becomes, Turns
<1>4. p \notin Pend(n) /\ Guarded(br[n].undo, k, p)
  BY DEF Stands
<1>5. Guarded(Returned(n), k, p)
  <2>1. CASE Top(n).kind = "idem" /\ Len(br[n].undo) > Top(n).mark
    <3>1. Top(n).key \in Keys \cup {NoKey} /\ Top(n).key # NoKey
      <4>1. Depth(n) \in 1 .. Depth(n)
        BY <1>1, <1>3, Fields
      <4> QED
        BY <2>1, <4>1, SentinelAssumption DEF StructInv, BranchInv, MarksOf, Top
    <3>2. Returned(n) = Append(br[n].undo, Revert(Top(n).key))
      BY <2>1 DEF Returned
    <3> QED
      BY <1>1, <1>4, <3>1, <3>2, RevertTypes, PushUndo
  <2>2. CASE ~(Top(n).kind = "idem" /\ Len(br[n].undo) > Top(n).mark)
    BY <1>4, <2>2 DEF Returned
  <2> QED
    BY <2>1, <2>2
<1>6. Pend(n)' = Pend(n)
  BY <1>3 DEF Pend
<1> QED
  BY <1>1, <1>2, <1>3, <1>4, <1>5, <1>6, StandsAlone

LEMMA StandsPop ==
    ASSUME StructInv, NEW k, NEW p, Stands(k, p), NEW n \in Nodes, PopUndo(n),
           br[n].undo[Len(br[n].undo)].key # k
    PROVE  Stands(k, p)'
<1> DEFINE u == br[n].undo[Len(br[n].undo)]
<1>1. TypeOK /\ ops \in Nat /\ br[n].undo \in Seq(Undos)
  BY Fields DEF StructInv, TypeOK
<1>2. UNCHANGED <<ops, undone>>
  BY DEF PopUndo, history
<1>3. /\ Len(br[n].undo) # 0 /\ br'[n].call = br[n].call
      /\ br'[n].undo = SubSeq(br[n].undo, 1, Len(br[n].undo) - 1)
      /\ br'[n].popped = IF u.key = NoKey THEN {u} ELSE {}
      /\ \A m \in Nodes \ {n} : br'[m] = br[m]
  BY <1>1, PopUndoShape DEF Becomes, Turns
<1>4. p \notin Pend(n) /\ Guarded(br[n].undo, k, p)
  BY DEF Stands
<1>5. Guarded(br'[n].undo, k, p) /\ (u.key = NoKey => u.op # p)
  BY <1>1, <1>3, <1>4, PopUndos
<1> HIDE DEF u
<1>6. p \notin Pend(n)'
  BY <1>3, <1>4, <1>5 DEF Pend
<1>7. ops' >= ops /\ ops' \in Nat /\ undone' \subseteq undone \cup Pend(n)
  BY <1>1, <1>2
<1> QED
  BY <1>3, <1>5, <1>6, <1>7, StandsAlone

LEMMA StandsUndo ==
    ASSUME StructInv, NEW k, NEW p, Stands(k, p), NEW n \in Nodes,
           UndoOk(n) \/ UndoFails(n)
    PROVE  Stands(k, p)'
<1>1. TypeOK /\ ops \in Nat
  BY DEF StructInv, TypeOK
<1>2. ops' = ops /\ undone' \subseteq undone \cup Pend(n)
  BY DEF UndoOk, UndoFails, Pend
<1>3. /\ br'[n].undo = br[n].undo /\ br'[n].call = br[n].call
      /\ br'[n].popped = {} /\ \A m \in Nodes \ {n} : br'[m] = br[m]
  BY <1>1, UndoOkShape DEF Becomes, Turns
<1>4. p \notin Pend(n) /\ Guarded(br[n].undo, k, p)
  BY DEF Stands
<1>5. Pend(n)' \subseteq Pend(n)
  BY <1>3 DEF Pend
<1> QED
  BY <1>1, <1>2, <1>3, <1>4, <1>5, StandsAlone

LEMMA StandsNobody ==
    ASSUME NEW k, NEW p, p # 0, NEW m \in Nodes, br'[m] = Nobody
    PROVE  p \notin Pend(m)' /\ Guarded(br'[m].undo, k, p)
<1>1. br'[m].undo = << >> /\ br'[m].popped = {} /\ br'[m].call.op = 0
  BY NobodyTypes DEF NoCall
<1> QED
  BY <1>1, EmptyUndos DEF Pend

LEMMA StandsTasks ==
    ASSUME StructInv, NEW k, NEW p, Stands(k, p), ops' = ops,
           NEW n \in Nodes, undone' \subseteq undone \cup Pend(n),
           \A m \in Nodes : p \notin Pend(m)' /\ Guarded(br'[m].undo, k, p)
    PROVE  Stands(k, p)'
  BY DEF Stands

LEMMA StandsFork ==
    ASSUME StructInv, NEW k, NEW p, Stands(k, p), NEW n \in Nodes, NEW split, Fork(n, split)
    PROVE  Stands(k, p)'
<1> DEFINE l == LeftOf(forks + 1)
           r == RightOf(forks + 1)
           lnames == split[1]
           rnames == split[2]
           token == Token(n, Depth(n) + 1)
<1>1. UNCHANGED <<ops, undone>>
  BY DEF Fork, ForkInto, history
<1>2. /\ \A m \in Nodes \ {n, l, r} : br'[m] = br[m]
      /\ Turns(n, br[n].stack, "forked", br[n].undo, br[n].call, br[n].popped, forks + 1)
      /\ br'[l] = Branch(lnames, token, world) /\ br'[r] = Branch(rnames, token, world)
  BY ForkShape
<1> HIDE DEF l, r, lnames, rnames, token
<1>3. \A c \in {l, r} : br'[c].undo = << >> /\ br'[c].popped = {} /\ br'[c].call.op = 0
  BY <1>2 DEF Branch, NoCall
<1>4. \A m \in Nodes : p \notin Pend(m) /\ Guarded(br[m].undo, k, p)
  BY DEF Stands
<1>5. ASSUME NEW m \in Nodes PROVE p \notin Pend(m)' /\ Guarded(br'[m].undo, k, p)
  <2>1. CASE m \in {l, r}
    BY <1>3, <2>1, EmptyUndos DEF Pend
  <2>2. CASE m \notin {l, r}
    <3>1. /\ br'[m].undo = br[m].undo /\ br'[m].popped = br[m].popped
          /\ br'[m].call = br[m].call
      BY <1>2, <2>2 DEF Turns
    <3> QED
      BY <1>4, <3>1 DEF Pend
  <2> QED
    BY <2>1, <2>2
<1> QED
  BY <1>1, <1>5, StandsTasks

LEMMA StandsMergeLeft ==
    ASSUME StructInv, NEW k, NEW p, Stands(k, p), NEW n \in Nodes, JoinLeft(n),
           status[Right(n)] # "stashed"
    PROVE  Stands(k, p)'
<1>1. TypeOK /\ UNCHANGED <<ops, undone>>
  BY DEF StructInv, JoinLeft, history
<1>a. br[n].fork # 0
  BY MergeLeftShape
<1>b. PICK l \in Nodes : l = Left(n)
  BY <1>a, KidFacts
<1>2. /\ \A m \in Nodes \ {n, l} : br'[m] = br[m]
      /\ br'[n].undo = br[n].undo \o br[l].undo /\ br'[n].call = br[n].call
      /\ br'[n].popped = br[n].popped
      /\ br'[l].undo = << >> /\ br'[l].call = br[l].call /\ br'[l].popped = br[l].popped
  BY <1>b, MergeLeftShape DEF Turns
<1>3. br[n].undo \in Seq(Undos) /\ br[l].undo \in Seq(Undos)
  BY <1>1, Fields
<1>4. \A m \in Nodes : p \notin Pend(m) /\ Guarded(br[m].undo, k, p)
  BY DEF Stands
<1>5. Guarded(br'[n].undo, k, p) /\ Guarded(br'[l].undo, k, p)
  BY <1>2, <1>3, <1>4, JoinUndos, EmptyUndos
<1>6. ASSUME NEW m \in Nodes PROVE p \notin Pend(m)' /\ Guarded(br'[m].undo, k, p)
  <2>1. br'[m].popped = br[m].popped /\ br'[m].call = br[m].call
    BY <1>2
  <2>2. p \notin Pend(m)'
    BY <1>4, <2>1 DEF Pend
  <2> QED
    BY <1>2, <1>4, <1>5, <2>2
<1> QED
  BY <1>1, <1>6, StandsTasks

LEMMA StandsComplete ==
    ASSUME StructInv, NEW k, NEW p, Stands(k, p), NEW n \in Nodes, Completes(n)
    PROVE  Stands(k, p)'
<1> DEFINE l == Left(n)
           r == Right(n)
<1>1. TypeOK /\ UNCHANGED <<ops, undone>>
  <2>1. CASE JoinLeft(n)
    BY <2>1 DEF StructInv, JoinLeft, history
  <2>2. CASE JoinRight(n)
    BY <2>2 DEF StructInv, JoinRight, history
  <2> QED
    BY <2>1, <2>2 DEF Completes
<1>2. /\ br[n].fork # 0 /\ \A m \in Nodes \ {n, l, r} : br'[m] = br[m]
      /\ br'[n].undo = (br[n].undo \o br[l].undo) \o br[r].undo
      /\ br'[n].call = br[n].call /\ br'[n].popped = br[n].popped
      /\ br'[l] = Nobody /\ br'[r] = Nobody
  BY CompleteShape DEF Turns
<1>3. l \in Nodes /\ r \in Nodes
  BY <1>2, KidFacts
<1> HIDE DEF l, r
<1>4. br[n].undo \in Seq(Undos) /\ br[l].undo \in Seq(Undos) /\ br[r].undo \in Seq(Undos)
      /\ br[n].undo \o br[l].undo \in Seq(Undos)
  BY <1>1, <1>3, Fields, JoinProperties
<1>5. p # 0 /\ \A m \in Nodes : p \notin Pend(m) /\ Guarded(br[m].undo, k, p)
  BY DEF Stands
<1>6. Guarded(br[n].undo \o br[l].undo, k, p)
  BY <1>3, <1>4, <1>5, JoinUndos
<1>7. Guarded(br'[n].undo, k, p)
  <2>1. Guarded(br[r].undo, k, p)
    BY <1>3, <1>5
  <2>2. Guarded((br[n].undo \o br[l].undo) \o br[r].undo, k, p)
    BY <1>4, <1>6, <2>1, JoinUndos
  <2> QED
    BY <1>2, <2>2
<1>8. ASSUME NEW m \in Nodes PROVE p \notin Pend(m)' /\ Guarded(br'[m].undo, k, p)
  <2>1. CASE m \in {l, r}
    BY <1>2, <1>5, <2>1, StandsNobody
  <2>2. CASE m \notin {l, r}
    <3>1. br'[m].popped = br[m].popped /\ br'[m].call = br[m].call
      BY <1>2, <2>2
    <3>2. p \notin Pend(m)'
      BY <1>5, <3>1 DEF Pend
    <3> QED
      BY <1>2, <1>5, <1>7, <2>2, <3>2
  <2> QED
    BY <2>1, <2>2
<1> QED
  BY <1>1, <1>8, StandsTasks

LEMMA StandsGrace ==
    ASSUME StructInv, NEW k, NEW p, Stands(k, p), NEW n \in Nodes,
           NEW t \in DOMAIN br[n].stack, GraceEnds(n, t)
    PROVE  Stands(k, p)'
<1>1. TypeOK /\ ops' = ops /\ undone' \subseteq undone \cup Pend(n)
  BY DEF StructInv, GraceEnds, Pend
<1>2. /\ \A m \in Nodes \ (Children(n) \cup {n}) : br'[m] = br[m]
      /\ br'[n].undo = Kept(n) /\ br'[n].call = NoCall /\ br'[n].popped = {}
      /\ \A c \in Children(n) : br'[c] = br[c] \/ br'[c] = Nobody
  BY GraceShape DEF Turns
<1>3. p # 0 /\ \A m \in Nodes : p \notin Pend(m) /\ Guarded(br[m].undo, k, p)
  BY DEF Stands
<1>4. p \notin Pend(n)'
  BY <1>2, <1>3 DEF Pend, NoCall
<1>5. Guarded(br'[n].undo, k, p)
  <2>1. CASE Kept(n) = br[n].undo
    BY <1>2, <1>3, <2>1
  <2>2. CASE br[n].fork # 0 /\ Kept(n) = br[n].undo \o br[Right(n)].undo
    <3>1. PICK r \in Nodes : r = Right(n)
      BY <2>2, KidFacts
    <3>2. br[n].undo \in Seq(Undos) /\ br[r].undo \in Seq(Undos)
      BY <1>1, Fields
    <3> QED
      BY <1>2, <1>3, <2>2, <3>1, <3>2, JoinUndos
  <2> QED
    BY <2>1, <2>2, KeptCases
<1>6. ASSUME NEW m \in Nodes PROVE p \notin Pend(m)' /\ Guarded(br'[m].undo, k, p)
  <2>1. CASE m = n
    BY <1>4, <1>5, <2>1
  <2>2. CASE m # n /\ br'[m] = br[m]
    BY <1>3, <2>2 DEF Pend
  <2>3. CASE br'[m] = Nobody
    BY <1>3, <2>3, StandsNobody
  <2> QED
    BY <1>2, <2>1, <2>2, <2>3
<1> QED
  BY <1>1, <1>6, StandsTasks

LEMMA StandsFinish ==
    ASSUME StructInv, NEW k, NEW p, Stands(k, p), NEW n \in Nodes, Finish(n)
    PROVE  Stands(k, p)'
<1>1. TypeOK /\ UNCHANGED <<ops, undone>>
  BY DEF StructInv, Finish, history
<1>2. br' = br \/ br' = [br EXCEPT ![n] = Nobody]
  BY FinishShape
<1>3. p # 0 /\ \A m \in Nodes : p \notin Pend(m) /\ Guarded(br[m].undo, k, p)
  BY DEF Stands
<1>4. ASSUME NEW m \in Nodes PROVE p \notin Pend(m)' /\ Guarded(br'[m].undo, k, p)
  <2>1. br'[m] = br[m] \/ br'[m] = Nobody
    BY <1>1, <1>2 DEF TypeOK
  <2>2. CASE br'[m] = br[m]
    BY <1>3, <2>2 DEF Pend
  <2>3. CASE br'[m] = Nobody
    BY <1>3, <2>3, StandsNobody
  <2> QED
    BY <2>1, <2>2, <2>3
<1> QED
  BY <1>1, <1>4, StandsTasks

\* What stands for a key stands until the key is reverted.
LEMMA StandsStep ==
    ASSUME StructInv, OpsInv, [Next]_vars, NEW k \in Keys, NEW p, Stands(k, p),
           idem'[k] = "committed"
    PROVE  Stands(k, p)'
<1>1. CASE UNCHANGED vars
  BY <1>1 DEF vars, Stands, Pend
<1>2. CASE Report
  BY <1>2, StandsQuiet, NodeFacts
<1>3. ASSUME NEW n \in Nodes,
             \/ Cancel(n) \/ Unwind(n) \/ Stash(n) \/ RollbackDone(n) \/ Fail(n)
             \/ \E o \in Objects : Call(n, o)
             \/ \E kind \in Kinds, key \in Keys \cup {NoKey} : Enter(n, kind, key)
             \/ Succeed(n) \/ Return(n) \/ PopUndo(n) \/ UndoOk(n) \/ UndoFails(n)
             \/ AnyFork(n) \/ Finish(n) \/ JoinLeft(n) \/ JoinRight(n)
             \/ \E t \in DOMAIN br[n].stack : Fire(n, t) \/ GraceEnds(n, t)
      PROVE  Stands(k, p)'
  <2>1. CASE Stash(n) \/ \E t \in DOMAIN br[n].stack : Fire(n, t)
    <3>1. UNCHANGED <<br, ops, undone>>
      BY <2>1 DEF Stash, Fire, history
    <3> QED
      BY <3>1 DEF Stands, Pend
  <2>2. CASE JoinLeft(n) \/ JoinRight(n)
    BY <2>2, StandsMergeLeft, StandsComplete DEF Completes
  <2>3. CASE PopUndo(n)
    <3>1. br[n].undo[Len(br[n].undo)].key # k
      BY <2>3, SentinelAssumption DEF PopUndo, StructInv, TypeOK
    <3> QED
      BY <2>3, <3>1, StandsPop
  <2> QED
    BY <1>3, <2>1, <2>2, <2>3, StandsQuiet, StandsCall, StandsSucceed, StandsReturn,
       StandsUndo, StandsFork, StandsFinish, StandsGrace DEF AnyFork
<1> QED
  BY <1>1, <1>2, <1>3, Steps

\* A key that is committed now was committed before, or is so by Return.
LEMMA Committing ==
    ASSUME TypeOK, [Next]_vars, NEW k \in Keys, idem'[k] = "committed"
    PROVE  \/ idem[k] = "committed" /\ done[k] \subseteq done'[k]
           \/ \E n \in Nodes :
                /\ Return(n) /\ Top(n).kind = "idem" /\ Len(br[n].undo) > Top(n).mark
                /\ Top(n).key = k /\ Segment(n) \in done'[k]
<1>1. CASE UNCHANGED <<idem, done>>
  BY <1>1
<1>2. ASSUME NEW n \in Nodes, PopUndo(n)
      PROVE  idem[k] = "committed" /\ done[k] \subseteq done'[k]
  BY <1>2 DEF PopUndo, history, TypeOK
<1>3. ASSUME NEW n \in Nodes, Return(n)
      PROVE  \/ idem[k] = "committed" /\ done[k] \subseteq done'[k]
             \/ /\ Top(n).kind = "idem" /\ Len(br[n].undo) > Top(n).mark
                /\ Top(n).key = k /\ Segment(n) \in done'[k]
  <2>1. CASE Top(n).kind = "idem" /\ Len(br[n].undo) > Top(n).mark
    <3>1. /\ idem' = [idem EXCEPT ![Top(n).key] = "committed"]
          /\ done' = [done EXCEPT ![Top(n).key] = @ \cup {Segment(n)}]
      BY <1>3, <2>1 DEF Return
    <3> QED
      BY <2>1, <3>1 DEF TypeOK
  <2>2. CASE ~(Top(n).kind = "idem" /\ Len(br[n].undo) > Top(n).mark)
    BY <1>3, <2>2 DEF Return
  <2> QED
    BY <2>1, <2>2
<1>4. CASE UNCHANGED vars
  BY <1>1, <1>4 DEF vars
<1>5. CASE Report
  BY <1>1, <1>5 DEF Report, history
<1>6. ASSUME NEW n \in Nodes,
             \/ Cancel(n) \/ Unwind(n) \/ Stash(n) \/ RollbackDone(n) \/ Fail(n)
             \/ \E o \in Objects : Call(n, o)
             \/ \E kind \in Kinds, key \in Keys \cup {NoKey} : Enter(n, kind, key)
             \/ Succeed(n) \/ UndoOk(n) \/ UndoFails(n)
             \/ AnyFork(n) \/ Finish(n) \/ JoinLeft(n) \/ JoinRight(n)
             \/ \E t \in DOMAIN br[n].stack : Fire(n, t) \/ GraceEnds(n, t)
      PROVE  UNCHANGED <<idem, done>>
  <2>1. CASE Cancel(n) \/ Unwind(n) \/ Stash(n) \/ RollbackDone(n) \/ Fail(n)
    BY <2>1 DEF Cancel, Unwind, Stash, RollbackDone, Fail, history
  <2>2. CASE \/ \E o \in Objects : Call(n, o)
             \/ \E kind \in Kinds, key \in Keys \cup {NoKey} : Enter(n, kind, key)
    BY <2>2 DEF Call, Enter, history
  <2>3. CASE Succeed(n) \/ UndoOk(n) \/ UndoFails(n)
    BY <2>3 DEF Succeed, UndoOk, UndoFails, history
  <2>4. CASE AnyFork(n) \/ Finish(n)
    BY <2>4 DEF AnyFork, Fork, ForkInto, Finish, history
  <2>5. CASE JoinLeft(n)
    BY <2>5 DEF JoinLeft, history
  <2>6. CASE JoinRight(n)
    BY <2>6 DEF JoinRight, history
  <2>7. CASE \E t \in DOMAIN br[n].stack : Fire(n, t) \/ GraceEnds(n, t)
    BY <2>7 DEF Fire, GraceEnds, history
  <2> QED
    BY <1>6, <2>1, <2>2, <2>3, <2>4, <2>5, <2>6, <2>7
<1> QED
  BY <1>1, <1>2, <1>3, <1>4, <1>5, <1>6, Steps

\* Where the undos of a segment are.
LEMMA SegmentUndos ==
    ASSUME StructInv, NEW n \in Nodes, Depth(n) > 0, NEW effect \in Segment(n)
    PROVE  \E i \in Top(n).mark + 1 .. Len(br[n].undo) :
             /\ i \in 1 .. Len(br[n].undo) /\ br[n].undo[i].key = NoKey
             /\ br[n].undo[i].obj = effect[1] /\ br[n].undo[i].op = effect[2]
<1>1. TypeOK /\ Top(n).mark \in Nat /\ Len(br[n].undo) \in Nat
  BY TopTypes, Fields DEF StructInv
<1>2. PICK i \in Top(n).mark + 1 .. Len(br[n].undo) :
        effect = <<br[n].undo[i].obj, br[n].undo[i].op>>
  BY DEF Segment
<1>3. effect[1] = br[n].undo[i].obj /\ effect[2] = br[n].undo[i].op /\ effect[1] \in Objects
  <2>1. effect \in Objects \X Nat
    BY DEF Segment
  <2> QED
    BY <1>2, <2>1
<1>4. i \in 1 .. Len(br[n].undo)
  BY <1>1
<1>5. br[n].undo[i].key = NoKey
  BY <1>3, <1>4, SentinelAssumption DEF StructInv, BranchInv, UndosOf
<1> QED
  BY <1>3, <1>4, <1>5

\* A segment that returns leaves effects that stand.
LEMMA SegmentStands ==
    ASSUME StructInv, OpsInv, NEW n \in Nodes, Return(n),
           Top(n).kind = "idem", Len(br[n].undo) > Top(n).mark, NEW effect \in Segment(n),
           NEW k, k = Top(n).key
    PROVE  Stands(k, effect[2])'
<1> DEFINE u == Revert(Top(n).key)
           p == effect[2]
<1>1. TypeOK /\ ops \in Nat /\ br[n].undo \in Seq(Undos) /\ Len(br[n].undo) \in Nat
  BY Fields DEF StructInv, TypeOK
<1>2. UNCHANGED <<ops, undone>>
  BY DEF Return
<1>3. /\ Depth(n) > 0 /\ br'[n].undo = Append(br[n].undo, u)
      /\ br'[n].call = br[n].call /\ br'[n].popped = br[n].popped
      /\ \A m \in Nodes \ {n} : br'[m] = br[m]
  BY <1>1, ReturnShape DEF Becomes, Turns, Returned
<1>4. p \in Syscalls(br[n].undo)
  BY <1>3, SegmentUndos DEF Syscalls
<1>5. u \in Undos /\ u.key = k
  BY <1>1, <1>3, TopTypes, RevertTypes
<1> HIDE DEF u, p
<1>6. p \in (1 .. ops) \ undone
  BY <1>4 DEF OpsInv, Mine
<1>7. Guarded(br'[n].undo, k, p)
  <2>1. /\ Len(br'[n].undo) = Len(br[n].undo) + 1
        /\ br'[n].undo[Len(br[n].undo) + 1] = u
    BY <1>1, <1>3, <1>5, PushProperties
  <2>2. ASSUME NEW i \in 1 .. Len(br[n].undo) + 1,
               br'[n].undo[i].key = NoKey, br'[n].undo[i].op = p
        PROVE  Len(br[n].undo) + 1 \in i + 1 .. Len(br[n].undo) + 1
    <3>1. k # NoKey
      <4>1. Depth(n) \in 1 .. Depth(n)
        BY <1>1, <1>3, Fields
      <4> QED
        BY <4>1, SentinelAssumption DEF StructInv, BranchInv, MarksOf, Top
    <3>2. i # Len(br[n].undo) + 1
      BY <1>5, <2>1, <2>2, <3>1
    <3> QED
      BY <1>1, <3>2
  <2> QED
    BY <1>5, <2>1, <2>2 DEF Guarded
<1>8. ASSUME NEW m \in Nodes PROVE p \notin Pend(m)' /\ Guarded(br'[m].undo, k, p)
  <2>1. CASE m = n
    <3>1. Pend(n)' = Pend(n)
      BY <1>3 DEF Pend
    <3> QED
      BY <1>4, <1>7, <2>1, <3>1 DEF OpsInv, Apart
  <2>2. CASE m # n
    <3>1. p \notin Mine(m)
      BY <1>4, <2>2 DEF OpsInv, Mine
    <3>2. br'[m] = br[m] /\ p \notin Syscalls(br[m].undo) /\ p \notin Pend(m)
      BY <1>3, <2>2, <3>1 DEF Mine
    <3>3. Guarded(br[m].undo, k, p)
      BY <3>2 DEF Guarded, Syscalls
    <3> QED
      BY <3>2, <3>3 DEF Pend
  <2> QED
    BY <2>1, <2>2
<1>9. p \in (1 .. ops') \ undone'
  BY <1>2, <1>6
<1>10. Stands(k, p)'
  BY <1>8, <1>9 DEF Stands
<1> QED
  BY <1>10 DEF p

LEMMA CommitStep == StructInv /\ OpsInv /\ CommitInv /\ [Next]_vars => CommitInv'
<1> SUFFICES ASSUME StructInv, OpsInv, CommitInv, [Next]_vars,
                    NEW k \in Keys, idem'[k] = "committed"
             PROVE  \E run \in done'[k] : \A effect \in run : Stands(k, effect[2])'
  BY DEF CommitInv
<1>1. TypeOK
  BY DEF StructInv
<1>2. CASE idem[k] = "committed" /\ done[k] \subseteq done'[k]
  <2>1. PICK run \in done[k] : \A effect \in run : Stands(k, effect[2])
    BY <1>2 DEF CommitInv
  <2>2. \A effect \in run : Stands(k, effect[2])'
    BY <2>1, StandsStep
  <2> QED
    BY <1>2, <2>2
<1>3. ASSUME NEW n \in Nodes, Return(n), Top(n).kind = "idem",
             Len(br[n].undo) > Top(n).mark, Top(n).key = k, Segment(n) \in done'[k]
      PROVE  \E run \in done'[k] : \A effect \in run : Stands(k, effect[2])'
  <2>1. PICK run \in done'[k] : run = Segment(n)
    BY <1>3
  <2>2. \A effect \in run : Stands(k, effect[2])'
    BY <1>3, <2>1, SegmentStands
  <2> QED
    BY <1>3, <2>1, <2>2
<1> QED
  BY <1>1, <1>2, <1>3, Committing

LEMMA CommitFrom == CommitInv => CommittedStands
  BY DEF CommitInv, CommittedStands, Stands

LEMMA InitCommit == Init => CommitInv
  BY DEF Init, CommitInv

\* A COMMITTED key answers for effects that stand, whichever branch committed
\* it and whatever became of that branch: none is taken back before the key
\* is reverted, as nothing can come between the two on an undo stack.
THEOREM CommittedStandsHolds == Spec => []CommittedStands
<1> DEFINE Inv == StructInv /\ OpsInv /\ CommitInv
<1>1. Init => Inv
  BY InitStruct, InitOps, InitCommit
<1>2. Inv /\ [Next]_vars => Inv'
  BY StructStep, OpsStep, CommitStep
<1>3. Inv => CommittedStands
  BY CommitFrom
<1> HIDE DEF Inv
<1> QED
  BY <1>1, <1>2, <1>3, PTL DEF Spec

-----------------------------------------------------------------------------
(* The tasks below a task *)

Closed(X) == \A m \in X : Children(m) \subseteq X

\* c and what is below it.
Below(c) == {m \in Nodes : \A X \in SUBSET Nodes : c \in X /\ Closed(X) => m \in X}

LEMMA KidNodes ==
    ASSUME StructInv, NEW m \in Nodes
    PROVE  Children(m) \subseteq Nodes \ {m}
  BY KidFacts, NoKids

LEMMA BelowSelf ==
    ASSUME NEW c \in Nodes
    PROVE  c \in Below(c) /\ Below(c) \subseteq Nodes
  BY DEF Below

LEMMA BelowIn ==
    ASSUME NEW c \in Nodes, NEW X \in SUBSET Nodes, c \in X, Closed(X)
    PROVE  Below(c) \subseteq X
  BY DEF Below

LEMMA BelowClosed ==
    ASSUME StructInv, NEW c \in Nodes
    PROVE  Closed(Below(c))
<1> SUFFICES ASSUME NEW m \in Below(c), NEW d \in Children(m) PROVE d \in Below(c)
  BY DEF Closed
<1>1. m \in Nodes /\ d \in Nodes
  BY BelowSelf, KidNodes
<1>2. ASSUME NEW X \in SUBSET Nodes, c \in X, Closed(X) PROVE d \in X
  <2>1. m \in X
    BY <1>2 DEF Below
  <2> QED
    BY <1>2, <2>1 DEF Closed
<1> QED
  BY <1>1, <1>2 DEF Below

LEMMA BelowKid ==
    ASSUME StructInv, NEW b \in Nodes, NEW a \in Below(b), NEW c \in Children(a)
    PROVE  c \in Below(b)
  BY BelowClosed DEF Closed

LEMMA BelowLeaf ==
    ASSUME NEW c \in Nodes, Children(c) = {}
    PROVE  Below(c) = {c}
<1>1. Closed({c})
  BY DEF Closed
<1> QED
  BY <1>1, BelowIn, BelowSelf

LEMMA BelowSplit ==
    ASSUME StructInv, NEW m \in Nodes, NEW a \in Below(m), a # m
    PROVE  \E c \in Children(m) : a \in Below(c)
<1> DEFINE X == {m} \cup UNION {Below(c) : c \in Children(m)}
<1>1. X \in SUBSET Nodes /\ m \in X
  BY BelowSelf, KidNodes
<1>2. ASSUME NEW x \in X, NEW d \in Children(x) PROVE d \in X
  <2>1. CASE x = m
    <3>1. d \in Children(m) /\ d \in Below(d)
      BY <1>2, <2>1, KidNodes, BelowSelf
    <3> QED
      BY <3>1
  <2>2. CASE x # m
    <3>1. PICK c \in Children(m) : x \in Below(c)
      BY <1>2, <2>2
    <3>2. d \in Below(c)
      BY <1>2, <3>1, KidNodes, BelowKid
    <3> QED
      BY <3>1, <3>2
  <2> QED
    BY <2>1, <2>2
<1>3. Closed(X)
  BY <1>2 DEF Closed
<1>4. a \in X
  BY <1>1, <1>3, BelowIn
<1> QED
  BY <1>4

LEMMA BelowNames ==
    ASSUME StructInv, NEW c \in Nodes, NEW a \in Below(c)
    PROVE  br[a].names \subseteq br[c].names
<1> DEFINE X == {x \in Nodes : br[x].names \subseteq br[c].names}
<1>1. X \in SUBSET Nodes /\ c \in X
  OBVIOUS
<1>2. ASSUME NEW x \in X, NEW d \in Children(x) PROVE d \in X
  <2>1. x \in Nodes /\ d \in Nodes /\ br[x].fork # 0
    BY <1>2, KidNodes, NoKids
  <2>2. Children(x) = {Left(x), Right(x)}
    BY <2>1, KidFacts
  <2>3. br[d].names \subseteq br[x].names
    BY <1>2, <2>1, <2>2 DEF StructInv, TreeInv
  <2> QED
    BY <2>1, <2>3
<1>3. Closed(X)
  BY <1>2 DEF Closed
<1> HIDE DEF X
<1>4. a \in X
  BY <1>1, <1>3, BelowIn
<1> QED
  BY <1>4 DEF X

\* What is below stays below when a task gets its first branches,
LEMMA BelowGrows ==
    ASSUME \A m \in Nodes : Children(m) \subseteq Children(m)',
           NEW b \in Nodes
    PROVE  Below(b) \subseteq Below(b)'
<1>1. \A X \in SUBSET Nodes : Closed(X)' => Closed(X)
  BY DEF Closed
<1> QED
  BY <1>1 DEF Below

\* and, but for what was below these, when it loses them.
LEMMA BelowCut ==
    ASSUME StructInv, NEW n \in Nodes,
           \A m \in Nodes \ ({n} \cup UNION {Below(c) : c \in Children(n)}) :
                Children(m)' = Children(m),
           NEW b \in Nodes, NEW a \in Below(b),
           \A c \in Children(n) : a \notin Below(c)
    PROVE  a \in Below(b)'
<1> DEFINE U == UNION {Below(c) : c \in Children(n)}
<1>1. U \subseteq Nodes /\ Children(n) \subseteq U /\ a \notin U
  BY BelowSelf, KidNodes
<1>2. ASSUME NEW X \in SUBSET Nodes, b \in X, Closed(X)' PROVE a \in X
  <2> DEFINE Y == X \cup U
  <2>1. ASSUME NEW x \in Y, NEW d \in Children(x) PROVE d \in Y
    <3>1. CASE x \in U
      <4>1. PICK c \in Children(n) : x \in Below(c)
        BY <3>1
      <4>2. d \in Below(c)
        BY <2>1, <4>1, KidNodes, BelowKid
      <4> QED
        BY <4>1, <4>2
    <3>2. CASE x = n
      BY <1>1, <2>1, <3>2
    <3>3. CASE x \notin U /\ x # n
      BY <1>2, <2>1, <3>3 DEF Closed
    <3> QED
      BY <3>1, <3>2, <3>3
  <2>2. Closed(Y) /\ Y \in SUBSET Nodes /\ b \in Y
    BY <1>1, <1>2, <2>1 DEF Closed
  <2>3. a \in Y
    BY <2>2, BelowIn
  <2> QED
    BY <1>1, <2>3
<1> QED
  BY <1>2, BelowSelf DEF Below

-----------------------------------------------------------------------------
(* Steps of one task *)

Inner(n) ==
    \/ Cancel(n) \/ Unwind(n) \/ RollbackDone(n) \/ Fail(n)
    \/ n = Root /\ Report
    \/ \E o \in Objects : Call(n, o)
    \/ \E kind \in Kinds, key \in Keys \cup {NoKey} : Enter(n, kind, key)
    \/ Succeed(n) \/ Return(n) \/ PopUndo(n) \/ UndoOk(n) \/ UndoFails(n)

\* n closes its innermost frame, or none.
Shrinks(n) ==
    /\ Len(br'[n].stack) <= Depth(n)
    /\ \A t \in 1 .. Len(br'[n].stack) : br'[n].stack[t] = br[n].stack[t]

LEMMA ShrinksFrom ==
    ASSUME TypeOK, NEW n \in Nodes,
           \/ br'[n].stack = br[n].stack
           \/ \E d \in 0 .. Depth(n) : br'[n].stack = Cut(n, d)
    PROVE  Shrinks(n)
<1>1. CASE br'[n].stack = br[n].stack
  BY <1>1, Fields DEF Shrinks, Depth
<1>2. ASSUME NEW d \in 0 .. Depth(n), br'[n].stack = Cut(n, d) PROVE Shrinks(n)
  <2>1. d <= Depth(n)
    BY Fields
  <2> QED
    BY <1>2, <2>1, CutTypes DEF Shrinks
<1> QED
  BY <1>1, <1>2

LEMMA InnerToken ==
    ASSUME TypeOK, NEW n \in Nodes, Inner(n)
    PROVE  br'[n].token = br[n].token
<1>1. br[n] \in Branches /\ br \in [Nodes -> Branches]
  BY Fields DEF TypeOK
<1>2. CASE Cancel(n) \/ (n = Root /\ Report)
  BY <1>1, <1>2 DEF Cancel, Report, Branches
<1>3. CASE Unwind(n)
  BY <1>1, <1>3 DEF Unwind, Branches
<1>4. CASE RollbackDone(n)
  BY <1>1, <1>4 DEF RollbackDone, Branches
<1>5. CASE Fail(n)
  BY <1>1, <1>5 DEF Fail, Branches
<1>6. CASE \E o \in Objects : Call(n, o)
  BY <1>1, <1>6 DEF Call, Branches
<1>7. CASE \E kind \in Kinds, key \in Keys \cup {NoKey} : Enter(n, kind, key)
  BY <1>1, <1>7 DEF Enter, Branches
<1>8. CASE Succeed(n)
  BY <1>1, <1>8 DEF Succeed, Branches
<1>9. CASE Return(n)
  <2>1. PICK undo : br' = [br EXCEPT ![n].stack = Cut(n, Depth(n) - 1), ![n].undo = undo]
    BY <1>9 DEF Return
  <2> QED
    BY <1>1, <2>1 DEF Branches
<1>10. CASE PopUndo(n)
  BY <1>1, <1>10 DEF PopUndo, Branches
<1>11. CASE UndoOk(n) \/ UndoFails(n)
  BY <1>1, <1>11 DEF UndoOk, UndoFails, Branches
<1> QED
  BY <1>2, <1>3, <1>4, <1>5, <1>6, <1>7, <1>8, <1>9, <1>10, <1>11 DEF Inner

\* The task neither waits for a Fork nor starts one.
LEMMA InnerFork ==
    ASSUME StructInv, NEW n \in Nodes, Inner(n)
    PROVE  br[n].fork = 0 /\ Live(n) /\ UNCHANGED <<status, forks, sent>>
<1>1. br[n].mode # "forked"
  BY DEF Inner, Cancel, Unwind, RollbackDone, Fail, Report, Call, Enter, Succeed,
     Return, PopUndo, UndoOk, UndoFails, Ready, Awaits, Undoing
<1>2. Live(n)
  <2>1. Live(n) \/ n = Root
    BY DEF Inner, Cancel, Unwind, RollbackDone, Fail, Call, Enter, Succeed,
       Return, PopUndo, UndoOk, UndoFails, Ready, Awaits, Undoing
  <2> QED
    BY <2>1 DEF StructInv, TreeInv, Live
<1>3. UNCHANGED <<status, forks, sent>>
  BY DEF Inner, Cancel, Unwind, RollbackDone, Fail, Report, Call, Enter, Succeed,
     Return, PopUndo, UndoOk, UndoFails
<1> QED
  BY <1>1, <1>2, <1>3, NoChildren

LEMMA InnerShape ==
    ASSUME StructInv, NEW n \in Nodes, Inner(n)
    PROVE  /\ \A m \in Nodes \ {n} : br'[m] = br[m]
           /\ br'[n].names = br[n].names /\ br'[n].fork = 0
           /\ Shrinks(n) \/ \E kind \in Kinds, key \in Keys \cup {NoKey} : Enter(n, kind, key)
<1>1. TypeOK
  BY DEF StructInv
<1>2. br[n].fork = 0
  BY InnerFork
<1>3. ASSUME NEW stack, NEW mode, NEW undo, NEW call, NEW popped,
             Becomes(n, stack, mode, undo, call, popped, br[n].fork),
             stack = br[n].stack \/ \E d \in 0 .. Depth(n) : stack = Cut(n, d)
      PROVE  /\ \A m \in Nodes \ {n} : br'[m] = br[m]
             /\ br'[n].names = br[n].names /\ br'[n].fork = 0
             /\ Shrinks(n)
  BY <1>1, <1>2, <1>3, ShrinksFrom DEF Becomes, Turns
<1>4. CASE Cancel(n) \/ (n = Root /\ Report)
  <2>1. \E mode \in Modes :
          Becomes(n, br[n].stack, mode, br[n].undo, br[n].call, br[n].popped, br[n].fork)
    BY <1>1, <1>4, ModeShape DEF Cancel, Report, Modes
  <2> QED
    BY <1>3, <2>1
<1>5. CASE Unwind(n)
  <2>1. Depth(n) - 1 \in 0 .. Depth(n)
    BY <1>1, <1>5, UnwindShape, TopTypes
  <2> QED
    BY <1>1, <1>3, <1>5, <2>1, UnwindShape
<1>6. CASE RollbackDone(n)
  <2>1. Depth(n) - 1 \in 0 .. Depth(n)
    BY <1>1, <1>6, RollbackDoneShape, TopTypes
  <2> QED
    BY <1>1, <1>3, <1>6, <2>1, RollbackDoneShape
<1>7. CASE Fail(n)
  BY <1>1, <1>3, <1>7, FailShape
<1>8. CASE \E o \in Objects : Call(n, o)
  BY <1>1, <1>3, <1>8, CallShape
<1>9. CASE \E kind \in Kinds, key \in Keys \cup {NoKey} : Enter(n, kind, key)
  BY <1>1, <1>2, <1>9, EnterShape DEF Becomes, Turns
<1>10. CASE Succeed(n)
  <2>1. br[n].call.obj \in Objects
    BY <1>10 DEF Succeed, Awaits, StructInv, BranchInv, ShapeOf
  <2> QED
    BY <1>1, <1>3, <1>10, <2>1, SucceedShape
<1>11. CASE Return(n)
  <2>1. Depth(n) - 1 \in 0 .. Depth(n)
    BY <1>1, <1>11, ReturnShape, TopTypes
  <2> QED
    BY <1>1, <1>3, <1>11, <2>1, ReturnShape
<1>12. CASE PopUndo(n)
  BY <1>1, <1>3, <1>12, PopUndoShape
<1>13. CASE UndoOk(n) \/ UndoFails(n)
  BY <1>1, <1>3, <1>13, UndoOkShape
<1> QED
  BY <1>4, <1>5, <1>6, <1>7, <1>8, <1>9, <1>10, <1>11, <1>12, <1>13 DEF Inner

\* No task gets or loses a branch.
LEMMA InnerChildren ==
    ASSUME StructInv, StructInv', NEW n \in Nodes, Inner(n), NEW m \in Nodes
    PROVE  /\ Children(m)' = Children(m)
           /\ br'[m].names = br[m].names /\ br'[m].token = br[m].token
           /\ Children(n) = {}
<1>1. TypeOK
  BY DEF StructInv
<1>2. /\ \A q \in Nodes \ {n} : br'[q] = br[q]
      /\ br'[n].names = br[n].names /\ br'[n].fork = 0 /\ br[n].fork = 0
  BY InnerShape, InnerFork
<1>3. Children(n) = {} /\ Children(n)' = {}
  BY <1>2, NoKids DEF StructInv, BranchInv, ShapeOf, Children
<1>4. br'[m].token = br[m].token /\ br'[m].names = br[m].names
  BY <1>1, <1>2, InnerToken
<1>5. Children(m)' = Children(m)
  BY <1>2, <1>3 DEF Children, Left, Right
<1> QED
  BY <1>3, <1>4, <1>5

-----------------------------------------------------------------------------
(* Tokens and keys are handed down *)

\* A frame has the token of what is around it, unless it is a Timeout; no key
\* is open twice; the branches get the innermost token, and no open key.
KinOf(n) ==
    /\ \A t \in 1 .. Depth(n) :
         br[n].stack[t].kind # "timeout" => br[n].stack[t].token = Token(n, t)
    /\ \A t \in 1 .. Depth(n) :
         IF br[n].stack[t].kind = "idem"
         THEN br[n].stack[t].key \in br[n].names
         ELSE br[n].stack[t].key = NoKey
    /\ \A s, t \in 1 .. Depth(n) :
         br[n].stack[s].key = br[n].stack[t].key /\ br[n].stack[s].key # NoKey => s = t
    /\ \A c \in Children(n) : /\ br[c].token = Token(n, Depth(n) + 1)
                              /\ br[c].names \cap Open(n) = {}

KinInv == \A n \in Nodes : KinOf(n)

\* The Fork of a task decides on its branches.
LEMMA KidsSame ==
    ASSUME StructInv, StructInv', NEW m \in Nodes
    PROVE  /\ br'[m].fork = 0 => Children(m)' = {}
           /\ br'[m].fork = br[m].fork => Children(m)' = Children(m)
<1>1. /\ br'[m].mode = "forked" <=> br'[m].fork # 0
      /\ br[m].mode = "forked" <=> br[m].fork # 0
  BY DEF StructInv, BranchInv, ShapeOf
<1> QED
  BY <1>1 DEF Children, Left, Right

LEMMA KidsElse ==
    ASSUME StructInv, NEW n \in Nodes, NEW m \in Nodes, m # n
    PROVE  Children(m) \cap Children(n) = {} /\ Children(m) \subseteq Nodes
<1>1. CASE br[m].fork = 0 \/ br[n].fork = 0
  BY <1>1, NoKids, KidNodes
<1>2. CASE br[m].fork # 0 /\ br[n].fork # 0
  <2>1. /\ Children(m) = {Left(m), Right(m)} /\ Children(m) \subseteq Nodes
        /\ Children(n) = {Left(n), Right(n)}
    BY <1>2, KidFacts
  <2>2. {Left(m), Right(m)} \cap {Left(n), Right(n)} = {}
    BY <1>2, KidsApart
  <2> QED
    BY <2>1, <2>2
<1> QED
  BY <1>1, <1>2

LEMMA OpenShrinks ==
    ASSUME TypeOK, br' \in [Nodes -> Branches], NEW n \in Nodes, Shrinks(n),
           br'[n].token = br[n].token
    PROVE  /\ \A t \in 1 .. Depth(n)' : t \in 1 .. Depth(n) /\ br'[n].stack[t] = br[n].stack[t]
           /\ \A t \in 1 .. Depth(n)' + 1 : t \in 1 .. Depth(n) + 1 /\ Token(n, t)' = Token(n, t)
           /\ Open(n)' \subseteq Open(n) /\ Depth(n)' \in Nat
<1>1. /\ Depth(n) \in Nat /\ Depth(n)' \in Nat /\ Depth(n)' = Len(br'[n].stack)
      /\ Depth(n)' <= Depth(n) /\ DOMAIN br[n].stack = 1 .. Depth(n)
      /\ DOMAIN br'[n].stack = 1 .. Depth(n)'
  BY Fields, NextFields DEF Shrinks
<1>2. \A t \in 1 .. Depth(n)' : t \in 1 .. Depth(n) /\ br'[n].stack[t] = br[n].stack[t]
  BY <1>1 DEF Shrinks
<1>3. ASSUME NEW t \in 1 .. Depth(n)' + 1
      PROVE  t \in 1 .. Depth(n) + 1 /\ Token(n, t)' = Token(n, t)
  <2>1. t \in 1 .. Depth(n) + 1 /\ (t # 1 => t - 1 \in 1 .. Depth(n)')
    BY <1>1
  <2> QED
    BY <1>2, <2>1 DEF Token
<1>4. Open(n)' \subseteq Open(n)
  BY <1>1, <1>2 DEF Open
<1> QED
  BY <1>1, <1>2, <1>3, <1>4

LEMMA KinOne ==
    ASSUME StructInv, StructInv', KinInv, NEW m \in Nodes,
           \/ br'[m].stack = << >> /\ br'[m].fork = 0
           \/ /\ Shrinks(m) /\ br'[m].names = br[m].names /\ br'[m].token = br[m].token
              /\ \/ br'[m].fork = 0
                 \/ /\ br'[m].fork = br[m].fork /\ br'[m].stack = br[m].stack
                    /\ \A c \in Children(m) : /\ br'[c].names = br[c].names
                                              /\ br'[c].token = br[c].token
    PROVE  KinOf(m)'
<1>1. TypeOK /\ br' \in [Nodes -> Branches] /\ KinOf(m)
  BY DEF StructInv, TypeOK, KinInv
<1>2. CASE br'[m].stack = << >> /\ br'[m].fork = 0
  <2>1. Depth(m)' = 0 /\ Children(m)' = {} /\ 1 .. 0 = {}
    BY <1>2, KidsSame DEF Depth
  <2> QED
    BY <2>1 DEF KinOf
<1>3. CASE Shrinks(m) /\ br'[m].names = br[m].names /\ br'[m].token = br[m].token
  <2>1. /\ \A t \in 1 .. Depth(m)' : t \in 1 .. Depth(m) /\ br'[m].stack[t] = br[m].stack[t]
        /\ \A t \in 1 .. Depth(m)' + 1 : t \in 1 .. Depth(m) + 1 /\ Token(m, t)' = Token(m, t)
        /\ Open(m)' \subseteq Open(m) /\ Depth(m)' \in Nat
    BY <1>1, <1>3, OpenShrinks
  <2>2. \A t \in 1 .. Depth(m)' : t \in 1 .. Depth(m)' + 1
    BY <2>1
  <2>3. \A c \in Children(m)' :
            br'[c].token = Token(m, Depth(m) + 1)' /\ br'[c].names \cap Open(m)' = {}
    <3>1. CASE br'[m].fork = 0
      BY <3>1, KidsSame
    <3>2. CASE /\ br'[m].fork = br[m].fork /\ br'[m].stack = br[m].stack
               /\ \A c \in Children(m) : /\ br'[c].names = br[c].names
                                         /\ br'[c].token = br[c].token
      <4>1. Children(m)' = Children(m) /\ Depth(m)' = Depth(m)
        BY <3>2, KidsSame DEF Depth
      <4>2. Depth(m) + 1 \in 1 .. Depth(m)' + 1
        BY <2>1, <4>1
      <4>3. Token(m, Depth(m) + 1)' = Token(m, Depth(m) + 1)
        BY <2>1, <4>1, <4>2
      <4> QED
        BY <1>1, <2>1, <3>2, <4>1, <4>3 DEF KinOf
    <3> QED
      BY <3>1, <3>2
  <2> QED
    <3>1. KinOf(m) /\ br'[m].names = br[m].names
      BY <1>1, <1>3
    <3>2. /\ \A t \in 1 .. Depth(m)' : br'[m].stack[t].kind # "timeout" =>
                br'[m].stack[t].token = Token(m, t)'
          /\ \A t \in 1 .. Depth(m)' : IF br'[m].stack[t].kind = "idem"
                                     THEN br'[m].stack[t].key \in br'[m].names
                                     ELSE br'[m].stack[t].key = NoKey
      <4>1. ASSUME NEW t \in 1 .. Depth(m)'
            PROVE  /\ t \in 1 .. Depth(m) /\ br'[m].stack[t] = br[m].stack[t]
                   /\ Token(m, t)' = Token(m, t)
        BY <2>1, <2>2
      <4> QED
        BY <3>1, <4>1 DEF KinOf
    <3>3. \A s, t \in 1 .. Depth(m)' : br'[m].stack[s].key = br'[m].stack[t].key
                                      /\ br'[m].stack[s].key # NoKey => s = t
      BY <2>1, <3>1 DEF KinOf
    <3> QED
      BY <2>3, <3>2, <3>3 DEF KinOf
<1> QED
  BY <1>2, <1>3

LEMMA KinEnter ==
    ASSUME StructInv, StructInv', KinInv, NEW n \in Nodes,
           NEW kind \in Kinds, NEW key \in Keys \cup {NoKey}, Enter(n, kind, key)
    PROVE  KinOf(n)'
<1> DEFINE f == Frame(n, kind, key)
           d == Depth(n)
<1>1. TypeOK /\ KinOf(n) /\ d \in Nat /\ DOMAIN br[n].stack = 1 .. d
  BY Fields DEF StructInv, KinInv
<1>2. /\ f \in Frames /\ br'[n].stack = Append(br[n].stack, f)
      /\ br[n].stack \in Seq(Frames)
  BY <1>1, EnterShape, Fields DEF Becomes, Turns
<1>3. /\ Children(n)' = {} /\ br'[n].names = br[n].names /\ br'[n].token = br[n].token
  BY InnerChildren DEF Inner
<1>4. /\ f.kind = kind /\ f.key = key
      /\ kind # "timeout" => f.token = Token(n, d + 1)
      /\ IF kind = "idem" THEN key \in br[n].names /\ key \notin Open(n) ELSE key = NoKey
  BY DEF Frame, Enter
<1> HIDE DEF f
<1>5. /\ Depth(n)' = d + 1 /\ br'[n].stack[d + 1] = f
      /\ \A t \in 1 .. d : br'[n].stack[t] = br[n].stack[t]
  BY <1>2, PushProperties DEF Depth
<1>6. d + 1 # 1 => d \in 1 .. d
  BY <1>1
<1> HIDE DEF d
<1>7. 1 .. d + 1 = 1 .. d \cup {d + 1} /\ d + 1 \notin 1 .. d
  BY <1>1
<1>8. \A t \in 1 .. d + 1 : Token(n, t)' = Token(n, t)
  <2>1. \A t \in 1 .. d + 1 : t # 1 => t - 1 \in 1 .. d
    BY <1>1
  <2> QED
    BY <1>3, <1>5, <2>1 DEF Token
<1>9. \A t \in 1 .. d : br[n].stack[t].key \in Open(n)
  BY <1>1 DEF Open
<1>10. /\ \A t \in 1 .. d :
            br[n].stack[t].kind # "timeout" => br[n].stack[t].token = Token(n, t)
       /\ \A t \in 1 .. d :
            IF br[n].stack[t].kind = "idem"
            THEN br[n].stack[t].key \in br[n].names
            ELSE br[n].stack[t].key = NoKey
       /\ \A s, t \in 1 .. d :
            br[n].stack[s].key = br[n].stack[t].key /\ br[n].stack[s].key # NoKey => s = t
  BY <1>1 DEF KinOf, d
<1>11. \A t \in 1 .. d + 1 :
            br'[n].stack[t].kind # "timeout" => br'[n].stack[t].token = Token(n, t)'
  BY <1>4, <1>5, <1>7, <1>8, <1>10
<1>12. \A t \in 1 .. d + 1 :
           IF br'[n].stack[t].kind = "idem"
           THEN br'[n].stack[t].key \in br'[n].names
           ELSE br'[n].stack[t].key = NoKey
  BY <1>3, <1>4, <1>5, <1>7, <1>10
<1>13. \A s, t \in 1 .. d + 1 :
           br'[n].stack[s].key = br'[n].stack[t].key /\ br'[n].stack[s].key # NoKey => s = t
  BY <1>4, <1>5, <1>7, <1>9, <1>10
<1> QED
  BY <1>3, <1>5, <1>11, <1>12, <1>13 DEF KinOf

LEMMA KinInner ==
    ASSUME StructInv, StructInv', KinInv, NEW n \in Nodes, Inner(n)
    PROVE  KinInv'
<1>1. TypeOK
  BY DEF StructInv
<1>2. ASSUME NEW m \in Nodes, m # n PROVE KinOf(m)'
  <2>1. br'[m] = br[m] /\ Shrinks(m)
    BY <1>1, <1>2, InnerShape, ShrinksFrom
  <2>2. \A c \in Children(m) : br'[c].names = br[c].names /\ br'[c].token = br[c].token
    BY KidNodes, InnerChildren
  <2> QED
    BY <2>1, <2>2, KinOne
<1>3. KinOf(n)'
  <2>1. CASE Shrinks(n)
    <3>1. br'[n].fork = 0 /\ br'[n].names = br[n].names /\ br'[n].token = br[n].token
      BY InnerShape, InnerChildren
    <3> QED
      BY <2>1, <3>1, KinOne
  <2>2. CASE \E kind \in Kinds, key \in Keys \cup {NoKey} : Enter(n, kind, key)
    BY <2>2, KinEnter
  <2> QED
    BY <2>1, <2>2, InnerShape
<1> QED
  BY <1>2, <1>3 DEF KinInv

LEMMA KinFork ==
    ASSUME StructInv, StructInv', KinInv, NEW n \in Nodes, NEW split, Fork(n, split)
    PROVE  KinInv'
<1> SUFFICES ASSUME NEW l, NEW r, NEW token, l = LeftOf(forks + 1), r = RightOf(forks + 1),
                    token = Token(n, Depth(n) + 1)
             PROVE  KinInv'
  OBVIOUS
<1>1. TypeOK /\ KinOf(n)
  BY DEF StructInv, KinInv
<1>2. /\ l \in Nodes /\ r \in Nodes /\ l # n /\ r # n
      /\ status[l] = "unborn" /\ status[r] = "unborn" /\ Live(n) /\ br[n].fork = 0
      /\ \A m \in Nodes \ {n, l, r} : br'[m] = br[m]
      /\ br'[n].stack = br[n].stack /\ br'[n].fork = forks + 1
      /\ br'[n].names = br[n].names /\ br'[n].mode = "forked"
      /\ split[1] \cap Open(n) = {} /\ split[2] \cap Open(n) = {}
      /\ br'[l] = Branch(split[1], token, world)
      /\ br'[r] = Branch(split[2], token, world)
  BY ForkShape DEF Turns
<1>3. br'[n].token = br[n].token
  <2>1. br[n] \in Branches
    BY <1>1, Fields
  <2> QED
    BY <1>1, <1>2, <2>1 DEF Fork, ForkInto, TypeOK, Branches
<1>4. /\ br'[l].token = token /\ br'[l].names = split[1]
      /\ br'[l].stack = << >> /\ br'[l].fork = 0
      /\ br'[r].token = token /\ br'[r].names = split[2]
      /\ br'[r].stack = << >> /\ br'[r].fork = 0
  BY <1>2 DEF Branch
<1>5. Children(n)' = {l, r}
  BY <1>2 DEF Children, Left, Right
<1>6. KinOf(n)'
  <2>1. /\ Depth(n)' = Depth(n) /\ Open(n)' = Open(n)
        /\ \A t : Token(n, t)' = Token(n, t)
    BY <1>2, <1>3 DEF Depth, Open, Token
  <2>2. \A c \in Children(n)' : br'[c].token = token /\ br'[c].names \cap Open(n) = {}
    BY <1>2, <1>4, <1>5
  <2> QED
    BY <1>1, <1>2, <2>1, <2>2 DEF KinOf
<1>7. ASSUME NEW m \in Nodes \ {n, l, r} PROVE KinOf(m)'
  <2>1. br'[m] = br[m] /\ Shrinks(m)
    BY <1>1, <1>2, ShrinksFrom
  <2>2. \A c \in Children(m) : br'[c].names = br[c].names /\ br'[c].token = br[c].token
    <3>1. l \notin Children(m) /\ r \notin Children(m) /\ Children(m) \subseteq Nodes
      <4>1. \A c \in Children(m) : status[c] # "unborn"
        BY KidFacts, NoKids DEF StructInv, TreeInv
      <4> QED
        BY <1>2, <4>1, KidNodes
    <3> QED
      BY <1>2, <1>3, <3>1
  <2> QED
    BY <2>1, <2>2, KinOne
<1>8. KinOf(l)'
  BY <1>2, <1>4, KinOne
<1>9. KinOf(r)'
  BY <1>2, <1>4, KinOne
<1>10. \A m \in Nodes : m \in Nodes \ {n, l, r} \/ m = n \/ m = l \/ m = r
  OBVIOUS
<1>11. ASSUME NEW m \in Nodes PROVE KinOf(m)'
  <2>1. CASE m = n
    BY <1>6, <2>1
  <2>2. CASE m = l
    BY <1>8, <2>2
  <2>3. CASE m = r
    BY <1>9, <2>3
  <2> QED
    BY <1>7, <1>10, <2>1, <2>2, <2>3
<1> QED
  BY <1>11 DEF KinInv

-----------------------------------------------------------------------------
(* The end of a Fork *)

\* Branches of n are merged or lost: they are over, or keep what they had.
Ends(n) ==
    /\ br[n].fork # 0 \/ br'[n].fork = 0
    /\ Shrinks(n) /\ br'[n].names = br[n].names /\ br'[n].token = br[n].token
    /\ \A m \in Nodes \ (Children(n) \cup {n}) : br'[m] = br[m]
    /\ \/ br'[n].fork = 0
       \/ /\ br'[n].fork = br[n].fork /\ br'[n].stack = br[n].stack
          /\ \A c \in Children(n) : /\ br'[c].names = br[c].names
                                    /\ br'[c].token = br[c].token
    /\ \A c \in Children(n) :
          \/ br'[c].stack = << >> /\ br'[c].fork = 0
          \/ br'[c] = br[c]

LEMMA KinEnds ==
    ASSUME StructInv, StructInv', KinInv, NEW n \in Nodes, Ends(n)
    PROVE  KinInv'
<1>1. TypeOK
  BY DEF StructInv
<1>2. ASSUME NEW m \in Nodes, m # n, br'[m] = br[m] PROVE KinOf(m)'
  <2>1. Shrinks(m)
    BY <1>1, <1>2, ShrinksFrom
  <2>2. \A c \in Children(m) : br'[c].names = br[c].names /\ br'[c].token = br[c].token
    <3>1. \A c \in Children(m) : c \in Nodes /\ c \notin Children(n)
      BY <1>2, KidsElse
    <3> QED
      BY <3>1 DEF Ends
  <2> QED
    BY <1>2, <2>1, <2>2, KinOne
<1>3. ASSUME NEW c \in Children(n), c \in Nodes PROVE KinOf(c)'
  <2>1. CASE br'[c].stack = << >> /\ br'[c].fork = 0
    BY <1>3, <2>1, KinOne
  <2>2. CASE br'[c] = br[c]
    <3>1. c # n
      BY KidNodes
    <3> QED
      BY <1>2, <1>3, <2>2, <3>1
  <2> QED
    BY <2>1, <2>2 DEF Ends
<1>4. KinOf(n)'
  BY KinOne DEF Ends
<1>5. ASSUME NEW m \in Nodes PROVE KinOf(m)'
  <2>1. CASE m = n
    BY <1>4, <2>1
  <2>2. CASE m \in Children(n)
    BY <1>3, <2>2
  <2> QED
    BY <1>2, <2>1, <2>2 DEF Ends
<1> QED
  BY <1>5 DEF KinInv

LEMMA MergeLeftEnds ==
    ASSUME StructInv, NEW n \in Nodes, JoinLeft(n), status[Right(n)] # "stashed"
    PROVE  Ends(n) /\ br[n].fork # 0 /\ br'[n].fork = br[n].fork
<1> DEFINE l == Left(n)
<1>1. TypeOK
  BY DEF StructInv
<1>2. /\ br[n].fork # 0 /\ status[l] = "finished"
      /\ \A m \in Nodes \ {n, l} : br'[m] = br[m]
      /\ br'[n].stack = br[n].stack /\ br'[n].names = br[n].names
      /\ br'[n].fork = br[n].fork
      /\ br'[l].stack = br[l].stack /\ br'[l].names = br[l].names
      /\ br'[l].fork = br[l].fork
  BY MergeLeftShape DEF Turns
<1>3. l \in Nodes /\ l # n /\ Children(n) = {l, Right(n)} /\ Right(n) \in Nodes \ {n, l}
  BY <1>2, KidFacts
<1>4. br'[n].token = br[n].token /\ br'[l].token = br[l].token
  <2>1. br' = [br EXCEPT ![n].undo = @ \o br[l].undo, ![l].undo = << >>]
    BY DEF JoinLeft
  <2>2. br[n] \in Branches /\ br[l] \in Branches
    BY <1>1, <1>3, Fields
  <2> QED
    BY <1>1, <1>3, <2>1, <2>2 DEF TypeOK, Branches
<1>5. br[l].stack = << >> /\ br[l].fork = 0
  BY <1>2, <1>3 DEF StructInv, BranchInv, ShapeOf
<1>6. Shrinks(n)
  BY <1>1, <1>2, ShrinksFrom
<1> HIDE DEF l
<1> QED
  BY <1>2, <1>3, <1>4, <1>5, <1>6 DEF Ends

LEMMA CompleteEnds ==
    ASSUME StructInv, NEW n \in Nodes, Completes(n)
    PROVE  Ends(n) /\ br'[n].fork = 0
<1> DEFINE l == Left(n)
           r == Right(n)
<1>1. TypeOK
  BY DEF StructInv
<1>2. /\ br[n].fork # 0
      /\ \A m \in Nodes \ {n, l, r} : br'[m] = br[m]
      /\ br'[n].stack = br[n].stack /\ br'[n].names = br[n].names /\ br'[n].fork = 0
      /\ br'[l] = Nobody /\ br'[r] = Nobody
  BY CompleteShape DEF Turns
<1>3. l \in Nodes /\ l # n /\ Children(n) = {l, r} /\ r \in Nodes \ {n, l}
  BY <1>2, KidFacts
<1>4. br'[n].token = br[n].token
  <2> DEFINE undo == IF JoinRight(n) THEN br[n].undo \o br[r].undo
                     ELSE br[n].undo \o br[l].undo \o br[r].undo
  <2>1. br' = [br EXCEPT ![n].undo = undo, ![n].mode = Outcome(n), ![n].fork = 0,
                         ![l] = Nobody, ![r] = Nobody]
    <3>1. CASE JoinRight(n)
      BY <3>1 DEF JoinRight
    <3>2. CASE ~JoinRight(n) /\ JoinLeft(n) /\ status[r] = "stashed"
      BY <3>2 DEF JoinLeft
    <3> QED
      BY <3>1, <3>2 DEF Completes
  <2> HIDE DEF undo
  <2>2. br[n] \in Branches
    BY <1>1, Fields
  <2> HIDE DEF l, r
  <2> QED
    BY <1>1, <1>3, <2>1, <2>2 DEF TypeOK, Branches
<1>5. Shrinks(n)
  BY <1>1, <1>2, ShrinksFrom
<1> HIDE DEF l, r
<1> QED
  BY <1>2, <1>3, <1>4, <1>5, NobodyTypes DEF Ends

LEMMA GraceEndsFork ==
    ASSUME StructInv, NEW n \in Nodes, NEW t \in DOMAIN br[n].stack, GraceEnds(n, t)
    PROVE  Ends(n) /\ br'[n].fork = 0
<1>1. TypeOK
  BY DEF StructInv
<1>2. /\ t \in 1 .. Depth(n) /\ Children(n) \subseteq Nodes \ {n}
      /\ \A m \in Nodes \ (Children(n) \cup {n}) : br'[m] = br[m]
      /\ br'[n].stack = Cut(n, t) /\ br'[n].fork = 0 /\ br'[n].names = br[n].names
      /\ \A c \in Children(n) : br'[c] = br[c] \/ br'[c] = Nobody
  BY GraceShape DEF Turns
<1>3. br'[n].token = br[n].token
  <2>1. br'[n] = [br[n] EXCEPT
            !.stack = Cut(n, t), !.mode = "rollback", !.undo = Kept(n),
            !.call = NoCall, !.popped = {}, !.failed = FALSE, !.fork = 0]
    <3> DEFINE b == [br[n] EXCEPT
            !.stack = Cut(n, t), !.mode = "rollback", !.undo = Kept(n),
            !.call = NoCall, !.popped = {}, !.failed = FALSE, !.fork = 0]
    <3>1. br' = [c \in Nodes |->
                   CASE c = n -> b
                     [] c \in Children(n) /\ status[c] # "running" -> Nobody
                     [] OTHER -> br[c]]
      BY DEF GraceEnds
    <3> HIDE DEF b
    <3>2. n \notin Children(n)
      BY <1>2
    <3>3. br'[n] = b
      BY <3>1, <3>2
    <3> QED
      BY <3>3 DEF b
  <2> QED
    BY <1>1, <2>1, Fields DEF Branches
<1>4. Shrinks(n)
  <2>1. t \in 0 .. Depth(n)
    BY <1>1, <1>2, Fields
  <2> QED
    BY <1>1, <1>2, <2>1, ShrinksFrom
<1> QED
  BY <1>2, <1>3, <1>4, NobodyTypes DEF Ends

LEMMA KinFinish ==
    ASSUME StructInv, StructInv', KinInv, NEW n \in Nodes, Finish(n)
    PROVE  KinInv'
<1>1. TypeOK
  BY DEF StructInv
<1>2. /\ br[n].fork = 0 /\ br[n].stack = << >>
      /\ \/ status[n] = "orphan" /\ br' = [br EXCEPT ![n] = Nobody]
         \/ br' = br
  BY FinishShape
<1>3. \A m \in Nodes \ {n} : br'[m] = br[m]
  BY <1>1, <1>2 DEF TypeOK
<1>4. br'[n].stack = << >> /\ br'[n].fork = 0
  BY <1>1, <1>2, NobodyTypes DEF TypeOK
<1>5. ASSUME NEW m \in Nodes \ {n} PROVE KinOf(m)'
  <2>1. \A c \in Children(m) : br'[c] = br[c]
    <3>1. \A c \in Children(m) : c \in Nodes /\ status[c] # "orphan"
      BY KidFacts, NoKids DEF StructInv, TreeInv
    <3> QED
      BY <1>2, <1>3, <3>1
  <2>2. br'[m] = br[m] /\ Shrinks(m)
    BY <1>1, <1>3, ShrinksFrom
  <2> QED
    BY <2>1, <2>2, KinOne
<1>6. KinOf(n)'
  BY <1>4, KinOne
<1> QED
  BY <1>5, <1>6 DEF KinInv

LEMMA KinSame ==
    ASSUME KinInv, UNCHANGED br
    PROVE  KinInv'
  BY DEF KinInv, KinOf, Depth, Token, Open, Children, Left, Right

LEMMA StepCases ==
    ASSUME StructInv, [Next]_vars
    PROVE  \/ UNCHANGED vars
           \/ \E n \in Nodes :
                \/ Inner(n) \/ AnyFork(n) \/ Finish(n) \/ Stash(n)
                \/ JoinLeft(n) /\ status[Right(n)] # "stashed"
                \/ Completes(n)
                \/ \E t \in DOMAIN br[n].stack : Fire(n, t) \/ GraceEnds(n, t)
<1>1. CASE UNCHANGED vars
  BY <1>1
<1>2. CASE Report
  BY <1>2, NodeFacts DEF Inner
<1>3. CASE Next /\ ~Report
  <2>1. PICK n \in Nodes :
          \/ Cancel(n) \/ Unwind(n) \/ Stash(n) \/ RollbackDone(n) \/ Fail(n)
          \/ \E o \in Objects : Call(n, o)
          \/ \E kind \in Kinds, key \in Keys \cup {NoKey} : Enter(n, kind, key)
          \/ Succeed(n) \/ Return(n) \/ PopUndo(n) \/ UndoOk(n) \/ UndoFails(n)
          \/ AnyFork(n) \/ Finish(n) \/ JoinLeft(n) \/ JoinRight(n)
          \/ \E t \in DOMAIN br[n].stack : Fire(n, t) \/ GraceEnds(n, t)
    BY <1>3, Steps
  <2>2. \/ Inner(n) \/ AnyFork(n) \/ Finish(n) \/ Stash(n)
        \/ JoinLeft(n) /\ status[Right(n)] # "stashed"
        \/ Completes(n)
        \/ \E t \in DOMAIN br[n].stack : Fire(n, t) \/ GraceEnds(n, t)
    BY <2>1 DEF Inner, Completes
  <2> QED
    BY <2>2
<1> QED
  BY <1>1, <1>2, <1>3

LEMMA InitKin == Init => KinInv
<1> SUFFICES ASSUME Init, NEW n \in Nodes PROVE KinOf(n)
  BY DEF KinInv
<1>1. br[n].stack = << >> /\ br[n].mode = "run"
  BY DEF Init, Nobody, Branch
<1>2. Depth(n) = 0 /\ 1 .. 0 = {} /\ Children(n) = {}
  BY <1>1 DEF Depth, Children
<1> QED
  BY <1>2 DEF KinOf

LEMMA KinStep ==
    ASSUME StructInv, StructInv', KinInv, [Next]_vars
    PROVE  KinInv'
<1>1. ASSUME NEW n \in Nodes, NEW t \in DOMAIN br[n].stack, GraceEnds(n, t)
      PROVE  KinInv'
  BY <1>1, GraceEndsFork, KinEnds
<1>2. ASSUME NEW n \in Nodes, Stash(n) \/ \E t \in DOMAIN br[n].stack : Fire(n, t)
      PROVE  KinInv'
  BY <1>2, KinSame DEF Stash, Fire
<1>3. ASSUME NEW n \in Nodes,
             Completes(n) \/ (JoinLeft(n) /\ status[Right(n)] # "stashed")
      PROVE  KinInv'
  BY <1>3, MergeLeftEnds, CompleteEnds, KinEnds
<1>4. CASE UNCHANGED vars
  BY <1>4, KinSame DEF vars
<1> QED
  BY <1>1, <1>2, <1>3, <1>4, StepCases, KinInner, KinFork, KinFinish
     DEF AnyFork

-----------------------------------------------------------------------------
(* The tasks that are not lost *)

Tree == Below(Root)

LEMMA TreeSelf ==
    /\ Root \in Nodes /\ Root \in Tree /\ Tree \subseteq Nodes
    /\ \A X \in SUBSET Nodes : Root \in X /\ Closed(X) => Tree \subseteq X
    /\ \A X \in SUBSET Nodes : (Root \in X /\ Closed(X))' => (Tree \subseteq X)'
<1>1. Root \in Nodes
  BY NodeFacts
<1> QED
  BY <1>1 DEF Tree, Below

LEMMA TreeSame ==
    ASSUME \A m \in Nodes : Children(m)' = Children(m)
    PROVE  Tree' = Tree
<1>1. \A X \in SUBSET Nodes : Closed(X)' <=> Closed(X)
  BY DEF Closed
<1> QED
  BY <1>1 DEF Tree, Below

LEMMA RootFree ==
    ASSUME StructInv, NEW n \in Nodes
    PROVE  Root \notin Children(n)
<1>1. CASE br[n].fork # 0
  <2>1. Children(n) = {Left(n), Right(n)} /\ br[n].fork \in 1 .. MaxForks
    BY <1>1, KidFacts
  <2>2. Left(n)[1] # 0 /\ Right(n)[1] # 0
    BY <2>1 DEF Left, Right, LeftOf, RightOf
  <2> QED
    BY <2>1, <2>2, NodeFacts
<1> QED
  BY <1>1, NoKids

\* The father of a task that is not lost is not lost.
LEMMA TreeFather ==
    ASSUME StructInv, NEW n \in Nodes, NEW c \in Children(n), c \in Tree
    PROVE  n \in Tree
<1> SUFFICES ASSUME n \notin Tree PROVE FALSE
  OBVIOUS
<1> DEFINE X == Tree \ {c}
<1>1. Root \notin Children(n)
  BY RootFree
<1>2. Root \in X /\ X \in SUBSET Nodes
  BY <1>1, TreeSelf
<1>3. ASSUME NEW m \in X PROVE Children(m) \subseteq X
  <2>1. m \in Nodes /\ m # n /\ m \in Tree
    BY <1>3, TreeSelf
  <2>2. Children(m) \subseteq Tree
    BY <2>1, TreeSelf, BelowClosed DEF Tree, Closed
  <2>3. c \notin Children(m)
    BY <2>1, KidsElse
  <2> QED
    BY <2>2, <2>3
<1>4. Closed(X)
  BY <1>3 DEF Closed
<1> QED
  BY <1>2, <1>4, TreeSelf

LEMMA TreeKids ==
    ASSUME StructInv, NEW n \in Tree
    PROVE  Children(n) \subseteq Tree
  BY TreeSelf, BelowClosed DEF Tree, Closed

LEMMA TreeFork ==
    ASSUME StructInv, StructInv', NEW n \in Tree, NEW split, Fork(n, split)
    PROVE  Tree' = Tree \cup {LeftOf(forks + 1), RightOf(forks + 1)}
<1> SUFFICES ASSUME NEW l, NEW r, l = LeftOf(forks + 1), r = RightOf(forks + 1)
             PROVE  Tree' = Tree \cup {l, r}
  OBVIOUS
<1>1. n \in Nodes /\ Root \in Nodes
  BY TreeSelf
<1>2. /\ l \in Nodes /\ r \in Nodes
      /\ \A m \in Nodes \ {n, l, r} : br'[m] = br[m]
      /\ br'[n].fork = forks + 1 /\ br'[n].mode = "forked" /\ br[n].fork = 0
      /\ br'[l].mode = "run" /\ br'[r].mode = "run"
      /\ status[l] = "unborn" /\ status[r] = "unborn"
  BY <1>1, ForkShape, ForkFacts DEF Turns
<1>3. /\ Children(n)' = {l, r} /\ Children(n) = {}
      /\ Children(l)' = {} /\ Children(r)' = {}
      /\ \A m \in Nodes \ {n, l, r} : Children(m)' = Children(m)
  BY <1>1, <1>2, NoKids DEF Children, Left, Right
<1>4. Children(l) = {} /\ Children(r) = {}
  BY <1>2 DEF Children, StructInv, BranchInv, ShapeOf, Pending
<1>5. Tree \subseteq Tree'
  BY <1>1, <1>3, <1>4, BelowGrows DEF Tree
<1>6. l \in Tree' /\ r \in Tree'
  <2>1. ASSUME NEW X \in SUBSET Nodes, (Root \in X /\ Closed(X))' PROVE {l, r} \subseteq X
    <3>1. n \in X
      BY <1>5, <2>1, TreeSelf
    <3> QED
      BY <1>3, <2>1, <3>1 DEF Closed
  <2> QED
    BY <1>2, <2>1 DEF Tree, Below
<1>7. Tree' \subseteq Tree \cup {l, r}
  <2> DEFINE X == Tree \cup {l, r}
  <2>1. Root \in X /\ X \in SUBSET Nodes
    BY <1>2, TreeSelf
  <2>2. \A m \in X : Children(m)' \subseteq X
    <3>1. \A m \in Tree : Children(m) \subseteq Tree
      BY TreeKids
    <3> QED
      BY <1>3, <2>1, <3>1
  <2>3. \A Y \in SUBSET Nodes : Root \in Y /\ (\A m \in Y : Children(m)' \subseteq Y)
                                 => Tree' \subseteq Y
    BY TreeSelf DEF Closed
  <2> HIDE DEF X
  <2>4. Tree' \subseteq X
    BY <2>1, <2>2, <2>3
  <2> QED
    BY <2>4 DEF X
<1> QED
  BY <1>5, <1>6, <1>7

\* When n loses branches, what was below these is lost.
LEMMA TreeCut ==
    ASSUME StructInv, NEW n \in Nodes,
           \A m \in Nodes : Children(m)' \subseteq Children(m),
           \A m \in Nodes \ ({n} \cup UNION {Below(c) : c \in Children(n)}) :
                Children(m)' = Children(m)
    PROVE  /\ Tree' \subseteq Tree
           /\ \A m \in Tree \ Tree' : \E c \in Children(n) : m \in Below(c)
<1>1. Tree' \subseteq Tree
  <2>1. \A Y \in SUBSET Nodes : Root \in Y /\ (\A m \in Y : Children(m)' \subseteq Y)
                                 => Tree' \subseteq Y
    BY TreeSelf DEF Closed
  <2>2. \A m \in Tree : Children(m)' \subseteq Tree
    BY TreeKids, TreeSelf
  <2> QED
    BY <2>1, <2>2, TreeSelf
<1>2. ASSUME NEW m \in Tree, \A c \in Children(n) : m \notin Below(c) PROVE m \in Tree'
  BY <1>2, BelowCut, TreeSelf DEF Tree
<1> QED
  BY <1>1, <1>2

-----------------------------------------------------------------------------
(* A task that is lost has been told to stop *)

\* Whatever n would do next, it finds itself cancelled.
Halted(n) == \A t \in 1 .. Depth(n) + 1 : Token(n, t) \in sent

HaltedInv == \A n \in Nodes \ Tree : Live(n) => Halted(n)

LEMMA ReadyFree ==
    ASSUME TypeOK, HaltedInv, NEW n \in Nodes, Ready(n)
    PROVE  n \in Tree
<1>1. Depth(n) + 1 \in 1 .. Depth(n) + 1
  BY Fields
<1> QED
  BY <1>1 DEF HaltedInv, Halted, Ready, Cancelled

LEMMA HaltedKept ==
    ASSUME TypeOK, br' \in [Nodes -> Branches], sent \subseteq sent', NEW m \in Nodes,
           Shrinks(m), br'[m].token = br[m].token, Halted(m)
    PROVE  Halted(m)'
<1>1. \A t \in 1 .. Depth(m)' + 1 : t \in 1 .. Depth(m) + 1 /\ Token(m, t)' = Token(m, t)
  BY OpenShrinks
<1> QED
  BY <1>1 DEF Halted

LEMMA HaltedInner ==
    ASSUME StructInv, StructInv', HaltedInv, NEW n \in Nodes, Inner(n)
    PROVE  HaltedInv'
<1>1. TypeOK /\ br' \in [Nodes -> Branches]
  BY DEF StructInv, TypeOK
<1>2. Tree' = Tree
  BY InnerChildren, TreeSame
<1>3. UNCHANGED <<status, sent>>
  BY InnerFork
<1>4. ASSUME NEW m \in Nodes \ Tree, Live(m) PROVE Halted(m)'
  <2>1. Shrinks(m)
    <3>1. CASE m # n
      BY <1>1, <3>1, InnerShape, ShrinksFrom
    <3>2. CASE m = n
      <4>1. ~\E kind \in Kinds, key \in Keys \cup {NoKey} : Enter(n, kind, key)
        BY <1>1, <1>4, <3>2, ReadyFree DEF Enter
      <4> QED
        BY <3>2, <4>1, InnerShape
    <3> QED
      BY <3>1, <3>2
  <2>2. br'[m].token = br[m].token
    BY InnerChildren
  <2> QED
    BY <1>1, <1>3, <1>4, <2>1, <2>2, HaltedKept DEF HaltedInv
<1> QED
  BY <1>2, <1>3, <1>4 DEF HaltedInv, Live

LEMMA HaltedFork ==
    ASSUME StructInv, StructInv', HaltedInv, NEW n \in Nodes, NEW split, Fork(n, split)
    PROVE  HaltedInv'
<1> SUFFICES ASSUME NEW l, NEW r, l = LeftOf(forks + 1), r = RightOf(forks + 1)
             PROVE  HaltedInv'
  OBVIOUS
<1>1. TypeOK
  BY DEF StructInv
<1>2. n \in Tree
  BY <1>1, ReadyFree DEF Fork, ForkInto
<1>3. Tree' = Tree \cup {l, r}
  BY <1>2, TreeFork
<1>4. /\ \A m \in Nodes \ {n, l, r} : br'[m] = br[m]
      /\ status' = [status EXCEPT ![l] = "running", ![r] = "running"]
  BY ForkShape
<1>5. sent' = sent
  BY DEF Fork, ForkInto
<1>6. ASSUME NEW m \in Nodes \ Tree', Live(m)' PROVE Halted(m)'
  <2>1. m \in Nodes \ Tree /\ br'[m] = br[m] /\ status'[m] = status[m]
    BY <1>1, <1>2, <1>3, <1>4 DEF TypeOK
  <2>2. Halted(m)
    BY <1>6, <2>1 DEF HaltedInv, Live
  <2> QED
    BY <1>5, <2>1, <2>2 DEF Halted, Depth, Token
<1> QED
  BY <1>6 DEF HaltedInv

\* Neither stacks nor Forks change, but a task may be over.
LEMMA HaltedSame ==
    ASSUME HaltedInv, sent \subseteq sent',
           \A m \in Nodes : Children(m)' = Children(m),
           \A m \in Nodes : Live(m)' => Live(m) /\ br'[m].stack = br[m].stack
                                               /\ br'[m].token = br[m].token
    PROVE  HaltedInv'
<1>1. Tree' = Tree
  BY TreeSame
<1>2. ASSUME NEW m \in Nodes \ Tree, Live(m)' PROVE Halted(m)'
  <2>1. Halted(m) /\ br'[m].stack = br[m].stack /\ br'[m].token = br[m].token
    BY <1>2 DEF HaltedInv
  <2> QED
    BY <2>1 DEF Halted, Depth, Token
<1> QED
  BY <1>1, <1>2 DEF HaltedInv

LEMMA Least ==
  ASSUME NEW T \in SUBSET Nat, T # {}
  PROVE  \E x \in T : \A y \in T : x <= y
<1>1. \E x \in T : \A y \in T : <<y, x>> \notin OpToRel(<, Nat)
  BY NatLessThanWellFounded, WFMin, Zenon
<1>2. ASSUME NEW x \in Nat, NEW y \in Nat, <<y, x>> \notin OpToRel(<, Nat)
      PROVE  ~(y < x)
  BY <1>2, Zenon DEF OpToRel
<1>3. ASSUME NEW x \in Nat, NEW y \in Nat, ~(y < x)
      PROVE  x <= y
  BY <1>3
<1>4. T \subseteq Nat
  OBVIOUS
<1> HIDE <1>1
<1> QED
  BY <1>1, <1>2, <1>3, <1>4, Zenon

\* When the grace is over, every branch below a Timeout that fired was told.
LEMMA ToldFrames ==
    ASSUME StructInv, KinInv, Told, NEW n \in Nodes, Live(n),
           NEW i \in 1 .. Depth(n) + 1, Token(n, i) \in sent
    PROVE  \A s \in i .. Depth(n) + 1 : Token(n, s) \in sent
<1> DEFINE d == Depth(n)
<1>1. d \in Nat /\ DOMAIN br[n].stack = 1 .. d
  BY Fields DEF StructInv
<1>2. ASSUME NEW s \in i .. d, Token(n, s) \in sent PROVE Token(n, s + 1) \in sent
  <2>1. s \in 1 .. d /\ s + 1 # 1 /\ (s + 1) - 1 = s
    BY <1>1
  <2>2. Token(n, s + 1) = br[n].stack[s].token
    BY <2>1 DEF Token
  <2>3. CASE br[n].stack[s].kind = "timeout"
    <3>1. s \in Timeouts(n)
      BY <1>1, <2>1, <2>3 DEF Timeouts
    <3> QED
      BY <1>2, <2>2, <3>1 DEF Told, Fired
  <2>4. CASE br[n].stack[s].kind # "timeout"
    BY <1>2, <2>1, <2>2, <2>4 DEF KinInv, KinOf
  <2> QED
    BY <2>3, <2>4
<1> DEFINE bad == {s \in i .. d + 1 : Token(n, s) \notin sent}
<1> HIDE DEF d
<1>3. SUFFICES bad = {}
  BY DEF d
<1>4. SUFFICES ASSUME bad # {} PROVE FALSE
  OBVIOUS
<1>5. PICK s \in bad : \A q \in bad : s <= q
  <2>1. bad \subseteq Nat
    BY <1>1
  <2> QED
    BY <1>4, <2>1, Least
<1>6. s # i
  BY <1>5
<1>7. s - 1 \in i .. d /\ s - 1 \notin bad
  BY <1>1, <1>5, <1>6
<1>8. Token(n, s - 1) \in sent /\ (s - 1) + 1 = s
  BY <1>1, <1>7
<1>9. Token(n, s) \in sent
  BY <1>2, <1>7, <1>8
<1> QED
  BY <1>5, <1>9

\* A task that is forked is alive.
LEMMA FatherLives ==
    ASSUME StructInv, NEW n \in Nodes, Children(n) # {}
    PROVE  Live(n) /\ br[n].mode = "forked"
<1>1. br[n].mode = "forked" /\ status[n] \in Statuses
  BY DEF Children, StructInv, TypeOK
<1> QED
  BY <1>1 DEF StructInv, BranchInv, ShapeOf, Pending, Live, Statuses

LEMMA ToldBelow ==
    ASSUME StructInv, KinInv, Told, NEW c \in Nodes, br[c].token \in sent,
           NEW m \in Below(c), Live(m)
    PROVE  Halted(m)
<1> DEFINE X == {q \in Nodes : br[q].token \in sent}
<1>1. ASSUME NEW q \in Nodes, br[q].token \in sent, Live(q) PROVE Halted(q)
  <2>1. 1 \in 1 .. Depth(q) + 1 /\ Token(q, 1) = br[q].token
    BY Fields DEF Token, StructInv
  <2> QED
    BY <1>1, <2>1, ToldFrames DEF Halted
<1>2. ASSUME NEW q \in X, NEW d \in Children(q) PROVE d \in X
  <2>1. q \in Nodes /\ d \in Nodes /\ Live(q)
    BY <1>2, KidNodes, FatherLives
  <2>2. Depth(q) + 1 \in 1 .. Depth(q) + 1
    BY <2>1, Fields DEF StructInv
  <2>3. Token(q, Depth(q) + 1) \in sent
    BY <1>1, <1>2, <2>1, <2>2 DEF Halted
  <2>4. br[d].token = Token(q, Depth(q) + 1)
    BY <1>2, <2>1 DEF KinInv, KinOf
  <2> QED
    BY <2>1, <2>3, <2>4
<1>3. c \in X /\ X \in SUBSET Nodes /\ Closed(X)
  BY <1>2 DEF Closed
<1> HIDE DEF X
<1>4. m \in X
  BY <1>3, BelowIn
<1> QED
  BY <1>1, <1>4 DEF X

\* What a Fork of n leaves running when it ends, of what was below it, has
\* been told.
LEMMA HaltedEnds ==
    ASSUME StructInv, StructInv', HaltedInv, NEW n \in Nodes, Ends(n), br'[n].fork = 0,
           UNCHANGED sent,
           \A m \in Nodes \ Children(n) : status'[m] = status[m],
           \A c \in Children(n) :
              \/ ~Live(c)' /\ Children(c) = {}
              \/ /\ status[c] = "running" /\ br'[c] = br[c]
                 /\ \A m \in Below(c) : Live(m) => Halted(m)
    PROVE  HaltedInv'
<1>1. TypeOK /\ br' \in [Nodes -> Branches]
  BY DEF StructInv, TypeOK
<1>2. \A m \in Nodes : Children(m)' \subseteq Children(m)
  <2>1. ASSUME NEW m \in Nodes PROVE br'[m].fork \in {0, br[m].fork}
    BY DEF Ends
  <2> QED
    BY <2>1, KidsSame
<1>3. \A m \in Nodes \ ({n} \cup UNION {Below(c) : c \in Children(n)}) :
            Children(m)' = Children(m)
  <2>1. ASSUME NEW m \in Nodes \ {n}, m \notin Children(n) PROVE Children(m)' = Children(m)
    BY <2>1, KidsSame DEF Ends
  <2>2. \A c \in Children(n) : c \in Below(c)
    BY BelowSelf, KidNodes
  <2> QED
    BY <2>1, <2>2
<1>4. \A m \in Tree \ Tree' : \E c \in Children(n) : m \in Below(c)
  BY <1>2, <1>3, TreeCut
<1>5. ASSUME NEW m \in Nodes, Live(m), Halted(m), br'[m] = br[m] \/ m = n
      PROVE  Halted(m)'
  <2>1. Shrinks(m) /\ br'[m].token = br[m].token
    BY <1>1, <1>5, ShrinksFrom DEF Ends
  <2> QED
    BY <1>1, <1>5, <2>1, HaltedKept
<1>6. ASSUME NEW m \in Nodes \ Tree', Live(m)' PROVE Halted(m)'
  <2>1. CASE m \in Children(n)
    <3>1. br'[m] = br[m] /\ Live(m) /\ m \in Below(m)
      BY <1>6, <2>1, BelowSelf DEF Live
    <3> QED
      BY <1>5, <1>6, <2>1, <3>1
  <2>2. CASE m \notin Children(n)
    <3>1. Live(m) /\ (br'[m] = br[m] \/ m = n)
      BY <1>6, <2>2 DEF Live, Ends
    <3>2. CASE m \notin Tree
      BY <1>5, <1>6, <3>1, <3>2 DEF HaltedInv
    <3>3. CASE m \in Tree
      <4>1. PICK c \in Children(n) : m \in Below(c)
        BY <1>4, <1>6, <3>3
      <4>2. Children(c) # {}
        BY <2>2, <4>1, KidNodes, BelowLeaf
      <4> QED
        BY <1>5, <1>6, <3>1, <4>1, <4>2
    <3> QED
      BY <3>2, <3>3
  <2> QED
    BY <2>1, <2>2
<1> QED
  BY <1>6 DEF HaltedInv

LEMMA HaltedComplete ==
    ASSUME StructInv, StructInv', HaltedInv, NEW n \in Nodes, Completes(n)
    PROVE  HaltedInv'
<1>1. Ends(n) /\ br'[n].fork = 0
  BY CompleteEnds
<1>2. /\ br[n].fork # 0
      /\ status[Left(n)] \in {"finished", "joined"}
      /\ status[Right(n)] \in {"finished", "stashed"}
      /\ \A m \in Nodes \ {Left(n), Right(n)} : status'[m] = status[m]
      /\ status'[Left(n)] = "joined" /\ status'[Right(n)] = "joined"
  BY CompleteShape
<1>3. Children(n) = {Left(n), Right(n)} /\ Children(n) \subseteq Nodes
  BY <1>2, KidFacts
<1>4. sent' = sent
  <2>1. JoinRight(n) => sent' = sent
    BY DEF JoinRight
  <2>2. JoinLeft(n) => sent' = sent
    BY DEF JoinLeft
  <2> QED
    BY <2>1, <2>2 DEF Completes
<1>5. \A c \in Children(n) : ~Live(c)' /\ Children(c) = {}
  BY <1>2, <1>3, FatherLives DEF Live
<1> QED
  BY <1>1, <1>2, <1>3, <1>4, <1>5, HaltedEnds

LEMMA HaltedGrace ==
    ASSUME StructInv, StructInv', KinInv, HaltedInv, NEW n \in Nodes,
           NEW t \in DOMAIN br[n].stack, GraceEnds(n, t)
    PROVE  HaltedInv'
<1>1. Ends(n) /\ br'[n].fork = 0
  BY GraceEndsFork
<1>2. /\ Live(n) /\ t \in 1 .. Depth(n) /\ Children(n) \subseteq Nodes \ {n}
      /\ \A m \in Nodes \ Children(n) : status'[m] = status[m]
      /\ \A c \in Children(n) :
           IF status[c] = "running"
           THEN br'[c] = br[c] /\ status'[c] = "orphan"
           ELSE br'[c] = Nobody /\ status'[c] \in {"dead", "joined"}
  BY GraceShape
<1>3. sent' = sent /\ Told /\ Fired(n, t)
  BY DEF GraceEnds
<1>4. Token(n, Depth(n) + 1) \in sent
  <2>1. /\ t + 1 \in 1 .. Depth(n) + 1 /\ (t + 1) - 1 = t /\ t + 1 # 1
        /\ Depth(n) + 1 \in t + 1 .. Depth(n) + 1
    BY <1>2, Fields DEF StructInv
  <2>2. Token(n, t + 1) \in sent
    BY <1>3, <2>1 DEF Token, Fired
  <2> QED
    BY <1>2, <1>3, <2>1, <2>2, ToldFrames
<1>5. ASSUME NEW c \in Children(n), status[c] = "running"
      PROVE  \A m \in Below(c) : Live(m) => Halted(m)
  <2>1. br[c].token \in sent /\ c \in Nodes
    BY <1>2, <1>4 DEF KinInv, KinOf
  <2> QED
    BY <1>3, <2>1, ToldBelow
<1>6. ASSUME NEW c \in Children(n), status[c] # "running"
      PROVE  ~Live(c)' /\ Children(c) = {}
  <2>1. status[c] # "orphan" /\ c \in Nodes
    BY <1>2, KidFacts, NoKids DEF StructInv, TreeInv
  <2> QED
    BY <1>2, <1>6, <2>1, FatherLives DEF Live
<1> QED
  BY <1>1, <1>2, <1>3, <1>5, <1>6, HaltedEnds

LEMMA InitHalted == Init => HaltedInv
<1> SUFFICES ASSUME Init, NEW n \in Nodes \ Tree PROVE ~Live(n)
  BY DEF HaltedInv
<1> QED
  BY TreeSelf DEF Init, Live

LEMMA HaltedStep ==
    ASSUME StructInv, StructInv', KinInv, HaltedInv, [Next]_vars
    PROVE  HaltedInv'
<1>1. ASSUME NEW n \in Nodes, NEW t \in DOMAIN br[n].stack, GraceEnds(n, t)
      PROVE  HaltedInv'
  BY <1>1, HaltedGrace
<1>2. CASE UNCHANGED <<br, status>> /\ sent \subseteq sent'
  BY <1>2, HaltedSame DEF Children, Left, Right, Live
<1>3. ASSUME NEW n \in Nodes, Stash(n) \/ \E t \in DOMAIN br[n].stack : Fire(n, t)
      PROVE  HaltedInv'
  <2>1. UNCHANGED br /\ sent \subseteq sent'
    BY <1>3 DEF Stash, Fire
  <2>2. \A m \in Nodes : Live(m)' => Live(m)
    BY <1>3 DEF Stash, Fire, Live, StructInv, TypeOK
  <2> QED
    BY <2>1, <2>2, HaltedSame DEF Children, Left, Right
<1>4. ASSUME NEW n \in Nodes, JoinLeft(n), status[Right(n)] # "stashed"
      PROVE  HaltedInv'
  <2> DEFINE l == Left(n)
  <2>1. /\ br[n].fork # 0
        /\ \A m \in Nodes \ {n, l} : br'[m] = br[m]
        /\ br'[n].stack = br[n].stack /\ br'[n].fork = br[n].fork
        /\ br'[l].stack = br[l].stack /\ br'[l].fork = br[l].fork
        /\ status' = [status EXCEPT ![l] = "joined"]
    BY <1>4, MergeLeftShape DEF Turns
  <2>2. l \in Children(n) /\ l \in Nodes
    BY <2>1, KidFacts
  <2>3. br'[n].token = br[n].token /\ br'[l].token = br[l].token
    BY <1>4, <2>1, <2>2, MergeLeftEnds DEF Ends
  <2> HIDE DEF l
  <2>4. \A m \in Nodes : br'[m].fork = br[m].fork /\ br'[m].stack = br[m].stack
                         /\ br'[m].token = br[m].token
    BY <2>1, <2>3
  <2>5. \A m \in Nodes : Children(m)' = Children(m)
    BY <2>4, KidsSame
  <2>6. \A m \in Nodes : Live(m)' => Live(m)
    BY <2>1 DEF Live, StructInv, TypeOK
  <2>7. sent' = sent
    BY <1>4 DEF JoinLeft
  <2> QED
    BY <2>4, <2>5, <2>6, <2>7, HaltedSame
<1>5. ASSUME NEW n \in Nodes, Finish(n) PROVE HaltedInv'
  <2>1. /\ br[n].fork = 0 /\ Live(n)
        /\ \/ /\ status' = [status EXCEPT ![n] = "dead"]
              /\ br' = [br EXCEPT ![n] = Nobody]
           \/ /\ status' = [status EXCEPT ![n] = "finished"]
              /\ br' = br
    BY <1>5, FinishShape
  <2>2. sent' = sent
    BY <1>5 DEF Finish
  <2>3. \A m \in Nodes : br'[m].fork = br[m].fork
    BY <2>1, NobodyTypes DEF StructInv, TypeOK
  <2>4. \A m \in Nodes : Children(m)' = Children(m)
    BY <2>3, KidsSame
  <2>5. \A m \in Nodes : Live(m)' => Live(m) /\ br'[m] = br[m]
    BY <2>1 DEF Live, StructInv, TypeOK
  <2> QED
    BY <2>2, <2>4, <2>5, HaltedSame
<1>6. CASE UNCHANGED vars
  BY <1>2, <1>6 DEF vars
<1> QED
  BY <1>1, <1>3, <1>4, <1>5, <1>6, StepCases, HaltedInner, HaltedFork, HaltedComplete
     DEF AnyFork

-----------------------------------------------------------------------------
(* Who names a key *)

\* Of two tasks that name the same thing one is below the other.
LEMMA Related ==
    ASSUME StructInv, NEW a \in Tree, NEW b \in Tree, NEW k,
           k \in br[a].names, k \in br[b].names
    PROVE  a \in Below(b) \/ b \in Below(a)
<1> DEFINE X == {q \in Nodes : k \in br[q].names => q \in Below(b) \/ b \in Below(q)}
<1>1. a \in Nodes /\ b \in Nodes /\ Root \in Nodes /\ b \in Below(Root)
  BY TreeSelf DEF Tree
<1>2. ASSUME NEW q \in X, NEW d \in Children(q) PROVE d \in X
  <2>1. q \in Nodes /\ d \in Nodes /\ br[q].fork # 0
    BY <1>2, KidNodes, NoKids
  <2>2. SUFFICES ASSUME k \in br[d].names PROVE d \in Below(b) \/ b \in Below(d)
    BY <2>1
  <2>3. Children(q) = {Left(q), Right(q)}
    BY <2>1, KidFacts
  <2>4. /\ br[d].names \subseteq br[q].names
        /\ \A e \in Children(q) : e # d => br[d].names \cap br[e].names = {}
    BY <1>2, <2>1, <2>3 DEF StructInv, TreeInv
  <2>5. CASE q \in Below(b)
    BY <1>1, <1>2, <2>5, BelowKid
  <2>6. CASE b \in Below(q) /\ b # q
    <3>1. PICK e \in Children(q) : b \in Below(e)
      BY <2>1, <2>6, BelowSplit
    <3>2. k \in br[e].names
      BY <2>1, <3>1, KidNodes, BelowNames
    <3>3. e = d
      BY <2>2, <2>4, <3>2
    <3> QED
      BY <3>1, <3>3
  <2>7. CASE b = q
    BY <1>1, <2>5, <2>7, BelowSelf
  <2> QED
    BY <1>2, <2>2, <2>4, <2>5, <2>6, <2>7
<1>3. Root \in X /\ X \in SUBSET Nodes /\ Closed(X)
  BY <1>1, <1>2 DEF Closed
<1> HIDE DEF X
<1>4. a \in X
  BY <1>3, TreeSelf
<1> QED
  BY <1>4 DEF X

LEMMA OpenNames ==
    ASSUME StructInv, KinInv, NEW n \in Nodes, NEW k \in Keys \cap Open(n)
    PROVE  /\ k \in br[n].names
           /\ \E t \in 1 .. Depth(n) : br[n].stack[t].kind = "idem" /\ br[n].stack[t].key = k
<1>1. PICK t \in DOMAIN br[n].stack : br[n].stack[t].key = k
  BY DEF Open
<1>2. t \in 1 .. Depth(n) /\ k # NoKey
  BY <1>1, Fields, SentinelAssumption DEF StructInv
<1> QED
  BY <1>1, <1>2 DEF KinInv, KinOf

\* A task in a segment is alone: who else names its key waits for it.
LEMMA OpenOne ==
    ASSUME StructInv, KinInv, NEW n \in Tree, NEW k \in Keys \cap Open(n),
           NEW a \in Tree, a # n, k \in br[a].names
    PROVE  Children(a) # {} /\ k \notin Open(a)
<1>1. n \in Nodes /\ a \in Nodes /\ k \in br[n].names
  BY TreeSelf, OpenNames
<1>2. CASE a \in Below(n)
  <2>1. PICK c \in Children(n) : a \in Below(c)
    BY <1>1, <1>2, BelowSplit
  <2>2. k \in br[c].names
    BY <1>1, <2>1, KidNodes, BelowNames
  <2> QED
    BY <1>1, <2>1, <2>2 DEF KinInv, KinOf
<1>3. CASE n \in Below(a)
  <2>1. PICK c \in Children(a) : n \in Below(c)
    BY <1>1, <1>3, BelowSplit
  <2>2. k \in br[c].names
    BY <1>1, <2>1, KidNodes, BelowNames
  <2> QED
    BY <1>1, <2>1, <2>2 DEF KinInv, KinOf
<1> QED
  BY <1>1, <1>2, <1>3, Related

-----------------------------------------------------------------------------
(* The undo of a commit *)

\* s reverts k, and does so twice.
Carries(s, k) == \E i \in 1 .. Len(s) : s[i].key = k
Twice(s, k) == \E i, j \in 1 .. Len(s) : i # j /\ s[i].key = k /\ s[j].key = k

LEMMA CarriesNone ==
    ASSUME NEW k
    PROVE  ~Carries(<< >>, k) /\ ~Twice(<< >>, k)
<1>1. Len(<< >>) = 0 /\ 1 .. 0 = {}
  OBVIOUS
<1> QED
  BY <1>1 DEF Carries, Twice

LEMMA CarriesJoin ==
    ASSUME NEW s \in Seq(Undos), NEW t \in Seq(Undos), NEW k
    PROVE  /\ Carries(s \o t, k) => Carries(s, k) \/ Carries(t, k)
           /\ Twice(s \o t, k) =>
                Twice(s, k) \/ Twice(t, k) \/ (Carries(s, k) /\ Carries(t, k))
<1> DEFINE w == s \o t
           m == Len(s)
           n == Len(t)
<1>1. /\ Len(w) = m + n /\ m \in Nat /\ n \in Nat
      /\ \A i \in 1 .. m : w[i] = s[i]
      /\ \A i \in 1 .. n : w[m + i] = t[i]
  BY JoinProperties
<1>2. \A i \in 1 .. m + n : i \in 1 .. m \/ (i - m \in 1 .. n /\ i = m + (i - m))
  BY <1>1
<1>3. \A i \in 1 .. m + n :
        \/ i \in 1 .. m /\ w[i] = s[i]
        \/ i - m \in 1 .. n /\ w[i] = t[i - m]
  BY <1>1, <1>2
<1> HIDE DEF w
<1>4. Carries(w, k) => Carries(s, k) \/ Carries(t, k)
  BY <1>1, <1>3 DEF Carries
<1>5. ASSUME NEW i \in 1 .. m + n, NEW j \in 1 .. m + n, i # j, w[i].key = k, w[j].key = k
      PROVE  Twice(s, k) \/ Twice(t, k) \/ (Carries(s, k) /\ Carries(t, k))
  <2>1. CASE i \in 1 .. m /\ w[i] = s[i] /\ j \in 1 .. m /\ w[j] = s[j]
    BY <1>5, <2>1 DEF Twice
  <2>2. CASE i - m \in 1 .. n /\ w[i] = t[i - m] /\ j - m \in 1 .. n /\ w[j] = t[j - m]
    <3>1. i - m # j - m
      BY <1>1, <1>5
    <3> QED
      BY <1>5, <2>2, <3>1 DEF Twice
  <2>3. CASE i \in 1 .. m /\ w[i] = s[i] /\ j - m \in 1 .. n /\ w[j] = t[j - m]
    BY <1>5, <2>3 DEF Carries
  <2>4. CASE j \in 1 .. m /\ w[j] = s[j] /\ i - m \in 1 .. n /\ w[i] = t[i - m]
    BY <1>5, <2>4 DEF Carries
  <2> QED
    BY <1>3, <2>1, <2>2, <2>3, <2>4
<1>6. Twice(w, k) => Twice(s, k) \/ Twice(t, k) \/ (Carries(s, k) /\ Carries(t, k))
  BY <1>1, <1>5 DEF Twice
<1> QED
  BY <1>4, <1>6 DEF w

LEMMA CarriesMerged ==
    ASSUME NEW s \in Seq(Undos), NEW t \in Seq(Undos), NEW u \in Seq(Undos), NEW k
    PROVE  /\ Carries((s \o t) \o u, k) => Carries(s, k) \/ Carries(t, k) \/ Carries(u, k)
           /\ Twice((s \o t) \o u, k) =>
                \/ Twice(s, k) \/ Twice(t, k) \/ Twice(u, k)
                \/ (Carries(s, k) /\ Carries(t, k)) \/ (Carries(s, k) /\ Carries(u, k))
                \/ (Carries(t, k) /\ Carries(u, k))
<1> DEFINE w == s \o t
<1>1. w \in Seq(Undos)
  BY JoinProperties
<1>2. /\ Carries(w, k) => Carries(s, k) \/ Carries(t, k)
      /\ Twice(w, k) => Twice(s, k) \/ Twice(t, k) \/ (Carries(s, k) /\ Carries(t, k))
  BY CarriesJoin
<1> HIDE DEF w
<1>3. /\ Carries(w \o u, k) => Carries(w, k) \/ Carries(u, k)
      /\ Twice(w \o u, k) => Twice(w, k) \/ Twice(u, k) \/ (Carries(w, k) /\ Carries(u, k))
  BY <1>1, CarriesJoin
<1> QED
  BY <1>2, <1>3 DEF w

LEMMA CarriesPush ==
    ASSUME NEW s \in Seq(Undos), NEW u \in Undos, NEW k
    PROVE  /\ u.key # k => (Carries(Append(s, u), k) => Carries(s, k))
                           /\ (Twice(Append(s, u), k) => Twice(s, k))
           /\ ~Carries(s, k) => ~Twice(Append(s, u), k)
<1> DEFINE t == Append(s, u)
           m == Len(s)
<1>1. /\ Len(t) = m + 1 /\ m \in Nat /\ t[m + 1] = u
      /\ \A i \in 1 .. m : t[i] = s[i]
  BY PushProperties
<1>2. 1 .. m + 1 = 1 .. m \cup {m + 1}
  BY <1>1
<1> HIDE DEF t, m
<1> QED
  BY <1>1, <1>2 DEF Carries, Twice, t, m

LEMMA CarriesPop ==
    ASSUME NEW s \in Seq(Undos), Len(s) # 0, NEW k
    PROVE  LET t == SubSeq(s, 1, Len(s) - 1) IN
           /\ Carries(t, k) => Carries(s, k)
           /\ Twice(t, k) => Twice(s, k)
           /\ s[Len(s)].key = k /\ ~Twice(s, k) => ~Carries(t, k)
<1> DEFINE m == Len(s) - 1
           t == SubSeq(s, 1, m)
<1>1. Len(s) \in Nat /\ m \in Nat /\ m \in 0 .. Len(s) /\ Len(s) = m + 1
  OBVIOUS
<1>2. Len(t) = m /\ \A i \in 1 .. m : t[i] = s[i]
  BY <1>1, CutProperties
<1>3. 1 .. m + 1 = 1 .. m \cup {m + 1} /\ m + 1 \notin 1 .. m
  BY <1>1
<1> HIDE DEF t, m
<1> QED
  BY <1>1, <1>2, <1>3 DEF Carries, Twice, t, m

\* A key that can be reverted is COMMITTED, and is reverted once, by one task.
RevertOf(k) ==
    \A a \in Nodes : Carries(br[a].undo, k) =>
        /\ idem[k] = "committed"
        /\ ~Twice(br[a].undo, k)
        /\ \A b \in Nodes : Carries(br[b].undo, k) => a = b

RevertInv == \A k \in Keys : RevertOf(k)

\* The undos of g go to f[g].
LEMMA RevertFrom ==
    ASSUME UNCHANGED idem, NEW k \in Keys, RevertOf(k), NEW f,
           \A m \in Nodes :
              /\ Carries(br'[m].undo, k) =>
                    \E g \in Nodes : f[g] = m /\ Carries(br[g].undo, k)
              /\ Twice(br'[m].undo, k) =>
                    \E g, h \in Nodes : \/ Carries(br[g].undo, k) /\ Twice(br[g].undo, k)
                                        \/ g # h /\ Carries(br[g].undo, k)
                                                 /\ Carries(br[h].undo, k)
    PROVE  RevertOf(k)'
<1>1. ASSUME NEW a \in Nodes, Carries(br'[a].undo, k)
      PROVE  /\ idem[k] = "committed" /\ ~Twice(br'[a].undo, k)
             /\ \A b \in Nodes : Carries(br'[b].undo, k) => a = b
  BY <1>1 DEF RevertOf
<1> QED
  BY <1>1 DEF RevertOf

LEMMA RevertLess ==
    ASSUME RevertInv, UNCHANGED idem,
           \A m \in Nodes : \/ br'[m].undo = br[m].undo
                            \/ br'[m].undo = << >>
    PROVE  RevertInv'
<1> SUFFICES ASSUME NEW k \in Keys PROVE RevertOf(k)'
  BY DEF RevertInv
<1> DEFINE f == [g \in Nodes |-> g]
<1>1. \A m \in Nodes : /\ Carries(br'[m].undo, k) => Carries(br[m].undo, k)
                       /\ Twice(br'[m].undo, k) =>
                            Carries(br[m].undo, k) /\ Twice(br[m].undo, k)
  BY CarriesNone DEF Carries, Twice
<1>2. RevertOf(k) /\ \A m \in Nodes : f[m] = m
  BY DEF RevertInv
<1> HIDE DEF f
<1> QED
  BY <1>1, <1>2, RevertFrom

\* The undos of l are merged into those of n,
LEMMA RevertMergeOne ==
    ASSUME StructInv, RevertInv, UNCHANGED idem, NEW n \in Nodes, NEW l \in Nodes \ {n},
           NEW joined, joined = br[n].undo \o br[l].undo,
           br'[n].undo = joined, br'[l].undo = << >>,
           \A m \in Nodes \ {n, l} : br'[m].undo \in {br[m].undo, << >>}
    PROVE  RevertInv'
<1> SUFFICES ASSUME NEW k \in Keys PROVE RevertOf(k)'
  BY DEF RevertInv
<1>1. br[n].undo \in Seq(Undos) /\ br[l].undo \in Seq(Undos) /\ RevertOf(k)
  BY Fields DEF StructInv, RevertInv
<1>2. \A s : Twice(s, k) => Carries(s, k)
  BY DEF Carries, Twice
<1>3. /\ Carries(joined, k) => Carries(br[n].undo, k) \/ Carries(br[l].undo, k)
      /\ Twice(joined, k) =>
            \/ Twice(br[n].undo, k) \/ Twice(br[l].undo, k)
            \/ Carries(br[n].undo, k) /\ Carries(br[l].undo, k)
  BY <1>1, CarriesJoin
<1>4. ~Carries(<< >>, k) /\ ~Twice(<< >>, k)
  BY CarriesNone
<1> DEFINE f == [g \in Nodes |-> IF g = l THEN n ELSE g]
<1>5. f[n] = n /\ f[l] = n /\ \A m \in Nodes \ {n, l} : f[m] = m
  OBVIOUS
<1> HIDE DEF f
<1>6. ASSUME NEW m \in Nodes
      PROVE  /\ Carries(br'[m].undo, k) =>
                  \E g \in Nodes : f[g] = m /\ Carries(br[g].undo, k)
             /\ Twice(br'[m].undo, k) =>
                  \E g, h \in Nodes : \/ Carries(br[g].undo, k) /\ Twice(br[g].undo, k)
                                      \/ g # h /\ Carries(br[g].undo, k)
                                               /\ Carries(br[h].undo, k)
  <2>1. CASE m = n
    BY <1>2, <1>3, <1>5, <2>1
  <2>2. CASE m = l
    BY <1>4, <2>2
  <2>3. CASE m # n /\ m # l
    <3>1. f[m] = m /\ (br'[m].undo = br[m].undo \/ br'[m].undo = << >>)
      BY <1>5, <2>3
    <3> QED
      BY <1>2, <1>4, <3>1
  <2> QED
    BY <2>1, <2>2, <2>3
<1> QED
  BY <1>1, <1>6, RevertFrom

\* and those of r with them.
MergesBoth(n, l, r) ==
    /\ l # n /\ r # n /\ l # r
    /\ br'[n].undo = (br[n].undo \o br[l].undo) \o br[r].undo
    /\ br'[l].undo = << >> /\ br'[r].undo = << >>
    /\ \A m \in Nodes \ {n, l, r} : br'[m].undo = br[m].undo

LEMMA RevertMergeBoth ==
    ASSUME StructInv, RevertInv, UNCHANGED idem,
           NEW n \in Nodes, NEW l \in Nodes, NEW r \in Nodes, MergesBoth(n, l, r)
    PROVE  RevertInv'
<1> DEFINE all == (br[n].undo \o br[l].undo) \o br[r].undo
<1>1. /\ l # n /\ r # n /\ l # r /\ br'[n].undo = all
      /\ br'[l].undo = << >> /\ br'[r].undo = << >>
      /\ \A m \in Nodes \ {n, l, r} : br'[m].undo = br[m].undo
  BY DEF MergesBoth
<1> SUFFICES ASSUME NEW k \in Keys PROVE RevertOf(k)'
  BY DEF RevertInv
<1>2. /\ br[n].undo \in Seq(Undos) /\ br[l].undo \in Seq(Undos) /\ br[r].undo \in Seq(Undos)
      /\ RevertOf(k)
  BY Fields DEF StructInv, RevertInv
<1>3. \A s : Twice(s, k) => Carries(s, k)
  BY DEF Carries, Twice
<1>4. /\ Carries(all, k) => \/ Carries(br[n].undo, k) \/ Carries(br[l].undo, k)
                            \/ Carries(br[r].undo, k)
      /\ Twice(all, k) =>
              \/ Twice(br[n].undo, k) \/ Twice(br[l].undo, k) \/ Twice(br[r].undo, k)
              \/ (Carries(br[n].undo, k) /\ Carries(br[l].undo, k))
              \/ (Carries(br[n].undo, k) /\ Carries(br[r].undo, k))
              \/ (Carries(br[l].undo, k) /\ Carries(br[r].undo, k))
  BY <1>2, CarriesMerged
<1> HIDE DEF all
<1>5. ~Carries(<< >>, k) /\ ~Twice(<< >>, k)
  BY CarriesNone
<1> DEFINE f == [g \in Nodes |-> IF g \in {l, r} THEN n ELSE g]
<1>6. f[n] = n /\ f[l] = n /\ f[r] = n /\ \A m \in Nodes \ {n, l, r} : f[m] = m
  OBVIOUS
<1> HIDE DEF f
<1>7. ASSUME NEW m \in Nodes
      PROVE  /\ Carries(br'[m].undo, k) =>
                  \E g \in Nodes : f[g] = m /\ Carries(br[g].undo, k)
             /\ Twice(br'[m].undo, k) =>
                  \E g, h \in Nodes : \/ Carries(br[g].undo, k) /\ Twice(br[g].undo, k)
                                      \/ g # h /\ Carries(br[g].undo, k)
                                               /\ Carries(br[h].undo, k)
  <2>1. CASE m = n
    <3>1. Carries(br'[n].undo, k) => \/ Carries(br[n].undo, k) \/ Carries(br[l].undo, k)
                                     \/ Carries(br[r].undo, k)
      BY <1>4, <1>1
    <3>2. Twice(br'[n].undo, k) =>
            \/ Twice(br[n].undo, k) \/ Twice(br[l].undo, k) \/ Twice(br[r].undo, k)
            \/ Carries(br[n].undo, k) /\ Carries(br[l].undo, k)
            \/ Carries(br[n].undo, k) /\ Carries(br[r].undo, k)
            \/ Carries(br[l].undo, k) /\ Carries(br[r].undo, k)
      BY <1>4, <1>1
    <3>3. n # l /\ n # r /\ l # r
      BY <1>1
    <3> QED
      BY <1>3, <1>6, <2>1, <3>1, <3>2, <3>3
  <2>2. CASE m = l \/ m = r
    BY <1>5, <1>1, <2>2
  <2>3. CASE m # n /\ m # l /\ m # r
    BY <1>3, <1>5, <1>1, <1>6, <2>3
  <2> QED
    BY <2>1, <2>2, <2>3
<1> QED
  BY <1>2, <1>7, RevertFrom

\* What a step of one task makes of its undo stack.
LEMMA InnerUndo ==
    ASSUME StructInv, NEW n \in Nodes, Inner(n)
    PROVE  \/ Succeed(n) \/ Return(n) \/ PopUndo(n)
           \/ br'[n].undo = br[n].undo /\ UNCHANGED <<idem, done>>
<1>1. TypeOK
  BY DEF StructInv
<1>2. CASE Cancel(n) \/ (n = Root /\ Report)
  <2>1. \E mode \in Modes :
          Becomes(n, br[n].stack, mode, br[n].undo, br[n].call, br[n].popped, br[n].fork)
    BY <1>1, <1>2, ModeShape DEF Cancel, Report, Modes
  <2>2. UNCHANGED <<idem, done>>
    BY <1>2 DEF Cancel, Report, history
  <2> QED
    BY <2>1, <2>2 DEF Becomes, Turns
<1>3. CASE Unwind(n)
  BY <1>1, <1>3, UnwindShape DEF Becomes, Turns, Unwind, history
<1>4. CASE RollbackDone(n)
  BY <1>1, <1>4, RollbackDoneShape DEF Becomes, Turns, RollbackDone, history
<1>5. CASE Fail(n)
  BY <1>1, <1>5, FailShape DEF Becomes, Turns, Fail, history
<1>6. CASE \E o \in Objects : Call(n, o)
  BY <1>1, <1>6, CallShape DEF Becomes, Turns, Call, history
<1>7. CASE \E kind \in Kinds, key \in Keys \cup {NoKey} : Enter(n, kind, key)
  BY <1>1, <1>7, EnterShape DEF Becomes, Turns, Enter, history
<1>8. CASE UndoOk(n) \/ UndoFails(n)
  BY <1>1, <1>8, UndoOkShape DEF Becomes, Turns, UndoOk, UndoFails
<1> QED
  BY <1>2, <1>3, <1>4, <1>5, <1>6, <1>7, <1>8 DEF Inner

-----------------------------------------------------------------------------
(* A segment runs afresh *)

\* No effect of an earlier run stands.
Fresh(k) ==
    /\ idem[k] # "committed"
    /\ \A run \in done[k] : \A effect \in run :
         effect[1] \in stray \/ effect[2] \in undone

OpenInv == \A n \in Tree : \A k \in Keys \cap Open(n) : Fresh(k)

\* n returns from the segment of k, which left undos.
Commits(n, k) ==
    Return(n) /\ Top(n).kind = "idem" /\ Len(br[n].undo) > Top(n).mark /\ Top(n).key = k

LEMMA CommitsFresh ==
    ASSUME StructInv, KinInv, HaltedInv, OpenInv, NEW n \in Nodes, NEW k \in Keys,
           Commits(n, k)
    PROVE  /\ n \in Tree /\ k \in Open(n) /\ Fresh(k) /\ Depth(n) \in 1 .. Depth(n)
           /\ br[n].stack[Depth(n)].key = k
<1>1. Depth(n) \in 1 .. Depth(n) /\ DOMAIN br[n].stack = 1 .. Depth(n)
  BY Fields DEF Commits, Return, StructInv
<1>2. n \in Tree
  BY ReadyFree DEF Commits, Return, StructInv
<1>3. k \in Open(n) /\ br[n].stack[Depth(n)].key = k
  BY <1>1 DEF Commits, Open, Top
<1> QED
  BY <1>1, <1>2, <1>3 DEF OpenInv

LEMMA Onward ==
    ASSUME TypeOK, [Next]_vars
    PROVE  stray \subseteq stray' /\ undone \subseteq undone'
<1>1. CASE UNCHANGED <<stray, undone>>
  BY <1>1
<1>2. ASSUME NEW n \in Nodes, UndoOk(n)
      PROVE  stray \subseteq stray' /\ undone \subseteq undone'
  BY <1>2 DEF UndoOk
<1>3. ASSUME NEW n \in Nodes, UndoFails(n)
      PROVE  stray \subseteq stray' /\ undone \subseteq undone'
  BY <1>3 DEF UndoFails
<1>4. ASSUME NEW n \in Nodes, NEW t \in DOMAIN br[n].stack, GraceEnds(n, t)
      PROVE  stray \subseteq stray' /\ undone \subseteq undone'
  <2>1. stray \subseteq stray'
    BY <1>4 DEF GraceEnds
  <2>2. undone \subseteq undone'
    BY <1>4 DEF GraceEnds
  <2> QED
    BY <2>1, <2>2
<1>5. CASE UNCHANGED vars
  BY <1>1, <1>5 DEF vars
<1>6. CASE Report
  BY <1>1, <1>6 DEF Report, history
<1>7. ASSUME NEW n \in Nodes,
             \/ Cancel(n) \/ Unwind(n) \/ Stash(n) \/ RollbackDone(n) \/ Fail(n)
             \/ \E o \in Objects : Call(n, o)
             \/ \E kind \in Kinds, key \in Keys \cup {NoKey} : Enter(n, kind, key)
             \/ Succeed(n) \/ Return(n) \/ PopUndo(n)
             \/ AnyFork(n) \/ Finish(n) \/ JoinLeft(n) \/ JoinRight(n)
             \/ \E t \in DOMAIN br[n].stack : Fire(n, t)
      PROVE  UNCHANGED <<stray, undone>>
  BY <1>7 DEF Cancel, Unwind, Stash, RollbackDone, Fail, Call, Enter, Succeed, Return,
     PopUndo, AnyFork, Fork, ForkInto, Finish, JoinLeft, JoinRight, Fire, history
<1> QED
  BY <1>1, <1>2, <1>3, <1>4, <1>5, <1>6, <1>7, Steps

LEMMA Recorded ==
    ASSUME TypeOK, [Next]_vars, NEW k \in Keys
    PROVE  \/ done'[k] = done[k] /\ (idem'[k] = "committed" => idem[k] = "committed")
           \/ \E n \in Nodes : Commits(n, k) /\ done'[k] = done[k] \cup {Segment(n)}
<1>1. CASE UNCHANGED <<idem, done>>
  BY <1>1
<1>2. ASSUME NEW n \in Nodes, PopUndo(n)
      PROVE  done'[k] = done[k] /\ (idem'[k] = "committed" => idem[k] = "committed")
  BY <1>2 DEF PopUndo, history, TypeOK
<1>3. ASSUME NEW n \in Nodes, Return(n)
      PROVE  \/ done'[k] = done[k] /\ (idem'[k] = "committed" => idem[k] = "committed")
             \/ Commits(n, k) /\ done'[k] = done[k] \cup {Segment(n)}
  <2>1. CASE Top(n).kind = "idem" /\ Len(br[n].undo) > Top(n).mark
    <3>1. /\ idem' = [idem EXCEPT ![Top(n).key] = "committed"]
          /\ done' = [done EXCEPT ![Top(n).key] = @ \cup {Segment(n)}]
      BY <1>3, <2>1 DEF Return
    <3> QED
      BY <1>3, <2>1, <3>1 DEF TypeOK, Commits
  <2>2. CASE ~(Top(n).kind = "idem" /\ Len(br[n].undo) > Top(n).mark)
    <3>1. UNCHANGED <<idem, done>>
      BY <1>3, <2>2 DEF Return
    <3> QED
      BY <3>1
  <2> QED
    BY <2>1, <2>2
<1>4. CASE UNCHANGED vars
  BY <1>1, <1>4 DEF vars
<1>5. CASE Report
  BY <1>1, <1>5 DEF Report, history
<1>6. ASSUME NEW n \in Nodes,
             \/ Cancel(n) \/ Unwind(n) \/ Stash(n) \/ RollbackDone(n) \/ Fail(n)
             \/ \E o \in Objects : Call(n, o)
             \/ \E kind \in Kinds, key \in Keys \cup {NoKey} : Enter(n, kind, key)
             \/ Succeed(n) \/ UndoOk(n) \/ UndoFails(n)
             \/ AnyFork(n) \/ Finish(n) \/ JoinLeft(n) \/ JoinRight(n)
             \/ \E t \in DOMAIN br[n].stack : Fire(n, t) \/ GraceEnds(n, t)
      PROVE  UNCHANGED <<idem, done>>
  <2>1. CASE \E t \in DOMAIN br[n].stack : GraceEnds(n, t)
    BY <2>1 DEF GraceEnds
  <2>2. CASE ~\E t \in DOMAIN br[n].stack : GraceEnds(n, t)
    BY <1>6, <2>2 DEF Cancel, Unwind, Stash, RollbackDone, Fail, Call, Enter, Succeed,
       UndoOk, UndoFails, AnyFork, Fork, ForkInto, Finish, JoinLeft, JoinRight, Fire,
       history
  <2> QED
    BY <2>1, <2>2
<1> QED
  BY <1>1, <1>2, <1>3, <1>4, <1>5, <1>6, Steps

LEMMA FreshKept ==
    ASSUME TypeOK, [Next]_vars, NEW k \in Keys, Fresh(k),
           \A n \in Nodes : ~Commits(n, k)
    PROVE  Fresh(k)'
<1>1. done'[k] = done[k] /\ idem'[k] # "committed"
  BY Recorded DEF Fresh
<1> QED
  BY <1>1, Onward DEF Fresh

-----------------------------------------------------------------------------
(* A key is reverted once *)

LEMMA RevertReturn ==
    ASSUME StructInv, KinInv, HaltedInv, OpenInv, RevertInv, NEW n \in Nodes, Return(n)
    PROVE  RevertInv'
<1>1. TypeOK /\ br[n].undo \in Seq(Undos)
  BY Fields DEF StructInv
<1>2. /\ Depth(n) > 0 /\ br'[n].undo = Returned(n)
      /\ \A m \in Nodes \ {n} : br'[m] = br[m]
  BY <1>1, ReturnShape DEF Becomes, Turns
<1>3. CASE ~(Top(n).kind = "idem" /\ Len(br[n].undo) > Top(n).mark)
  <2>1. UNCHANGED idem /\ \A m \in Nodes : br'[m].undo = br[m].undo
    BY <1>2, <1>3 DEF Return, Returned
  <2> QED
    BY <2>1, RevertLess
<1>4. CASE Top(n).kind = "idem" /\ Len(br[n].undo) > Top(n).mark
  <2> DEFINE key == Top(n).key
             u == Revert(key)
  <2>1. /\ br'[n].undo = Append(br[n].undo, u)
        /\ idem' = [idem EXCEPT ![key] = "committed"]
    BY <1>2, <1>4 DEF Return, Returned
  <2>2. u \in Undos /\ u.key = key
    BY <1>1, <1>2, TopTypes, RevertTypes
  <2> HIDE DEF u
  <2>3. ASSUME NEW k \in Keys, k = key PROVE RevertOf(k)'
    <3>1. Fresh(k)
      BY <1>4, <2>3, CommitsFresh DEF Commits
    <3>2. \A m \in Nodes : ~Carries(br[m].undo, k)
      BY <3>1 DEF RevertInv, RevertOf, Fresh
    <3>3. ~Twice(br'[n].undo, k)
      BY <1>1, <2>1, <2>2, <3>2, CarriesPush
    <3>4. idem'[k] = "committed"
      BY <1>1, <2>1, <2>3 DEF TypeOK
    <3>5. \A m \in Nodes : Carries(br'[m].undo, k) => m = n
      BY <1>2, <3>2
    <3> QED
      BY <3>3, <3>4, <3>5 DEF RevertOf
  <2>4. ASSUME NEW k \in Keys, k # key PROVE RevertOf(k)'
    <3>1. \A m \in Nodes : /\ Carries(br'[m].undo, k) => Carries(br[m].undo, k)
                           /\ Twice(br'[m].undo, k) => Twice(br[m].undo, k)
      <4>1. /\ Carries(br'[n].undo, k) => Carries(br[n].undo, k)
            /\ Twice(br'[n].undo, k) => Twice(br[n].undo, k)
        BY <1>1, <2>1, <2>2, <2>4, CarriesPush
      <4>2. \A m \in Nodes : m = n \/ br'[m] = br[m]
        BY <1>2
      <4> QED
        BY <4>1, <4>2
    <3>2. idem'[k] = idem[k] /\ RevertOf(k)
      BY <1>1, <2>1, <2>4 DEF TypeOK, RevertInv
    <3> QED
      BY <3>1, <3>2 DEF RevertOf
  <2> QED
    BY <2>3, <2>4 DEF RevertInv
<1> QED
  BY <1>3, <1>4

LEMMA RevertPop ==
    ASSUME StructInv, RevertInv, NEW n \in Nodes, PopUndo(n)
    PROVE  RevertInv'
<1> DEFINE s == br[n].undo
           u == s[Len(s)]
<1>1. TypeOK /\ s \in Seq(Undos)
  BY Fields DEF StructInv
<1>2. /\ Len(s) # 0 /\ br'[n].undo = SubSeq(s, 1, Len(s) - 1)
      /\ \A m \in Nodes \ {n} : br'[m] = br[m]
  BY <1>1, PopUndoShape DEF Becomes, Turns
<1>3. idem' = IF u.key = NoKey THEN idem ELSE [idem EXCEPT ![u.key] = "reverted"]
  BY DEF PopUndo
<1> SUFFICES ASSUME NEW k \in Keys PROVE RevertOf(k)'
  BY DEF RevertInv
<1>4. RevertOf(k) /\ k # NoKey
  BY SentinelAssumption DEF RevertInv
<1>5. \A m \in Nodes : /\ Carries(br'[m].undo, k) => Carries(br[m].undo, k)
                       /\ Twice(br'[m].undo, k) => Twice(br[m].undo, k)
  <2>1. /\ Carries(br'[n].undo, k) => Carries(br[n].undo, k)
        /\ Twice(br'[n].undo, k) => Twice(br[n].undo, k)
    BY <1>1, <1>2, CarriesPop
  <2>2. \A m \in Nodes : m = n \/ br'[m] = br[m]
    BY <1>2
  <2> QED
    BY <2>1, <2>2
<1>6. CASE u.key = k
  <2>1. Carries(s, k)
    <3>1. Len(s) \in 1 .. Len(s)
      BY <1>1, <1>2
    <3> QED
      BY <1>6, <3>1 DEF Carries
  <2>2. ~Carries(br'[n].undo, k)
    BY <1>1, <1>2, <1>4, <1>6, <2>1, CarriesPop DEF RevertOf
  <2>3. \A m \in Nodes : ~Carries(br'[m].undo, k)
    BY <1>4, <1>5, <2>1, <2>2 DEF RevertOf
  <2> QED
    BY <2>3 DEF RevertOf
<1>7. CASE u.key # k
  <2>1. idem'[k] = idem[k]
    BY <1>1, <1>3, <1>7 DEF TypeOK
  <2> QED
    BY <1>4, <1>5, <2>1 DEF RevertOf
<1> QED
  BY <1>6, <1>7

LEMMA RevertInner ==
    ASSUME StructInv, KinInv, HaltedInv, OpenInv, RevertInv, NEW n \in Nodes, Inner(n)
    PROVE  RevertInv'
<1>1. TypeOK /\ \A m \in Nodes \ {n} : br'[m] = br[m]
  BY InnerShape DEF StructInv
<1>2. CASE br'[n].undo = br[n].undo /\ UNCHANGED <<idem, done>>
  BY <1>1, <1>2, RevertLess
<1>3. CASE Succeed(n)
  <2> DEFINE u == Inverse(br[n].call)
  <2>1. u \in Undos /\ br'[n].undo = Append(br[n].undo, u)
    <3>1. br[n].call.obj \in Objects
      BY <1>3 DEF Succeed, Awaits, StructInv, BranchInv, ShapeOf
    <3> QED
      BY <1>1, <1>3, <3>1, SucceedShape DEF Becomes, Turns
  <2>2. u.key = NoKey /\ idem' = idem
    BY <1>3 DEF Inverse, Succeed
  <2> HIDE DEF u
  <2>3. ASSUME NEW k \in Keys PROVE RevertOf(k)'
    <3>1. u.key # k /\ br[n].undo \in Seq(Undos)
      BY <1>1, <2>2, Fields, SentinelAssumption
    <3>2. \A m \in Nodes : /\ Carries(br'[m].undo, k) => Carries(br[m].undo, k)
                           /\ Twice(br'[m].undo, k) => Twice(br[m].undo, k)
      <4>1. /\ Carries(br'[n].undo, k) => Carries(br[n].undo, k)
            /\ Twice(br'[n].undo, k) => Twice(br[n].undo, k)
        BY <2>1, <3>1, CarriesPush
      <4>2. \A m \in Nodes \ {n} : br'[m].undo = br[m].undo
        BY <1>1
      <4> QED
        BY <4>1, <4>2
    <3> QED
      BY <2>2, <3>2 DEF RevertInv, RevertOf
  <2> QED
    BY <2>3 DEF RevertInv
<1> QED
  BY <1>2, <1>3, InnerUndo, RevertReturn, RevertPop

\* A Fork leaves every stack as it is, and its branches start with none.
LEMMA ForkQuiet ==
    ASSUME StructInv, NEW n \in Nodes, NEW split, Fork(n, split),
           NEW l, NEW r, l = LeftOf(forks + 1), r = RightOf(forks + 1)
    PROVE  /\ l \in Nodes /\ r \in Nodes
           /\ \A m \in Nodes \ {l, r} : /\ br'[m].stack = br[m].stack
                                        /\ br'[m].undo = br[m].undo
           /\ \A c \in {l, r} : br'[c].stack = << >> /\ br'[c].undo = << >>
<1>1. /\ l \in Nodes /\ r \in Nodes
      /\ \A m \in Nodes \ {n, l, r} : br'[m] = br[m]
  BY ForkShape
<1>2. /\ br'[n].stack = br[n].stack /\ br'[n].undo = br[n].undo
      /\ \A c \in {l, r} : br'[c].stack = << >> /\ br'[c].undo = << >>
  BY ForkFacts
<1> QED
  BY <1>1, <1>2

LEMMA RevertStep ==
    ASSUME StructInv, KinInv, HaltedInv, OpenInv, RevertInv, [Next]_vars
    PROVE  RevertInv'
<1>1. TypeOK
  BY DEF StructInv
<1>2. CASE UNCHANGED <<br, idem>>
  BY <1>2, RevertLess
<1>3. ASSUME NEW n \in Nodes, NEW split, Fork(n, split) PROVE RevertInv'
  <2>1. \A m \in Nodes : br'[m].undo = br[m].undo \/ br'[m].undo = << >>
    <3> DEFINE l == LeftOf(forks + 1)
               r == RightOf(forks + 1)
    <3>1. /\ \A m \in Nodes \ {l, r} : br'[m].undo = br[m].undo
          /\ \A c \in {l, r} : br'[c].undo = << >>
      BY <1>3, ForkQuiet
    <3> QED
      BY <3>1
  <2>2. idem' = idem
    BY <1>3 DEF Fork, ForkInto
  <2> QED
    BY <2>1, <2>2, RevertLess
<1>4. ASSUME NEW n \in Nodes, Finish(n) PROVE RevertInv'
  <2>1. \A m \in Nodes : br'[m].undo = br[m].undo \/ br'[m].undo = << >>
    BY <1>1, <1>4, FinishShape, NobodyTypes DEF TypeOK
  <2>2. idem' = idem
    BY <1>4 DEF Finish
  <2> QED
    BY <2>1, <2>2, RevertLess
<1>5. ASSUME NEW n \in Nodes, JoinLeft(n), status[Right(n)] # "stashed" PROVE RevertInv'
  <2> DEFINE l == Left(n)
             joined == br[n].undo \o br[l].undo
  <2>1. /\ br[n].fork # 0
        /\ \A m \in Nodes \ {n, l} : br'[m] = br[m]
        /\ br'[n].undo = joined /\ br'[l].undo = << >>
    BY <1>5, MergeLeftShape DEF Turns
  <2>2. l \in Nodes \ {n}
    BY <2>1, KidFacts
  <2>3. idem' = idem
    BY <1>5 DEF JoinLeft
  <2>4. joined = br[n].undo \o br[l].undo
    OBVIOUS
  <2> HIDE DEF joined, l
  <2>5. \A m \in Nodes \ {n, l} : br'[m].undo \in {br[m].undo, << >>}
    BY <2>1
  <2>6. br'[n].undo = joined /\ br'[l].undo = << >>
    BY <2>1
  <2> QED
    BY <2>2, <2>3, <2>4, <2>5, <2>6, RevertMergeOne
<1>6. ASSUME NEW n \in Nodes, Completes(n) PROVE RevertInv'
  <2>1. /\ br[n].fork # 0
        /\ \A m \in Nodes \ {n, Left(n), Right(n)} : br'[m] = br[m]
        /\ br'[n].undo = (br[n].undo \o br[Left(n)].undo) \o br[Right(n)].undo
        /\ br'[Left(n)].undo = << >> /\ br'[Right(n)].undo = << >>
    BY <1>6, CompleteShape, NobodyTypes DEF Turns
  <2>2. Left(n) \in Nodes \ {n} /\ Right(n) \in Nodes \ {n, Left(n)}
    BY <2>1, KidFacts
  <2>3. idem' = idem
    <3>1. JoinRight(n) => idem' = idem
      BY DEF JoinRight
    <3>2. JoinLeft(n) => idem' = idem
      BY DEF JoinLeft
    <3> QED
      BY <1>6, <3>1, <3>2 DEF Completes
  <2>4. MergesBoth(n, Left(n), Right(n))
    BY <2>1, <2>2 DEF MergesBoth
  <2> QED
    BY <2>2, <2>3, <2>4, RevertMergeBoth
<1>7. ASSUME NEW n \in Nodes, NEW t \in DOMAIN br[n].stack, GraceEnds(n, t) PROVE RevertInv'
  <2>1. /\ \A m \in Nodes \ (Children(n) \cup {n}) : br'[m] = br[m]
        /\ br'[n].undo = Kept(n)
        /\ \A c \in Children(n) :
             IF status[c] = "running" THEN br'[c] = br[c] ELSE br'[c].undo = << >>
    BY <1>7, GraceShape, NobodyTypes DEF Turns
  <2>2. idem' = idem
    BY <1>7 DEF GraceEnds
  <2>3. CASE Kept(n) = br[n].undo
    <3>1. \A m \in Nodes : br'[m].undo = br[m].undo \/ br'[m].undo = << >>
      BY <2>1, <2>3
    <3> QED
      BY <2>2, <3>1, RevertLess
  <2>4. CASE /\ Children(n) = {Left(n), Right(n)} /\ br[n].fork # 0
             /\ status[Right(n)] = "stashed"
             /\ Kept(n) = br[n].undo \o br[Right(n)].undo
    <3> DEFINE r == Right(n)
               joined == br[n].undo \o br[r].undo
    <3>1. r \in Nodes \ {n} /\ r \in Children(n)
      BY <2>4, KidFacts
    <3>2. br'[r].undo = << >> /\ \A m \in Nodes \ {n, r} : br'[m].undo \in {br[m].undo, << >>}
      BY <2>1, <2>4
    <3>3. joined = br[n].undo \o br[r].undo /\ br'[n].undo = joined
      BY <2>1, <2>4
    <3> HIDE DEF joined, r
    <3> QED
      BY <2>2, <3>1, <3>2, <3>3, RevertMergeOne
  <2> QED
    BY <2>3, <2>4, KeptCases
<1>8. ASSUME NEW n \in Nodes, Stash(n) \/ \E t \in DOMAIN br[n].stack : Fire(n, t)
      PROVE  RevertInv'
  BY <1>2, <1>8 DEF Stash, Fire
<1>9. CASE UNCHANGED vars
  BY <1>2, <1>9 DEF vars
<1> QED
  BY <1>3, <1>4, <1>5, <1>6, <1>7, <1>8, <1>9, StepCases, RevertInner
     DEF AnyFork

-----------------------------------------------------------------------------
(* The undos that stand in for a run *)

\* Of an undo stack with these marks, the i-th is the undo of the effect.
Undoes(s, i, effect) == s[i].obj = effect[1] /\ s[i].op = effect[2]

\* The revert of k lies above the i-th undo, and no Timeout ends between them.
Cover(s, M, i, k) ==
    \E j \in i + 1 .. Len(s) : s[j].key = k /\ \A m \in M : m < i \/ j <= m

Marks(n) == {br[n].stack[t].mark : t \in Timeouts(n)}

\* n is about to take the effect back, or will not before it reverts k.
Backs(n, k, effect) ==
    \/ \E u \in br[n].popped : u.obj = effect[1] /\ u.op = effect[2]
    \/ \E i \in 1 .. Len(br[n].undo) :
         /\ Undoes(br[n].undo, i, effect)
         /\ \/ Cover(br[n].undo, Marks(n), i, k)
            \/ Undoing(n) /\ i > Top(n).mark

\* An effect of a run of k is taken back, lost, or some task answers for it.
BackOf(k, effect) ==
    \/ effect[1] \in stray
    \/ effect[2] \in undone
    \/ \E a \in Tree : k \in br[a].names /\ Backs(a, k, effect)

BackInv == \A k \in Keys : \A run \in done[k] : \A effect \in run : BackOf(k, effect)

\* The undos of s are part of w.
Embeds(s, w, d) == Len(s) + d <= Len(w) /\ \A i \in 1 .. Len(s) : w[d + i] = s[i]

LEMMA EmbedsFrom ==
    ASSUME NEW s \in Seq(Undos), NEW t \in Seq(Undos), NEW u \in Undos
    PROVE  /\ Embeds(s, s, 0) /\ Embeds(s, s \o t, 0) /\ Embeds(t, s \o t, Len(s))
           /\ Embeds(s, Append(s, u), 0)
<1>1. /\ Len(s) \in Nat /\ Len(t) \in Nat
      /\ \A i \in 1 .. Len(s) : 0 + i = i
  OBVIOUS
<1>2. Embeds(s, s, 0)
  BY <1>1 DEF Embeds
<1>3. Embeds(s, s \o t, 0) /\ Embeds(t, s \o t, Len(s))
  <2> DEFINE w == s \o t
  <2>1. /\ Len(w) = Len(s) + Len(t)
        /\ \A i \in 1 .. Len(s) : w[i] = s[i]
        /\ \A i \in 1 .. Len(t) : w[Len(s) + i] = t[i]
    BY JoinProperties
  <2> HIDE DEF w
  <2>2. Embeds(s, w, 0) /\ Embeds(t, w, Len(s))
    BY <1>1, <2>1 DEF Embeds
  <2> QED
    BY <2>2 DEF w
<1>4. Embeds(s, Append(s, u), 0)
  <2> DEFINE w == Append(s, u)
  <2>1. Len(w) = Len(s) + 1 /\ \A i \in 1 .. Len(s) : w[i] = s[i]
    BY PushProperties
  <2> HIDE DEF w
  <2>2. Embeds(s, w, 0)
    BY <1>1, <2>1 DEF Embeds
  <2> QED
    BY <2>2 DEF w
<1> QED
  BY <1>2, <1>3, <1>4

LEMMA CoverMoves ==
    ASSUME NEW s \in Seq(Undos), NEW w \in Seq(Undos), NEW d \in Nat, Embeds(s, w, d),
           NEW M \in SUBSET Nat, NEW N \in SUBSET Nat,
           \A m \in N : m <= d \/ d + Len(s) <= m \/ \E q \in M : m = d + q,
           NEW k, NEW i \in 1 .. Len(s), Cover(s, M, i, k)
    PROVE  Cover(w, N, d + i, k)
<1>1. PICK j \in i + 1 .. Len(s) : s[j].key = k /\ \A m \in M : m < i \/ j <= m
  BY DEF Cover
<1>2. Len(s) \in Nat /\ Len(w) \in Nat /\ Len(s) + d <= Len(w)
  BY DEF Embeds
<1>3. d + j \in d + i + 1 .. Len(w) /\ w[d + j].key = k
  BY <1>1, <1>2 DEF Embeds
<1>4. ASSUME NEW m \in N PROVE m < d + i \/ d + j <= m
  <2>1. CASE m <= d \/ d + Len(s) <= m
    BY <1>1, <1>2, <2>1
  <2>2. ASSUME NEW q \in M, m = d + q PROVE m < d + i \/ d + j <= m
    BY <1>1, <1>2, <2>2
  <2> QED
    BY <2>1, <2>2
<1> QED
  BY <1>3, <1>4 DEF Cover

LEMMA MarkTypes ==
    ASSUME TypeOK, NEW n \in Nodes
    PROVE  /\ Marks(n) \in SUBSET Nat
           /\ \A m \in Marks(n) :
                \E t \in 1 .. Depth(n) : /\ br[n].stack[t].kind = "timeout"
                                         /\ br[n].stack[t].mark = m
<1>1. \A t \in Timeouts(n) : t \in 1 .. Depth(n) /\ br[n].stack[t].mark \in Nat
  BY Fields DEF Timeouts, Frames
<1> QED
  BY <1>1 DEF Marks, Timeouts

LEMMA NextMarks ==
    ASSUME br' \in [Nodes -> Branches], NEW n \in Nodes
    PROVE  /\ Marks(n)' \in SUBSET Nat
           /\ DOMAIN br'[n].stack = 1 .. Depth(n)'
           /\ \A t \in 1 .. Depth(n)' : br'[n].stack[t].mark \in Nat
<1>1. br'[n].stack \in Seq(Frames) /\ Depth(n)' = Len(br'[n].stack)
  BY NextFields
<1>2. DOMAIN br'[n].stack = 1 .. Depth(n)'
  BY <1>1
<1>3. \A t \in 1 .. Depth(n)' : br'[n].stack[t] \in Frames
  BY <1>1
<1>4. \A t \in 1 .. Depth(n)' : br'[n].stack[t].mark \in Nat
  BY <1>3 DEF Frames
<1>5. Marks(n)' \in SUBSET Nat
  BY <1>2, <1>4 DEF Marks, Timeouts
<1> QED
  BY <1>2, <1>4, <1>5

\* b answers for what a answered for.
LEMMA BacksMove ==
    ASSUME StructInv, StructInv', NEW a \in Nodes, NEW b \in Nodes, NEW d \in Nat,
           Embeds(br[a].undo, br'[b].undo, d),
           \A m \in Marks(b)' : \/ m <= d \/ d + Len(br[a].undo) <= m
                                \/ \E q \in Marks(a) : m = d + q,
           br[a].popped \subseteq br'[b].popped,
           Undoing(a) /\ Len(br[a].undo) > Top(a).mark =>
                Undoing(b)' /\ Top(b)'.mark <= d + Top(a).mark,
           NEW k, NEW effect, Backs(a, k, effect)
    PROVE  Backs(b, k, effect)'
<1> DEFINE s == br[a].undo
           w == br'[b].undo
           M == Marks(a)
           N == Marks(b)'
<1>1. TypeOK /\ TypeOK'
  BY DEF StructInv
<1>2. /\ s \in Seq(Undos) /\ w \in Seq(Undos) /\ M \in SUBSET Nat
      /\ Len(s) \in Nat /\ Len(w) \in Nat
  BY <1>1, Fields, NextFields, MarkTypes DEF TypeOK
<1>3. N \in SUBSET Nat /\ \A t \in 1 .. Depth(b)' : br'[b].stack[t].mark \in Nat
  BY <1>1, NextMarks DEF TypeOK
<1>4. CASE \E u \in br[a].popped : u.obj = effect[1] /\ u.op = effect[2]
  BY <1>4 DEF Backs
<1>5. ASSUME NEW i \in 1 .. Len(s), Undoes(s, i, effect),
             Cover(s, M, i, k) \/ (Undoing(a) /\ i > Top(a).mark)
      PROVE  Backs(b, k, effect)'
  <2>1. d + i \in 1 .. Len(w) /\ Undoes(w, d + i, effect)
    <3>1. Len(s) + d <= Len(w) /\ w[d + i] = s[i]
      BY DEF Embeds
    <3>2. d + i \in 1 .. Len(w)
      BY <1>2, <3>1
    <3> QED
      BY <1>5, <3>1, <3>2 DEF Undoes
  <2>2. CASE Cover(s, M, i, k)
    <3>1. Cover(w, N, d + i, k)
      BY <1>2, <1>3, <2>2, CoverMoves
    <3> QED
      BY <2>1, <3>1 DEF Backs
  <2>3. CASE Undoing(a) /\ i > Top(a).mark
    <3>1. Top(a).mark \in Nat
      BY <1>1, <2>3, TopTypes DEF TypeOK
    <3>2. Undoing(b)' /\ Top(b)'.mark <= d + Top(a).mark
      BY <1>2, <2>3, <3>1
    <3>3. Top(b)'.mark \in Nat
      <4>1. Depth(b)' > 0 /\ Depth(b)' \in Nat
        BY <1>1, <3>2, NextFields DEF TypeOK
      <4>2. Depth(b)' \in 1 .. Depth(b)'
        BY <4>1
      <4> QED
        BY <1>3, <4>2 DEF Top
    <3>4. d + i > Top(b)'.mark
      BY <2>3, <3>1, <3>2, <3>3
    <3> QED
      BY <2>1, <3>2, <3>4 DEF Backs
  <2> QED
    BY <1>5, <2>2, <2>3
<1> QED
  BY <1>4, <1>5 DEF Backs

LEMMA BacksSame ==
    ASSUME StructInv, StructInv', NEW a \in Nodes, br'[a] = br[a],
           Undoing(a) => Undoing(a)',
           NEW k, NEW effect, Backs(a, k, effect)
    PROVE  Backs(a, k, effect)'
<1>1. Embeds(br[a].undo, br'[a].undo, 0) /\ Marks(a)' = Marks(a) /\ Top(a)' = Top(a)
  <2>1. br[a].undo \in Seq(Undos)
    BY Fields DEF StructInv
  <2>2. Embeds(br[a].undo, br[a].undo, 0)
    BY <2>1 DEF Embeds
  <2> QED
    BY <2>2 DEF Marks, Timeouts, Top, Depth
<1>2. ASSUME NEW m \in Marks(a) PROVE m = 0 + m
  BY MarkTypes DEF StructInv
<1>3. Undoing(a) => Top(a).mark <= 0 + Top(a).mark
  BY TopTypes DEF StructInv, TypeOK
<1> QED
  BY <1>1, <1>2, <1>3, BacksMove

\* Who answers for the effect names its object.
LEMMA BacksNames ==
    ASSUME StructInv, NEW a \in Nodes, NEW k, NEW effect \in Objects \X Nat,
           Backs(a, k, effect)
    PROVE  effect[1] \in br[a].names \cap Objects
<1>1. ASSUME NEW u \in br[a].popped, u.obj = effect[1]
      PROVE  effect[1] \in br[a].names \cap Objects
  BY <1>1 DEF StructInv, BranchInv, ShapeOf
<1>2. ASSUME NEW i \in 1 .. Len(br[a].undo), br[a].undo[i].obj = effect[1]
      PROVE  effect[1] \in br[a].names \cap Objects
  BY <1>2, SentinelAssumption DEF StructInv, BranchInv, UndosOf
<1> QED
  BY <1>1, <1>2 DEF Backs, Undoes

LEMMA BacksNone ==
    ASSUME StructInv, NEW a \in Nodes, br[a].undo = << >>, br[a].mode # "rollback",
           NEW k, NEW effect
    PROVE  ~Backs(a, k, effect)
<1>1. br[a].popped = {}
  BY DEF StructInv, BranchInv, ShapeOf
<1>2. Len(<< >>) = 0 /\ 1 .. 0 = {}
  OBVIOUS
<1> QED
  BY <1>1, <1>2 DEF Backs

\* A branch is not below its own branches.
LEMMA BelowYounger ==
    ASSUME StructInv, NEW n \in Nodes, NEW c \in Children(n)
    PROVE  n \notin Below(c)
<1> DEFINE X == {m \in Nodes : m[1] >= c[1]}
<1>1. c \in Nodes /\ \A m \in Nodes : m[1] \in Nat
  BY KidNodes, NodeFacts
<1>2. ASSUME NEW m \in Nodes, NEW d \in Children(m) PROVE d \in Nodes /\ m[1] < d[1]
  <2>1. br[m].fork # 0
    BY <1>2, NoKids
  <2>2. Children(m) = {Left(m), Right(m)} /\ br[m].fork > m[1] /\ d \in Nodes
    BY <1>2, <2>1, KidFacts DEF StructInv, BranchInv, ShapeOf
  <2>3. Left(m)[1] = br[m].fork /\ Right(m)[1] = br[m].fork
    BY DEF Left, Right, LeftOf, RightOf
  <2> QED
    BY <1>2, <2>2, <2>3
<1>3. ASSUME NEW m \in X, NEW d \in Children(m) PROVE d \in X
  <2>1. m \in Nodes /\ d \in Nodes /\ m[1] < d[1] /\ m[1] >= c[1]
    BY <1>3, <1>2
  <2> QED
    BY <1>1, <2>1
<1>4. c \in X /\ X \in SUBSET Nodes
  BY <1>1
<1>5. Closed(X)
  BY <1>3 DEF Closed
<1>6. n \notin X
  <2>1. n[1] < c[1]
    BY <1>2
  <2> QED
    BY <1>1, <2>1
<1> HIDE DEF X
<1> QED
  BY <1>4, <1>5, <1>6, BelowIn

\* A task that is not lost is the root, or a branch of one that is not lost.
LEMMA TreeStatus ==
    ASSUME StructInv, NEW n \in Tree
    PROVE  /\ n \in Nodes /\ status[n] \in {"running", "finished", "stashed", "joined"}
           /\ \/ n = Root
              \/ \E m \in Tree : n \in Children(m)
<1>1. n \in Nodes
  BY TreeSelf
<1>2. n = Root \/ \E m \in Tree : n \in Children(m)
  <2> SUFFICES ASSUME n # Root, \A m \in Tree : n \notin Children(m) PROVE FALSE
    OBVIOUS
  <2> DEFINE X == Tree \ {n}
  <2>1. Root \in X /\ X \in SUBSET Nodes
    BY TreeSelf
  <2>2. \A m \in X : Children(m) \subseteq X
    BY TreeKids
  <2>3. Closed(X)
    BY <2>2 DEF Closed
  <2> HIDE DEF X
  <2>4. Tree \subseteq X
    BY <2>1, <2>3, TreeSelf
  <2> QED
    BY <2>4 DEF X
<1>3. status[n] \in {"running", "finished", "stashed", "joined"}
  <2>1. CASE n = Root
    BY <2>1 DEF StructInv, TreeInv
  <2>2. ASSUME NEW m \in Tree, n \in Children(m)
        PROVE  status[n] \in {"running", "finished", "stashed", "joined"}
    <3>1. m \in Nodes /\ br[m].fork # 0
      BY <2>2, TreeSelf, NoKids
    <3> QED
      BY <2>2, <3>1, KidFacts DEF StructInv, TreeInv
  <2> QED
    BY <1>2, <2>1, <2>2
<1> QED
  BY <1>1, <1>2, <1>3

\* What is lost when a Fork of n ends.
LEMMA EndsTree ==
    ASSUME StructInv, StructInv', NEW n \in Nodes, Ends(n)
    PROVE  /\ Tree' \subseteq Tree
           /\ \A m \in Tree \ Tree' : \E c \in Children(n) : m \in Below(c)
           /\ n \in Tree => n \in Tree'
<1>1. \A m \in Nodes : Children(m)' \subseteq Children(m)
  <2>1. ASSUME NEW m \in Nodes PROVE br'[m].fork \in {0, br[m].fork}
    BY DEF Ends
  <2> QED
    BY <2>1, KidsSame
<1>2. \A m \in Nodes \ ({n} \cup UNION {Below(c) : c \in Children(n)}) :
            Children(m)' = Children(m)
  <2>1. ASSUME NEW m \in Nodes \ {n}, m \notin Children(n) PROVE Children(m)' = Children(m)
    BY <2>1, KidsSame DEF Ends
  <2>2. \A c \in Children(n) : c \in Below(c)
    BY BelowSelf, KidNodes
  <2> QED
    BY <2>1, <2>2
<1>3. /\ Tree' \subseteq Tree
      /\ \A m \in Tree \ Tree' : \E c \in Children(n) : m \in Below(c)
  BY <1>1, <1>2, TreeCut
<1> QED
  BY <1>3, BelowYounger

-----------------------------------------------------------------------------
(* A segment that runs goes on afresh *)

LEMMA OpenKept ==
    ASSUME StructInv, StructInv', KinInv, HaltedInv, OpenInv, [Next]_vars,
           NEW n \in Tree, NEW k \in Keys, k \in Open(n), k \in Open(n)'
    PROVE  Fresh(k)'
<1>1. TypeOK /\ n \in Nodes /\ br' \in [Nodes -> Branches]
  BY TreeSelf DEF StructInv, TypeOK
<1>2. Fresh(k)
  BY DEF OpenInv
<1>3. ASSUME NEW q \in Nodes, Commits(q, k) PROVE FALSE
  <2>1. /\ q \in Tree /\ k \in Open(q) /\ Depth(q) \in 1 .. Depth(q)
        /\ br[q].stack[Depth(q)].key = k
    BY <1>3, CommitsFresh
  <2>2. CASE q # n
    BY <1>1, <2>1, <2>2, OpenOne, OpenNames
  <2>3. CASE q = n
    <3>1. br'[n].stack = Cut(n, Depth(n) - 1) /\ Depth(n) > 0
      BY <1>1, <1>3, <2>3, ReturnShape DEF Commits, Becomes, Turns
    <3>2. /\ Depth(n) \in Nat /\ Depth(n) - 1 \in 0 .. Depth(n)
      BY <1>1, <3>1, TopTypes
    <3>3. /\ DOMAIN br'[n].stack = 1 .. Depth(n) - 1
          /\ \A i \in 1 .. Depth(n) - 1 : br'[n].stack[i] = br[n].stack[i]
      BY <1>1, <3>1, <3>2, CutTypes
    <3>4. PICK t \in 1 .. Depth(n) - 1 : br[n].stack[t].key = k
      BY <3>3 DEF Open
    <3>5. t \in 1 .. Depth(n) /\ t # Depth(n) /\ k # NoKey
      BY <3>2, <3>4, SentinelAssumption
    <3> QED
      BY <1>1, <2>1, <2>3, <3>4, <3>5 DEF KinInv, KinOf
  <2> QED
    BY <2>2, <2>3
<1> QED
  BY <1>1, <1>2, <1>3, FreshKept

\* Who enters a segment runs it afresh: what an earlier run left has been
\* taken back, as the task that would do so is this one, which is not at it.
LEMMA EnterFresh ==
    ASSUME StructInv, KinInv, HaltedInv, RevertInv, BackInv,
           NEW n \in Nodes, NEW k \in Keys, Enter(n, "idem", k)
    PROVE  Fresh(k)'
<1>1. /\ n \in Tree /\ br[n].mode = "run" /\ k \in br[n].names
      /\ idem[k] # "committed" /\ UNCHANGED <<idem, done, stray, undone>>
  BY ReadyFree DEF Enter, Ready, history, StructInv
<1>2. ASSUME NEW a \in Tree, k \in br[a].names, NEW effect, Backs(a, k, effect)
      PROVE  FALSE
  <2>1. a \in Nodes
    BY TreeSelf
  <2>2. ~Carries(br[a].undo, k)
    BY <1>1, <2>1 DEF RevertInv, RevertOf
  <2>3. \A i \in 1 .. Len(br[a].undo) : ~Cover(br[a].undo, Marks(a), i, k)
    <3>1. Len(br[a].undo) \in Nat
      BY <2>1, Fields DEF StructInv
    <3>2. ASSUME NEW i \in 1 .. Len(br[a].undo), NEW j \in i + 1 .. Len(br[a].undo)
          PROVE  j \in 1 .. Len(br[a].undo)
      BY <3>1
    <3> QED
      BY <2>2, <3>2 DEF Cover, Carries
  <2>4. br[a].mode = "rollback"
    <3>1. br[a].popped # {} \/ Undoing(a)
      BY <1>2, <2>3 DEF Backs
    <3> QED
      BY <2>1, <3>1 DEF Undoing, StructInv, BranchInv, ShapeOf
  <2>5. Children(a) = {} /\ Children(n) = {}
    BY <1>1, <2>4 DEF Children
  <2>6. a \in Below(n) \/ n \in Below(a)
    BY <1>1, <1>2, Related
  <2>7. a = n
    BY <2>1, <2>5, <2>6, BelowLeaf
  <2> QED
    BY <1>1, <2>4, <2>7
<1>3. \A run \in done[k] : \A effect \in run : effect[1] \in stray \/ effect[2] \in undone
  BY <1>2 DEF BackInv, BackOf
<1> QED
  BY <1>1, <1>3 DEF Fresh

LEMMA OpenFrom ==
    ASSUME StructInv, StructInv', KinInv, HaltedInv, OpenInv, [Next]_vars,
           \A n \in Tree' : Open(n)' = {} \/ (n \in Tree /\ Open(n)' \subseteq Open(n))
    PROVE  OpenInv'
<1>1. ASSUME NEW n \in Tree', NEW k \in Keys, k \in Open(n)' PROVE Fresh(k)'
  BY <1>1, OpenKept
<1> QED
  BY <1>1 DEF OpenInv

LEMMA OpenLess ==
    ASSUME TypeOK, br' \in [Nodes -> Branches], NEW n \in Nodes
    PROVE  /\ br'[n].stack = br[n].stack => Open(n)' \subseteq Open(n)
           /\ br'[n].stack = << >> => Open(n)' = {}
           /\ Shrinks(n) => Open(n)' \subseteq Open(n)
<1>1. br'[n].stack = << >> => Open(n)' = {}
  BY DEF Open
<1>2. ASSUME Shrinks(n) PROVE Open(n)' \subseteq Open(n)
  <2>1. /\ Depth(n) \in Nat /\ Depth(n)' \in Nat /\ Depth(n)' <= Depth(n)
        /\ DOMAIN br[n].stack = 1 .. Depth(n) /\ DOMAIN br'[n].stack = 1 .. Depth(n)'
        /\ \A t \in 1 .. Depth(n)' : br'[n].stack[t] = br[n].stack[t]
    BY <1>2, Fields, NextFields DEF Shrinks
  <2>2. \A t \in 1 .. Depth(n)' : t \in 1 .. Depth(n)
    BY <2>1
  <2> QED
    BY <2>1, <2>2 DEF Open
<1> QED
  BY <1>1, <1>2 DEF Open

LEMMA OpenInner ==
    ASSUME StructInv, StructInv', KinInv, HaltedInv, OpenInv, RevertInv, BackInv,
           [Next]_vars, NEW n \in Nodes, Inner(n)
    PROVE  OpenInv'
<1>1. TypeOK /\ br' \in [Nodes -> Branches] /\ Tree' = Tree /\ Tree \subseteq Nodes
  BY InnerChildren, TreeSame, TreeSelf DEF StructInv, TypeOK
<1>2. \A m \in Nodes \ {n} : Open(m)' \subseteq Open(m)
  BY <1>1, InnerShape, OpenLess
<1>3. CASE Shrinks(n)
  BY <1>1, <1>2, <1>3, OpenLess, OpenFrom
<1>4. ASSUME NEW kind \in Kinds, NEW key \in Keys \cup {NoKey}, Enter(n, kind, key)
      PROVE  OpenInv'
  <2> DEFINE f == Frame(n, kind, key)
  <2>1. br'[n].stack = Append(br[n].stack, f) /\ f.key = key
    BY <1>1, <1>4, EnterShape DEF Becomes, Turns, Frame
  <2>2. f \in Frames /\ br[n].stack \in Seq(Frames) /\ DOMAIN br[n].stack = 1 .. Len(br[n].stack)
    BY <1>1, <1>4, EnterShape, Fields
  <2> HIDE DEF f
  <2>3. Open(n)' \subseteq Open(n) \cup {key}
    BY <2>1, <2>2, PushProperties DEF Open
  <2>4. ASSUME NEW m \in Tree, NEW k \in Keys, k \in Open(m)' PROVE Fresh(k)'
    <3>1. CASE k \in Open(m)
      BY <2>4, <3>1, OpenKept
    <3>2. CASE k \notin Open(m)
      <4>1. m = n /\ key = k
        BY <1>1, <1>2, <2>3, <2>4, <3>2
      <4>2. kind = "idem"
        BY <1>4, <4>1, SentinelAssumption DEF Enter
      <4> QED
        BY <1>4, <4>1, <4>2, EnterFresh
    <3> QED
      BY <3>1, <3>2
  <2> QED
    BY <1>1, <2>4 DEF OpenInv
<1> QED
  BY <1>3, <1>4, InnerShape

LEMMA OpenStep ==
    ASSUME StructInv, StructInv', KinInv, HaltedInv, OpenInv, RevertInv, BackInv,
           [Next]_vars
    PROVE  OpenInv'
<1>1. TypeOK /\ br' \in [Nodes -> Branches] /\ Tree \subseteq Nodes
  BY TreeSelf DEF StructInv, TypeOK
<1>2. CASE UNCHANGED br
  <2>1. Tree' = Tree
    BY <1>2, TreeSame DEF Children, Left, Right
  <2> QED
    BY <1>1, <1>2, <2>1, OpenLess, OpenFrom
<1>3. ASSUME NEW n \in Nodes, Ends(n) PROVE OpenInv'
  <2>1. Tree' \subseteq Tree
    BY <1>3, EndsTree
  <2>2. ASSUME NEW m \in Nodes PROVE Open(m)' = {} \/ Open(m)' \subseteq Open(m)
    <3>1. \/ br'[m].stack = br[m].stack \/ br'[m].stack = << >> \/ Shrinks(m)
      BY <1>3 DEF Ends
    <3> QED
      BY <1>1, <3>1, OpenLess
  <2> QED
    BY <1>1, <2>1, <2>2, OpenFrom
<1>4. ASSUME NEW n \in Nodes, NEW split, Fork(n, split) PROVE OpenInv'
  <2> DEFINE l == LeftOf(forks + 1)
             r == RightOf(forks + 1)
  <2>1. n \in Tree
    BY <1>1, <1>4, ReadyFree DEF Fork, ForkInto
  <2>2. Tree' = Tree \cup {l, r}
    BY <1>4, <2>1, TreeFork
  <2>3. /\ l \in Nodes /\ r \in Nodes
        /\ \A m \in Nodes \ {l, r} : br'[m].stack = br[m].stack
        /\ br'[l].stack = << >> /\ br'[r].stack = << >>
    BY <1>4, ForkQuiet
  <2> HIDE DEF l, r
  <2>4. ASSUME NEW m \in Tree' PROVE Open(m)' = {} \/ (m \in Tree /\ Open(m)' \subseteq Open(m))
    <3>1. CASE m \in {l, r}
      BY <1>1, <2>3, <3>1, OpenLess
    <3>2. CASE m \notin {l, r}
      BY <1>1, <2>2, <2>3, <3>2, OpenLess
    <3> QED
      BY <3>1, <3>2
  <2> QED
    BY <2>4, OpenFrom
<1>5. ASSUME NEW n \in Nodes, Finish(n) PROVE OpenInv'
  <2>1. \A m \in Nodes : br'[m].fork = br[m].fork
                         /\ (br'[m].stack = br[m].stack \/ br'[m].stack = << >>)
    BY <1>1, <1>5, FinishShape, NobodyTypes DEF TypeOK
  <2>2. Tree' = Tree
    BY <2>1, KidsSame, TreeSame
  <2> QED
    BY <1>1, <2>1, <2>2, OpenLess, OpenFrom
<1>6. ASSUME NEW n \in Nodes, NEW t \in DOMAIN br[n].stack, GraceEnds(n, t) PROVE OpenInv'
  BY <1>3, <1>6, GraceEndsFork
<1>7. ASSUME NEW n \in Nodes,
             Completes(n) \/ (JoinLeft(n) /\ status[Right(n)] # "stashed")
      PROVE  OpenInv'
  BY <1>3, <1>7, CompleteEnds, MergeLeftEnds
<1>8. ASSUME NEW n \in Nodes, Stash(n) \/ \E t \in DOMAIN br[n].stack : Fire(n, t)
      PROVE  OpenInv'
  BY <1>2, <1>8 DEF Stash, Fire
<1>9. CASE UNCHANGED vars
  BY <1>2, <1>9 DEF vars
<1> QED
  BY <1>4, <1>5, <1>6, <1>7, <1>8, <1>9, StepCases, OpenInner
     DEF AnyFork

LEMMA InitRevert == Init => RevertInv /\ OpenInv /\ BackInv
<1> SUFFICES ASSUME Init PROVE RevertInv /\ OpenInv /\ BackInv
  OBVIOUS
<1>1. \A n \in Nodes : br[n].undo = << >> /\ br[n].stack = << >>
  BY DEF Init, Nobody, Branch
<1>2. RevertInv
  BY <1>1, CarriesNone DEF RevertInv, RevertOf
<1>3. OpenInv
  BY <1>1, TreeSelf DEF OpenInv, Open
<1>4. BackInv
  BY DEF BackInv, Init
<1> QED
  BY <1>2, <1>3, <1>4

-----------------------------------------------------------------------------
(* Whoever answers for an effect goes on to, or it is taken back or lost *)

BackStays ==
    \A a \in Tree : \A k \in Keys : \A effect \in Objects \X Nat :
        k \in br[a].names /\ Backs(a, k, effect) => BackOf(k, effect)'

LEMMA BackFrom ==
    ASSUME TypeOK, [Next]_vars, BackInv, BackStays,
           \A k \in Keys : \A run \in done'[k] \ done[k] : \A effect \in run :
                BackOf(k, effect)'
    PROVE  BackInv'
<1> SUFFICES ASSUME NEW k \in Keys, NEW run \in done'[k], NEW effect \in run
             PROVE  BackOf(k, effect)'
  BY DEF BackInv
<1>1. CASE run \in done[k]
  <2>1. effect \in Objects \X Nat
    BY <1>1 DEF TypeOK
  <2>2. BackOf(k, effect)
    BY <1>1 DEF BackInv
  <2>3. stray \subseteq stray' /\ undone \subseteq undone'
    BY Onward
  <2>4. CASE effect[1] \in stray \/ effect[2] \in undone
    BY <2>3, <2>4 DEF BackOf
  <2>5. CASE \E a \in Tree : k \in br[a].names /\ Backs(a, k, effect)
    BY <2>1, <2>5 DEF BackStays
  <2> QED
    BY <2>2, <2>4, <2>5 DEF BackOf
<1> QED
  BY <1>1

\* A task adds undos to its stack, or frames, or closes one.
LEMMA BackQuiet ==
    ASSUME StructInv, StructInv', NEW n \in Nodes, Inner(n),
           br'[n].popped = br[n].popped, Embeds(br[n].undo, br'[n].undo, 0),
           \A m \in Marks(n)' : m \in Marks(n) \/ Len(br[n].undo) <= m,
           ~(Undoing(n) /\ Len(br[n].undo) > Top(n).mark)
    PROVE  BackStays
<1> SUFFICES ASSUME NEW a \in Tree, NEW k \in Keys, NEW effect \in Objects \X Nat,
                    k \in br[a].names, Backs(a, k, effect)
             PROVE  BackOf(k, effect)'
  BY DEF BackStays
<1>1. TypeOK /\ a \in Nodes /\ Tree' = Tree /\ br'[a].names = br[a].names
  BY TreeSelf, InnerChildren, TreeSame DEF StructInv
<1>2. CASE a # n
  <2>1. br'[a] = br[a] /\ status' = status
    BY <1>1, <1>2, InnerShape, InnerFork
  <2>2. Backs(a, k, effect)'
    BY <1>1, <2>1, BacksSame DEF Undoing, Live
  <2> QED
    BY <1>1, <2>2 DEF BackOf
<1>3. CASE a = n
  <2>1. Marks(n) \in SUBSET Nat /\ Len(br[n].undo) \in Nat
    BY <1>1, MarkTypes, Fields
  <2>2. \A m \in Marks(n)' : 0 + Len(br[n].undo) <= m \/ \E q \in Marks(n) : m = 0 + q
    BY <2>1
  <2>3. br[n].popped \subseteq br'[n].popped
    OBVIOUS
  <2>4. Backs(n, k, effect)
    BY <1>3
  <2>5. Backs(n, k, effect)'
    BY <2>2, <2>3, <2>4, BacksMove
  <2> QED
    BY <1>1, <1>3, <2>5 DEF BackOf
<1> QED
  BY <1>2, <1>3

LEMMA MarksLess ==
    ASSUME TypeOK, br' \in [Nodes -> Branches], NEW n \in Nodes
    PROVE  /\ Shrinks(n) => Marks(n)' \subseteq Marks(n)
           /\ br'[n].stack = br[n].stack => Marks(n)' \subseteq Marks(n)
<1>1. ASSUME Shrinks(n) PROVE Marks(n)' \subseteq Marks(n)
  <2>1. /\ Depth(n) \in Nat /\ Depth(n)' \in Nat /\ Depth(n)' <= Depth(n)
        /\ DOMAIN br[n].stack = 1 .. Depth(n) /\ DOMAIN br'[n].stack = 1 .. Depth(n)'
        /\ \A t \in 1 .. Depth(n)' : br'[n].stack[t] = br[n].stack[t]
    BY <1>1, Fields, NextFields DEF Shrinks
  <2>2. \A t \in 1 .. Depth(n)' : t \in 1 .. Depth(n)
    BY <2>1
  <2> QED
    BY <2>1, <2>2 DEF Marks, Timeouts
<1> QED
  BY <1>1 DEF Marks, Timeouts

\* What a task that is not at an undo does to its own record.
LEMMA InnerQuiet ==
    ASSUME StructInv, StructInv', NEW n \in Nodes, Inner(n),
           ~(PopUndo(n) \/ UndoOk(n) \/ UndoFails(n))
    PROVE  /\ br'[n].popped = br[n].popped /\ Embeds(br[n].undo, br'[n].undo, 0)
           /\ \A m \in Marks(n)' : m \in Marks(n) \/ Len(br[n].undo) <= m
           /\ ~(Undoing(n) /\ Len(br[n].undo) > Top(n).mark)
<1>1. /\ TypeOK /\ br' \in [Nodes -> Branches] /\ br[n].undo \in Seq(Undos)
      /\ Len(br[n].undo) \in Nat
  BY Fields DEF StructInv, TypeOK
<1>2. br'[n].popped = br[n].popped
  <2>1. CASE Cancel(n) \/ (n = Root /\ Report)
    <3>1. \E mode \in Modes :
            Becomes(n, br[n].stack, mode, br[n].undo, br[n].call, br[n].popped, br[n].fork)
      BY <1>1, <2>1, ModeShape DEF Cancel, Report, Modes
    <3> QED
      BY <3>1 DEF Becomes, Turns
  <2>2. CASE Unwind(n)
    BY <1>1, <2>2, UnwindShape DEF Becomes, Turns
  <2>3. CASE RollbackDone(n)
    BY <1>1, <2>3, RollbackDoneShape DEF Becomes, Turns
  <2>4. CASE Fail(n)
    BY <1>1, <2>4, FailShape DEF Becomes, Turns
  <2>5. CASE \E o \in Objects : Call(n, o)
    BY <1>1, <2>5, CallShape DEF Becomes, Turns
  <2>6. CASE \E kind \in Kinds, key \in Keys \cup {NoKey} : Enter(n, kind, key)
    BY <1>1, <2>6, EnterShape DEF Becomes, Turns
  <2>7. CASE Succeed(n)
    <3>1. br[n].call.obj \in Objects
      BY <2>7 DEF Succeed, Awaits, StructInv, BranchInv, ShapeOf
    <3> QED
      BY <1>1, <2>7, <3>1, SucceedShape DEF Becomes, Turns
  <2>8. CASE Return(n)
    BY <1>1, <2>8, ReturnShape DEF Becomes, Turns
  <2> QED
    BY <2>1, <2>2, <2>3, <2>4, <2>5, <2>6, <2>7, <2>8 DEF Inner
<1>3. Embeds(br[n].undo, br'[n].undo, 0)
  <2>1. \/ br'[n].undo = br[n].undo
        \/ \E u \in Undos : br'[n].undo = Append(br[n].undo, u)
    <3>1. CASE Succeed(n)
      <4>1. br[n].call.obj \in Objects
        BY <3>1 DEF Succeed, Awaits, StructInv, BranchInv, ShapeOf
      <4> QED
        BY <1>1, <3>1, <4>1, SucceedShape DEF Becomes, Turns
    <3>2. CASE Return(n)
      <4>1. Depth(n) > 0 /\ br'[n].undo = Returned(n)
        BY <1>1, <3>2, ReturnShape DEF Becomes, Turns
      <4>2. Revert(Top(n).key) \in Undos
        BY <1>1, <4>1, TopTypes, RevertTypes
      <4> QED
        BY <4>1, <4>2 DEF Returned
    <3> QED
      BY <3>1, <3>2, InnerUndo
  <2>2. CASE br'[n].undo = br[n].undo
    BY <1>1, <2>2 DEF Embeds
  <2>3. ASSUME NEW u \in Undos, br'[n].undo = Append(br[n].undo, u)
        PROVE  Embeds(br[n].undo, br'[n].undo, 0)
    BY <1>1, <2>3, EmbedsFrom
  <2> QED
    BY <2>1, <2>2, <2>3
<1>4. \A m \in Marks(n)' : m \in Marks(n) \/ Len(br[n].undo) <= m
  <2>1. CASE Shrinks(n)
    BY <1>1, <2>1, MarksLess
  <2>2. ASSUME NEW kind \in Kinds, NEW key \in Keys \cup {NoKey}, Enter(n, kind, key)
        PROVE  \A m \in Marks(n)' : m \in Marks(n) \/ Len(br[n].undo) <= m
    <3> DEFINE f == Frame(n, kind, key)
    <3>1. br'[n].stack = Append(br[n].stack, f) /\ f.mark = Len(br[n].undo)
      BY <1>1, <2>2, EnterShape DEF Becomes, Turns, Frame
    <3>2. f \in Frames /\ br[n].stack \in Seq(Frames) /\ DOMAIN br[n].stack = 1 .. Len(br[n].stack)
      BY <1>1, <2>2, EnterShape, Fields
    <3> HIDE DEF f
    <3>3. /\ DOMAIN br'[n].stack = 1 .. Len(br[n].stack) + 1
          /\ \A i \in 1 .. Len(br[n].stack) : br'[n].stack[i] = br[n].stack[i]
          /\ br'[n].stack[Len(br[n].stack) + 1] = f
      BY <3>1, <3>2, PushProperties
    <3>4. \A i \in 1 .. Len(br[n].stack) + 1 :
            i \in 1 .. Len(br[n].stack) \/ i = Len(br[n].stack) + 1
      BY <3>2
    <3>5. ASSUME NEW t \in Timeouts(n)'
          PROVE  br'[n].stack[t].mark \in Marks(n) \/ br'[n].stack[t].mark = Len(br[n].undo)
      <4>1. CASE t \in 1 .. Len(br[n].stack)
        BY <3>2, <3>3, <3>5, <4>1 DEF Timeouts, Marks
      <4>2. CASE t = Len(br[n].stack) + 1
        BY <3>1, <3>3, <4>2
      <4> QED
        BY <3>3, <3>4, <3>5, <4>1, <4>2 DEF Timeouts
    <3> QED
      BY <1>1, <3>5 DEF Marks
  <2> QED
    BY <2>1, <2>2, InnerShape
<1>5. ~(Undoing(n) /\ Len(br[n].undo) > Top(n).mark)
  <2>1. CASE RollbackDone(n)
    BY <1>1, <2>1, TopTypes DEF RollbackDone, Marked, TypeOK
  <2>2. CASE ~RollbackDone(n)
    BY <2>2 DEF Inner, Cancel, Unwind, Fail, Report, Call, Enter, Succeed,
       Return, Ready, Awaits, Undoing
  <2> QED
    BY <2>1, <2>2
<1> QED
  BY <1>2, <1>3, <1>4, <1>5

\* An undo that is done, or fails.
LEMMA BackUndo ==
    ASSUME StructInv, StructInv', NEW n \in Nodes, UndoOk(n) \/ UndoFails(n)
    PROVE  BackStays
<1> SUFFICES ASSUME NEW a \in Tree, NEW k \in Keys, NEW effect \in Objects \X Nat,
                    k \in br[a].names, Backs(a, k, effect)
             PROVE  BackOf(k, effect)'
  BY DEF BackStays
<1>1. Inner(n)
  BY DEF Inner
<1>2. /\ TypeOK /\ a \in Nodes /\ Tree' = Tree /\ br'[a].names = br[a].names
      /\ br' \in [Nodes -> Branches]
  BY <1>1, TreeSelf, InnerChildren, TreeSame DEF StructInv, TypeOK
<1>3. CASE a # n
  <2>1. br'[a] = br[a] /\ status' = status
    BY <1>1, <1>2, <1>3, InnerShape, InnerFork
  <2>2. Backs(a, k, effect)'
    BY <1>2, <2>1, BacksSame DEF Undoing, Live
  <2> QED
    BY <1>2, <2>2 DEF BackOf
<1>4. CASE a = n /\ \E u \in br[n].popped : u.obj = effect[1] /\ u.op = effect[2]
  <2>1. \A u, v \in br[n].popped : u = v
    BY DEF StructInv, BranchInv, ShapeOf
  <2>2. \A u \in br[n].popped : u.op \in undone' \/ u.obj \in stray'
    BY <2>1 DEF UndoOk, UndoFails
  <2> QED
    BY <1>4, <2>2 DEF BackOf
<1>5. CASE a = n /\ ~\E u \in br[n].popped : u.obj = effect[1] /\ u.op = effect[2]
  <2>1. /\ br'[n].undo = br[n].undo /\ br'[n].stack = br[n].stack
        /\ br'[n].mode = br[n].mode /\ status' = status
    BY <1>1, <1>2, UndoOkShape, InnerFork DEF Becomes, Turns
  <2>2. Marks(n)' = Marks(n) /\ (Undoing(n)' <=> Undoing(n)) /\ Top(n)' = Top(n)
    BY <2>1 DEF Marks, Timeouts, Undoing, Live, Top, Depth
  <2>3. Backs(n, k, effect)'
    BY <1>5, <2>1, <2>2 DEF Backs
  <2> QED
    BY <1>2, <1>5, <2>3 DEF BackOf
<1> QED
  BY <1>3, <1>4, <1>5

\* The undo popped is the one that is done next; if it reverts k, what it
\* covered lies above the Timeout's mark.
LEMMA BackPop ==
    ASSUME StructInv, StructInv', NEW n \in Nodes, PopUndo(n)
    PROVE  BackStays
<1> SUFFICES ASSUME NEW a \in Tree, NEW k \in Keys, NEW effect \in Objects \X Nat,
                    k \in br[a].names, Backs(a, k, effect)
             PROVE  BackOf(k, effect)'
  BY DEF BackStays
<1>1. Inner(n)
  BY DEF Inner
<1>2. /\ TypeOK /\ a \in Nodes /\ Tree' = Tree /\ br'[a].names = br[a].names
      /\ br' \in [Nodes -> Branches]
  BY <1>1, TreeSelf, InnerChildren, TreeSame DEF StructInv, TypeOK
<1>3. CASE a # n
  <2>1. br'[a] = br[a] /\ status' = status
    BY <1>1, <1>2, <1>3, InnerShape, InnerFork
  <2>2. Backs(a, k, effect)'
    BY <1>2, <2>1, BacksSame DEF Undoing, Live
  <2> QED
    BY <1>2, <2>2 DEF BackOf
<1>4. CASE a = n
  <2> DEFINE s == br[n].undo
             last == Len(s)
             w == br'[n].undo
             top == Top(n).mark
  <2>1. /\ last \in Nat \ {0} /\ s \in Seq(Undos)
        /\ w = SubSeq(s, 1, last - 1)
        /\ br'[n].popped = IF s[last].key = NoKey THEN {s[last]} ELSE {}
        /\ br'[n].stack = br[n].stack /\ br'[n].mode = br[n].mode /\ status' = status
    BY <1>1, <1>2, PopUndoShape, Fields, InnerFork DEF Becomes, Turns
  <2>2. Undoing(n) /\ br[n].popped = {} /\ last > top
    BY DEF PopUndo
  <2>3. Depth(n) \in 1 .. Depth(n) /\ Top(n).kind = "timeout" /\ top \in Nat
    <3>1. Depth(n) > 0
      BY <1>2, <2>2 DEF TypeOK
    <3> QED
      BY <1>2, <2>2, <3>1, TopTypes DEF Undoing, StructInv, BranchInv, ShapeOf
  <2>4. top \in Marks(n)
    BY <1>2, <2>3, Fields DEF Marks, Timeouts, Top
  <2>5. /\ Marks(n)' = Marks(n) /\ Undoing(n)' /\ Top(n)'.mark = top
    BY <2>1, <2>2 DEF Marks, Timeouts, Undoing, Live, Top, Depth
  <2>6. PICK i \in 1 .. last :
          Undoes(s, i, effect) /\ (Cover(s, Marks(n), i, k) \/ i > top)
    BY <1>4, <2>2 DEF Backs
  <2>7. last - 1 \in 0 .. last
    BY <2>1
  <2>8. Len(w) = last - 1 /\ \A j \in 1 .. last - 1 : w[j] = s[j]
    BY <2>1, <2>7, CutProperties
  <2>9. UndosOf(n)
    BY DEF StructInv, BranchInv
  <2>10. Marks(n) \in SUBSET Nat
    BY <1>2, MarkTypes
  <2> HIDE DEF s, w, last, top
  <2>11. CASE i = last
    <3>1. s[last].key = NoKey
      <4>1. s[last].obj \in Objects
        BY <2>6, <2>11 DEF Undoes
      <4> QED
        BY <2>1, <2>6, <2>9, <2>11, <4>1, SentinelAssumption DEF UndosOf, s, last
    <3>2. s[last] \in br'[n].popped
      BY <2>1, <3>1
    <3>3. Backs(n, k, effect)'
      BY <2>6, <2>11, <3>2 DEF Backs, Undoes
    <3> QED
      BY <1>2, <1>4, <3>3 DEF BackOf
  <2>12. CASE i # last
    <3>1. i \in 1 .. last - 1
      BY <2>1, <2>6, <2>12
    <3>2. i \in 1 .. Len(w) /\ Undoes(w, i, effect)
      BY <2>6, <2>8, <3>1 DEF Undoes
    <3>3. Cover(w, Marks(n), i, k) \/ i > top
      <4> SUFFICES ASSUME Cover(s, Marks(n), i, k) PROVE Cover(w, Marks(n), i, k) \/ i > top
        BY <2>6
      <4>1. PICK j \in i + 1 .. last : s[j].key = k /\ \A m \in Marks(n) : m < i \/ j <= m
        BY DEF Cover, last
      <4>2. CASE j = last
        BY <2>1, <2>2, <2>3, <2>4, <2>6, <4>1, <4>2
      <4>3. CASE j # last
        <5>1. j \in i + 1 .. Len(w) /\ j \in 1 .. last - 1
          BY <2>1, <2>6, <2>8, <4>1, <4>3
        <5> QED
          BY <2>8, <4>1, <5>1 DEF Cover
      <4> QED
        BY <4>2, <4>3
    <3>4. Backs(n, k, effect)'
      BY <2>5, <3>2, <3>3 DEF Backs, w
    <3> QED
      BY <1>2, <1>4, <3>4 DEF BackOf
  <2> QED
    BY <2>11, <2>12
<1> QED
  BY <1>3, <1>4

LEMMA BackInner ==
    ASSUME StructInv, StructInv', NEW n \in Nodes, Inner(n)
    PROVE  BackStays
  BY BackQuiet, InnerQuiet, BackUndo, BackPop

\* Tasks that neither move nor take undos.
LEMMA BackSame ==
    ASSUME StructInv, StructInv', NEW X \in SUBSET Nodes,
           \A a \in Tree \cap X : \A k \in Keys : \A effect \in Objects \X Nat :
                k \in br[a].names /\ Backs(a, k, effect) => BackOf(k, effect)',
           \A a \in Tree \ X : /\ a \in Tree' /\ br'[a] = br[a]
                               /\ Undoing(a) => Undoing(a)'
    PROVE  BackStays
<1> SUFFICES ASSUME NEW a \in Tree \ X, NEW k \in Keys, NEW effect \in Objects \X Nat,
                    k \in br[a].names, Backs(a, k, effect)
             PROVE  BackOf(k, effect)'
  BY DEF BackStays
<1>1. a \in Nodes /\ a \in Tree' /\ br'[a] = br[a] /\ (Undoing(a) => Undoing(a)')
  BY TreeSelf
<1>2. Backs(a, k, effect)'
  BY <1>1, BacksSame
<1> QED
  BY <1>1, <1>2 DEF BackOf

LEMMA BackAll ==
    ASSUME StructInv, StructInv',
           \A a \in Tree : /\ a \in Tree' /\ br'[a] = br[a]
                           /\ Undoing(a) => Undoing(a)'
    PROVE  BackStays
<1> SUFFICES ASSUME NEW a \in Tree, NEW k \in Keys, NEW effect \in Objects \X Nat,
                    k \in br[a].names, Backs(a, k, effect)
             PROVE  BackOf(k, effect)'
  BY DEF BackStays
<1>1. a \in Nodes /\ a \in Tree' /\ br'[a] = br[a] /\ (Undoing(a) => Undoing(a)')
  BY TreeSelf
<1>2. Backs(a, k, effect)'
  BY <1>1, BacksSame
<1> QED
  BY <1>1, <1>2 DEF BackOf

LEMMA BackFork ==
    ASSUME StructInv, StructInv', HaltedInv, NEW n \in Nodes, NEW split, Fork(n, split)
    PROVE  BackStays
<1> DEFINE l == LeftOf(forks + 1)
           r == RightOf(forks + 1)
<1>1. TypeOK /\ br[n].undo \in Seq(Undos) /\ Len(br[n].undo) \in Nat
  BY Fields DEF StructInv
<1>2. n \in Tree
  BY <1>1, ReadyFree DEF Fork, ForkInto
<1>3. Tree \subseteq Tree'
  BY <1>2, TreeFork
<1>4. /\ l \in Nodes /\ r \in Nodes /\ status[l] = "unborn" /\ status[r] = "unborn"
      /\ br[n].mode = "run"
      /\ \A m \in Nodes \ {n, l, r} : br'[m] = br[m]
      /\ status' = [status EXCEPT ![l] = "running", ![r] = "running"]
      /\ br'[n].names = br[n].names /\ br'[n].stack = br[n].stack
      /\ br'[n].undo = br[n].undo /\ br'[n].popped = br[n].popped
  BY ForkShape, ForkFacts DEF Turns
<1>5. l \notin Tree /\ r \notin Tree
  BY <1>4, TreeStatus
<1> HIDE DEF l, r
<1>6. ASSUME NEW k \in Keys, NEW effect \in Objects \X Nat, k \in br[n].names,
             Backs(n, k, effect)
      PROVE  BackOf(k, effect)'
  <2>1. Marks(n)' = Marks(n) /\ ~Undoing(n)
    BY <1>4 DEF Marks, Timeouts, Undoing
  <2>2. Backs(n, k, effect)'
    BY <1>4, <1>6, <2>1 DEF Backs
  <2> QED
    BY <1>2, <1>3, <1>4, <1>6, <2>2 DEF BackOf
<1>7. ASSUME NEW a \in Tree \ {n}
      PROVE  /\ a \in Tree' /\ br'[a] = br[a] /\ (Undoing(a) => Undoing(a)')
  <2>1. a \in Nodes \ {n, l, r} /\ br'[a] = br[a]
    BY <1>4, <1>5, TreeSelf
  <2>2. status'[a] = status[a]
    BY <1>1, <1>4, <2>1 DEF TypeOK
  <2> QED
    BY <1>3, <2>1, <2>2 DEF Undoing, Live
<1>8. {n} \in SUBSET Nodes
  OBVIOUS
<1>9. \A a \in Tree \cap {n} : \A k \in Keys : \A effect \in Objects \X Nat :
            k \in br[a].names /\ Backs(a, k, effect) => BackOf(k, effect)'
  BY <1>6
<1> QED
  BY <1>7, <1>8, <1>9, BackSame

\* The task of an orphan is lost already.
LEMMA BackFinish ==
    ASSUME StructInv, StructInv', NEW n \in Nodes, Finish(n)
    PROVE  BackStays
<1>1. TypeOK /\ Tree \subseteq Nodes
  BY TreeSelf DEF StructInv
<1>2. /\ br[n].fork = 0 /\ br[n].mode \in {"run", "err"}
      /\ \/ /\ status[n] = "orphan"
            /\ status' = [status EXCEPT ![n] = "dead"]
            /\ br' = [br EXCEPT ![n] = Nobody]
         \/ /\ status[n] = "running"
            /\ status' = [status EXCEPT ![n] = "finished"]
            /\ br' = br
  BY FinishShape
<1>3. Tree' = Tree
  <2>1. \A m \in Nodes : br'[m].fork = br[m].fork
    BY <1>1, <1>2, NobodyTypes DEF TypeOK
  <2> QED
    BY <2>1, KidsSame, TreeSame
<1>4. ASSUME NEW a \in Tree
      PROVE  /\ a \in Tree' /\ br'[a] = br[a] /\ (Undoing(a) => Undoing(a)')
  <2>1. br'[a] = br[a]
    BY <1>1, <1>2, TreeStatus DEF TypeOK
  <2>2. Undoing(a) => Undoing(a)'
    BY <1>1, <1>2, <2>1 DEF Undoing, Live, TypeOK
  <2> QED
    BY <1>3, <2>1, <2>2
<1> QED
  BY <1>4, BackAll

LEMMA BackStill ==
    ASSUME StructInv, StructInv', NEW n \in Nodes,
           Stash(n) \/ \E t \in DOMAIN br[n].stack : Fire(n, t)
    PROVE  BackStays
<1>1. UNCHANGED br
  BY DEF Stash, Fire
<1>2. Tree' = Tree
  BY <1>1, TreeSame DEF Children, Left, Right
<1>3. ASSUME NEW a \in Tree, Undoing(a) PROVE Undoing(a)'
  <2>1. CASE Stash(n)
    <3>1. status' = [status EXCEPT ![Right(n)] = "stashed"] /\ status[Right(n)] = "finished"
      BY <2>1 DEF Stash
    <3> QED
      BY <1>1, <1>3, <3>1, TreeSelf DEF Undoing, Live, StructInv, TypeOK
  <2>2. CASE \E t \in DOMAIN br[n].stack : Fire(n, t)
    BY <1>1, <1>3, <2>2 DEF Fire, Undoing, Live
  <2> QED
    BY <2>1, <2>2
<1> QED
  BY <1>1, <1>2, <1>3, BackAll

-----------------------------------------------------------------------------
(* Merging *)

\* The undos of a are now the d-th and following ones of n.
LEMMA BackMerged ==
    ASSUME StructInv, StructInv', NEW n \in Nodes, n \in Tree', NEW a \in Nodes,
           br[a].names \subseteq br'[n].names, br[a].mode # "rollback",
           NEW d \in Nat, Embeds(br[a].undo, br'[n].undo, d),
           \A m \in Marks(n)' : m <= d \/ (d = 0 /\ m \in Marks(a)),
           NEW k \in Keys, NEW effect, k \in br[a].names, Backs(a, k, effect)
    PROVE  BackOf(k, effect)'
<1>1. br[a].popped = {} /\ ~Undoing(a) /\ Marks(a) \in SUBSET Nat
  BY MarkTypes DEF StructInv, BranchInv, ShapeOf, Undoing
<1>2. \A m \in Marks(n)' : m <= d \/ d + Len(br[a].undo) <= m \/ \E q \in Marks(a) : m = d + q
  BY <1>1
<1>3. Backs(n, k, effect)'
  BY <1>1, <1>2, BacksMove
<1> QED
  BY <1>3 DEF BackOf

\* The marks of n lie in its own undos.
LEMMA MarksMerged ==
    ASSUME StructInv, NEW n \in Nodes
    PROVE  \A m \in Marks(n) : m <= Len(br[n].undo)
<1>1. TypeOK /\ MarksOf(n)
  BY DEF StructInv, BranchInv
<1> QED
  BY <1>1, MarkTypes DEF MarksOf

LEMMA BackMergeLeft ==
    ASSUME StructInv, StructInv', NEW n \in Nodes, JoinLeft(n), status[Right(n)] # "stashed"
    PROVE  BackStays
<1> DEFINE l == Left(n)
           s == br[n].undo
           t == br[l].undo
<1>1. TypeOK /\ Tree \subseteq Nodes
  BY TreeSelf DEF StructInv
<1>2. /\ br[n].fork # 0 /\ status[l] = "finished" /\ br[n].mode = "forked"
      /\ \A m \in Nodes \ {n, l} : br'[m] = br[m]
      /\ br'[n].stack = br[n].stack /\ br'[n].names = br[n].names
      /\ br'[n].fork = br[n].fork /\ br'[n].undo = s \o t
      /\ br'[l].fork = br[l].fork
      /\ status' = [status EXCEPT ![l] = "joined"]
  BY MergeLeftShape DEF Turns
<1>3. /\ l \in Nodes /\ l # n /\ Children(n) = {l, Right(n)}
      /\ br[l].names \subseteq br[n].names
      /\ s \in Seq(Undos) /\ t \in Seq(Undos) /\ Len(s) \in Nat
  BY <1>1, <1>2, KidFacts, Fields DEF StructInv, TreeInv
<1> HIDE DEF l
<1>4. Tree' = Tree
  <2>1. \A m \in Nodes : br'[m].fork = br[m].fork
    BY <1>2
  <2> QED
    BY <2>1, KidsSame, TreeSame
<1>5. Embeds(s, br'[n].undo, 0) /\ Embeds(t, br'[n].undo, Len(s))
  <2>1. Embeds(s, s \o t, 0) /\ Embeds(t, s \o t, Len(s))
    <3>1. Revert(NoKey) \in Undos
      BY RevertTypes
    <3> QED
      BY <1>3, <3>1, EmbedsFrom
  <2> QED
    BY <1>2, <2>1
<1>6. Marks(n)' = Marks(n) /\ \A m \in Marks(n) : m <= Len(s)
  BY <1>2, MarksMerged DEF Marks, Timeouts
<1> HIDE DEF s, t
<1>7. ASSUME NEW k \in Keys, NEW effect \in Objects \X Nat, n \in Tree, k \in br[n].names,
             Backs(n, k, effect)
      PROVE  BackOf(k, effect)'
  BY <1>2, <1>4, <1>5, <1>6, <1>7, BackMerged DEF s
<1>8. ASSUME NEW k \in Keys, NEW effect \in Objects \X Nat, l \in Tree, k \in br[l].names,
             Backs(l, k, effect)
      PROVE  BackOf(k, effect)'
  <2>1. n \in Tree'
    BY <1>3, <1>4, <1>8, TreeFather
  <2>2. br[l].mode # "rollback"
    BY <1>2, <1>3 DEF StructInv, BranchInv, ShapeOf
  <2> QED
    BY <1>2, <1>3, <1>5, <1>6, <1>8, <2>1, <2>2, BackMerged DEF t
<1>9. ASSUME NEW a \in Tree \ {n, l}
      PROVE  /\ a \in Tree' /\ br'[a] = br[a] /\ (Undoing(a) => Undoing(a)')
  <2>1. a \in Nodes \ {n, l} /\ br'[a] = br[a] /\ status'[a] = status[a]
    BY <1>1, <1>2 DEF TypeOK
  <2> QED
    BY <1>4, <2>1 DEF Undoing, Live
<1>10. {n, l} \in SUBSET Nodes
  BY <1>3
<1>11. \A a \in Tree \cap {n, l} : \A k \in Keys : \A effect \in Objects \X Nat :
            k \in br[a].names /\ Backs(a, k, effect) => BackOf(k, effect)'
  BY <1>7, <1>8
<1> QED
  BY <1>9, <1>10, <1>11, BackSame

LEMMA BackComplete ==
    ASSUME StructInv, StructInv', NEW n \in Nodes, Completes(n)
    PROVE  BackStays
<1> DEFINE l == Left(n)
           r == Right(n)
           s == br[n].undo
           t == br[l].undo
           u == br[r].undo
           w == (s \o t) \o u
<1>1. TypeOK /\ Tree \subseteq Nodes
  BY TreeSelf DEF StructInv
<1>2. /\ br[n].fork # 0 /\ br[n].mode = "forked"
      /\ status[l] \in {"finished", "joined"} /\ status[r] \in {"finished", "stashed"}
      /\ \A m \in Nodes \ {n, l, r} : br'[m] = br[m]
      /\ br'[n].stack = br[n].stack /\ br'[n].names = br[n].names
      /\ br'[n].undo = w
      /\ \A m \in Nodes \ {l, r} : status'[m] = status[m]
  BY CompleteShape DEF Turns
<1>3. /\ l \in Nodes /\ l # n /\ r \in Nodes /\ r # n /\ Children(n) = {l, r}
      /\ br[l].names \subseteq br[n].names /\ br[r].names \subseteq br[n].names
      /\ s \in Seq(Undos) /\ t \in Seq(Undos) /\ u \in Seq(Undos)
      /\ Len(s) \in Nat /\ Len(t) \in Nat
  BY <1>1, <1>2, KidFacts, Fields DEF StructInv, TreeInv
<1> HIDE DEF l, r
<1>4. /\ Tree' \subseteq Tree
      /\ \A m \in Tree \ Tree' : m \in {l, r}
      /\ n \in Tree => n \in Tree'
  <2>1. Ends(n)
    BY CompleteEnds
  <2>2. Children(l) = {} /\ Children(r) = {}
    BY <1>2, <1>3, FatherLives DEF Live
  <2>3. Below(l) = {l} /\ Below(r) = {r}
    BY <1>3, <2>2, BelowLeaf
  <2> QED
    BY <1>3, <2>1, <2>3, EndsTree
<1>5. /\ Embeds(s, w, 0) /\ Embeds(t, w, Len(s)) /\ Embeds(u, w, Len(s) + Len(t))
  <2> DEFINE v == s \o t
  <2>1. v \in Seq(Undos) /\ Len(v) = Len(s) + Len(t)
    BY <1>3, JoinProperties
  <2>2. Revert(NoKey) \in Undos
    BY RevertTypes
  <2>3. Embeds(s, v, 0) /\ Embeds(t, v, Len(s))
    BY <1>3, <2>2, EmbedsFrom
  <2> HIDE DEF v, s, t, u
  <2>4. Embeds(v, v \o u, 0) /\ Embeds(u, v \o u, Len(v))
    BY <1>3, <2>1, <2>2, EmbedsFrom
  <2> DEFINE x == v \o u
  <2>5. x = w
    BY DEF v
  <2> HIDE DEF x
  <2>6. Len(v) + 0 <= Len(x) /\ \A i \in 1 .. Len(v) : x[i] = v[i]
    <3>1. \A i \in 1 .. Len(v) : 0 + i = i
      BY <2>1
    <3> QED
      BY <2>4, <3>1 DEF Embeds, x
  <2>7. Len(x) \in Nat
    <3>1. x \in Seq(Undos)
      BY <1>3, <2>1, JoinProperties DEF x
    <3> QED
      BY <3>1
  <2>8. Embeds(s, x, 0)
    BY <1>3, <2>1, <2>3, <2>6, <2>7 DEF Embeds
  <2>9. Embeds(t, x, Len(s))
    <3>1. \A i \in 1 .. Len(t) : Len(s) + i \in 1 .. Len(v)
      BY <1>3, <2>1
    <3> QED
      BY <1>3, <2>1, <2>3, <2>6, <2>7, <3>1 DEF Embeds
  <2>10. Embeds(u, x, Len(s) + Len(t))
    BY <2>1, <2>4 DEF x
  <2> QED
    BY <2>5, <2>8, <2>9, <2>10
<1>6. Marks(n)' = Marks(n) /\ \A m \in Marks(n) : m <= Len(s) /\ m <= Len(s) + Len(t)
  <2>1. Marks(n)' = Marks(n) /\ \A m \in Marks(n) : m <= Len(s) /\ m \in Nat
    BY <1>1, <1>2, MarksMerged, MarkTypes DEF Marks, Timeouts
  <2> DEFINE p == Len(s)
             q == Len(t)
  <2>2. p \in Nat /\ q \in Nat
    BY <1>3
  <2> HIDE DEF p, q
  <2>3. \A m \in Nat : m <= p => m <= p + q
    BY <2>2
  <2> QED
    BY <2>1, <2>3 DEF p, q
<1>7. Len(s) + Len(t) \in Nat
  <2> DEFINE p == Len(s)
             q == Len(t)
  <2>1. p \in Nat /\ q \in Nat
    BY <1>3
  <2> HIDE DEF p, q
  <2>2. p + q \in Nat
    BY <2>1
  <2> QED
    BY <2>2 DEF p, q
<1> HIDE DEF s, t, u, w
<1>8. ASSUME NEW k \in Keys, NEW effect \in Objects \X Nat, n \in Tree, k \in br[n].names,
             Backs(n, k, effect)
      PROVE  BackOf(k, effect)'
  BY <1>2, <1>4, <1>5, <1>6, <1>8, BackMerged DEF s
<1>9. br[l].mode # "rollback" /\ br[r].mode # "rollback"
  BY <1>2, <1>3 DEF StructInv, BranchInv, ShapeOf, Pending
<1>10. ASSUME NEW k \in Keys, NEW effect \in Objects \X Nat, l \in Tree, k \in br[l].names,
              Backs(l, k, effect)
       PROVE  BackOf(k, effect)'
  <2>1. n \in Tree'
    BY <1>3, <1>4, <1>10, TreeFather
  <2> QED
    BY <1>2, <1>3, <1>5, <1>6, <1>10, <1>9, <2>1, BackMerged DEF t
<1>11. ASSUME NEW k \in Keys, NEW effect \in Objects \X Nat, r \in Tree, k \in br[r].names,
              Backs(r, k, effect)
       PROVE  BackOf(k, effect)'
  <2>1. n \in Tree'
    BY <1>3, <1>4, <1>11, TreeFather
  <2> QED
    BY <1>2, <1>3, <1>5, <1>6, <1>11, <1>7, <1>9, <2>1, BackMerged DEF u
<1>12. ASSUME NEW a \in Tree \ {n, l, r}
       PROVE  /\ a \in Tree' /\ br'[a] = br[a] /\ (Undoing(a) => Undoing(a)')
  <2>1. a \in Nodes \ {n, l, r} /\ br'[a] = br[a] /\ status'[a] = status[a]
    BY <1>1, <1>2
  <2> QED
    BY <1>4, <2>1 DEF Undoing, Live
<1>13. {n, l, r} \in SUBSET Nodes
  BY <1>3
<1>14. \A a \in Tree \cap {n, l, r} : \A k \in Keys : \A effect \in Objects \X Nat :
            k \in br[a].names /\ Backs(a, k, effect) => BackOf(k, effect)'
  BY <1>8, <1>10, <1>11
<1> QED
  BY <1>12, <1>13, <1>14, BackSame

\* What a dropped Fork has stashed is kept; the objects of who is lost are
\* stray, and so is what n was at.
LEMMA BackGrace ==
    ASSUME StructInv, StructInv', [Next]_vars, NEW n \in Nodes,
           NEW t \in DOMAIN br[n].stack, GraceEnds(n, t)
    PROVE  BackStays
<1> DEFINE s == br[n].undo
           w == br'[n].undo
<1>1. /\ TypeOK /\ Tree \subseteq Nodes /\ s \in Seq(Undos) /\ Len(s) \in Nat
      /\ br' \in [Nodes -> Branches]
  BY TreeSelf, Fields DEF StructInv, TypeOK
<1>2. /\ Live(n) /\ t \in 1 .. Depth(n) /\ Children(n) \subseteq Nodes \ {n}
      /\ \A m \in Nodes \ (Children(n) \cup {n}) : br'[m] = br[m]
      /\ br'[n].stack = Cut(n, t) /\ w = Kept(n) /\ br'[n].mode = "rollback"
      /\ br'[n].names = br[n].names
      /\ \A m \in Nodes \ Children(n) : status'[m] = status[m]
  BY GraceShape DEF Turns
<1>3. Ends(n) /\ Shrinks(n)
  BY GraceEndsFork DEF Ends
<1>4. /\ Tree' \subseteq Tree
      /\ \A m \in Tree \ Tree' : \E c \in Children(n) : m \in Below(c)
      /\ n \in Tree => n \in Tree'
  BY <1>3, EndsTree
<1>5. /\ \A u \in br[n].popped : u.obj \in stray'
      /\ \A c \in Children(n) : status[c] \in {"running", "finished"} =>
            br[c].names \cap Objects \subseteq stray'
  BY DEF GraceEnds, Lost
<1>6. Embeds(s, w, 0)
  <2>1. CASE Kept(n) = s
    BY <1>1, <1>2, <2>1 DEF Embeds
  <2>2. CASE br[n].fork # 0 /\ Kept(n) = s \o br[Right(n)].undo
    <3>1. br[Right(n)].undo \in Seq(Undos) /\ Revert(NoKey) \in Undos
      BY <1>1, <2>2, KidFacts, Fields, RevertTypes
    <3>2. Embeds(s, s \o br[Right(n)].undo, 0)
      BY <1>1, <3>1, EmbedsFrom
    <3> QED
      BY <1>2, <2>2, <3>2
  <2> QED
    BY <2>1, <2>2, KeptCases
<1>7. Marks(n)' \subseteq Marks(n) /\ \A m \in Marks(n) : m <= Len(s) /\ m \in Nat
  BY <1>1, <1>3, MarksLess, MarksMerged, MarkTypes
<1>8. ASSUME NEW k \in Keys, NEW effect \in Objects \X Nat, n \in Tree, k \in br[n].names,
             Backs(n, k, effect)
      PROVE  BackOf(k, effect)'
  <2>1. CASE \E u \in br[n].popped : u.obj = effect[1] /\ u.op = effect[2]
    BY <1>5, <2>1 DEF BackOf
  <2>2. ASSUME NEW i \in 1 .. Len(s), Undoes(s, i, effect),
               Cover(s, Marks(n), i, k) \/ (Undoing(n) /\ i > Top(n).mark)
        PROVE  Backs(n, k, effect)'
    <3>1. w \in Seq(Undos) /\ Len(w) \in Nat /\ Len(s) <= Len(w) /\ 0 + i = i
      BY <1>1, <1>6, NextFields DEF Embeds
    <3>2. i \in 1 .. Len(w) /\ Undoes(w, i, effect)
      BY <1>1, <1>6, <2>2, <3>1 DEF Embeds, Undoes
    <3>3. CASE Cover(s, Marks(n), i, k)
      <4>1. \A m \in Marks(n)' : m <= 0 \/ 0 + Len(s) <= m \/ \E q \in Marks(n) : m = 0 + q
        BY <1>7
      <4>2. Marks(n) \in SUBSET Nat /\ Marks(n)' \in SUBSET Nat
        BY <1>7
      <4> HIDE DEF s, w
      <4>3. Cover(w, Marks(n)', 0 + i, k)
        BY <1>1, <1>6, <2>2, <3>1, <3>3, <4>1, <4>2, CoverMoves
      <4>4. Cover(w, Marks(n)', i, k)
        BY <3>1, <4>3
      <4> QED
        BY <3>2, <4>4 DEF Backs, w
    <3>4. CASE Undoing(n) /\ i > Top(n).mark
      <4>1. Undoing(n)'
        BY <1>2, <3>4 DEF Undoing, Live
      <4>2. Top(n)' = br[n].stack[t]
        BY <1>1, <1>2, CutTypes DEF Top, Depth
      <4>3. /\ br[n].stack[t].mark <= Top(n).mark
            /\ br[n].stack[t].mark \in Nat /\ Top(n).mark \in Nat
        <5>1. Depth(n) \in 1 .. Depth(n)
          BY <1>1, <1>2, Fields
        <5>2. br[n].stack[t] \in Frames /\ Top(n) \in Frames
          BY <1>1, <1>2, <5>1, Fields DEF Top
        <5> QED
          BY <1>2, <5>1, <5>2 DEF StructInv, BranchInv, MarksOf, Top, Frames
      <4>4. i > Top(n)'.mark
        BY <3>4, <4>2, <4>3
      <4> QED
        BY <3>2, <4>1, <4>4 DEF Backs
    <3> QED
      BY <2>2, <3>3, <3>4
  <2>3. CASE Backs(n, k, effect)'
    BY <1>2, <1>4, <1>8, <2>3 DEF BackOf
  <2> QED
    BY <1>8, <2>1, <2>2, <2>3 DEF Backs
<1> HIDE DEF s, w
<1>9. ASSUME NEW c \in Children(n), NEW a \in Tree, a \in Below(c), NEW k \in Keys,
             NEW effect \in Objects \X Nat, k \in br[a].names, Backs(a, k, effect)
      PROVE  BackOf(k, effect)'
  <2>1. c \in Nodes /\ a \in Nodes /\ br[n].fork # 0 /\ Children(n) = {Left(n), Right(n)}
    BY <1>1, <1>2, NoKids, KidFacts
  <2>2. /\ br[a].names \subseteq br[c].names /\ br[c].names \subseteq br[n].names
        /\ status[c] \in {"running", "finished", "joined", "stashed"}
        /\ status[c] = "stashed" => c = Right(n)
    BY <1>9, <2>1, BelowNames DEF StructInv, TreeInv
  <2>3. CASE status[c] \in {"running", "finished"}
    <3>1. effect[1] \in stray'
      BY <1>5, <1>9, <2>1, <2>2, <2>3, BacksNames
    <3> QED
      BY <3>1 DEF BackOf
  <2>4. CASE status[c] \in {"joined", "stashed"}
    <3>1. Children(c) = {}
      BY <2>1, <2>4, FatherLives DEF Live
    <3>2. a = c
      BY <1>9, <2>1, <3>1, BelowLeaf
    <3>3. br[c].mode # "rollback" /\ (status[c] = "joined" => br[c].undo = << >>)
      BY <2>1, <2>4 DEF StructInv, BranchInv, ShapeOf, Pending
    <3>4. CASE status[c] = "joined"
      BY <1>9, <2>1, <3>2, <3>3, <3>4, BacksNone
    <3>5. CASE status[c] = "stashed"
      <4>1. n \in Tree'
        BY <1>4, <1>9, <3>2, TreeFather
      <4>2. w = s \o br[c].undo
        BY <1>2, <1>9, <2>2, <3>5 DEF Kept, s
      <4>3. br[c].undo \in Seq(Undos) /\ Revert(NoKey) \in Undos
        BY <1>1, <2>1, Fields, RevertTypes
      <4>4. Embeds(br[c].undo, s \o br[c].undo, Len(s))
        BY <1>1, <4>3, EmbedsFrom
      <4>5. Embeds(br[c].undo, br'[n].undo, Len(s))
        BY <4>2, <4>4 DEF w
      <4>6. \A m \in Marks(n)' : m <= Len(s)
        BY <1>7
      <4>7. br[c].names \subseteq br'[n].names /\ k \in br[c].names /\ Backs(c, k, effect)
        BY <1>2, <1>9, <2>2, <3>2
      <4> QED
        BY <1>1, <2>1, <3>3, <4>1, <4>5, <4>6, <4>7, BackMerged
    <3> QED
      BY <2>4, <3>4, <3>5
  <2> QED
    BY <2>2, <2>3, <2>4
<1> DEFINE X == {n} \cup UNION {Below(c) : c \in Children(n)}
<1>10. X \in SUBSET Nodes
  BY <1>2, BelowSelf
<1>11. \A a \in Tree \cap X : \A k \in Keys : \A effect \in Objects \X Nat :
            k \in br[a].names /\ Backs(a, k, effect) => BackOf(k, effect)'
  BY <1>8, <1>9
<1>12. ASSUME NEW a \in Tree \ X
       PROVE  /\ a \in Tree' /\ br'[a] = br[a] /\ (Undoing(a) => Undoing(a)')
  <2>1. \A c \in Children(n) : a \notin Below(c) /\ c \in Below(c)
    BY <1>2, <1>12, BelowSelf
  <2>2. a \in Nodes \ (Children(n) \cup {n})
    BY <1>1, <1>12, <2>1
  <2> QED
    BY <1>2, <1>4, <2>1, <2>2 DEF Undoing, Live
<1> HIDE DEF X
<1> QED
  BY <1>10, <1>11, <1>12, BackSame

\* A run that is committed leaves the revert of its key above its undos.
LEMMA BackReturn ==
    ASSUME StructInv, StructInv', KinInv, HaltedInv, OpenInv, NEW n \in Nodes,
           NEW k \in Keys, Commits(n, k), NEW effect \in Segment(n)
    PROVE  BackOf(k, effect)'
<1> DEFINE s == br[n].undo
           w == br'[n].undo
<1>1. /\ TypeOK /\ s \in Seq(Undos) /\ Len(s) \in Nat
      /\ br' \in [Nodes -> Branches] /\ Return(n)
  BY Fields DEF StructInv, TypeOK, Commits
<1>2. n \in Tree /\ k \in Open(n) /\ k \in br[n].names
  BY CommitsFresh, OpenNames
<1>3. Depth(n) > 0 /\ Top(n).mark \in Nat /\ Revert(k) \in Undos /\ Revert(k).key = k
  BY <1>1, TopTypes, RevertTypes DEF Return
<1>4. /\ w = Append(s, Revert(k)) /\ br'[n].stack = Cut(n, Depth(n) - 1)
      /\ br'[n].names = br[n].names
  BY <1>1, ReturnShape, InnerChildren DEF Becomes, Turns, Returned, Commits, Inner
<1>5. n \in Tree'
  <2>1. Inner(n)
    BY <1>1 DEF Inner
  <2>2. Tree' = Tree
    BY <2>1, InnerChildren, TreeSame
  <2> QED
    BY <1>2, <2>2
<1>6. PICK i \in Top(n).mark + 1 .. Len(s) :
        i \in 1 .. Len(s) /\ Undoes(s, i, effect)
  BY <1>3, SegmentUndos DEF Undoes
<1>7. /\ w \in Seq(Undos) /\ Len(w) = Len(s) + 1 /\ w[Len(s) + 1].key = k
      /\ w[i] = s[i]
  BY <1>1, <1>3, <1>4, <1>6, PushProperties
<1>8. ASSUME NEW m \in Marks(n)' PROVE m < i
  <2>1. PICK t \in DOMAIN br'[n].stack : m = br'[n].stack[t].mark
    BY DEF Marks, Timeouts
  <2>2. t \in 1 .. Depth(n) - 1 /\ br'[n].stack[t] = br[n].stack[t]
    BY <1>1, <1>3, <1>4, <2>1, TopTypes, CutTypes
  <2>3. /\ Depth(n) \in 1 .. Depth(n) /\ t \in 1 .. Depth(n)
        /\ br[n].stack[t].mark \in Nat
    <3>1. Depth(n) \in Nat /\ br[n].stack \in Seq(Frames) /\ Len(br[n].stack) = Depth(n)
      BY <1>1, Fields DEF Depth
    <3>2. Depth(n) \in 1 .. Depth(n) /\ t \in 1 .. Depth(n)
      BY <1>3, <2>2, <3>1
    <3>3. br[n].stack[t] \in Frames
      BY <3>1, <3>2
    <3> QED
      BY <3>2, <3>3 DEF Frames
  <2>4. br[n].stack[t].mark <= Top(n).mark
    BY <2>3 DEF StructInv, BranchInv, MarksOf, Top
  <2> QED
    BY <1>1, <1>3, <2>1, <2>2, <2>3, <2>4
<1> HIDE DEF s, w
<1>9. Cover(w, Marks(n)', i, k)
  <2>1. Len(s) + 1 \in i + 1 .. Len(w)
    BY <1>1, <1>6, <1>7
  <2> QED
    BY <1>7, <1>8, <2>1 DEF Cover
<1>10. i \in 1 .. Len(w) /\ Undoes(w, i, effect)
  BY <1>1, <1>6, <1>7 DEF Undoes
<1>11. Backs(n, k, effect)'
  BY <1>9, <1>10 DEF Backs, w
<1> QED
  BY <1>2, <1>4, <1>5, <1>11 DEF BackOf

LEMMA BackStep ==
    ASSUME StructInv, StructInv', KinInv, HaltedInv, OpenInv, BackInv, [Next]_vars
    PROVE  BackInv'
<1>1. TypeOK
  BY DEF StructInv
<1>2. BackStays
  <2>1. CASE UNCHANGED vars
    <3>1. UNCHANGED <<br, status>>
      BY <2>1 DEF vars
    <3>2. Tree' = Tree
      BY <3>1, TreeSame DEF Children, Left, Right
    <3>3. \A a \in Tree : a \in Tree' /\ br'[a] = br[a] /\ (Undoing(a) => Undoing(a)')
      BY <3>1, <3>2 DEF Undoing, Live
    <3> QED
      BY <3>3, BackAll
  <2>2. ASSUME NEW n \in Nodes,
               Stash(n) \/ \E t \in DOMAIN br[n].stack : Fire(n, t)
        PROVE  BackStays
    BY <2>2, BackStill
  <2>3. ASSUME NEW n \in Nodes, NEW t \in DOMAIN br[n].stack, GraceEnds(n, t)
        PROVE  BackStays
    BY <2>3, BackGrace
  <2> QED
    BY <2>1, <2>2, <2>3, StepCases, BackInner, BackFork, BackFinish, BackMergeLeft,
       BackComplete DEF AnyFork
<1>3. ASSUME NEW k \in Keys, NEW run \in done'[k] \ done[k], NEW effect \in run
      PROVE  BackOf(k, effect)'
  <2>1. PICK n \in Nodes : Commits(n, k) /\ run = Segment(n)
    BY <1>1, Recorded
  <2> QED
    BY <2>1, BackReturn
<1> QED
  BY <1>1, <1>2, <1>3, BackFrom

-----------------------------------------------------------------------------
(* The theorem *)

RunsInv == KinInv /\ HaltedInv /\ OpenInv /\ RevertInv /\ BackInv

LEMMA RunsStep == StructInv /\ RunsInv /\ [Next]_vars => StructInv' /\ RunsInv'
<1> SUFFICES ASSUME StructInv, RunsInv, [Next]_vars PROVE StructInv' /\ RunsInv'
  OBVIOUS
<1>1. KinInv /\ HaltedInv /\ OpenInv /\ RevertInv /\ BackInv
  BY DEF RunsInv
<1>2. StructInv'
  BY StructStep
<1>3. KinInv'
  BY <1>1, <1>2, KinStep
<1>4. HaltedInv'
  BY <1>1, <1>2, HaltedStep
<1>5. OpenInv'
  BY <1>1, <1>2, OpenStep
<1>6. RevertInv'
  BY <1>1, RevertStep
<1>7. BackInv'
  BY <1>1, <1>2, BackStep
<1> QED
  BY <1>2, <1>3, <1>4, <1>5, <1>6, <1>7 DEF RunsInv

\* A branch that was not told to stop is in the tree, where an open key is
\* fresh.
LEMMA RunsFrom == StructInv /\ RunsInv => ExactlyOnce
<1> SUFFICES ASSUME StructInv, RunsInv,
                    NEW n \in Nodes, status[n] = "running", br[n].token \notin sent,
                    NEW i \in DOMAIN br[n].stack, br[n].stack[i].kind = "idem",
                    NEW run \in done[br[n].stack[i].key], NEW effect \in run
             PROVE  effect[2] \in undone \/ effect[1] \in stray
  BY DEF ExactlyOnce
<1> DEFINE k == br[n].stack[i].key
<1>1. n \in Tree
  <2>1. 1 \in 1 .. Depth(n) + 1 /\ Token(n, 1) = br[n].token
    BY Fields DEF StructInv, Token
  <2>2. Live(n)
    BY DEF Live
  <2> QED
    BY <2>1, <2>2 DEF RunsInv, HaltedInv, Halted
<1>2. k \in Keys /\ k \in Open(n)
  <2>1. i \in 1 .. Depth(n)
    BY Fields DEF StructInv
  <2> QED
    BY <2>1 DEF StructInv, BranchInv, MarksOf, Open
<1>3. Fresh(k)
  BY <1>1, <1>2 DEF RunsInv, OpenInv
<1> QED
  BY <1>3 DEF Fresh

\* While a segment runs, in any branch that was not told to stop, no effect of
\* an earlier successful run of its key stands: the key was reverted, by the
\* one task that held the revert, and that took the effects back or lost them;
\* whoever else names the key waits for the branch.
THEOREM ExactlyOnceHolds == Spec => []ExactlyOnce
<1> DEFINE Inv == StructInv /\ RunsInv
<1>1. Init => Inv
  BY InitStruct, InitKin, InitHalted, InitRevert DEF RunsInv
<1>2. Inv /\ [Next]_vars => Inv'
  BY RunsStep
<1>3. Inv => ExactlyOnce
  BY RunsFrom
<1> HIDE DEF Inv
<1> QED
  BY <1>1, <1>2, <1>3, PTL DEF Spec

=============================================================================
