------------------------ MODULE ForkRegistry_proofs ------------------------
(***************************************************************************)
(* Proofs about ForkRegistry, for every number of Forks, width and number  *)
(* of regions, with or without dropped Forks and Replace as each says.     *)
(*                                                                         *)
(* Every branch that still takes part points at a stretch of fds: those    *)
(* its cursor can reach with the allocations that are left.  Stretches of  *)
(* different branches are apart and hold no handle of any of them, with    *)
(* one exception: a suspended parent's cursor still points into the        *)
(* stretch its left branch, and what is below that one, allocates from.    *)
(* A Fork passes the parent's stretch to the left branch and opens a new   *)
(* one, above all others, for the right branch; a merge makes the parent   *)
(* take over the stretch of one of its branches; a dropped Fork makes it   *)
(* fall back on its own, which is why an fd can then be issued twice but   *)
(* no two registries that still meet can hold it.                          *)
(***************************************************************************)
EXTENDS ForkRegistry, TLAPS, WellFoundedInduction

\* What a registry can still be asked for, the current fd included.
Budget == AllocLimit + 1 - allocs

\* The last region in use.
LastRegion == IF seq < MaxRegions THEN seq - 1 ELSE MaxRegions - 1

\* Branches of Forks that are still pending, and the root.
Attached(n) == status[n] \in {"running", "waiting", "forked", "finished", "stashed"}

\* A parent's cursor is stale until its left branch is merged: the left
\* branch has taken over its stretch.
Stale(n) == status[n] = "forked" /\ status[LeftOf(fork[n])] # "joined"

Holder(n) == Attached(n) /\ ~Stale(n)

NoneLost == \A n \in Nodes : status[n] \notin {"orphan", "dead"}

\* a may allocate in the stretch that q's cursor still points to.
Within(q, a) == Stale(q) /\ Below(LeftOf(fork[q]), a)

ForkInv ==
    \A n \in Nodes :
        status[n] = "forked" => fork[n] \in 1 .. MaxForks /\ fork[n] < seq

TreeInv ==
    /\ \A k \in 1 .. MaxForks : k >= seq =>
          status[LeftOf(k)] = "unborn" /\ status[RightOf(k)] = "unborn"
    /\ \A m, n \in Nodes :
          status[m] = "forked" /\ status[n] = "forked" /\ fork[m] = fork[n] => m = n
    /\ \A n \in Nodes : status[n] = "forked" =>
          /\ status[LeftOf(fork[n])] \in {"running", "forked", "finished", "joined"}
          /\ status[RightOf(fork[n])] \in
                {"waiting", "running", "forked", "finished", "stashed"}

\* What holds of a parent and a branch until the branch is merged.
LeftOK(p, l) ==
    /\ p.next <= l.next
    /\ l.region.some /\ l.region.off # 0 => p.region = l.region
RightOK(p, r) ==
    /\ r.region.some
    /\ r.region.base <= p.next

BranchInv ==
    \A n \in Nodes : status[n] = "forked" =>
        /\ status[LeftOf(fork[n])] # "joined" => LeftOK(reg[n], reg[LeftOf(fork[n])])
        /\ RightOK(reg[n], reg[RightOf(fork[n])])

\* Where a registry's cursor and base can be.
Placed(r, top, count) ==
    /\ r.next <= top + count
    /\ r.region.some => /\ r.region.base <= count
                        /\ r.region.base + r.region.off <= r.next
    /\ ~r.region.some => r.next <= count

BoundInv ==
    /\ allocs <= AllocLimit
    /\ \A n \in Nodes : Placed(reg[n], OffsetFor(LastRegion), allocs)
    /\ \A f \in issued : f < OffsetFor(LastRegion) + allocs
    /\ \A n \in Nodes : reg[n].handles \subseteq issued

\* f is outside the stretch of fds that n's cursor can still reach.
Outside(f, n) == f < reg[n].next \/ reg[n].next + Budget <= f

ApartInv ==
    \A m, n \in Nodes : Attached(m) /\ Attached(n) /\ m # n =>
        \/ Within(m, n) \/ Within(n, m)
        \/ reg[m].next + Budget <= reg[n].next
        \/ reg[n].next + Budget <= reg[m].next

HandleInv ==
    \A a, n \in Nodes : Attached(a) /\ Attached(n) =>
        Within(n, a) \/ \A h \in reg[a].handles : Outside(h, n)

SplitInv ==
    \A n, a \in Nodes :
        status[n] = "forked" =>
            ~(Below(LeftOf(fork[n]), a) /\ Below(RightOf(fork[n]), a))

SiblingInv ==
    \A n, a, b \in Nodes :
        /\ status[n] = "forked" /\ Attached(a) /\ Attached(b)
        /\ Below(LeftOf(fork[n]), a) /\ Below(RightOf(fork[n]), b)
        => reg[a].handles \cap reg[b].handles \subseteq reg[n].handles

JoinedInv ==
    \A n \in Nodes :
        status[n] = "forked" /\ status[LeftOf(fork[n])] = "joined" =>
            reg[LeftOf(fork[n])].handles \subseteq reg[n].handles

OrphanInv ==
    \A n \in Nodes : status[n] = "orphan" => reg[n].next \notin reg[n].handles

\* While no Fork was dropped, the stretches hold no fd ever issued.
FreshInv ==
    NoneLost => \A n \in Nodes : Holder(n) => \A f \in issued : Outside(f, n)

\* The shape of the tree, and whose fds are whose.
SInv == TypeOK /\ ForkInv /\ TreeInv /\ BranchInv /\ BoundInv
AInv ==
    /\ SplitInv /\ ApartInv /\ HandleInv /\ SiblingInv
    /\ JoinedInv /\ OrphanInv /\ FreshInv
IInv == SInv /\ AInv

-----------------------------------------------------------------------------
(* The operators *)

\* A branch of a numbered Fork is a node of the tree, and which one it is.
LEMMA BranchNodes ==
  ASSUME NEW k \in 1 .. MaxForks
  PROVE  /\ LeftOf(k) \in Nodes /\ RightOf(k) \in Nodes /\ Root \in Nodes
         /\ LeftOf(k) # RightOf(k) /\ LeftOf(k) # Root /\ RightOf(k) # Root
         /\ \A j \in 1 .. MaxForks :
              /\ LeftOf(j) = LeftOf(k) <=> j = k
              /\ RightOf(j) = RightOf(k) <=> j = k
              /\ LeftOf(j) # RightOf(k)
  BY BoundAssumption DEF Nodes, LeftOf, RightOf, Root

\* The regions are apart: each starts where the one before it ends.
LEMMA OffsetStep ==
  ASSUME NEW k \in Nat
  PROVE  OffsetFor(k) \in Nat /\ OffsetFor(k + 1) = OffsetFor(k) + Width
  BY WidthAssumption DEF OffsetFor

\* The registry's operations yield registries.
LEMMA RegistryTypes ==
  ASSUME NEW r \in Registry, NEW s \in Registry, NEW off \in Nat
  PROVE  /\ Allocated(r) \in Registry
         /\ Cleared(r) \in Registry
         /\ Offset(r, off) \in Registry
         /\ Cursor(r) \in Nat
         /\ Merge(r, s) \in Registry
<1>1. Base(r) \in Nat /\ Cursor(r) \in Nat /\ Cursor(s) \in Nat
  BY DEF Registry, Region, Base, Cursor
<1>2. Allocated(r) \in Registry
  <2>1. r.next + 1 \in Nat /\ r.handles \cup {r.next} \in SUBSET Nat
    BY DEF Registry
  <2>2. Allocated(r) = [r EXCEPT !.next = r.next + 1,
                                 !.handles = r.handles \cup {r.next}]
    BY DEF Allocated
  <2> QED
    BY <2>1, <2>2 DEF Registry
<1>3. \A b, o \in Nat : At(b, o) \in Region
  BY DEF At, Region
<1>4. Cleared(r) \in Registry
  BY <1>1, <1>3 DEF Registry, Cleared
<1>5. Offset(r, off) \in Registry
  <2>1. At(Base(r), off) \in Region /\ Base(r) + off \in Nat
    BY <1>1, <1>3
  <2> QED
    BY <2>1 DEF Registry, Offset
<1>6. Merge(r, s) \in Registry
  BY <1>1, <1>3 DEF Registry, Region, Merge
<1> QED
  BY <1>1, <1>2, <1>4, <1>6, <1>5

\* Merging the left branch leaves the parent with the branch's cursor.
LEMMA MergeLeft ==
  ASSUME NEW p \in Registry, NEW l \in Registry, LeftOK(p, l),
         NEW top \in Nat, NEW count \in Nat,
         Placed(p, top, count), Placed(l, top, count)
  PROVE  /\ Merge(p, l).next = l.next
         /\ Placed(Merge(p, l), top, count)
  BY DEF Registry, Region, LeftOK, Placed, Merge, Cursor, At

\* Merging the right branch leaves it with its own cursor or the branch's.
LEMMA MergeRight ==
  ASSUME NEW p \in Registry, NEW r \in Registry, RightOK(p, r),
         NEW top \in Nat, NEW count \in Nat,
         Placed(p, top, count), Placed(r, top, count)
  PROVE  /\ Merge(p, r).next = p.next \/ Merge(p, r).next = r.next
         /\ p.next <= Merge(p, r).next
         /\ Placed(Merge(p, r), top, count)
  BY DEF Registry, Region, RightOK, Placed, Merge, Cursor, At

\* A suspended branch's registry stays fit to be merged when it changes.
LEMMA LeftGrows ==
  ASSUME NEW p \in Registry, NEW l \in Registry, NEW m \in Registry,
         LeftOK(p, l), l.next <= m.next,
         m.region.some /\ m.region.off # 0 => m.region = l.region
  PROVE  LeftOK(p, m)
  BY DEF Registry, Region, LeftOK

-----------------------------------------------------------------------------
(* Type correctness *)

LEMMA TypeStep ==
  ASSUME TypeOK, ForkInv, [Next]_vars
  PROVE  TypeOK' /\ ForkInv'
<1> USE DEF TypeOK, ForkInv
<1>1. CASE UNCHANGED vars
  BY <1>1 DEF vars, history
<1> SUFFICES ASSUME NEW n \in Nodes,
                    \/ Allocate(n) \/ Replace(n) \/ Finish(n)
                    \/ \E x \in Resources : Terminate(n, x)
                    \/ \E ln \in SUBSET names[n] :
                          \E rn \in SUBSET names[n] : Fork(n, ln, rn)
                    \/ ForkExhausted(n) \/ StartRight(n) \/ JoinSequential(n)
                    \/ Stash(n) \/ JoinLeft(n) \/ JoinRight(n) \/ DropFork(n)
             PROVE  TypeOK' /\ ForkInv'
  BY <1>1 DEF Next
<1> DEFINE k == fork[n]
<1>2. status[n] = "forked" =>
        /\ k \in 1 .. MaxForks /\ k < seq
        /\ LeftOf(k) \in Nodes /\ RightOf(k) \in Nodes
        /\ LeftOf(k) # RightOf(k)
  BY BranchNodes
<1>3. CASE Allocate(n)
  <2>1. Allocated(reg[n]) \in Registry /\ reg[n].next \in Nat
    BY <1>3, RegistryTypes DEF Registry
  <2>2. reg' \in [Nodes -> Registry] /\ issued' \in SUBSET Nat
    BY <1>3, <2>1 DEF Allocate
  <2>3. status' \in [Nodes -> Statuses]
    BY <1>3 DEF Allocate, Statuses
  <2> QED
    BY <1>3, <2>2, <2>3 DEF Allocate
<1>4. CASE Replace(n)
  BY <1>4, RegistryTypes DEF Replace, Registry
<1>5. CASE Finish(n)
  BY <1>5 DEF Finish, Statuses, history
<1>6. CASE \E x \in Resources : Terminate(n, x)
  BY SMTT(60), <1>6 DEF Terminate, Registry
<1>7. ASSUME NEW ln \in SUBSET names[n], NEW rn \in SUBSET names[n],
             Fork(n, ln, rn)
      PROVE  TypeOK' /\ ForkInv'
  <2>1. /\ seq \in 1 .. MaxForks
        /\ LeftOf(seq) \in Nodes /\ RightOf(seq) \in Nodes
    BY <1>7, BranchNodes, BoundAssumption DEF Fork
  <2>2. Offset(reg[n], OffsetFor(seq)) \in Registry
    BY <2>1, OffsetStep, RegistryTypes
  <2>3. TypeOK'
    BY <1>7, <2>1, <2>2 DEF Fork, Statuses, history
  <2>4. ForkInv'
    BY <1>7, <2>1, BoundAssumption DEF Fork, history
  <2> QED
    BY <2>3, <2>4
<1>8. CASE ForkExhausted(n)
  BY <1>8 DEF ForkExhausted, history
<1>9. CASE StartRight(n)
  BY <1>9, <1>2 DEF StartRight, Statuses, history
<1>10. CASE JoinSequential(n)
  <2>1. Merge(Merge(reg[n], reg[LeftOf(k)]), reg[RightOf(k)]) \in Registry
    BY <1>10, <1>2, RegistryTypes DEF JoinSequential
  <2>2. reg' \in [Nodes -> Registry] /\ fork' \in [Nodes -> 0 .. MaxForks]
    BY <1>10, <1>2, <2>1, BoundAssumption DEF JoinSequential
  <2>3. status' \in [Nodes -> Statuses]
    BY <1>10, <1>2 DEF JoinSequential, Statuses
  <2>4. TypeOK'
    BY <1>10, <2>2, <2>3 DEF JoinSequential, history
  <2>5. ForkInv'
    BY <1>10, <1>2 DEF JoinSequential, history
  <2> QED
    BY <2>5, <2>4
<1>11. CASE Stash(n)
  BY <1>11, <1>2 DEF Stash, Statuses, history
<1>12. CASE JoinLeft(n)
  <2>1. /\ Merge(reg[n], reg[LeftOf(k)]) \in Registry
        /\ Merge(Merge(reg[n], reg[LeftOf(k)]), reg[RightOf(k)]) \in Registry
    BY <1>12, <1>2, RegistryTypes DEF JoinLeft
  <2>2. reg' \in [Nodes -> Registry] /\ fork' \in [Nodes -> 0 .. MaxForks]
    BY <1>12, <1>2, <2>1, BoundAssumption DEF JoinLeft
  <2>3. status' \in [Nodes -> Statuses]
    BY <1>12, <1>2 DEF JoinLeft, Statuses
  <2>4. TypeOK'
    BY <1>12, <2>2, <2>3 DEF JoinLeft, history
  <2>5. ForkInv'
    BY <1>12, <1>2 DEF JoinLeft, history
  <2> QED
    BY <2>5, <2>4
<1>13. CASE JoinRight(n)
  <2>1. Merge(reg[n], reg[RightOf(k)]) \in Registry
    BY <1>13, <1>2, RegistryTypes DEF JoinRight
  <2>2. reg' \in [Nodes -> Registry] /\ fork' \in [Nodes -> 0 .. MaxForks]
    BY <1>13, <1>2, <2>1, BoundAssumption DEF JoinRight
  <2>3. status' \in [Nodes -> Statuses]
    BY <1>13, <1>2 DEF JoinRight, Statuses
  <2>4. TypeOK'
    BY <1>13, <2>2, <2>3 DEF JoinRight, history
  <2>5. ForkInv'
    BY <1>13, <1>2 DEF JoinRight, history
  <2> QED
    BY <2>5, <2>4
<1>14. CASE DropFork(n)
  <2>1. Merge(reg[n], reg[RightOf(k)]) \in Registry
    BY <1>14, <1>2, RegistryTypes DEF DropFork
  <2>2. reg' \in [Nodes -> Registry] /\ fork' \in [Nodes -> 0 .. MaxForks]
    BY <1>14, <1>2, <2>1, BoundAssumption DEF DropFork
  <2>3. /\ status' \in [Nodes -> Statuses]
        /\ \A q \in Nodes : status'[q] = "forked" => q # n /\ status[q] = "forked"
    <3>1. ASSUME NEW q \in Nodes
          PROVE  /\ status'[q] \in {"running", "orphan", "dead", status[q]}
                 /\ q = n => status'[q] = "running"
      BY <1>14 DEF DropFork
    <3>2. \A q \in Nodes : status'[q] \in Statuses
      BY <3>1 DEF Statuses
    <3>3. status' = [q \in Nodes |-> status'[q]]
      BY <1>14 DEF DropFork
    <3> QED
      BY <3>1, <3>2, <3>3
  <2>4. TypeOK'
    BY <1>14, <2>2, <2>3 DEF DropFork, history
  <2>5. ForkInv'
    <3>1. seq' = seq /\ \A q \in Nodes : q # n => fork'[q] = fork[q]
      BY <1>14 DEF DropFork
    <3> QED
      BY <2>3, <3>1
  <2> QED
    BY <2>5, <2>4
<1> QED
  BY <1>3, <1>4, <1>5, <1>6, <1>7, <1>8, <1>9, <1>10, <1>11, <1>12, <1>13, <1>14

\* Every variable keeps its type, whatever is dropped or replaced.
THEOREM TypeCorrect == Spec => []TypeOK
<1>1. Init => TypeOK /\ ForkInv
  <2> SUFFICES ASSUME Init PROVE TypeOK /\ ForkInv
    OBVIOUS
  <2>1. EmptyRegistry \in Registry
    BY DEF EmptyRegistry, Registry, Region, NoRegion
  <2> QED
    BY <2>1, BoundAssumption DEF Init, TypeOK, ForkInv, Statuses
<1>2. TypeOK /\ ForkInv /\ [Next]_vars => (TypeOK /\ ForkInv)'
  BY TypeStep
<1> QED
  BY <1>1, <1>2, PTL DEF Spec

-----------------------------------------------------------------------------
(* The pending Forks as a tree *)

\* The branches of a pending Fork, as every join finds them.
LEMMA ForkBranches ==
  ASSUME IInv, NEW n \in Nodes, status[n] = "forked"
  PROVE  LET k == fork[n] IN
         /\ LeftOf(k) \in Nodes /\ RightOf(k) \in Nodes
         /\ LeftOf(k) # RightOf(k) /\ k \in 1 .. MaxForks /\ k < seq
         /\ \A q \in Nodes : q # n /\ status[q] = "forked" =>
              /\ LeftOf(fork[q]) \in Nodes \ {LeftOf(k), RightOf(k)}
              /\ RightOf(fork[q]) \in Nodes \ {LeftOf(k), RightOf(k)}
  BY BranchNodes DEF IInv, SInv, ForkInv, TreeInv

\* A branch that is not suspended has nothing below it.
LEMMA BelowLeaf ==
  ASSUME NEW p \in Nodes, status[p] # "forked", NEW q \in Nodes, Below(p, q)
  PROVE  q = p
<1>1. Closed({p}) /\ {p} \in SUBSET Nodes
  BY DEF Closed
<1> QED
  BY <1>1 DEF Below

\* Both branches of a pending Fork are below whatever their parent is below.
LEMMA BelowChild ==
  ASSUME NEW p \in Nodes, NEW n \in Nodes, status[n] = "forked", Below(p, n)
  PROVE  Below(p, LeftOf(fork[n])) /\ Below(p, RightOf(fork[n]))
  BY DEF Below, Closed

\* The branches of n are below nothing else that n is not below.
LEMMA BelowParent ==
  ASSUME IInv, NEW n \in Nodes, status[n] = "forked",
         NEW x \in {LeftOf(fork[n]), RightOf(fork[n])},
         NEW p \in Nodes, p # x, Below(p, x)
  PROVE  Below(p, n)
<1> SUFFICES ASSUME NEW S \in SUBSET Nodes, p \in S, Closed(S), n \notin S
             PROVE  FALSE
  BY DEF Below
<1>1. Closed(S \ {x})
  BY ForkBranches DEF Closed
<1>2. S \ {x} \in SUBSET Nodes /\ p \in S \ {x}
  OBVIOUS
<1> QED
  BY <1>1, <1>2 DEF Below

\* As long as no Fork begins or ends, the tree stays as it is.
LEMMA BelowSame ==
  ASSUME \A q \in Nodes : status'[q] = "forked" <=> status[q] = "forked",
         \A q \in Nodes : status[q] = "forked" => fork'[q] = fork[q],
         NEW p, NEW q
  PROVE  Below(p, q)' <=> Below(p, q)
<1>1. \A S \in SUBSET Nodes : Closed(S)' <=> Closed(S)
  BY DEF Closed
<1> QED
  BY <1>1 DEF Below

\* D is what hangs from n's Fork and from nothing else.
CutOff(n, D) ==
    /\ D \subseteq Nodes /\ n \notin D
    /\ LeftOf(fork[n]) \in D /\ RightOf(fork[n]) \in D
    /\ Closed(D)
    /\ \A q \in Nodes \ D : q # n /\ status[q] = "forked" =>
          LeftOf(fork[q]) \notin D /\ RightOf(fork[q]) \notin D
    /\ \A q \in D : status[q] \notin {"unborn", "orphan", "dead"}

\* What hangs from a Fork whose branches have no Fork pending: the two.
LEMMA PairIsCut ==
  ASSUME IInv, NEW n \in Nodes, status[n] = "forked",
         status[LeftOf(fork[n])] # "forked", status[RightOf(fork[n])] # "forked"
  PROVE  CutOff(n, {LeftOf(fork[n]), RightOf(fork[n])})
<1> DEFINE l == LeftOf(fork[n])
<1> DEFINE r == RightOf(fork[n])
<1>1. /\ l \in Nodes /\ r \in Nodes
      /\ \A q \in Nodes : q # n /\ status[q] = "forked" =>
           LeftOf(fork[q]) \notin {l, r} /\ RightOf(fork[q]) \notin {l, r}
  BY ForkBranches
<1>2. Closed({l, r}) /\ n \notin {l, r}
  BY DEF Closed
<1>3. status[l] \notin {"unborn", "orphan", "dead"}
      /\ status[r] \notin {"unborn", "orphan", "dead"}
  BY DEF IInv, SInv, TreeInv
<1> QED
  BY <1>1, <1>2, <1>3 DEF CutOff

\* What hangs from any Fork: what is below its branches.
LEMMA SubtreeIsCut ==
  ASSUME IInv, NEW n \in Nodes, status[n] = "forked"
  PROVE  CutOff(n, Beneath(n))
<1> DEFINE l == LeftOf(fork[n])
<1> DEFINE r == RightOf(fork[n])
<1> DEFINE D == Beneath(n)
<1>1. /\ l \in Nodes /\ r \in Nodes
      /\ \A q \in Nodes : q # n /\ status[q] = "forked" =>
           /\ LeftOf(fork[q]) \in Nodes \ {l, r}
           /\ RightOf(fork[q]) \in Nodes \ {l, r}
  BY ForkBranches
<1>2. Below(l, l) /\ Below(r, r)
  BY DEF Below
<1>3. D \subseteq Nodes /\ l \in D /\ r \in D
  BY <1>1, <1>2 DEF Beneath
<1>4. n \notin D
  <2>1. ~Below(l, r) /\ ~Below(r, l)
    BY <1>1, <1>2 DEF IInv, AInv, SplitInv
  <2> QED
    BY <1>1, <2>1, BelowChild DEF Beneath
<1>5. ASSUME NEW q \in D, status[q] = "forked"
      PROVE  LeftOf(fork[q]) \in D /\ RightOf(fork[q]) \in D
  <2>1. /\ q \in Nodes /\ LeftOf(fork[q]) \in Nodes /\ RightOf(fork[q]) \in Nodes
        /\ Below(l, q) \/ Below(r, q)
    BY <1>3, <1>5, ForkBranches DEF Beneath
  <2>2. \A b \in {l, r} : Below(b, q) =>
           Below(b, LeftOf(fork[q])) /\ Below(b, RightOf(fork[q]))
    BY <1>1, <1>5, <2>1, BelowChild
  <2> QED
    BY <2>1, <2>2 DEF Beneath
<1>6. ASSUME NEW q \in Nodes \ D, q # n, status[q] = "forked",
             NEW x \in {LeftOf(fork[q]), RightOf(fork[q])}, x \in D
      PROVE  FALSE
  <2>1. PICK b \in {l, r} : b \in Nodes /\ b # x /\ Below(b, x)
    BY <1>1, <1>6 DEF Beneath
  <2>2. Below(b, q)
    BY <1>6, <2>1, BelowParent
  <2> QED
    BY <1>6, <2>1, <2>2 DEF Beneath
<1>7. ASSUME NEW q \in D
      PROVE  status[q] \notin {"unborn", "orphan", "dead"}
  <2> DEFINE S == {x \in Nodes : status[x] \notin {"unborn", "orphan", "dead"}}
  <2>1. ASSUME NEW m \in Nodes, status[m] = "forked"
        PROVE  LeftOf(fork[m]) \in S /\ RightOf(fork[m]) \in S
    <3>1. LeftOf(fork[m]) \in Nodes /\ RightOf(fork[m]) \in Nodes
      BY <2>1, ForkBranches
    <3>2. /\ status[LeftOf(fork[m])] \notin {"unborn", "orphan", "dead"}
          /\ status[RightOf(fork[m])] \notin {"unborn", "orphan", "dead"}
      BY <2>1 DEF IInv, SInv, TreeInv
    <3> QED
      BY <3>1, <3>2
  <2>2. Closed(S) /\ S \in SUBSET Nodes /\ l \in S /\ r \in S
    BY <2>1 DEF Closed
  <2>3. q \in S
    BY <2>2 DEF Beneath, Below
  <2> QED
    BY <2>3
<1> HIDE DEF D, l, r
<1>8. Closed(D)
  BY <1>5 DEF Closed
<1> QED
  BY <1>3, <1>4, <1>6, <1>7, <1>8 DEF CutOff, D, l, r

\* When n's Fork ends, what hangs from it leaves the tree and the rest stays.
LEMMA BelowUnforked ==
  ASSUME NEW n \in Nodes, NEW D, CutOff(n, D),
         \A q \in Nodes : status'[q] = "forked" <=>
            q # n /\ q \notin D /\ status[q] = "forked",
         \A q \in Nodes : q # n => fork'[q] = fork[q],
         NEW p \in Nodes, NEW q \in Nodes
  PROVE  /\ Below(p, q)' => Below(p, q)
         /\ Below(p, q) /\ q \notin D => Below(p, q)'
<1>1. ASSUME Below(p, q)'
      PROVE  Below(p, q)
  <2>1. \A S \in SUBSET Nodes : Closed(S) => Closed(S)'
    BY DEF Closed
  <2> QED
    BY <1>1, <2>1 DEF Below
<1>2. ASSUME Below(p, q), q \notin D
      PROVE  Below(p, q)'
  <2> SUFFICES ASSUME NEW S \in SUBSET Nodes, p \in S, Closed(S)'
               PROVE  q \in S
    BY DEF Below
  <2>1. Closed(S \cup D)
    BY DEF Closed, CutOff
  <2>2. S \cup D \in SUBSET Nodes /\ p \in S \cup D
    BY DEF CutOff
  <2> QED
    BY <1>2, <2>1, <2>2 DEF Below
<1> QED
  BY <1>1, <1>2

\* A Fork of n puts two new branches below n.
LEMMA BelowForked ==
  ASSUME NEW n \in Nodes, status[n] # "forked",
         NEW l \in Nodes, NEW r \in Nodes, n # l, n # r, l # r,
         status[l] # "forked", status[r] # "forked",
         l = LeftOf(fork'[n]), r = RightOf(fork'[n]), status'[n] = "forked",
         \A q \in Nodes : q # n => (status'[q] = "forked" <=> status[q] = "forked"),
         \A q \in Nodes : q # n => fork'[q] = fork[q],
         \A q \in Nodes : status[q] = "forked" =>
            LeftOf(fork[q]) \notin {l, r} /\ RightOf(fork[q]) \notin {l, r},
         NEW p \in Nodes, NEW q \in Nodes
  PROVE  /\ Below(p, q) => Below(p, q)'
         /\ Below(p, n) => Below(p, l)' /\ Below(p, r)'
         /\ p \notin {l, r} /\ q \notin {l, r} /\ Below(p, q)' => Below(p, q)
         /\ p \notin {l, r} /\ q \in {l, r} /\ Below(p, q)' => Below(p, n)
         /\ p \in {l, r} /\ Below(p, q)' => q = p
<1>1. \A S \in SUBSET Nodes : Closed(S)' => Closed(S) /\ (n \in S => l \in S /\ r \in S)
  BY DEF Closed
<1>2. ASSUME NEW S \in SUBSET Nodes, Closed(S)
      PROVE  /\ Closed(S \cup {l, r})'
             /\ n \notin S => Closed(S \ {l, r})'
  <2>1. Closed(S \cup {l, r})'
    BY <1>2 DEF Closed
  <2>2. n \notin S => Closed(S \ {l, r})'
    BY <1>2 DEF Closed
  <2> QED
    BY <2>1, <2>2
<1>3. Below(p, q) => Below(p, q)'
  BY <1>1 DEF Below
<1>4. Below(p, n) => Below(p, l)' /\ Below(p, r)'
  BY <1>1 DEF Below
<1>5. ASSUME p \notin {l, r}, q \notin {l, r}, Below(p, q)'
      PROVE  Below(p, q)
  <2> SUFFICES ASSUME NEW S \in SUBSET Nodes, p \in S, Closed(S)
               PROVE  q \in S
    BY DEF Below
  <2>1. S \cup {l, r} \in SUBSET Nodes /\ Closed(S \cup {l, r})'
    BY <1>2
  <2> QED
    BY <1>5, <2>1 DEF Below
<1>6. ASSUME p \notin {l, r}, q \in {l, r}, Below(p, q)'
      PROVE  Below(p, n)
  <2> SUFFICES ASSUME NEW S \in SUBSET Nodes, p \in S, Closed(S), n \notin S
               PROVE  FALSE
    BY DEF Below
  <2>1. S \ {l, r} \in SUBSET Nodes /\ Closed(S \ {l, r})' /\ p \in S \ {l, r}
    BY <1>2, <1>6
  <2> QED
    BY <1>6, <2>1 DEF Below
<1>7. ASSUME p \in {l, r}, Below(p, q)'
      PROVE  q = p
  <2>1. Closed({p})' /\ {p} \in SUBSET Nodes
    BY <1>7 DEF Closed
  <2> QED
    BY <1>7, <2>1 DEF Below
<1> QED
  BY <1>3, <1>4, <1>5, <1>6, <1>7

-----------------------------------------------------------------------------
(* What a step does to the branches and to the holders *)

\* Merging only moves a parent's cursor up and keeps its base.
LEMMA MergeGrows ==
  ASSUME NEW p \in Registry, NEW s \in Registry
  PROVE  LET m == Merge(p, s) IN
         /\ p.next <= m.next
         /\ m.region.some /\ m.region.off # 0 => m.region = p.region
         /\ p.region.some => m.region = p.region
<1>1. Cursor(s) \in Nat /\ p.next \in Nat
  BY DEF Registry, Region, Cursor
<1>2. p.next <= Merge(p, s).next
  BY <1>1 DEF Merge
<1>3. Merge(p, s).region = IF ~p.region.some /\ s.region.some
                           THEN At(s.region.base, 0) ELSE p.region
  BY DEF Merge
<1> QED
  BY <1>2, <1>3 DEF At

\* No registry but n's changes, and that one only as it may while it is a
\* branch still to be merged.
OnlyGrows(n) ==
    /\ reg'[n] \in Registry
    /\ \A q \in Nodes : q # n => reg'[q] = reg[q]
    /\ reg[n].next <= reg'[n].next
    /\ reg'[n].region.some /\ reg'[n].region.off # 0 => reg'[n].region = reg[n].region
    /\ reg[n].region.some =>
          reg'[n].region.some /\ reg'[n].region.base = reg[n].region.base

\* When one registry grows that way, every Fork it is a branch of stays fit
\* to be merged.
LEMMA RegGrows ==
  ASSUME IInv, NEW n \in Nodes, OnlyGrows(n),
         NEW q \in Nodes, q # n, status[q] = "forked"
  PROVE  /\ status[LeftOf(fork[q])] # "joined" =>
              LeftOK(reg'[q], reg'[LeftOf(fork[q])])
         /\ RightOK(reg'[q], reg'[RightOf(fork[q])])
<1> DEFINE l == LeftOf(fork[q])
<1> DEFINE r == RightOf(fork[q])
<1>1. l \in Nodes /\ r \in Nodes
  BY BranchNodes DEF IInv, SInv, ForkInv
<1>2. /\ reg \in [Nodes -> Registry]
      /\ reg[q] \in Registry /\ reg[l] \in Registry /\ reg[r] \in Registry
      /\ reg'[q] = reg[q]
      /\ l # n => reg'[l] = reg[l]
      /\ r # n => reg'[r] = reg[r]
  BY <1>1 DEF IInv, SInv, TypeOK, OnlyGrows
<1>3. LeftOK(reg[q], reg[l]) => LeftOK(reg'[q], reg'[l])
  <2>1. CASE l = n
    BY <1>2, <2>1, LeftGrows DEF OnlyGrows
  <2>2. CASE l # n
    BY <1>2, <2>2
  <2> QED
    BY <2>1, <2>2
<1>4. RightOK(reg[q], reg[r]) => RightOK(reg'[q], reg'[r])
  BY <1>2 DEF RightOK, OnlyGrows
<1> QED
  BY <1>3, <1>4 DEF IInv, SInv, BranchInv

\* Where the stretch of q was before p took over m's.
Source(p, m, q) == IF q = p THEN m ELSE q

\* No fd is issued, and one branch, p, takes over the stretch of another, m,
\* which leaves the tree (or is p itself); handles only move up the tree.
LEMMA Takeover ==
  ASSUME IInv, TypeOK', NEW p \in Nodes, NEW m \in Nodes, Attached(m),
         m = p \/ ~Attached(m)',
         UNCHANGED <<issued, allocs>>,
         \A q \in Nodes : Attached(q)' =>
            /\ Attached(Source(p, m, q))
            /\ reg'[q].next = reg[Source(p, m, q)].next,
         \A q, a \in Nodes :
            Attached(q)' /\ Attached(a)' /\ Within(Source(p, m, q), Source(p, m, a))
            => Within(q, a)',
         \A y, a \in Nodes : Below(y, a)' => Below(y, a),
         \A a \in Nodes : Attached(a)' => \A h \in reg'[a].handles :
            \E b \in Nodes :
              /\ Attached(b) /\ h \in reg[b].handles
              /\ \A q \in Nodes :
                    Attached(q)' /\ Within(Source(p, m, q), b) => Within(q, a)'
              /\ \A y \in Nodes : Below(y, a)' => Below(y, b),
         \A q \in Nodes : status'[q] = "forked" =>
            status[q] = "forked" /\ fork'[q] = fork[q]
            /\ reg[q].handles \subseteq reg'[q].handles,
         \A q \in Nodes : status'[q] = "forked" /\ status'[LeftOf(fork[q])] = "joined" =>
            \/ reg'[LeftOf(fork[q])].handles \subseteq reg'[q].handles
            \/ /\ status[LeftOf(fork[q])] = "joined"
               /\ reg'[LeftOf(fork[q])] = reg[LeftOf(fork[q])],
         \A q \in Nodes : status'[q] = "orphan" =>
            /\ reg'[q].next = reg[q].next /\ reg'[q].handles = reg[q].handles
            /\ status[q] = "orphan" \/ status[q] = "running",
         NoneLost' => NoneLost /\ \A q \in Nodes :
            Holder(q)' => Holder(Source(p, m, q))
  PROVE  AInv'
<1>1. Budget' = Budget
  BY DEF Budget
<1>2. \A q \in Nodes : Source(p, m, q) \in Nodes
  BY DEF Source
<1>3. \A q \in Nodes : Attached(q)' =>
        \A f \in Nat : Outside(f, q)' <=> Outside(f, Source(p, m, q))
  BY <1>1 DEF Outside
<1>4. ApartInv'
  <2> SUFFICES ASSUME NEW a \in Nodes, NEW b \in Nodes, Attached(a)', Attached(b)', a # b,
                      ~Within(a, b)', ~Within(b, a)'
               PROVE  \/ reg'[a].next + Budget' <= reg'[b].next
                      \/ reg'[b].next + Budget' <= reg'[a].next
    BY DEF ApartInv
  <2> DEFINE x == Source(p, m, a)
  <2> DEFINE y == Source(p, m, b)
  <2>1. x # y
    BY DEF Source
  <2>2. /\ x \in Nodes /\ y \in Nodes /\ Attached(x) /\ Attached(y)
        /\ ~Within(x, y) /\ ~Within(y, x)
        /\ reg'[a].next = reg[x].next /\ reg'[b].next = reg[y].next
    BY <1>2
  <2>3. \/ reg[x].next + Budget <= reg[y].next
        \/ reg[y].next + Budget <= reg[x].next
    BY <2>1, <2>2 DEF IInv, AInv, ApartInv
  <2> QED
    BY <1>1, <2>2, <2>3
<1>5. HandleInv'
  <2> SUFFICES ASSUME NEW a \in Nodes, NEW n \in Nodes, Attached(a)', Attached(n)',
                      ~Within(n, a)', NEW h \in reg'[a].handles
               PROVE  Outside(h, n)'
    BY DEF HandleInv
  <2>1. PICK b \in Nodes :
          /\ Attached(b) /\ h \in reg[b].handles
          /\ Within(Source(p, m, n), b) => Within(n, a)'
    OBVIOUS
  <2>2. Outside(h, Source(p, m, n))
    BY <2>1, <1>2 DEF IInv, AInv, HandleInv
  <2>3. h \in Nat
    BY DEF TypeOK, Registry
  <2> QED
    BY <2>2, <2>3, <1>3
<1>6. SiblingInv'
  <2> SUFFICES ASSUME NEW n \in Nodes, NEW a \in Nodes, NEW b \in Nodes,
                      status'[n] = "forked", Attached(a)', Attached(b)',
                      Below(LeftOf(fork[n]), a)', Below(RightOf(fork[n]), b)',
                      NEW h \in reg'[a].handles, h \in reg'[b].handles
               PROVE  h \in reg'[n].handles
    BY DEF SiblingInv
  <2>1. /\ status[n] = "forked" /\ fork'[n] = fork[n]
        /\ reg[n].handles \subseteq reg'[n].handles
    OBVIOUS
  <2>2. LeftOf(fork[n]) \in Nodes /\ RightOf(fork[n]) \in Nodes
    BY <2>1, ForkBranches
  <2>3. PICK x \in Nodes : /\ Attached(x) /\ h \in reg[x].handles
                           /\ \A y \in Nodes : Below(y, a)' => Below(y, x)
    OBVIOUS
  <2>4. PICK z \in Nodes : /\ Attached(z) /\ h \in reg[z].handles
                           /\ \A y \in Nodes : Below(y, b)' => Below(y, z)
    OBVIOUS
  <2>5. Below(LeftOf(fork[n]), x) /\ Below(RightOf(fork[n]), z)
    BY <2>1, <2>2, <2>3, <2>4 DEF Below, Closed
  <2> QED
    BY <2>1, <2>3, <2>4, <2>5 DEF IInv, AInv, SiblingInv
<1>7. OrphanInv'
  <2> SUFFICES ASSUME NEW q \in Nodes, status'[q] = "orphan"
               PROVE  reg[q].next \notin reg[q].handles
    BY DEF OrphanInv
  <2>1. CASE status[q] = "orphan"
    BY <2>1 DEF IInv, AInv, OrphanInv
  <2>2. CASE status[q] = "running"
    <3>1. Attached(q) /\ ~Within(q, q)
      BY <2>2 DEF Attached, Within, Stale
    <3>2. \A h \in reg[q].handles : Outside(h, q)
      BY <3>1 DEF IInv, AInv, HandleInv
    <3>3. reg[q].next \in Nat /\ Budget \in Nat /\ Budget > 0
      BY WidthAssumption DEF IInv, SInv, TypeOK, Registry, BoundInv, Budget
    <3> QED
      BY <3>2, <3>3 DEF Outside
  <2> QED
    BY <2>1, <2>2
<1>8. FreshInv'
  <2> SUFFICES ASSUME NoneLost', NEW n \in Nodes, Holder(n)', NEW f \in issued
               PROVE  Outside(f, n)'
    BY DEF FreshInv
  <2>1. Outside(f, Source(p, m, n))
    BY <1>2 DEF IInv, AInv, FreshInv
  <2>2. f \in Nat /\ Attached(n)'
    BY DEF IInv, SInv, TypeOK, Holder
  <2> QED
    BY <2>1, <2>2, <1>3
<1>9. SplitInv'
  <2> SUFFICES ASSUME NEW n \in Nodes, NEW a \in Nodes, status'[n] = "forked",
                      Below(LeftOf(fork[n]), a)', Below(RightOf(fork[n]), a)'
               PROVE  FALSE
    BY DEF SplitInv
  <2>1. status[n] = "forked" /\ fork'[n] = fork[n]
    OBVIOUS
  <2>2. LeftOf(fork[n]) \in Nodes /\ RightOf(fork[n]) \in Nodes
    BY <2>1, ForkBranches
  <2>3. Below(LeftOf(fork[n]), a) /\ Below(RightOf(fork[n]), a)
    BY <2>1, <2>2 DEF Below, Closed
  <2> QED
    BY <2>1, <2>3 DEF IInv, AInv, SplitInv
<1>10. JoinedInv'
  BY DEF IInv, AInv, JoinedInv
<1> QED
  BY <1>4, <1>5, <1>6, <1>7, <1>8, <1>9, <1>10 DEF AInv

\* Steps that leave the tree, the cursors and the fds alone.
LEMMA Quiet ==
  ASSUME IInv, TypeOK', NEW n \in Nodes, Attached(n), UNCHANGED <<fork, issued, allocs>>,
         \A q \in Nodes : status'[q] = "forked" <=> status[q] = "forked",
         \A q \in Nodes : status'[q] = "joined" <=> status[q] = "joined",
         \A q \in Nodes : Attached(q)' <=> Attached(q),
         \A q \in Nodes : status'[q] \in {"orphan", "dead"} => status'[q] = status[q],
         \A q \in Nodes : /\ reg'[q].next = reg[q].next
                          /\ reg'[q].handles \subseteq reg[q].handles
                          /\ status[q] # "running" => reg'[q] = reg[q],
         NoneLost' => NoneLost
  PROVE  AInv'
<1>1. \A q, a : Below(q, a)' <=> Below(q, a)
  BY BelowSame
<1>2. \A q \in Nodes : Stale(q)' <=> Stale(q)
  BY ForkBranches DEF Stale
<1>3. \A q \in Nodes, a \in Nodes : Within(q, a) <=> Within(q, a)'
  BY <1>1, <1>2 DEF Within, Stale
<1>4. \A q \in Nodes : Source(n, n, q) = q
  BY DEF Source
<1>5. NoneLost' => NoneLost /\ \A q \in Nodes : Holder(q)' => Holder(Source(n, n, q))
  BY <1>2, <1>4 DEF Holder
<1>6. \A q \in Nodes : status'[q] = "forked" /\ status'[LeftOf(fork[q])] = "joined" =>
         /\ status[LeftOf(fork[q])] = "joined"
         /\ reg'[LeftOf(fork[q])] = reg[LeftOf(fork[q])]
  BY ForkBranches
<1> QED
  BY <1>1, <1>3, <1>4, <1>5, <1>6, Takeover

-----------------------------------------------------------------------------
(* Steps of one branch *)

\* Allocate: the fd issued leaves the branch's own stretch.
LEMMA AllocateStep ==
  ASSUME IInv, TypeOK', NEW n \in Nodes, Allocate(n)
  PROVE  TreeInv' /\ BranchInv' /\ BoundInv' /\ AInv'
<1> USE DEF IInv, SInv, TypeOK
<1>1. /\ status[n] \in {"running", "orphan"}
      /\ \A q \in Nodes : status'[q] = IF q = n /\ status[n] = "orphan"
                                       THEN "dead" ELSE status[q]
      /\ allocs < AllocLimit /\ allocs' = allocs + 1
      /\ issued' = issued \cup {reg[n].next}
      /\ reg' = [reg EXCEPT ![n] = Allocated(reg[n])]
      /\ UNCHANGED <<seq, fork>>
  BY DEF Allocate
<1>2. /\ Allocated(reg[n]) \in Registry
      /\ Allocated(reg[n]).next = reg[n].next + 1
      /\ Allocated(reg[n]).region = reg[n].region
      /\ Allocated(reg[n]).handles = reg[n].handles \cup {reg[n].next}
  <2>1. reg[n] \in Registry
    OBVIOUS
  <2>2. Allocated(reg[n]) \in Registry
    BY <2>1, RegistryTypes
  <2> QED
    BY <2>1, <2>2 DEF Allocated, Registry
<1>3. \A q \in Nodes :
        /\ reg[q] \in Registry /\ reg[q].next \in Nat
        /\ reg[q].region \in Region
        /\ reg'[q].region = reg[q].region
        /\ reg'[q].next = IF q = n THEN reg[q].next + 1 ELSE reg[q].next
  BY <1>1, <1>2 DEF Registry
<1>4. \A q \in Nodes :
       /\ reg[q].handles \subseteq Nat
       /\ q # n => reg'[q].handles = reg[q].handles
       /\ reg'[n].handles = reg[n].handles \cup {reg[n].next}
  BY <1>1, <1>2 DEF Registry
<1>5. /\ \A q \in Nodes : status'[q] = "forked" <=> status[q] = "forked"
      /\ \A q \in Nodes : Attached(q)' <=> Attached(q)
      /\ \A q \in Nodes : Stale(q)' <=> Stale(q)
      /\ ~Stale(n) /\ status'[n] # "orphan"
  <2>1. \A q \in Nodes : status[q] = "forked" => LeftOf(fork[q]) \in Nodes
    BY ForkBranches
  <2> QED
    BY <1>1, <2>1 DEF Attached, Stale
<1>6. TreeInv'
  <2>1. \A k \in 1 .. MaxForks : LeftOf(k) \in Nodes /\ RightOf(k) \in Nodes
    BY BranchNodes
  <2>2. \A q \in Nodes : status[q] = "forked" =>
          LeftOf(fork[q]) \in Nodes /\ RightOf(fork[q]) \in Nodes
    BY ForkBranches
  <2> QED
    BY <1>1, <2>1, <2>2 DEF TreeInv
<1>7. BranchInv'
  <2> SUFFICES ASSUME NEW q \in Nodes, status[q] = "forked"
               PROVE  /\ status'[LeftOf(fork[q])] # "joined" =>
                            LeftOK(reg'[q], reg'[LeftOf(fork[q])])
                      /\ RightOK(reg'[q], reg'[RightOf(fork[q])])
    BY <1>1, <1>5 DEF BranchInv
  <2>1. q # n /\ LeftOf(fork[q]) \in Nodes
    BY <1>1, ForkBranches
  <2>2. OnlyGrows(n)
    BY <1>1, <1>2, <1>3 DEF OnlyGrows
  <2>3. status'[LeftOf(fork[q])] # "joined" => status[LeftOf(fork[q])] # "joined"
    BY <1>1, <2>1
  <2> HIDE DEF IInv, SInv, TypeOK
  <2> QED
    BY <2>1, <2>2, <2>3, RegGrows
<1>8. /\ allocs \in Nat /\ Budget \in Nat /\ Budget = Budget' + 1
      /\ Budget' \in Nat /\ Budget' >= 1
  BY <1>1, WidthAssumption DEF Budget
<1>9. BoundInv'
  <2>1. LastRegion' = LastRegion /\ LastRegion \in Nat
    BY <1>1, BoundAssumption DEF LastRegion
  <2>2. OffsetFor(LastRegion) \in Nat
    BY <2>1, OffsetStep
  <2>3. \A q \in Nodes : Placed(reg'[q], OffsetFor(LastRegion), allocs')
    BY <1>1, <1>3, <1>8, <2>2 DEF BoundInv, Placed, Region
  <2>4. \A f \in issued' : f < OffsetFor(LastRegion) + allocs'
    BY <1>1, <1>3, <1>8, <2>2 DEF BoundInv, Placed
  <2>5. OffsetFor(LastRegion)' = OffsetFor(LastRegion)
    BY <2>1 DEF OffsetFor
  <2>6. allocs' <= AllocLimit
    BY <1>1, <1>8, WidthAssumption
  <2>7. \A q \in Nodes : reg'[q].handles \subseteq issued'
    BY <1>1, <1>4 DEF BoundInv
  <2> QED
    BY <2>3, <2>4, <2>5, <2>6, <2>7 DEF BoundInv
<1>10. \A q, a : Below(q, a)' <=> Below(q, a)
  BY <1>1, <1>5, BelowSame
<1>11. \A q \in Nodes, a \in Nodes : Within(q, a)' <=> Within(q, a)
  BY <1>1, <1>5, <1>10 DEF Within
<1> HIDE DEF IInv, SInv, TypeOK
<1>12. \A q \in Nodes, f \in Nat : Outside(f, q) => Outside(f, q)' \/ q = n
  BY <1>3, <1>8 DEF Outside
<1>13. \A f \in Nat : Outside(f, n) \/ f = reg[n].next => Outside(f, n)'
  BY <1>3, <1>8 DEF Outside
<1>14. ASSUME NEW q \in Nodes, q # n, Attached(n), Attached(q), ~Within(q, n),
              NEW f \in Nat, f = reg[n].next
       PROVE  Outside(f, q)'
  <2>1. ~Within(n, q)
    BY <1>5 DEF Within
  <2> QED
    BY <1>14, <2>1, <1>3, <1>8 DEF Outside, IInv, AInv, ApartInv
<1>15. ApartInv'
  BY <1>3, <1>5, <1>8, <1>11 DEF IInv, AInv, ApartInv
<1>16. HandleInv'
  <2> SUFFICES ASSUME NEW a \in Nodes, NEW q \in Nodes, Attached(a), Attached(q),
                      ~Within(q, a), NEW h \in reg'[a].handles
               PROVE  Outside(h, q)'
    BY <1>5, <1>11 DEF HandleInv
  <2>1. CASE h \in reg[a].handles
    <3>1. Outside(h, q) /\ h \in Nat
      BY <2>1, <1>4 DEF IInv, AInv, HandleInv
    <3> QED
      BY <3>1, <1>12, <1>13
  <2>2. CASE a = n /\ h = reg[n].next
    BY <2>2, <1>3, <1>13, <1>14
  <2> QED
    BY <2>1, <2>2, <1>4
<1>17. \A q, a \in Nodes : status[q] = "forked" =>
         /\ Below(LeftOf(fork[q]), a)' <=> Below(LeftOf(fork[q]), a)
         /\ Below(RightOf(fork[q]), a)' <=> Below(RightOf(fork[q]), a)
  BY <1>1, <1>5 DEF Below, Closed
<1>18. SplitInv'
  BY <1>1, <1>5, <1>17 DEF IInv, AInv, SplitInv
<1>19. SiblingInv'
  <2> SUFFICES ASSUME NEW q \in Nodes, NEW a \in Nodes, NEW b \in Nodes,
                      status[q] = "forked", Attached(a), Attached(b),
                      Below(LeftOf(fork[q]), a), Below(RightOf(fork[q]), b),
                      NEW h \in reg'[a].handles, h \in reg'[b].handles
               PROVE  h \in reg'[q].handles
    BY <1>1, <1>5, <1>17 DEF SiblingInv
  <2>1. a # b
    BY DEF IInv, AInv, SplitInv
  <2>2. ASSUME NEW c \in Nodes, Attached(c), c # n, Attached(n)
        PROVE  reg[n].next \notin reg[c].handles
    <3>1. ~Within(n, c)
      BY <1>5 DEF Within
    <3>2. \A f \in reg[c].handles : Outside(f, n)
      BY <2>2, <3>1 DEF IInv, AInv, HandleInv
    <3> QED
      BY <3>2, <1>3, <1>8 DEF Outside
  <2>3. h \in reg[a].handles /\ h \in reg[b].handles
    BY <2>1, <2>2, <1>4
  <2>4. h \in reg[q].handles
    BY <2>3 DEF IInv, AInv, SiblingInv
  <2> QED
    BY <2>4, <1>4
<1>20. OrphanInv'
  BY <1>1, <1>4, <1>3 DEF IInv, AInv, OrphanInv
<1>21. FreshInv'
  <2> SUFFICES ASSUME NoneLost', NEW q \in Nodes, Holder(q)', NEW f \in issued'
               PROVE  Outside(f, q)'
    BY DEF FreshInv
  <2>1. status[n] = "running" /\ NoneLost
    BY <1>1 DEF NoneLost
  <2>2. Holder(q) /\ Attached(q) /\ Attached(n)
    BY <2>1, <1>1, <1>5 DEF Holder, Attached
  <2>3. f \in Nat
    BY <1>1, <1>3 DEF IInv, SInv, TypeOK
  <2>4. CASE f \in issued
    BY <2>1, <2>2, <2>4, <2>3, <1>12, <1>13 DEF IInv, AInv, FreshInv
  <2>5. CASE f = reg[n].next /\ q = n
    BY <2>2, <2>5, <2>3, <1>13
  <2>6. CASE f = reg[n].next /\ q # n
    BY <2>2, <2>6, <2>3, <1>14 DEF Holder, Within
  <2> QED
    BY <2>4, <2>5, <2>6, <1>1
<1>22. JoinedInv'
  <2> SUFFICES ASSUME NEW q \in Nodes, status'[q] = "forked",
                      status'[LeftOf(fork[q])] = "joined"
               PROVE  reg'[LeftOf(fork[q])].handles \subseteq reg'[q].handles
    BY <1>1 DEF JoinedInv
  <2>1. status[q] = "forked" /\ LeftOf(fork[q]) \in Nodes
    BY <1>5, ForkBranches
  <2>2. status[LeftOf(fork[q])] = "joined" /\ LeftOf(fork[q]) # n /\ q # n
    BY <2>1, <1>1
  <2> QED
    BY <2>1, <2>2, <1>4 DEF IInv, AInv, JoinedInv
<1> QED
  BY <1>6, <1>7, <1>9, <1>15, <1>16, <1>18, <1>19, <1>20, <1>21, <1>22 DEF AInv

\* Steps that leave every cursor, every status and every fd alone: an Own
\* usage, a Replace.
LEMMA MarkStep ==
  ASSUME IInv, TypeOK', NEW n \in Nodes,
         Replace(n) \/ \E x \in Resources : Terminate(n, x)
  PROVE  TreeInv' /\ BranchInv' /\ BoundInv' /\ AInv'
<1> USE DEF IInv, SInv, TypeOK
<1>1. /\ status[n] = "running"
      /\ UNCHANGED <<seq, status, fork, issued, allocs>>
  BY DEF Replace, Terminate
<1>2. PICK m \in Registry :
        /\ reg' = [reg EXCEPT ![n] = m]
        /\ m.next = reg[n].next
        /\ m.region = reg[n].region \/ m.region = At(Base(reg[n]), 0)
        /\ m.handles \subseteq reg[n].handles
  <2>1. ASSUME Replace(n)
        PROVE  \E m \in Registry :
                 /\ reg' = [reg EXCEPT ![n] = m]
                 /\ m.next = reg[n].next
                 /\ m.region = At(Base(reg[n]), 0)
                 /\ m.handles = {}
    <3>1. reg[n] \in Registry
      OBVIOUS
    <3>2. Cleared(reg[n]) \in Registry
      BY <3>1, RegistryTypes
    <3>3. /\ Cleared(reg[n]).next = reg[n].next
          /\ Cleared(reg[n]).region = At(Base(reg[n]), 0)
          /\ Cleared(reg[n]).handles = {}
      BY <3>1 DEF Cleared, Registry
    <3> QED
      BY <2>1, <3>2, <3>3 DEF Replace
  <2>2. ASSUME NEW x \in Resources, Terminate(n, x)
        PROVE  \E m \in Registry :
                 /\ reg' = [reg EXCEPT ![n] = m]
                 /\ m.next = reg[n].next
                 /\ m.region = reg[n].region
                 /\ m.handles = reg[n].handles
    <3> DEFINE m == [reg[n] EXCEPT !.owned = @ \cup {x}]
    <3>1. /\ m \in Registry /\ m.next = reg[n].next
          /\ m.region = reg[n].region /\ m.handles = reg[n].handles
      BY DEF Registry
    <3>2. reg' = [reg EXCEPT ![n] = m]
      BY <2>2 DEF Terminate
    <3> QED
      BY <3>1, <3>2
  <2> QED
    BY <2>1, <2>2
<1>3. /\ reg[n] \in Registry /\ reg[n].next \in Nat
      /\ \A q \in Nodes : reg'[q] = IF q = n THEN m ELSE reg[q]
  BY <1>2 DEF Registry
<1>4. /\ m.region.some /\ m.region.off # 0 => m.region = reg[n].region
      /\ reg[n].region.some => m.region.some /\ m.region.base = reg[n].region.base
  BY <1>2 DEF At, Base
<1>5. TreeInv'
  BY <1>1 DEF TreeInv
<1>6. BranchInv'
  <2> SUFFICES ASSUME NEW q \in Nodes, status[q] = "forked"
               PROVE  /\ status[LeftOf(fork[q])] # "joined" =>
                            LeftOK(reg'[q], reg'[LeftOf(fork[q])])
                      /\ RightOK(reg'[q], reg'[RightOf(fork[q])])
    BY <1>1 DEF BranchInv
  <2>1. q # n /\ OnlyGrows(n)
    BY <1>1, <1>2, <1>3, <1>4 DEF OnlyGrows
  <2> HIDE DEF IInv, SInv, TypeOK
  <2> QED
    BY <2>1, RegGrows
<1>7. BoundInv'
  <2>1. LastRegion' = LastRegion /\ OffsetFor(LastRegion) \in Nat
    BY <1>1, BoundAssumption, OffsetStep DEF LastRegion
  <2>2. Placed(reg[n], OffsetFor(LastRegion), allocs)
    BY DEF BoundInv
  <2>3. Placed(m, OffsetFor(LastRegion), allocs)
    BY <1>2, <1>3, <2>1, <2>2 DEF Placed, At, Base, Registry, Region
  <2> QED
    BY <1>1, <1>2, <1>3, <2>1, <2>3 DEF BoundInv
<1>8. AInv'
  <2>1. /\ Attached(n)
        /\ \A q \in Nodes : Attached(q)' <=> Attached(q)
        /\ NoneLost' => NoneLost
    BY <1>1 DEF Attached, NoneLost
  <2>2. \A q \in Nodes : /\ reg'[q].next = reg[q].next
                         /\ reg'[q].handles \subseteq reg[q].handles
                         /\ q # n => reg'[q] = reg[q]
    BY <1>2, <1>3
  <2> HIDE DEF IInv, SInv, TypeOK
  <2> QED
    BY <1>1, <2>1, <2>2, Quiet
<1> QED
  BY <1>5, <1>6, <1>7, <1>8

\* A branch ends, the second branch of a sequential Fork starts, or a right
\* branch is stashed: holders stay holders.
LEMMA StatusStep ==
  ASSUME IInv, TypeOK', NEW n \in Nodes, Finish(n) \/ StartRight(n) \/ Stash(n)
  PROVE  TreeInv' /\ BranchInv' /\ BoundInv' /\ AInv'
<1> USE DEF IInv, SInv, TypeOK
<1> DEFINE k == fork[n]
<1>1. UNCHANGED <<seq, fork, reg, issued, allocs>>
  BY DEF Finish, StartRight, Stash, history
<1>2. PICK x \in Nodes, to \in {"running", "finished", "stashed"} :
        /\ status' = [status EXCEPT ![x] = to]
        /\ status[x] \in {"running", "waiting", "finished"}
        /\ to # "stashed" => to = "finished" \/ status[x] = "waiting"
        /\ to = "stashed" => status[n] = "forked" /\ x = RightOf(k)
  BY BranchNodes DEF Finish, StartRight, Stash, ForkInv
<1>3. \A q \in Nodes : status'[q] = "forked" <=> status[q] = "forked"
  BY <1>2
<1>4. \A q \in Nodes : status[q] = "forked" =>
        /\ LeftOf(fork[q]) \in Nodes /\ RightOf(fork[q]) \in Nodes
        /\ status[n] = "forked" => LeftOf(fork[q]) # RightOf(k)
  BY BranchNodes DEF ForkInv
<1>5. status[n] \in {"running", "forked"}
  BY DEF Finish, StartRight, Stash
<1>6. TreeInv'
  <2>1. ASSUME NEW j \in 1 .. MaxForks, j >= seq
        PROVE  status'[LeftOf(j)] = "unborn" /\ status'[RightOf(j)] = "unborn"
    BY <2>1, <1>2, BranchNodes DEF TreeInv
  <2>2. ASSUME NEW q \in Nodes, status[q] = "forked"
        PROVE  /\ status'[LeftOf(fork[q])] \in
                     {"running", "forked", "finished", "joined"}
               /\ status'[RightOf(fork[q])] \in
                     {"waiting", "running", "forked", "finished", "stashed"}
    BY <2>2, <1>2, <1>4 DEF TreeInv
  <2> QED
    BY <1>1, <1>3, <2>1, <2>2 DEF TreeInv
<1>7. BranchInv'
  BY <1>1, <1>2, <1>3, <1>4 DEF BranchInv
<1>8. BoundInv'
  BY <1>1 DEF BoundInv, LastRegion, OffsetFor
<1>9. AInv'
  <2>1. /\ Attached(n)
        /\ \A q \in Nodes : Attached(q)' <=> Attached(q)
        /\ NoneLost' => NoneLost
        /\ \A q \in Nodes : status'[q] = "joined" <=> status[q] = "joined"
        /\ \A q \in Nodes : status'[q] \in {"orphan", "dead"} => status'[q] = status[q]
    BY <1>2, <1>5 DEF Attached, NoneLost
  <2> HIDE DEF IInv, SInv, TypeOK
  <2> QED
    BY <1>1, <1>3, <2>1, Quiet
<1> QED
  BY <1>6, <1>7, <1>8, <1>9

\* A Fork that finds no region left uses up a number and nothing else.
LEMMA ExhaustedStep ==
  ASSUME IInv, TypeOK', NEW n \in Nodes, ForkExhausted(n)
  PROVE  TreeInv' /\ BranchInv' /\ BoundInv' /\ AInv'
<1> USE DEF IInv, SInv, TypeOK
<1>1. /\ seq >= MaxRegions /\ seq' = seq + 1
      /\ UNCHANGED <<status, fork, reg, issued, allocs>>
  BY DEF ForkExhausted, history
<1>2. LastRegion' = LastRegion
  BY <1>1, BoundAssumption DEF LastRegion
<1>3. TreeInv'
  BY <1>1 DEF TreeInv
<1>4. BoundInv'
  BY <1>1, <1>2 DEF BoundInv, OffsetFor
<1>5. Attached(n)
  BY DEF ForkExhausted, Attached
<1>6. AInv'
  <2>1. /\ \A q \in Nodes : Attached(q)' <=> Attached(q)
        /\ NoneLost' => NoneLost
    BY <1>1 DEF Attached, NoneLost
  <2> HIDE DEF IInv, SInv, TypeOK
  <2> QED
    BY <1>1, <1>5, <2>1, Quiet
<1> QED
  BY <1>1, <1>3, <1>4, <1>6 DEF BranchInv

\* Fork: the left branch takes over the parent's stretch, the right branch
\* gets a region above everything in use.
LEMMA ForkStep ==
  ASSUME IInv, TypeOK', NEW n \in Nodes,
         NEW ln \in SUBSET names[n], NEW rn \in SUBSET names[n], Fork(n, ln, rn)
  PROVE  TreeInv' /\ BranchInv' /\ BoundInv' /\ AInv'
<1> USE DEF IInv, SInv, TypeOK
<1> PICK l \in Nodes, r \in Nodes : l = LeftOf(seq) /\ r = RightOf(seq)
  BY BranchNodes, BoundAssumption DEF Fork
<1> DEFINE opened == Offset(reg[n], OffsetFor(seq))
<1>1. /\ seq \in 1 .. MaxForks /\ seq < MaxRegions
      /\ l \in Nodes /\ r \in Nodes /\ l # r
      /\ status[n] = "running" /\ status[l] = "unborn" /\ status[r] = "unborn"
      /\ n # l /\ n # r
  BY BranchNodes, BoundAssumption DEF Fork, TreeInv
<1>2. /\ seq' = seq + 1
      /\ fork' = [fork EXCEPT ![n] = seq]
      /\ UNCHANGED <<issued, allocs>>
      /\ \A q \in Nodes : reg'[q] = IF q = l THEN reg[n]
                                     ELSE IF q = r THEN opened ELSE reg[q]
  BY <1>1 DEF Fork, history
<1>3. /\ status'[n] = "forked" /\ status'[l] = "running"
      /\ status'[r] \in {"running", "waiting"}
      /\ \A q \in Nodes : q \notin {n, l, r} => status'[q] = status[q]
  BY <1>1 DEF Fork
<1>4. \A q \in Nodes : q # n /\ status'[q] = "forked" =>
        /\ status[q] = "forked" /\ fork'[q] = fork[q] /\ fork[q] # seq
        /\ q \notin {l, r}
        /\ LeftOf(fork[q]) \in Nodes \ {l, r}
        /\ RightOf(fork[q]) \in Nodes \ {l, r}
  <2> SUFFICES ASSUME NEW q \in Nodes, q # n, status'[q] = "forked"
               PROVE  /\ status[q] = "forked" /\ fork'[q] = fork[q] /\ fork[q] # seq
                      /\ q \notin {l, r}
                      /\ LeftOf(fork[q]) \in Nodes \ {l, r}
                      /\ RightOf(fork[q]) \in Nodes \ {l, r}
    OBVIOUS
  <2>1. q \notin {l, r} /\ status[q] = "forked" /\ fork'[q] = fork[q]
    BY <1>1, <1>2, <1>3
  <2>2. fork[q] \in 1 .. MaxForks /\ fork[q] # seq
    BY <2>1, <1>1 DEF ForkInv
  <2> QED
    BY <2>1, <2>2, <1>1, BranchNodes
<1>5. TreeInv'
  <2>1. ASSUME NEW j \in 1 .. MaxForks, j >= seq'
        PROVE  status'[LeftOf(j)] = "unborn" /\ status'[RightOf(j)] = "unborn"
    <3>1. j >= seq /\ j # seq
      BY <2>1, <1>1, <1>2
    <3> QED
      BY <3>1, <1>1, <1>3, BranchNodes DEF TreeInv
  <2>2. ASSUME NEW q \in Nodes, status'[q] = "forked"
        PROVE  /\ status'[LeftOf(fork'[q])] \in
                     {"running", "forked", "finished", "joined"}
               /\ status'[RightOf(fork'[q])] \in
                     {"waiting", "running", "forked", "finished", "stashed"}
    <3>1. CASE q = n
      BY <3>1, <1>2, <1>3
    <3>2. CASE q # n
      BY <3>2, <2>2, <1>3, <1>4 DEF TreeInv
    <3> QED
      BY <3>1, <3>2
  <2>3. ASSUME NEW a \in Nodes, NEW b \in Nodes,
               status'[a] = "forked", status'[b] = "forked", fork'[a] = fork'[b]
        PROVE  a = b
    BY <2>3, <1>2, <1>4 DEF TreeInv
  <2> QED
    BY <2>1, <2>2, <2>3 DEF TreeInv
<1>6. /\ LastRegion = seq - 1 /\ LastRegion' = seq
      /\ OffsetFor(seq - 1) \in Nat
      /\ OffsetFor(seq) = OffsetFor(seq - 1) + Width
  <2>1. seq - 1 \in Nat /\ (seq - 1) + 1 = seq
    BY <1>1
  <2>2. OffsetFor((seq - 1) + 1) = OffsetFor(seq - 1) + Width
    BY <2>1, OffsetStep
  <2> QED
    BY <1>1, <1>2, <2>1, <2>2, OffsetStep, BoundAssumption DEF LastRegion
<1>7. /\ reg[n] \in Registry /\ reg[n].next \in Nat
      /\ Base(reg[n]) \in Nat /\ Base(reg[n]) <= allocs
      /\ Base(reg[n]) <= reg[n].next
  <2>1. Placed(reg[n], OffsetFor(LastRegion), allocs)
    BY DEF BoundInv
  <2>2. reg[n] \in Registry
    OBVIOUS
  <2> QED
    BY <2>1, <2>2 DEF Placed, Base, Registry, Region
<1>8. /\ opened.next = Base(reg[n]) + OffsetFor(seq)
      /\ opened.region = At(Base(reg[n]), OffsetFor(seq))
      /\ opened.handles = reg[n].handles
  BY <1>7 DEF Offset, Registry
<1>9. BranchInv'
  <2> SUFFICES ASSUME NEW q \in Nodes, status'[q] = "forked"
               PROVE  /\ status'[LeftOf(fork'[q])] # "joined" =>
                            LeftOK(reg'[q], reg'[LeftOf(fork'[q])])
                      /\ RightOK(reg'[q], reg'[RightOf(fork'[q])])
    BY DEF BranchInv
  <2>1. CASE q = n
    BY <2>1, <1>1, <1>2, <1>7, <1>8 DEF LeftOK, RightOK, At
  <2>2. CASE q # n
    <3>1. /\ reg'[q] = reg[q]
          /\ reg'[LeftOf(fork[q])] = reg[LeftOf(fork[q])]
          /\ reg'[RightOf(fork[q])] = reg[RightOf(fork[q])]
      BY <2>2, <1>2, <1>4
    <3>2. status'[LeftOf(fork[q])] # "joined" => status[LeftOf(fork[q])] # "joined"
      BY <2>2, <1>1, <1>3, <1>4
    <3> QED
      BY <2>2, <3>1, <3>2, <1>4 DEF BranchInv
  <2> QED
    BY <2>1, <2>2
<1>10. BoundInv'
  <2>1. \A q \in Nodes : Placed(reg[q], OffsetFor(seq), allocs)
    BY <1>6, WidthAssumption DEF BoundInv, Placed, Registry
  <2>2. Placed(opened, OffsetFor(seq), allocs)
    BY <1>6, <1>7, <1>8, WidthAssumption DEF Placed, At
  <2>3. \A q \in Nodes : Placed(reg'[q], OffsetFor(seq), allocs)
    BY <1>2, <2>1, <2>2
  <2>4. \A f \in issued : f < OffsetFor(seq) + allocs
    BY <1>6, WidthAssumption DEF BoundInv
  <2>5. OffsetFor(LastRegion)' = OffsetFor(seq)
    BY <1>6 DEF OffsetFor
  <2>6. \A q \in Nodes : reg'[q].handles \subseteq issued
    BY <1>2, <1>8 DEF BoundInv
  <2> QED
    BY <1>2, <2>3, <2>4, <2>5, <2>6 DEF BoundInv
<1>11. /\ Budget' = Budget /\ Budget \in Nat
       /\ Budget = AllocLimit + 1 - allocs
  BY <1>2, WidthAssumption DEF Budget, BoundInv
<1>12. /\ \A q \in Nodes : reg[q].next + Budget <= opened.next
       /\ \A f \in issued : f < opened.next
  BY <1>6, <1>7, <1>8, <1>11, WidthAssumption DEF BoundInv, Placed, Registry
<1> DEFINE from(q) == IF q \in {l, r} THEN n ELSE q
<1>13. /\ \A q \in Nodes : Attached(q)' <=> Attached(q) \/ q \in {l, r}
       /\ ~Attached(l) /\ ~Attached(r) /\ Attached(n) /\ ~Stale(n)
       /\ \A q \in Nodes : Attached(q)' => from(q) \in Nodes /\ Attached(from(q))
       /\ \A q \in Nodes : q # n => (Stale(q)' <=> Stale(q))
       /\ Stale(n)'
  <2>1. /\ ~Attached(l) /\ ~Attached(r) /\ Attached(n) /\ ~Stale(n)
        /\ \A q \in Nodes : Attached(q)' <=> Attached(q) \/ q \in {l, r}
    BY <1>1, <1>3 DEF Attached, Stale
  <2>2. ASSUME NEW q \in Nodes, q # n
        PROVE  Stale(q)' <=> Stale(q)
    <3>1. CASE status[q] = "forked"
      <4>1. q \notin {l, r} /\ status'[q] = "forked"
        BY <2>2, <3>1, <1>1, <1>3
      <4>2. LeftOf(fork[q]) \in Nodes \ {l, r} /\ fork'[q] = fork[q]
        BY <2>2, <4>1, <1>4
      <4>3. status'[LeftOf(fork[q])] = "joined" <=> status[LeftOf(fork[q])] = "joined"
        BY <4>2, <1>1, <1>3
      <4> QED
        BY <4>1, <4>2, <4>3, <3>1 DEF Stale
    <3>2. CASE status[q] # "forked"
      BY <2>2, <3>2, <1>1, <1>3 DEF Stale
    <3> QED
      BY <3>1, <3>2
  <2>3. Stale(n)'
    BY <1>1, <1>2, <1>3 DEF Stale
  <2> QED
    BY <2>1, <2>2, <2>3
<1>14. ASSUME NEW p \in Nodes, NEW q \in Nodes
       PROVE  /\ Below(p, q) => Below(p, q)'
              /\ Below(p, n) => Below(p, l)' /\ Below(p, r)'
              /\ p \notin {l, r} /\ Below(p, q)' => Below(p, from(q))
              /\ p \in {l, r} /\ Below(p, q)' => q = p
  <2>1. /\ status[n] # "forked" /\ status[l] # "forked" /\ status[r] # "forked"
        /\ l = LeftOf(fork'[n]) /\ r = RightOf(fork'[n]) /\ status'[n] = "forked"
        /\ \A x \in Nodes : x # n => (status'[x] = "forked" <=> status[x] = "forked")
        /\ \A x \in Nodes : x # n => fork'[x] = fork[x]
    BY <1>1, <1>2, <1>3
  <2>2. \A x \in Nodes : status[x] = "forked" =>
          LeftOf(fork[x]) \notin {l, r} /\ RightOf(fork[x]) \notin {l, r}
    BY <2>1, <1>4
  <2> HIDE DEF IInv, SInv, TypeOK
  <2>3. /\ Below(p, q) => Below(p, q)'
        /\ Below(p, n) => Below(p, l)' /\ Below(p, r)'
        /\ p \notin {l, r} /\ q \notin {l, r} /\ Below(p, q)' => Below(p, q)
        /\ p \notin {l, r} /\ q \in {l, r} /\ Below(p, q)' => Below(p, n)
        /\ p \in {l, r} /\ Below(p, q)' => q = p
    BY <1>1, <2>1, <2>2, BelowForked
  <2> QED
    BY <2>3
<1>15. /\ \A q \in Nodes : q # r => reg'[q].next = reg[from(q)].next
       /\ reg'[r].next = opened.next
       /\ \A q \in Nodes : reg'[q].handles = reg[from(q)].handles
       /\ \A q \in Nodes : q \notin {l, r} => reg'[q].handles = reg[q].handles
  BY <1>1, <1>2, <1>8
<1>16. ASSUME NEW q \in Nodes, NEW a \in Nodes, Attached(q)', Attached(a)', q # r,
              Within(from(q), from(a))
       PROVE  Within(q, a)'
  <2>1. q \notin {n, l, r} /\ Stale(q) /\ Stale(q)' /\ Below(LeftOf(fork[q]), from(a))
    BY <1>16, <1>13 DEF Within
  <2>2. fork'[q] = fork[q] /\ LeftOf(fork[q]) \in Nodes
    BY <2>1, <1>2, <1>4 DEF Stale
  <2>3. PICK x \in Nodes : x = LeftOf(fork[q]) /\ x = LeftOf(fork'[q])
    BY <2>2
  <2>4. Below(x, from(a)) /\ from(a) \in Nodes
    BY <2>1, <2>3, <1>13, <1>16
  <2>5. Below(x, a)'
    <3>1. CASE a \in {l, r}
      BY <3>1, <2>4, <1>14
    <3>2. CASE a \notin {l, r}
      BY <3>2, <2>4, <1>14
    <3> QED
      BY <3>1, <3>2
  <2> QED
    BY <2>1, <2>3, <2>5 DEF Within, Below, Closed
<1>17. l = LeftOf(fork'[n]) /\ r = RightOf(fork'[n])
  BY <1>2
<1> HIDE DEF opened, IInv, SInv, TypeOK
<1>18. /\ \A f \in Nat, q \in Nodes : q # r => (Outside(f, q)' <=> Outside(f, from(q)))
       /\ \A f \in issued : Outside(f, r)'
  BY <1>2, <1>11, <1>12, <1>15 DEF Outside
<1>19. ApartInv'
  <2> SUFFICES ASSUME NEW a \in Nodes, NEW b \in Nodes, Attached(a)', Attached(b)', a # b,
                      ~Within(a, b)', ~Within(b, a)'
               PROVE  \/ reg'[a].next + Budget <= reg'[b].next
                      \/ reg'[b].next + Budget <= reg'[a].next
    BY <1>11 DEF ApartInv
  <2>1. CASE a = r
    BY <2>1, <1>12, <1>13, <1>15
  <2>2. CASE b = r
    BY <2>2, <1>12, <1>13, <1>15
  <2>3. CASE a # r /\ b # r /\ from(a) # from(b)
    <3>1. ~Within(from(a), from(b)) /\ ~Within(from(b), from(a))
      BY <2>3, <1>16
    <3> QED
      BY <2>3, <3>1, <1>13, <1>15 DEF IInv, AInv, ApartInv
  <2>4. CASE a # r /\ b # r /\ from(a) = from(b)
    <3>1. {a, b} = {n, l}
      BY <2>4
    <3>2. Within(n, l)'
      BY <1>17, <1>13 DEF Within, Below
    <3> QED
      BY <3>1, <3>2
  <2> QED
    BY <2>1, <2>2, <2>3, <2>4
<1>20. HandleInv'
  <2> SUFFICES ASSUME NEW a \in Nodes, NEW q \in Nodes, Attached(a)', Attached(q)',
                      ~Within(q, a)', NEW h \in reg'[a].handles
               PROVE  Outside(h, q)'
    BY DEF HandleInv
  <2>1. h \in issued /\ h \in Nat
    BY <1>13, <1>15 DEF IInv, SInv, BoundInv, TypeOK
  <2>2. CASE q = r
    BY <2>1, <2>2, <1>18
  <2>3. CASE q # r
    <3>1. ~Within(from(q), from(a))
      BY <2>3, <1>16
    <3>2. Outside(h, from(q))
      BY <3>1, <1>13, <1>15 DEF IInv, AInv, HandleInv
    <3> QED
      BY <2>1, <2>3, <3>2, <1>18
  <2> QED
    BY <2>2, <2>3
<1>21. ASSUME NEW q \in Nodes, status'[q] = "forked", q # n
       PROVE  \E x, y \in Nodes :
                 /\ x = LeftOf(fork[q]) /\ y = RightOf(fork[q])
                 /\ x = LeftOf(fork'[q]) /\ y = RightOf(fork'[q])
                 /\ status[q] = "forked" /\ q \notin {l, r}
                 /\ x \notin {l, r} /\ y \notin {l, r}
  BY <1>21, <1>4
<1>22. SplitInv'
  <2> SUFFICES ASSUME NEW q \in Nodes, NEW a \in Nodes, status'[q] = "forked",
                      NEW x \in Nodes, x = LeftOf(fork'[q]), Below(x, a)',
                      NEW y \in Nodes, y = RightOf(fork'[q]), Below(y, a)'
               PROVE  FALSE
    <3>1. \A q \in Nodes : status'[q] = "forked" =>
             LeftOf(fork'[q]) \in Nodes /\ RightOf(fork'[q]) \in Nodes
      BY <1>17, <1>21
    <3> QED
      BY <3>1 DEF SplitInv, Below, Closed
  <2>1. CASE q = n
    BY <2>1, <1>1, <1>17, <1>14
  <2>2. CASE q # n
    <3>1. /\ x = LeftOf(fork[q]) /\ y = RightOf(fork[q]) /\ status[q] = "forked"
          /\ x \notin {l, r} /\ y \notin {l, r}
      BY <2>2, <1>21
    <3>2. Below(x, from(a)) /\ Below(y, from(a)) /\ from(a) \in Nodes
      BY <3>1, <1>14
    <3> QED
      BY <3>1, <3>2 DEF IInv, AInv, SplitInv
  <2> QED
    BY <2>1, <2>2
<1>23. SiblingInv'
  <2> SUFFICES ASSUME NEW q \in Nodes, NEW a \in Nodes, NEW b \in Nodes,
                      status'[q] = "forked", Attached(a)', Attached(b)',
                      NEW x \in Nodes, x = LeftOf(fork'[q]), Below(x, a)',
                      NEW y \in Nodes, y = RightOf(fork'[q]), Below(y, b)'
               PROVE  reg'[a].handles \cap reg'[b].handles \subseteq reg'[q].handles
    <3>1. \A q \in Nodes : status'[q] = "forked" =>
             LeftOf(fork'[q]) \in Nodes /\ RightOf(fork'[q]) \in Nodes
      BY <1>17, <1>21
    <3> QED
      BY <3>1 DEF SiblingInv, Below, Closed
  <2>1. CASE q = n
    <3>1. x = l /\ y = r
      BY <2>1, <1>17
    <3>2. a = l /\ b = r
      BY <3>1, <1>14
    <3> QED
      BY <2>1, <3>2, <1>1, <1>15
  <2>2. CASE q # n
    <3>1. /\ x = LeftOf(fork[q]) /\ y = RightOf(fork[q]) /\ status[q] = "forked"
          /\ x \notin {l, r} /\ y \notin {l, r} /\ q \notin {l, r}
      BY <2>2, <1>21
    <3>2. /\ Below(x, from(a)) /\ Below(y, from(b))
          /\ from(a) \in Nodes /\ from(b) \in Nodes
          /\ Attached(from(a)) /\ Attached(from(b))
      BY <3>1, <1>13, <1>14
    <3>3. reg[from(a)].handles \cap reg[from(b)].handles \subseteq reg[q].handles
      BY <3>1, <3>2 DEF IInv, AInv, SiblingInv
    <3> QED
      BY <3>1, <3>3, <1>15
  <2> QED
    BY <2>1, <2>2
<1>24. OrphanInv'
  <2> SUFFICES ASSUME NEW q \in Nodes, status'[q] = "orphan"
               PROVE  reg'[q].next \notin reg'[q].handles
    BY DEF OrphanInv
  <2>1. q \notin {n, l, r} /\ status[q] = "orphan"
    BY <1>3
  <2> QED
    BY <2>1, <1>2 DEF IInv, AInv, OrphanInv
<1>25. FreshInv'
  <2> SUFFICES ASSUME NoneLost', NEW q \in Nodes, Holder(q)', NEW f \in issued
               PROVE  Outside(f, q)'
    BY <1>2 DEF FreshInv
  <2>1. NoneLost
    BY <1>1, <1>3 DEF NoneLost
  <2>2. CASE q = r
    BY <2>2, <1>18
  <2>3. CASE q # r
    <3>1. Holder(from(q)) /\ from(q) \in Nodes
      BY <2>3, <1>13 DEF Holder
    <3>2. Outside(f, from(q)) /\ f \in Nat
      BY <2>1, <3>1 DEF IInv, SInv, TypeOK, AInv, FreshInv
    <3> QED
      BY <2>3, <3>2, <1>18
  <2> QED
    BY <2>2, <2>3
<1>26. JoinedInv'
  <2> SUFFICES ASSUME NEW q \in Nodes, status'[q] = "forked",
                      status'[LeftOf(fork'[q])] = "joined"
               PROVE  reg'[LeftOf(fork'[q])].handles \subseteq reg'[q].handles
    BY DEF JoinedInv
  <2>1. q # n
    BY <1>3, <1>17
  <2>2. PICK x \in Nodes : /\ x = LeftOf(fork[q]) /\ x = LeftOf(fork'[q])
                           /\ status[q] = "forked" /\ q \notin {l, r} /\ x \notin {l, r}
    BY <2>1, <1>21
  <2>3. status[x] = "joined"
    BY <2>2, <1>3
  <2> QED
    BY <2>2, <2>3, <1>2 DEF IInv, AInv, JoinedInv
<1> QED
  BY <1>5, <1>9, <1>10, <1>19, <1>20, <1>22, <1>23, <1>24, <1>25, <1>26 DEF AInv

-----------------------------------------------------------------------------
(* Joins *)

\* n's Fork is over, joined or dropped, and what hangs from it, D, is out of
\* the tree.  n's new cursor is its own or that of one of the two branches,
\* its new handles are its own and theirs; if n keeps a stale cursor, it did
\* not get the left branch's handles.
Gone == {"joined", "orphan", "dead"}

Unforked(n, l, r, D, m) ==
    /\ l = LeftOf(fork[n]) /\ r = RightOf(fork[n])
    /\ status[n] = "forked" /\ CutOff(n, D)
    /\ status'[n] = "running" /\ \A q \in D : status'[q] \in Gone
    /\ \A q \in Nodes : q # n /\ q \notin D => status'[q] = status[q]
    /\ \A q \in D : status'[q] = "orphan" => status[q] = "running"
    /\ \A q \in Nodes : q # n => fork'[q] = fork[q]
    /\ OnlyGrows(n)
    /\ Placed(reg'[n], OffsetFor(LastRegion), allocs)
    /\ m \in {n, l, r} /\ Attached(m) /\ (m # n => ~Stale(m))
    /\ reg'[n].next = reg[m].next
    /\ \A h \in reg'[n].handles : \E b \in {n, l, r} :
          Attached(b) /\ h \in reg[b].handles /\ (m = n /\ Stale(n) => b # l)
    /\ NoneLost' => m # n \/ ~Stale(n)
    /\ UNCHANGED <<seq, issued, allocs>>

LEMMA ForkOver ==
  ASSUME IInv, TypeOK', NEW n \in Nodes, NEW l \in Nodes, NEW r \in Nodes, NEW m \in Nodes,
         NEW D, Unforked(n, l, r, D, m)
  PROVE  TreeInv' /\ BranchInv' /\ BoundInv' /\ AInv'
<1> USE DEF IInv, SInv, TypeOK
<1>1. /\ OnlyGrows(n)
      /\ l = LeftOf(fork[n]) /\ r = RightOf(fork[n])
      /\ status[n] = "forked" /\ CutOff(n, D)
      /\ status'[n] = "running" /\ \A q \in D : status'[q] \in Gone
      /\ \A q \in Nodes : q # n /\ q \notin D => status'[q] = status[q]
      /\ \A q \in Nodes : q # n => fork'[q] = fork[q] /\ reg'[q] = reg[q]
      /\ Placed(reg'[n], OffsetFor(LastRegion), allocs)
      /\ UNCHANGED <<seq, issued, allocs>>
  BY DEF Unforked, OnlyGrows
<1>2. /\ D \subseteq Nodes /\ l \in D /\ r \in D /\ n \notin D
      /\ \A q \in D : status[q] \notin {"unborn", "orphan", "dead"}
      /\ \A q \in Nodes :
            status'[q] = "forked" <=> q # n /\ q \notin D /\ status[q] = "forked"
  <2>1. /\ D \subseteq Nodes /\ l \in D /\ r \in D /\ n \notin D
        /\ \A q \in D : status[q] \notin {"unborn", "orphan", "dead"}
    BY <1>1 DEF CutOff
  <2> HIDE DEF IInv, SInv, TypeOK
  <2> QED
    BY <1>1, <2>1 DEF Gone
<1>3. \A q \in Nodes : status'[q] = "forked" =>
        /\ q # n /\ status[q] = "forked" /\ fork'[q] = fork[q] /\ reg'[q] = reg[q]
        /\ LeftOf(fork[q]) \in Nodes \ D
        /\ RightOf(fork[q]) \in Nodes \ D
  <2> HIDE DEF IInv, SInv, TypeOK
  <2> QED
    BY <1>1, <1>2, ForkBranches DEF CutOff
<1>4. TreeInv'
  <2>1. ASSUME NEW j \in 1 .. MaxForks, j >= seq'
        PROVE  status'[LeftOf(j)] = "unborn" /\ status'[RightOf(j)] = "unborn"
    <3>1. status[LeftOf(j)] = "unborn" /\ status[RightOf(j)] = "unborn"
      BY <1>1, <2>1 DEF TreeInv
    <3> HIDE DEF IInv, SInv, TypeOK
    <3> QED
      BY <3>1, <1>1, <1>2, BranchNodes
  <2>2. ASSUME NEW q \in Nodes, status'[q] = "forked"
        PROVE  /\ status'[LeftOf(fork'[q])] \in
                     {"running", "forked", "finished", "joined"}
               /\ status'[RightOf(fork'[q])] \in
                     {"waiting", "running", "forked", "finished", "stashed"}
    <3>1. /\ status[LeftOf(fork[q])] \in
                {"running", "forked", "finished", "joined"}
          /\ status[RightOf(fork[q])] \in
                {"waiting", "running", "forked", "finished", "stashed"}
      BY <2>2, <1>3 DEF TreeInv
    <3> HIDE DEF IInv, SInv, TypeOK
    <3> QED
      BY <2>2, <3>1, <1>1, <1>2, <1>3
  <2>3. ASSUME NEW a \in Nodes, NEW b \in Nodes,
               status'[a] = "forked", status'[b] = "forked", fork'[a] = fork'[b]
        PROVE  a = b
    BY <2>3, <1>3 DEF TreeInv
  <2> HIDE DEF IInv, SInv, TypeOK
  <2> QED
    BY <2>1, <2>2, <2>3 DEF TreeInv
<1>5. BranchInv'
  <2> SUFFICES ASSUME NEW q \in Nodes, status'[q] = "forked"
               PROVE  /\ status'[LeftOf(fork[q])] # "joined" =>
                            LeftOK(reg'[q], reg'[LeftOf(fork[q])])
                      /\ RightOK(reg'[q], reg'[RightOf(fork[q])])
    BY <1>3 DEF BranchInv
  <2> HIDE DEF IInv, SInv, TypeOK
  <2>1. /\ q # n /\ status[q] = "forked"
        /\ status'[LeftOf(fork[q])] # "joined" => status[LeftOf(fork[q])] # "joined"
    BY <1>1, <1>2, <1>3
  <2> QED
    BY <2>1, <1>1, RegGrows
<1>6. BoundInv'
  <2>1. OffsetFor(LastRegion)' = OffsetFor(LastRegion)
    BY <1>1 DEF LastRegion, OffsetFor
  <2>2. reg'[n].handles \subseteq issued
    BY DEF Unforked, BoundInv
  <2> QED
    BY <1>1, <2>1, <2>2 DEF BoundInv
<1> HIDE DEF IInv, SInv, TypeOK
<1>7. /\ m \in {n, l, r} /\ Attached(m) /\ (m # n => ~Stale(m))
      /\ reg'[n].next = reg[m].next
      /\ \A h \in reg'[n].handles : \E b \in {n, l, r} :
            Attached(b) /\ h \in reg[b].handles /\ (m = n /\ Stale(n) => b # l)
      /\ NoneLost' => m # n \/ ~Stale(n)
      /\ \A q \in D : status'[q] = "orphan" => status[q] = "running"
  BY DEF Unforked
<1>8. /\ Attached(n)' /\ ~Stale(n)' /\ \A q \in D : ~Attached(q)'
      /\ \A q \in Nodes : q # n /\ q \notin D => (Attached(q)' <=> Attached(q))
  BY <1>1 DEF Attached, Stale, Gone
<1>9. ASSUME NEW q \in Nodes, q # n, q \notin D, Stale(q)
      PROVE  /\ Stale(q)' /\ fork'[q] = fork[q]
             /\ LeftOf(fork[q]) \in Nodes \ D
  <2>1. /\ status[q] = "forked" /\ status'[q] = "forked" /\ fork'[q] = fork[q]
        /\ LeftOf(fork[q]) \in Nodes \ D
    BY <1>9, <1>2, <1>3 DEF Stale
  <2>2. status'[LeftOf(fork[q])] # "joined"
    BY <2>1, <1>9, <1>1 DEF Stale
  <2> QED
    BY <2>1, <2>2 DEF Stale
<1>10. ASSUME NEW p \in Nodes, NEW q \in Nodes
       PROVE  /\ Below(p, q)' => Below(p, q)
              /\ Below(p, q) /\ q \notin D => Below(p, q)'
  BY <1>1, <1>2, BelowUnforked
\* Below n's Fork and below n are the same to all others.
<1>11. ASSUME NEW p \in Nodes, p \notin D, NEW b \in {n, l, r}, Below(p, b)
       PROVE  Below(p, n)'
  <2>1. Below(p, n)
    BY <1>11, <1>1, <1>2, BelowParent
  <2> QED
    BY <2>1, <1>2, <1>10
<1>12. ASSUME NEW q \in Nodes, q # n, q \notin D, NEW b \in {n, l, r}, Within(q, b)
       PROVE  Within(q, n)'
  <2>1. PICK p \in Nodes : /\ p = LeftOf(fork[q]) /\ p = LeftOf(fork'[q])
                           /\ p \notin D /\ Stale(q)'
    BY <1>12, <1>9 DEF Within
  <2>2. Below(p, n)'
    BY <1>12, <2>1, <1>11 DEF Within
  <2> QED
    BY <2>1, <2>2 DEF Within, Below, Closed
<1>13. ASSUME NEW q \in Nodes, q # n, q \notin D, NEW a \in Nodes, a \notin D,
              Within(q, a)
       PROVE  Within(q, a)'
  <2>1. PICK p \in Nodes : /\ p = LeftOf(fork[q]) /\ p = LeftOf(fork'[q])
                           /\ p \notin D /\ Stale(q)'
    BY <1>13, <1>9 DEF Within
  <2>2. Below(p, a)'
    BY <1>13, <2>1, <1>10 DEF Within
  <2> QED
    BY <2>1, <2>2 DEF Within, Below, Closed
<1>14. /\ \A b \in Nodes : Within(n, b) => b \in D
       /\ ~Within(n, r)
  <2>1. ASSUME NEW b \in Nodes, Below(l, b)
        PROVE  b \in D
    BY <1>1, <1>2, <2>1 DEF Below, CutOff
  <2>2. ~Below(l, r)
    <3>1. Below(r, r)
      BY DEF Below
    <3> QED
      BY <1>1, <3>1 DEF IInv, AInv, SplitInv
  <2> QED
    BY <1>1, <2>1, <2>2 DEF Within
<1>15. m # n => \A b \in Nodes : ~Within(m, b)
  BY <1>7 DEF Within
<1>16. ASSUME NEW q \in Nodes, NEW a \in Nodes, Attached(q)', Attached(a)',
              Within(Source(n, m, q), Source(n, m, a))
       PROVE  Within(q, a)'
  <2>1. q \notin D /\ a \notin D
    BY <1>16, <1>8
  <2>2. Source(n, m, a) \in {a, m} /\ Source(n, m, a) \in Nodes
    BY DEF Source
  <2>3. CASE q = n
    <3>1. m = n
      BY <2>2, <2>3, <1>15, <1>16 DEF Source
    <3>2. Source(n, m, a) = a
      BY <3>1 DEF Source
    <3> QED
      BY <2>1, <2>3, <3>1, <3>2, <1>14, <1>16 DEF Source
  <2>4. CASE q # n /\ a = n
    BY <2>1, <2>4, <1>7, <1>12, <1>16 DEF Source
  <2>5. CASE q # n /\ a # n
    BY <2>1, <2>5, <1>13, <1>16 DEF Source
  <2> QED
    BY <2>3, <2>4, <2>5
<1>17. ASSUME NEW a \in Nodes, Attached(a)', NEW h \in reg'[a].handles
       PROVE  \E b \in Nodes :
                /\ Attached(b) /\ h \in reg[b].handles
                /\ \A q \in Nodes :
                      Attached(q)' /\ Within(Source(n, m, q), b) => Within(q, a)'
                /\ \A y \in Nodes : Below(y, a)' => Below(y, b)
  <2>1. CASE a = n
    <3>1. PICK b \in {n, l, r} :
            Attached(b) /\ h \in reg[b].handles /\ (m = n /\ Stale(n) => b # l)
      BY <2>1, <1>7, <1>17
    <3>2. ASSUME NEW q \in Nodes, Attached(q)', Within(Source(n, m, q), b)
          PROVE  Within(q, n)'
      <4>1. CASE q = n
        <5>1. m = n
          BY <3>2, <4>1, <1>15 DEF Source
        <5>2. Within(n, b) /\ Stale(n)
          BY <3>2, <4>1, <5>1 DEF Source, Within
        <5>3. b = l
          BY <5>2, <1>2, <1>14
        <5> QED
          BY <3>1, <5>1, <5>2, <5>3
      <4>2. CASE q # n
        BY <3>2, <4>2, <1>8, <1>12 DEF Source
      <4> QED
        BY <4>1, <4>2
    <3>3. \A y \in Nodes : Below(y, n)' => Below(y, b)
      BY <1>1, <1>10, BelowChild
    <3> QED
      BY <2>1, <3>1, <3>2, <3>3
  <2>2. CASE a # n
    <3>1. a # n /\ a \notin D /\ Attached(a) /\ h \in reg[a].handles
      BY <2>2, <1>1, <1>8, <1>17
    <3>2. Source(n, m, a) = a
      BY <2>2 DEF Source
    <3>3. \A q \in Nodes : Attached(q)' /\ Within(Source(n, m, q), a) => Within(q, a)'
      BY <1>16, <1>17, <3>2
    <3> QED
      BY <3>1, <3>3, <1>10
  <2> QED
    BY <2>1, <2>2
<1>18. AInv'
  <2>1. m = n \/ ~Attached(m)'
    BY <1>2, <1>7, <1>8
  <2>2. \A q \in Nodes : Attached(q)' =>
           /\ Attached(Source(n, m, q))
           /\ reg'[q].next = reg[Source(n, m, q)].next
    BY <1>1, <1>7, <1>8 DEF Source
  <2>3. \A q \in Nodes : status'[q] = "forked" =>
           status[q] = "forked" /\ fork'[q] = fork[q]
           /\ reg[q].handles \subseteq reg'[q].handles
    BY <1>3
  <2>4. \A q \in Nodes : status'[q] = "orphan" =>
           /\ reg'[q].next = reg[q].next /\ reg'[q].handles = reg[q].handles
           /\ status[q] = "orphan" \/ status[q] = "running"
    BY <1>1, <1>7
  <2>5. ASSUME NoneLost'
        PROVE  NoneLost /\ \A q \in Nodes : Holder(q)' => Holder(Source(n, m, q))
    <3>1. NoneLost
      BY <2>5, <1>1, <1>2 DEF NoneLost
    <3>2. ASSUME NEW q \in Nodes, Holder(q)'
          PROVE  Holder(Source(n, m, q))
      <4>1. CASE q = n
        <5>1. ~Stale(m)
          BY <2>5, <1>7
        <5> QED
          BY <4>1, <5>1, <1>7 DEF Source, Holder
      <4>2. CASE q # n
        <5>1. Attached(q) /\ ~Stale(q)
          BY <3>2, <4>2, <1>8, <1>9 DEF Holder
        <5> QED
          BY <4>2, <5>1 DEF Source, Holder
      <4> QED
        BY <4>1, <4>2
    <3> QED
      BY <3>1, <3>2
  <2>6. Attached(m) /\ UNCHANGED <<issued, allocs>>
    BY <1>1, <1>7
  <2>7. \A y, a \in Nodes : Below(y, a)' => Below(y, a)
    BY <1>10
  <2>8. \A q \in Nodes : status'[q] = "forked" /\ status'[LeftOf(fork[q])] = "joined" =>
           /\ status[LeftOf(fork[q])] = "joined"
           /\ reg'[LeftOf(fork[q])] = reg[LeftOf(fork[q])]
    <3> SUFFICES ASSUME NEW q \in Nodes, status'[q] = "forked",
                        status'[LeftOf(fork[q])] = "joined"
                 PROVE  /\ status[LeftOf(fork[q])] = "joined"
                        /\ reg'[LeftOf(fork[q])] = reg[LeftOf(fork[q])]
      OBVIOUS
    <3>1. LeftOf(fork[q]) \in Nodes \ D
      BY <1>3
    <3> QED
      BY <3>1, <1>1
  <2> QED
    BY <2>1, <2>2, <2>3, <2>4, <2>5, <2>6, <2>7, <2>8, <1>16, <1>17, Takeover
<1> QED
  BY <1>4, <1>5, <1>6, <1>18

\* The registry a parent ends up with once its left branch is merged.
LEMMA LeftMerged ==
  ASSUME IInv, NEW n \in Nodes, status[n] = "forked",
         status[LeftOf(fork[n])] = "finished"
  PROVE  LET l == reg[LeftOf(fork[n])]
             r == reg[RightOf(fork[n])]
             m == Merge(reg[n], l)
         IN
         /\ l \in Registry /\ r \in Registry /\ m \in Registry
         /\ m.next = l.next /\ reg[n].next <= m.next
         /\ m.region.some /\ m.region.off # 0 => m.region = reg[n].region
         /\ reg[n].region.some => m.region = reg[n].region
         /\ Placed(m, OffsetFor(LastRegion), allocs)
         /\ RightOK(m, r)
<1> USE DEF IInv, SInv, TypeOK
<1> DEFINE l == reg[LeftOf(fork[n])]
<1> DEFINE r == reg[RightOf(fork[n])]
<1> DEFINE m == Merge(reg[n], l)
<1>1. l \in Registry /\ r \in Registry /\ reg[n] \in Registry
  BY ForkBranches
<1>2. m \in Registry
  BY <1>1, RegistryTypes
<1>3. LeftOK(reg[n], l) /\ RightOK(reg[n], r)
  BY DEF BranchInv
<1>4. OffsetFor(LastRegion) \in Nat
  BY BoundAssumption, OffsetStep DEF LastRegion
<1>5. /\ Placed(reg[n], OffsetFor(LastRegion), allocs)
      /\ Placed(l, OffsetFor(LastRegion), allocs)
  BY ForkBranches DEF BoundInv
<1>6. m.next = l.next /\ Placed(m, OffsetFor(LastRegion), allocs)
  BY <1>1, <1>3, <1>4, <1>5, MergeLeft
<1>7. /\ reg[n].next <= m.next
      /\ m.region.some /\ m.region.off # 0 => m.region = reg[n].region
      /\ reg[n].region.some => m.region = reg[n].region
  BY <1>1, MergeGrows
<1>8. RightOK(m, r)
  BY <1>1, <1>2, <1>3, <1>7 DEF RightOK, Registry, Region
<1> QED
  BY <1>1, <1>2, <1>6, <1>7, <1>8

\* Merging left and then right: the sequential path, and a stashed right
\* branch.
LEMMA JoinBothStep ==
  ASSUME IInv, TypeOK', NEW n \in Nodes, status[n] = "forked",
         status[LeftOf(fork[n])] = "finished",
         status[RightOf(fork[n])] \in {"finished", "stashed"},
         reg' = [reg EXCEPT ![n] =
            Merge(Merge(reg[n], reg[LeftOf(fork[n])]), reg[RightOf(fork[n])])],
         status' = [status EXCEPT ![n] = "running",
            ![LeftOf(fork[n])] = "joined", ![RightOf(fork[n])] = "joined"],
         fork' = [fork EXCEPT ![n] = 0],
         UNCHANGED <<seq, issued, allocs>>
  PROVE  TreeInv' /\ BranchInv' /\ BoundInv' /\ AInv'
<1> DEFINE l == LeftOf(fork[n])
<1> DEFINE r == RightOf(fork[n])
<1> DEFINE once == Merge(reg[n], reg[l])
<1> DEFINE m == Merge(once, reg[r])
<1>1. l \in Nodes /\ r \in Nodes
  BY ForkBranches
<1>2. /\ reg[n] \in Registry /\ reg[l] \in Registry /\ reg[r] \in Registry
      /\ once \in Registry
      /\ once.next = reg[l].next /\ reg[n].next <= once.next
      /\ once.region.some /\ once.region.off # 0 => once.region = reg[n].region
      /\ reg[n].region.some => once.region = reg[n].region
      /\ Placed(once, OffsetFor(LastRegion), allocs)
      /\ RightOK(once, reg[r])
  BY LeftMerged DEF IInv, SInv, TypeOK
<1>3. m \in Registry
  BY <1>2, RegistryTypes
<1>4. OffsetFor(LastRegion) \in Nat /\ allocs \in Nat
  BY BoundAssumption, OffsetStep DEF LastRegion, IInv, SInv, TypeOK
<1>5. /\ m.next = once.next \/ m.next = reg[r].next
      /\ once.next <= m.next
      /\ Placed(m, OffsetFor(LastRegion), allocs)
  BY <1>1, <1>2, <1>4, MergeRight DEF IInv, SInv, BoundInv
<1>6. /\ m.region.some /\ m.region.off # 0 => m.region = once.region
      /\ once.region.some => m.region = once.region
  BY <1>2, MergeGrows
<1>7. PICK from \in {l, r} : m.next = reg[from].next
  BY <1>2, <1>5
<1>8. m.handles = reg[n].handles \cup reg[l].handles \cup reg[r].handles
  BY DEF Merge
<1>9. /\ reg[n].next <= m.next
      /\ m.region.some /\ m.region.off # 0 => m.region = reg[n].region
      /\ reg[n].region.some => m.region.some /\ m.region.base = reg[n].region.base
  BY SMTT(60), <1>2, <1>3, <1>5, <1>6 DEF Registry
<1>10. /\ reg'[n] = m
       /\ \A q \in Nodes : q # n => reg'[q] = reg[q]
       /\ \A q \in Nodes : q # n => fork'[q] = fork[q]
  BY DEF IInv, SInv, TypeOK
<1>11. /\ status'[n] = "running" /\ status'[l] = "joined" /\ status'[r] = "joined"
       /\ \A q \in Nodes : q \notin {n, l, r} => status'[q] = status[q]
       /\ Attached(n) /\ Attached(l) /\ Attached(r)
  BY <1>1, ForkBranches DEF IInv, SInv, TypeOK, Attached
<1>12. /\ status[l] # "forked" /\ status[r] # "forked"
       /\ status[n] = "forked"
       /\ l = LeftOf(fork[n]) /\ r = RightOf(fork[n])
       /\ UNCHANGED <<seq, issued, allocs>>
  OBVIOUS
<1>13. CutOff(n, {l, r})
  BY <1>12, PairIsCut
<1> HIDE DEF m, once, l, r
<1>14. OnlyGrows(n)
  BY <1>3, <1>9, <1>10 DEF OnlyGrows
<1>15. Unforked(n, l, r, {l, r}, from)
  <2>1. from # n /\ ~Stale(from)
    BY <1>12 DEF Stale
  <2> QED
    BY <2>1, <1>5, <1>7, <1>10, <1>11, <1>12, <1>13, <1>14, <1>8 DEF Unforked, Gone
<1> QED
  BY <1>1, <1>15, ForkOver

\* The left branch is merged while the right one still runs: the parent
\* takes over its stretch.
LEMMA JoinLeftStep ==
  ASSUME IInv, TypeOK', NEW n \in Nodes, status[n] = "forked",
         status[LeftOf(fork[n])] = "finished",
         reg' = [reg EXCEPT ![n] = Merge(reg[n], reg[LeftOf(fork[n])])],
         \A q \in Nodes :
            status'[q] = IF q = LeftOf(fork[n]) THEN "joined" ELSE status[q],
         UNCHANGED <<seq, fork, issued, allocs>>
  PROVE  TreeInv' /\ BranchInv' /\ BoundInv' /\ AInv'
<1> USE DEF IInv, SInv, TypeOK
<1> DEFINE l == LeftOf(fork[n])
<1> DEFINE r == RightOf(fork[n])
<1> DEFINE m == Merge(reg[n], reg[l])
<1>1. /\ l \in Nodes /\ r \in Nodes /\ l # r /\ n # l
      /\ \A q \in Nodes : status'[q] = IF q = l THEN "joined" ELSE status[q]
      /\ \A q \in Nodes : q # n /\ status[q] = "forked" =>
            /\ LeftOf(fork[q]) \in Nodes \ {l, r}
            /\ RightOf(fork[q]) \in Nodes \ {l, r}
  BY ForkBranches
<1>2. /\ reg[n] \in Registry /\ reg[l] \in Registry /\ m \in Registry
      /\ m.next = reg[l].next /\ reg[n].next <= m.next
      /\ m.region.some /\ m.region.off # 0 => m.region = reg[n].region
      /\ reg[n].region.some => m.region = reg[n].region
      /\ Placed(m, OffsetFor(LastRegion), allocs)
      /\ RightOK(m, reg[r])
  BY LeftMerged
<1>3. reg' = [reg EXCEPT ![n] = m]
  OBVIOUS
<1> HIDE DEF m
<1>4. TreeInv'
  <2>1. \A j \in 1 .. MaxForks : j >= seq =>
          status'[LeftOf(j)] = "unborn" /\ status'[RightOf(j)] = "unborn"
    BY <1>1, BranchNodes DEF TreeInv
  <2>2. ASSUME NEW q \in Nodes, status'[q] = "forked"
        PROVE  /\ status'[LeftOf(fork[q])] \in
                     {"running", "forked", "finished", "joined"}
               /\ status'[RightOf(fork[q])] \in
                     {"waiting", "running", "forked", "finished", "stashed"}
    BY <2>2, <1>1 DEF TreeInv
  <2> QED
    BY <1>1, <2>1, <2>2 DEF TreeInv
<1>5. BranchInv'
  <2> SUFFICES ASSUME NEW q \in Nodes, status[q] = "forked"
               PROVE  /\ status'[LeftOf(fork[q])] # "joined" =>
                            LeftOK(reg'[q], reg'[LeftOf(fork[q])])
                      /\ RightOK(reg'[q], reg'[RightOf(fork[q])])
    BY <1>1 DEF BranchInv
  <2>1. CASE q = n
    <3>1. CASE r # n
      BY <2>1, <3>1, <1>1, <1>2, <1>3
    <3>2. CASE r = n    \* never so, but the invariant need not say it
      <4>1. m.region.some /\ m.region.base <= m.next
        BY <3>2, <1>2 DEF RightOK, Placed, Registry, Region
      <4> QED
        BY <2>1, <3>2, <4>1, <1>1, <1>2, <1>3 DEF RightOK
    <3> QED
      BY <3>1, <3>2
  <2>2. CASE q # n
    <3>1. status'[LeftOf(fork[q])] # "joined" => status[LeftOf(fork[q])] # "joined"
      BY <2>2, <1>1
    <3>2. OnlyGrows(n)
      BY <1>2, <1>3 DEF OnlyGrows
    <3> HIDE DEF IInv, SInv, TypeOK, l, r
    <3>3. /\ status[LeftOf(fork[q])] # "joined" =>
               LeftOK(reg'[q], reg'[LeftOf(fork[q])])
          /\ RightOK(reg'[q], reg'[RightOf(fork[q])])
      BY <2>2, <3>2, RegGrows
    <3> QED
      BY <3>1, <3>3
  <2> QED
    BY <2>1, <2>2
<1>6. BoundInv'
  <2>1. m.handles \subseteq issued
    BY <1>1 DEF m, Merge, BoundInv
  <2> QED
    BY <2>1, <1>2, <1>3 DEF BoundInv, LastRegion, OffsetFor
<1>7. /\ \A q \in Nodes : Attached(q)' <=> Attached(q) /\ q # l
      /\ Attached(n) /\ Attached(l) /\ ~Stale(n)' /\ ~Stale(l)
      /\ \A q \in Nodes : q # n => (Stale(q)' <=> Stale(q))
  BY <1>1 DEF Attached, Stale
<1>8. AInv'
  <2> PICK x \in Nodes : x = l
    BY <1>1
  <2>1. \A q, a : Below(q, a)' <=> Below(q, a)
    BY <1>1, BelowSame
  <2>2. \A q, a \in Nodes : q # n => (Within(q, a)' <=> Within(q, a))
    BY <2>1, <1>7 DEF Within
  <2>3. \A a \in Nodes : ~Within(n, a)' /\ ~Within(x, a)
    BY <1>7 DEF Within
  <2>4. ASSUME NEW q \in Nodes, q # n, Within(q, x)
        PROVE  Within(q, n)
    <3>1. LeftOf(fork[q]) \in Nodes \ {l, r} /\ Below(LeftOf(fork[q]), l)
      BY <2>4, <1>1 DEF Within, Stale
    <3> HIDE DEF IInv, SInv, TypeOK
    <3>2. Below(LeftOf(fork[q]), n)
      BY <3>1, BelowParent
    <3> QED
      BY <2>4, <3>2 DEF Within
  <2>5. /\ reg'[n].next = reg[x].next
        /\ \A q \in Nodes : q # n => reg'[q] = reg[q]
        /\ reg'[n].handles = reg[n].handles \cup reg[x].handles
    BY SMTT(60), <1>2, <1>3 DEF m, Merge
  <2>6. \A q \in Nodes : Source(n, x, q) = IF q = n THEN x ELSE q
    BY DEF Source
  <2>7. ASSUME NEW q \in Nodes, NEW a \in Nodes, Attached(q)', Attached(a)',
               Within(Source(n, x, q), Source(n, x, a))
        PROVE  Within(q, a)'
    BY <2>2, <2>3, <2>4, <2>6, <2>7
  <2>8. ASSUME NEW a \in Nodes, Attached(a)', NEW h \in reg'[a].handles
        PROVE  \E b \in Nodes :
                 /\ Attached(b) /\ h \in reg[b].handles
                 /\ \A q \in Nodes :
                       Attached(q)' /\ Within(Source(n, x, q), b) => Within(q, a)'
                 /\ \A y \in Nodes : Below(y, a)' => Below(y, b)
    <3>1. CASE h \in reg[a].handles
      <4>1. \A q \in Nodes : Within(Source(n, x, q), a) => Within(q, a)'
        BY <2>2, <2>3, <2>6
      <4> QED
        BY <3>1, <4>1, <2>1, <2>8, <1>7
    <3>2. CASE a = n /\ h \in reg[x].handles
      <4>1. \A q \in Nodes : Within(Source(n, x, q), x) => Within(q, n)'
        BY <2>2, <2>3, <2>4, <2>6
      <4>2. \A y \in Nodes : Below(y, n)' => Below(y, x)
        BY <2>1, BelowChild
      <4> QED
        BY <3>2, <4>1, <4>2, <1>7
    <3> QED
      BY <3>1, <3>2, <2>5, <2>8
  <2>9. NoneLost' => NoneLost /\ \A q \in Nodes : Holder(q)' => Holder(Source(n, x, q))
    <3>1. NoneLost' => NoneLost
      BY <1>1 DEF NoneLost
    <3> QED
      BY <3>1, <2>6, <1>7 DEF Holder
  <2>10. \A q \in Nodes : status'[q] = "forked" =>
            status[q] = "forked" /\ fork'[q] = fork[q]
            /\ reg[q].handles \subseteq reg'[q].handles
    BY <2>5, <1>1
  <2>11. \A q \in Nodes : status'[q] = "orphan" =>
            /\ reg'[q].next = reg[q].next /\ reg'[q].handles = reg[q].handles
            /\ status[q] = "orphan" \/ status[q] = "running"
    BY <2>5, <1>1
  <2>12. \A q \in Nodes : Attached(q)' =>
            Attached(Source(n, x, q)) /\ reg'[q].next = reg[Source(n, x, q)].next
    BY <2>5, <2>6, <1>7
  <2>13. Attached(x) /\ ~Attached(x)'
    BY <1>1, <1>7
  <2>14. \A q \in Nodes : status'[q] = "forked" /\ status'[LeftOf(fork[q])] = "joined" =>
            \/ reg'[LeftOf(fork[q])].handles \subseteq reg'[q].handles
            \/ /\ status[LeftOf(fork[q])] = "joined"
               /\ reg'[LeftOf(fork[q])] = reg[LeftOf(fork[q])]
    <3> SUFFICES ASSUME NEW q \in Nodes, status'[q] = "forked", q # n,
                        status'[LeftOf(fork[q])] = "joined"
                 PROVE  /\ status[LeftOf(fork[q])] = "joined"
                        /\ reg'[LeftOf(fork[q])] = reg[LeftOf(fork[q])]
      BY <2>5, <1>1
    <3>1. status[q] = "forked" /\ LeftOf(fork[q]) \in Nodes \ {l, r}
      BY <1>1
    <3>2. status[LeftOf(fork[q])] = "joined"
      BY <3>1, <1>1
    <3> QED
      BY <3>1, <3>2, <2>5
  <2> HIDE DEF IInv, SInv, TypeOK
  <2> QED
    BY <2>14, <2>1, <2>7, <2>8, <2>9, <2>10, <2>11, <2>12, <2>13, Takeover
<1> QED
  BY <1>4, <1>5, <1>6, <1>8

\* The right branch is the last to be merged, into a parent that took over
\* the left one's stretch before.
LEMMA JoinRightStep ==
  ASSUME IInv, TypeOK', NEW n \in Nodes, JoinRight(n)
  PROVE  TreeInv' /\ BranchInv' /\ BoundInv' /\ AInv'
<1> DEFINE l == LeftOf(fork[n])
<1> DEFINE r == RightOf(fork[n])
<1> DEFINE m == Merge(reg[n], reg[r])
<1>1. /\ status[n] = "forked" /\ status[l] = "joined" /\ status[r] = "finished"
      /\ reg' = [reg EXCEPT ![n] = m]
      /\ status' = [status EXCEPT ![n] = "running", ![r] = "joined"]
      /\ fork' = [fork EXCEPT ![n] = 0]
      /\ UNCHANGED <<seq, issued, allocs>>
  BY DEF JoinRight, history
<1>2. /\ l \in Nodes /\ r \in Nodes /\ l # r
      /\ reg[n] \in Registry /\ reg[r] \in Registry
      /\ RightOK(reg[n], reg[r])
  BY <1>1, ForkBranches DEF IInv, SInv, TypeOK, BranchInv
<1>3. OffsetFor(LastRegion) \in Nat /\ allocs \in Nat
  BY BoundAssumption, OffsetStep DEF LastRegion, IInv, SInv, TypeOK
<1>4. m \in Registry
  BY <1>2, RegistryTypes
<1>5. /\ m.next = reg[n].next \/ m.next = reg[r].next
      /\ reg[n].next <= m.next
      /\ Placed(m, OffsetFor(LastRegion), allocs)
  BY <1>2, <1>3, MergeRight DEF IInv, SInv, BoundInv
<1>6. /\ m.region.some /\ m.region.off # 0 => m.region = reg[n].region
      /\ reg[n].region.some => m.region = reg[n].region
  BY <1>2, MergeGrows
<1>7. PICK from \in {n, r} : m.next = reg[from].next
  BY <1>5
<1>8. m.handles = reg[n].handles \cup reg[r].handles
  BY DEF Merge
<1>9. /\ reg'[n] = m
      /\ \A q \in Nodes : q # n => reg'[q] = reg[q]
      /\ \A q \in Nodes : q # n => fork'[q] = fork[q]
  BY <1>1 DEF IInv, SInv, TypeOK
<1>10. /\ status'[n] = "running" /\ status'[l] = "joined" /\ status'[r] = "joined"
       /\ \A q \in Nodes : q \notin {n, l, r} => status'[q] = status[q]
       /\ Attached(n) /\ Attached(r) /\ ~Stale(n) /\ n # l /\ n # r
  BY <1>1, <1>2 DEF IInv, SInv, TypeOK, Attached, Stale
<1>11. /\ l \in Nodes /\ r \in Nodes
       /\ status[l] # "forked" /\ status[r] # "forked"
       /\ l = LeftOf(fork[n]) /\ r = RightOf(fork[n])
       /\ status[n] = "forked"
       /\ UNCHANGED <<seq, issued, allocs>>
  BY <1>1, <1>2
<1>12. CutOff(n, {l, r})
  BY <1>11, PairIsCut
<1> HIDE DEF m, l, r
<1>13. OnlyGrows(n)
  BY <1>4, <1>5, <1>6, <1>9 DEF OnlyGrows
<1>14. Unforked(n, l, r, {l, r}, from)
  <2>1. \A h \in reg'[n].handles : \E b \in {n, l, r} :
           Attached(b) /\ h \in reg[b].handles /\ (from = n /\ Stale(n) => b # l)
    BY <1>9, <1>10, <1>8
  <2>2. from # n => ~Stale(from)
    BY <1>11 DEF Stale
  <2> QED
    BY <2>1, <2>2, <1>5, <1>7, <1>9, <1>10, <1>11, <1>12, <1>13 DEF Unforked, Gone
<1> QED
  BY <1>2, <1>14, ForkOver

\* A drop leaves nothing of a Fork but orphans and corpses.
LEMMA DropLoses ==
  ASSUME IInv, NEW n \in Nodes, DropFork(n)
  PROVE  /\ status[n] = "forked" /\ CutOff(n, Beneath(n))
         /\ status'[n] = "running"
         /\ \A q \in Beneath(n) : status'[q] \in {"orphan", "dead"}
         /\ \A q \in Beneath(n) : status'[q] = "orphan" => status[q] = "running"
         /\ \A q \in Nodes : q # n /\ q \notin Beneath(n) => status'[q] = status[q]
         /\ ~NoneLost'
<1>1. status[n] = "forked"
  BY DEF DropFork
<1>2. CutOff(n, Beneath(n))
  BY <1>1, SubtreeIsCut
<1>3. /\ Beneath(n) \subseteq Nodes /\ n \notin Beneath(n)
      /\ LeftOf(fork[n]) \in Beneath(n)
  BY <1>2 DEF CutOff
<1>4. ASSUME NEW q \in Nodes
      PROVE  /\ q = n => status'[q] = "running"
             /\ q \in Beneath(n) \ {n} =>
                   status'[q] = IF status[q] = "running" /\ q \in Detached(n)
                                THEN "orphan" ELSE "dead"
             /\ q # n /\ q \notin Beneath(n) => status'[q] = status[q]
  BY DEF DropFork
<1> HIDE DEF DropFork
<1>5. \A q \in Beneath(n) :
         /\ status'[q] \in {"orphan", "dead"}
         /\ status'[q] = "orphan" => status[q] = "running"
  BY <1>3, <1>4
<1> QED
  BY <1>1, <1>2, <1>3, <1>4, <1>5 DEF NoneLost

\* A dropped Fork gives the parent at most what its stash holds.
LEMMA DropStep ==
  ASSUME IInv, TypeOK', NEW n \in Nodes, DropFork(n)
  PROVE  TreeInv' /\ BranchInv' /\ BoundInv' /\ AInv'
<1> DEFINE l == LeftOf(fork[n])
<1> DEFINE r == RightOf(fork[n])
<1> DEFINE m == IF status[r] = "stashed" THEN Merge(reg[n], reg[r]) ELSE reg[n]
<1> DEFINE D == Beneath(n)
<1>1. /\ status[n] = "forked"
      /\ reg' = [reg EXCEPT ![n] = m]
      /\ fork' = [fork EXCEPT ![n] = 0]
      /\ UNCHANGED <<seq, issued, allocs>>
  BY DEF DropFork, history
<1>2. /\ l \in Nodes /\ r \in Nodes /\ l # r /\ n # l /\ n # r
      /\ reg[n] \in Registry /\ reg[r] \in Registry
      /\ RightOK(reg[n], reg[r])
  <2>1. n # l /\ n # r
    BY DropLoses DEF CutOff
  <2> QED
    BY <1>1, <2>1, ForkBranches DEF IInv, SInv, TypeOK, BranchInv
<1>3. OffsetFor(LastRegion) \in Nat /\ allocs \in Nat
  BY BoundAssumption, OffsetStep DEF LastRegion, IInv, SInv, TypeOK
<1>4. /\ Merge(reg[n], reg[r]) \in Registry
      /\ Merge(reg[n], reg[r]).handles = reg[n].handles \cup reg[r].handles
  BY <1>2, RegistryTypes DEF Merge
<1>5. /\ m.next = reg[n].next \/ (status[r] = "stashed" /\ m.next = reg[r].next)
      /\ reg[n].next <= m.next
      /\ Placed(m, OffsetFor(LastRegion), allocs)
      /\ m \in Registry
  <2>1. /\ Placed(reg[n], OffsetFor(LastRegion), allocs)
        /\ Placed(reg[r], OffsetFor(LastRegion), allocs)
    BY <1>2 DEF IInv, SInv, BoundInv
  <2> DEFINE u == Merge(reg[n], reg[r])
  <2>2. CASE status[r] = "stashed"
    <3>1. m = u
      BY <2>2
    <3>2. /\ u.next = reg[n].next \/ u.next = reg[r].next
          /\ reg[n].next <= u.next
          /\ Placed(u, OffsetFor(LastRegion), allocs)
      BY <2>1, <1>2, <1>3, MergeRight
    <3> HIDE DEF m, u
    <3> QED
      BY <2>2, <3>1, <3>2, <1>4 DEF u
  <2>3. CASE status[r] # "stashed"
    <3>1. m = reg[n] /\ reg[n].next <= reg[n].next
      BY <2>3, <1>2 DEF Registry
    <3> HIDE DEF m
    <3> QED
      BY <2>1, <3>1, <1>2
  <2> QED
    BY <2>2, <2>3
<1>6. /\ m.region.some /\ m.region.off # 0 => m.region = reg[n].region
      /\ reg[n].region.some => m.region = reg[n].region
  BY <1>2, MergeGrows
<1>7. PICK from \in {n, r} :
        m.next = reg[from].next /\ (from = r => status[r] = "stashed")
  <2> HIDE DEF m, l, r
  <2>1. n # r
    BY <1>2
  <2> QED
    BY <2>1, <1>5
<1>8. /\ m.handles \subseteq reg[n].handles \cup reg[r].handles
      /\ status[r] # "stashed" => m.handles = reg[n].handles
  BY <1>4
<1>9. /\ reg'[n] = m
      /\ \A q \in Nodes : q # n => reg'[q] = reg[q]
      /\ \A q \in Nodes : q # n => fork'[q] = fork[q]
  BY <1>1 DEF IInv, SInv, TypeOK
<1>10. /\ CutOff(n, D) /\ status'[n] = "running"
       /\ \A q \in D : status'[q] \in {"orphan", "dead"}
       /\ \A q \in D : status'[q] = "orphan" => status[q] = "running"
       /\ \A q \in Nodes : q # n /\ q \notin D => status'[q] = status[q]
  BY <1>1, DropLoses
<1>11. Attached(n) /\ (status[r] = "stashed" => Attached(r)) /\ ~NoneLost'
  BY <1>1, <1>2, <1>10 DEF Attached, NoneLost, CutOff
<1>12. /\ l \in Nodes /\ r \in Nodes /\ l # r /\ n # l /\ n # r
       /\ l = LeftOf(fork[n]) /\ r = RightOf(fork[n])
       /\ status[n] = "forked"
       /\ UNCHANGED <<seq, issued, allocs>>
  BY <1>1, <1>2
<1> HIDE DEF m, l, r, D
<1>13. OnlyGrows(n)
  BY <1>5, <1>6, <1>9 DEF OnlyGrows
<1>14. Unforked(n, l, r, D, from)
  <2>1. Attached(from) /\ (from # n => ~Stale(from))
    BY <1>7, <1>11 DEF Stale
  <2>2. \A h \in reg'[n].handles : \E b \in {n, l, r} :
           Attached(b) /\ h \in reg[b].handles /\ (from = n /\ Stale(n) => b # l)
    BY <1>8, <1>9, <1>11, <1>12
  <2> QED
    BY <2>1, <2>2, <1>5, <1>7, <1>9, <1>10, <1>11, <1>12, <1>13 DEF Unforked, Gone
<1> QED
  BY <1>12, <1>14, ForkOver

-----------------------------------------------------------------------------
(* The invariant *)

LEMMA InitStep == Init => IInv
<1> SUFFICES ASSUME Init PROVE IInv
  OBVIOUS
<1>1. TypeOK /\ ForkInv
  <2>1. EmptyRegistry \in Registry
    BY DEF EmptyRegistry, Registry, Region, NoRegion
  <2> QED
    BY <2>1, BoundAssumption DEF Init, TypeOK, ForkInv, Statuses
<1>2. \A n \in Nodes : status[n] = IF n = Root THEN "running" ELSE "unborn"
  BY DEF Init
<1>3. TreeInv
  BY <1>2, BranchNodes DEF TreeInv, Init
<1>4. BranchInv
  BY <1>2 DEF BranchInv
<1>5. BoundInv
  <2>1. OffsetFor(LastRegion) \in Nat
    BY BoundAssumption, OffsetStep DEF LastRegion, Init
  <2> QED
    BY <2>1, WidthAssumption
    DEF BoundInv, Placed, Init, EmptyRegistry, NoRegion
<1>6. AInv
  <2>1. /\ \A n \in Nodes : Attached(n) => n = Root
        /\ \A n \in Nodes : status[n] # "forked" /\ status[n] # "orphan"
    BY <1>2 DEF Attached
  <2>2. \A n \in Nodes : reg[n].handles = {}
    BY DEF Init, EmptyRegistry
  <2>3. issued = {}
    BY DEF Init
  <2> QED
    BY <2>1, <2>2, <2>3
    DEF AInv, SplitInv, ApartInv, HandleInv, SiblingInv, JoinedInv, OrphanInv,
        FreshInv
<1> QED
  BY <1>1, <1>3, <1>4, <1>5, <1>6 DEF IInv, SInv

LEMMA NextStep ==
  ASSUME IInv, [Next]_vars
  PROVE  IInv'
<1>1. TypeOK' /\ ForkInv'
  BY TypeStep DEF IInv, SInv
<1>2. CASE UNCHANGED vars
  <2>1. \A q, a : Below(q, a)' <=> Below(q, a)
    BY <1>2, BelowSame DEF vars, history
  <2>2. SInv'
    BY <1>2, <1>1
    DEF vars, history, IInv, SInv, TreeInv, BranchInv, BoundInv, LastRegion, OffsetFor
  <2>3. /\ \A q \in Nodes : Attached(q)' <=> Attached(q)
        /\ \A q \in Nodes : Holder(q)' <=> Holder(q)
        /\ \A q, a : Within(q, a)' <=> Within(q, a)
        /\ \A q, f : Outside(f, q)' <=> Outside(f, q)
        /\ Budget' = Budget /\ (NoneLost' <=> NoneLost)
        /\ \A q \in Nodes : \A a :
              /\ Below(LeftOf(fork[q]), a)' <=> Below(LeftOf(fork[q]), a)
              /\ Below(RightOf(fork[q]), a)' <=> Below(RightOf(fork[q]), a)
        /\ UNCHANGED <<status, fork, reg, issued>>
    BY <1>2
    DEF vars, history, Attached, Holder, Stale, Within, Below, Closed, Outside, Budget,
        NoneLost
  <2>4. AInv'
    BY <2>3
    DEF IInv, AInv, SplitInv, ApartInv, HandleInv, SiblingInv, JoinedInv, OrphanInv,
        FreshInv
  <2> QED
    BY <2>2, <2>4 DEF IInv
<1>3. SUFFICES ASSUME NEW n \in Nodes,
                      \/ Allocate(n) \/ Replace(n) \/ Finish(n)
                      \/ \E x \in Resources : Terminate(n, x)
                      \/ \E ln \in SUBSET names[n] :
                            \E rn \in SUBSET names[n] : Fork(n, ln, rn)
                      \/ ForkExhausted(n) \/ StartRight(n) \/ JoinSequential(n)
                      \/ Stash(n) \/ JoinLeft(n) \/ JoinRight(n) \/ DropFork(n)
               PROVE  TreeInv' /\ BranchInv' /\ BoundInv' /\ AInv'
  BY <1>1, <1>2 DEF Next, IInv, SInv
<1>4. CASE Allocate(n)
  BY <1>1, <1>4, AllocateStep
<1>5. CASE Replace(n) \/ \E x \in Resources : Terminate(n, x)
  BY <1>1, <1>5, MarkStep
<1>6. CASE Finish(n) \/ StartRight(n) \/ Stash(n)
  BY <1>1, <1>6, StatusStep
<1>7. CASE \E ln \in SUBSET names[n] : \E rn \in SUBSET names[n] : Fork(n, ln, rn)
  BY <1>1, <1>7, ForkStep
<1>8. CASE ForkExhausted(n)
  BY <1>1, <1>8, ExhaustedStep
<1>9. CASE JoinSequential(n)
  BY <1>1, <1>9, JoinBothStep DEF JoinSequential, history
<1>10. CASE JoinLeft(n)
  <2>1. CASE status[RightOf(fork[n])] = "stashed"
    BY <1>1, <1>10, <2>1, JoinBothStep DEF JoinLeft, history
  <2>2. CASE status[RightOf(fork[n])] # "stashed"
    <3>1. /\ status[n] = "forked" /\ status[LeftOf(fork[n])] = "finished"
          /\ reg' = [reg EXCEPT ![n] = Merge(reg[n], reg[LeftOf(fork[n])])]
          /\ UNCHANGED <<seq, issued, allocs>>
      BY <1>10, <2>2 DEF JoinLeft, history
    <3>2. /\ LeftOf(fork[n]) \in Nodes /\ RightOf(fork[n]) \in Nodes
          /\ LeftOf(fork[n]) # n
      BY <3>1, ForkBranches
    <3>3. \A q \in Nodes :
             status'[q] = IF q = LeftOf(fork[n]) THEN "joined" ELSE status[q]
      <4>1. status' = [status EXCEPT ![n] = "forked",
                         ![LeftOf(fork[n])] = "joined", ![RightOf(fork[n])] = @]
        BY <1>10, <2>2 DEF JoinLeft
      <4>2. status \in [Nodes -> Statuses]
        BY DEF IInv, SInv, TypeOK
      <4> QED
        BY <3>1, <3>2, <4>1, <4>2
    <3>4. fork' = fork
      BY <1>10, <2>2 DEF JoinLeft, IInv, SInv, TypeOK
    <3> QED
      BY <1>1, <3>1, <3>3, <3>4, JoinLeftStep
  <2> QED
    BY <2>1, <2>2
<1>11. CASE JoinRight(n)
  BY <1>1, <1>11, JoinRightStep
<1>12. CASE DropFork(n)
  BY <1>1, <1>12, DropStep
<1> QED
  BY <1>3, <1>4, <1>5, <1>6, <1>7, <1>8, <1>9, <1>10, <1>11, <1>12

LEMMA Inductive == Spec => []IInv
<1>1. IInv /\ [Next]_vars => IInv'
  BY NextStep
<1> QED
  BY <1>1, InitStep, PTL DEF Spec

\* A Fork is lost only by being dropped.
LEMMA NoneLostStep ==
  ASSUME ~Drops, IInv, NoneLost, [Next]_vars
  PROVE  NoneLost'
<1> USE DEF NoneLost
<1>1. status \in [Nodes -> Statuses]
  BY DEF IInv, SInv, TypeOK
<1>2. CASE UNCHANGED vars
  BY <1>2 DEF vars, history
<1>3. SUFFICES ASSUME NEW n \in Nodes,
                      \/ Allocate(n) \/ Replace(n) \/ Finish(n)
                      \/ \E x \in Resources : Terminate(n, x)
                      \/ \E ln \in SUBSET names[n] :
                            \E rn \in SUBSET names[n] : Fork(n, ln, rn)
                      \/ ForkExhausted(n) \/ StartRight(n) \/ JoinSequential(n)
                      \/ Stash(n) \/ JoinLeft(n) \/ JoinRight(n)
               PROVE  NoneLost'
  BY <1>2 DEF Next, DropFork
<1>4. CASE Allocate(n) \/ Replace(n) \/ Finish(n)
  BY <1>1, <1>4 DEF Allocate, Replace, Finish
<1>5. CASE \E x \in Resources : Terminate(n, x)
  BY <1>1, <1>5 DEF Terminate
<1>6. CASE \E ln \in SUBSET names[n] : \E rn \in SUBSET names[n] : Fork(n, ln, rn)
  BY <1>1, <1>6 DEF Fork
<1>7. CASE ForkExhausted(n) \/ StartRight(n) \/ JoinSequential(n) \/ Stash(n)
  BY <1>1, <1>7 DEF ForkExhausted, StartRight, JoinSequential, Stash
<1>8. CASE JoinLeft(n)
  BY <1>1, <1>8 DEF JoinLeft
<1>9. CASE JoinRight(n)
  BY <1>1, <1>9 DEF JoinRight
<1> QED
  BY <1>3, <1>4, <1>5, <1>6, <1>7, <1>8, <1>9

\* What was lost stays lost: a step to a state without lost branches starts
\* in one.
LEMMA LostStays ==
  ASSUME IInv, [Next]_vars, NoneLost'
  PROVE  NoneLost
<1> SUFFICES ASSUME NEW q \in Nodes, status[q] \in {"orphan", "dead"}
             PROVE  status'[q] \in {"orphan", "dead"}
  BY DEF NoneLost
<1> USE DEF IInv, SInv, TypeOK
<1>1. CASE UNCHANGED vars
  BY <1>1 DEF vars, history
<1>2. SUFFICES ASSUME NEW n \in Nodes,
                      \/ Allocate(n) \/ Replace(n) \/ Finish(n)
                      \/ \E x \in Resources : Terminate(n, x)
                      \/ \E ln \in SUBSET names[n] :
                            \E rn \in SUBSET names[n] : Fork(n, ln, rn)
                      \/ ForkExhausted(n) \/ StartRight(n) \/ JoinSequential(n)
                      \/ Stash(n) \/ JoinLeft(n) \/ JoinRight(n) \/ DropFork(n)
               PROVE  status'[q] \in {"orphan", "dead"}
  BY <1>1 DEF Next
<1>3. CASE Allocate(n) \/ Replace(n) \/ Finish(n)
  BY <1>3 DEF Allocate, Replace, Finish
<1>4. CASE \E x \in Resources : Terminate(n, x)
  BY <1>4 DEF Terminate
<1>5. CASE \E ln \in SUBSET names[n] : \E rn \in SUBSET names[n] : Fork(n, ln, rn)
  <2>1. /\ seq \in 1 .. MaxForks /\ status[n] = "running"
        /\ \A x \in Nodes \ {n, LeftOf(seq), RightOf(seq)} : status'[x] = status[x]
    BY <1>5, BoundAssumption DEF Fork
  <2>2. status[LeftOf(seq)] = "unborn" /\ status[RightOf(seq)] = "unborn"
    BY <2>1 DEF TreeInv
  <2> QED
    BY <2>1, <2>2
<1>6. CASE ForkExhausted(n) \/ StartRight(n) \/ JoinSequential(n) \/ Stash(n)
  BY <1>6 DEF ForkExhausted, StartRight, JoinSequential, Stash
<1>7. CASE JoinLeft(n)
  BY <1>7 DEF JoinLeft
<1>8. CASE JoinRight(n)
  BY <1>8 DEF JoinRight
<1>9. CASE DropFork(n)
  <2>1. /\ CutOff(n, Beneath(n)) /\ status[n] = "forked"
        /\ q # n /\ q \notin Beneath(n) => status'[q] = status[q]
    BY <1>9, DropLoses
  <2>2. q # n /\ q \notin Beneath(n)
    BY <2>1 DEF CutOff
  <2> QED
    BY <2>1, <2>2
<1> QED
  BY <1>2, <1>3, <1>4, <1>5, <1>6, <1>7, <1>8, <1>9

LEMMA NoneLostHolds == ~Drops => (Spec => []NoneLost)
<1> SUFFICES ASSUME ~Drops PROVE Spec => []NoneLost
  OBVIOUS
<1>1. Init => NoneLost
  BY DEF Init, NoneLost
<1>2. IInv /\ NoneLost /\ [Next]_vars => NoneLost'
  BY NoneLostStep
<1> QED
  BY <1>1, <1>2, Inductive, PTL DEF Spec

-----------------------------------------------------------------------------
(* Uniqueness, overflow, merging *)

LEMMA CurrentFd ==
  ASSUME IInv, NEW n \in Nodes
  PROVE  reg[n].next \in Nat /\ issued \subseteq Nat /\ Budget \in Nat \ {0}
  BY WidthAssumption DEF IInv, SInv, TypeOK, Registry, BoundInv, Budget

LEMMA Unique == IInv /\ NoneLost => FdUnique
<1> SUFFICES ASSUME IInv, NoneLost, NEW n \in Nodes, status[n] \in {"running", "orphan"}
             PROVE  reg[n].next \notin issued
  BY DEF FdUnique
<1>1. Holder(n)
  BY DEF Holder, Attached, Stale, NoneLost
<1>2. \A f \in issued : Outside(f, n)
  BY <1>1 DEF IInv, AInv, FreshInv
<1> QED
  BY <1>2, CurrentFd DEF Outside

\* D1, as long as no Fork was dropped: however many Forks, in whatever order
\* branches allocate, replace, finish and merge, on the parallel and on the
\* sequential path, no fd is ever handed out twice.
THEOREM FdUniqueUntilDropped == Spec => [](NoneLost => FdUnique)
  BY Unique, Inductive, PTL

\* D1 for a program whose timeouts drop no Fork.
THEOREM FdUniqueHolds == ~Drops => (Spec => []FdUnique)
<1> SUFFICES ASSUME ~Drops PROVE Spec => []FdUnique
  OBVIOUS
<1>1. Spec => []NoneLost
  BY NoneLostHolds
<1> QED
  BY <1>1, FdUniqueUntilDropped, PTL

\* RFC-06: cursors stay below the end of the last region that fits, so base +
\* offset never wraps around in a u64, dropped Forks or not.
THEOREM NoOverflowHolds == Spec => []NoOverflow
<1>1. IInv => NoOverflow
  <2> SUFFICES ASSUME IInv, NEW n \in Nodes
               PROVE  reg[n].next < MaxRegions * Width
    BY DEF NoOverflow
  <2>1. LastRegion \in Nat /\ MaxRegions - 1 - LastRegion \in Nat
    BY BoundAssumption DEF LastRegion, IInv, SInv, TypeOK
  <2>2. OffsetFor(LastRegion) + Width <= MaxRegions * Width
    <3> DEFINE d == MaxRegions - 1 - LastRegion
    <3>1. d * Width \in Nat
      BY <2>1, WidthAssumption
    <3>2. MaxRegions = LastRegion + d + 1 /\ d \in Nat
      BY <2>1, BoundAssumption
    <3>3. MaxRegions * Width = LastRegion * Width + d * Width + Width
      BY <2>1, <3>2, WidthAssumption
    <3> QED
      BY <2>1, <3>1, <3>3, WidthAssumption DEF OffsetFor
  <2>3. /\ reg[n].next <= OffsetFor(LastRegion) + allocs
        /\ reg[n].next \in Nat /\ allocs \in Nat /\ allocs < Width
    BY WidthAssumption DEF IInv, SInv, TypeOK, Registry, BoundInv, Placed
  <2>4. OffsetFor(LastRegion) \in Nat /\ MaxRegions * Width \in Nat
    BY <2>1, OffsetStep, WidthAssumption, BoundAssumption
  <2> QED
    BY <2>2, <2>3, <2>4, WidthAssumption
<1> QED
  BY <1>1, Inductive, PTL

\* "merge only inserts", whatever is dropped, replaced or run in sequence: no
\* branch, not even a detached one, is about to allocate an fd it holds, and
\* two branches of a Fork never add the same fd.
THEOREM HandlesIntactHolds == Spec => []HandlesIntact
<1>1. IInv => HandlesIntact
  <2> SUFFICES ASSUME IInv PROVE HandlesIntact
    OBVIOUS
  <2>1. ASSUME NEW n \in Nodes, status[n] \in {"running", "orphan"}
        PROVE  reg[n].next \notin reg[n].handles
    <3>1. CASE status[n] = "running"
      <4>1. Attached(n) /\ ~Within(n, n)
        BY <3>1 DEF Attached, Within, Stale
      <4>2. \A h \in reg[n].handles : Outside(h, n)
        BY <4>1 DEF IInv, AInv, HandleInv
      <4> QED
        BY <4>2, CurrentFd DEF Outside
    <3>2. CASE status[n] = "orphan"
      BY <3>2 DEF IInv, AInv, OrphanInv
    <3> QED
      BY <2>1, <3>1, <3>2
  <2>2. ASSUME NEW n \in Nodes, status[n] = "forked"
        PROVE  reg[LeftOf(fork[n])].handles \cap reg[RightOf(fork[n])].handles
                 \subseteq reg[n].handles
    <3> DEFINE l == LeftOf(fork[n])
    <3> DEFINE r == RightOf(fork[n])
    <3>1. l \in Nodes /\ r \in Nodes
      BY <2>2, ForkBranches
    <3>2. Below(l, l) /\ Below(r, r)
      BY DEF Below
    <3>3. Attached(r) /\ (status[l] # "joined" => Attached(l))
      BY <2>2 DEF IInv, SInv, TreeInv, Attached
    <3>4. CASE status[l] # "joined"
      BY <2>2, <3>1, <3>2, <3>3, <3>4 DEF IInv, AInv, SiblingInv
    <3>5. CASE status[l] = "joined"
      BY <2>2, <3>5 DEF IInv, AInv, JoinedInv
    <3> QED
      BY <3>4, <3>5
  <2> QED
    BY <2>1, <2>2 DEF HandlesIntact
<1> QED
  BY <1>1, Inductive, PTL

-----------------------------------------------------------------------------
(* What a registry knows stays known *)

\* The branches whose registries still take part.
Live(n) == status[n] \in {"running", "forked", "finished", "stashed"}

\* Merging keeps the handles and the linear marks of both registries.
LEMMA MergeKeeps ==
  ASSUME NEW p \in Registry, NEW s \in Registry
  PROVE  /\ Merge(p, s).handles = p.handles \cup s.handles
         /\ Merge(p, s).owned = p.owned \cup s.owned
  BY DEF Merge

\* Unless a Fork is dropped or the branch replaces, all a live registry knows
\* is known to a live registry after the step.
LEMMA LiveKept ==
  ASSUME IInv, TypeOK', NoneLost', [Next]_vars, NEW w \in Nodes, Live(w), ~Replace(w)
  PROVE  \E v \in Nodes : /\ Live(v)'
                          /\ reg[w].handles \subseteq reg'[v].handles
                          /\ reg[w].owned \subseteq reg'[v].owned
<1> USE DEF IInv, SInv, TypeOK
<1> DEFINE Kept(v) == /\ Live(v)'
                      /\ reg[w].handles \subseteq reg'[v].handles
                      /\ reg[w].owned \subseteq reg'[v].owned
<1>1. CASE UNCHANGED vars
  BY <1>1 DEF vars, history, Live
<1>2. SUFFICES ASSUME NEW n \in Nodes,
                      \/ Allocate(n) \/ (Replace(n) /\ n # w) \/ Finish(n)
                      \/ \E x \in Resources : Terminate(n, x)
                      \/ \E ln \in SUBSET names[n] :
                            \E rn \in SUBSET names[n] : Fork(n, ln, rn)
                      \/ ForkExhausted(n) \/ StartRight(n) \/ JoinSequential(n)
                      \/ Stash(n) \/ JoinLeft(n) \/ JoinRight(n) \/ DropFork(n)
               PROVE  \E v \in Nodes : Kept(v)
  BY <1>1 DEF Next
<1> DEFINE l == LeftOf(fork[n])
<1> DEFINE r == RightOf(fork[n])
<1>3. /\ reg[w] \in Registry /\ reg[n] \in Registry
      /\ status[n] = "forked" =>
            /\ l \in Nodes /\ r \in Nodes /\ l # r
            /\ reg[l] \in Registry /\ reg[r] \in Registry
            /\ Merge(reg[n], reg[l]) \in Registry
  BY ForkBranches, RegistryTypes
<1>4. CASE Allocate(n)
  <2>1. /\ reg' = [reg EXCEPT ![n] = Allocated(reg[n])]
        /\ \A q \in Nodes : status'[q] = IF q = n /\ status[n] = "orphan"
                                         THEN "dead" ELSE status[q]
    BY <1>4 DEF Allocate
  <2>2. /\ reg[n].handles \subseteq Allocated(reg[n]).handles
        /\ Allocated(reg[n]).owned = reg[n].owned
    BY <1>3 DEF Allocated, Registry
  <2>3. Kept(w)
    BY <2>1, <2>2 DEF Live
  <2> QED
    BY <2>3
<1>5. CASE Replace(n) /\ n # w
  BY <1>5 DEF Replace, Live
<1>6. CASE Finish(n)
  BY <1>6 DEF Finish, Live, history
<1>7. CASE \E x \in Resources : Terminate(n, x)
  <2>1. PICK x \in Resources :
          reg' = [reg EXCEPT ![n] = [reg[n] EXCEPT !.owned = @ \cup {x}]]
    BY <1>7 DEF Terminate
  <2>2. status' = status
    BY <1>7 DEF Terminate
  <2>3. /\ reg'[w].handles = reg[w].handles
        /\ reg[w].owned \subseteq reg'[w].owned
    BY <2>1, <1>3 DEF Registry
  <2> QED
    BY <2>2, <2>3 DEF Live
<1>8. CASE \E ln \in SUBSET names[n] : \E rn \in SUBSET names[n] : Fork(n, ln, rn)
  <2>1. /\ seq \in 1 .. MaxForks /\ status[n] = "running"
        /\ reg' = [reg EXCEPT ![LeftOf(seq)] = reg[n],
                              ![RightOf(seq)] = Offset(reg[n], OffsetFor(seq))]
    BY <1>8, BoundAssumption DEF Fork
  <2>2. /\ LeftOf(seq) \in Nodes /\ RightOf(seq) \in Nodes
        /\ status[LeftOf(seq)] = "unborn" /\ status[RightOf(seq)] = "unborn"
    BY <2>1, BranchNodes DEF TreeInv
  <2>3. w # LeftOf(seq) /\ w # RightOf(seq)
    BY <2>2 DEF Live
  <2>4. reg'[w] = reg[w]
    BY <2>1, <2>3
  <2>5. Live(w)'
    BY <1>8, <2>3 DEF Fork, Live
  <2> QED
    BY <2>4, <2>5
<1>9. CASE ForkExhausted(n)
  BY <1>9 DEF ForkExhausted, Live, history
<1>10. CASE StartRight(n)
  BY <1>10 DEF StartRight, Live, history
<1>11. CASE Stash(n)
  BY <1>11 DEF Stash, Live, history
<1>12. CASE JoinSequential(n)
  <2>1. /\ status[n] = "forked" /\ status'[n] = "running"
        /\ reg' = [reg EXCEPT ![n] = Merge(Merge(reg[n], reg[l]), reg[r])]
        /\ \A q \in Nodes : q \notin {n, l, r} => status'[q] = status[q]
    BY <1>12, ForkBranches DEF JoinSequential
  <2>2. /\ reg'[n].handles = reg[n].handles \cup reg[l].handles \cup reg[r].handles
        /\ reg'[n].owned = reg[n].owned \cup reg[l].owned \cup reg[r].owned
    BY <2>1, <1>3, MergeKeeps
  <2>3. CASE w \in {n, l, r}
    <3>1. Kept(n)
      BY <2>1, <2>2, <2>3 DEF Live
    <3> QED
      BY <3>1
  <2>4. CASE w \notin {n, l, r}
    BY <2>1, <2>4 DEF Live
  <2> QED
    BY <2>3, <2>4
<1>13. CASE JoinLeft(n) /\ status[r] = "stashed"
  <2>1. /\ status[n] = "forked" /\ status'[n] = "running"
        /\ reg' = [reg EXCEPT ![n] = Merge(Merge(reg[n], reg[l]), reg[r])]
        /\ \A q \in Nodes : q \notin {n, l, r} => status'[q] = status[q]
    BY <1>13, ForkBranches DEF JoinLeft
  <2>2. /\ reg'[n].handles = reg[n].handles \cup reg[l].handles \cup reg[r].handles
        /\ reg'[n].owned = reg[n].owned \cup reg[l].owned \cup reg[r].owned
    BY <2>1, <1>3, MergeKeeps
  <2>3. CASE w \in {n, l, r}
    <3>1. Kept(n)
      BY <2>1, <2>2, <2>3 DEF Live
    <3> QED
      BY <3>1
  <2>4. CASE w \notin {n, l, r}
    BY <2>1, <2>4 DEF Live
  <2> QED
    BY <2>3, <2>4
<1>14. CASE JoinLeft(n) /\ status[r] # "stashed"
  <2>1. /\ status[n] = "forked" /\ status'[n] = "forked"
        /\ reg' = [reg EXCEPT ![n] = Merge(reg[n], reg[l])]
        /\ \A q \in Nodes : q \notin {n, l} => status'[q] = status[q]
    BY <1>14, ForkBranches DEF JoinLeft
  <2>2. /\ reg'[n].handles = reg[n].handles \cup reg[l].handles
        /\ reg'[n].owned = reg[n].owned \cup reg[l].owned
    BY <2>1, <1>3, MergeKeeps
  <2>3. CASE w \in {n, l}
    <3>1. Kept(n)
      BY <2>1, <2>2, <2>3 DEF Live
    <3> QED
      BY <3>1
  <2>4. CASE w \notin {n, l}
    BY <2>1, <2>4 DEF Live
  <2> QED
    BY <2>3, <2>4
<1>15. CASE JoinRight(n)
  <2>1. /\ status[n] = "forked" /\ status'[n] = "running" /\ w # l
        /\ reg' = [reg EXCEPT ![n] = Merge(reg[n], reg[r])]
        /\ \A q \in Nodes : q \notin {n, r} => status'[q] = status[q]
    BY <1>15, ForkBranches DEF JoinRight, Live
  <2>2. /\ reg'[n].handles = reg[n].handles \cup reg[r].handles
        /\ reg'[n].owned = reg[n].owned \cup reg[r].owned
    BY <2>1, <1>3, MergeKeeps
  <2>3. CASE w \in {n, r}
    <3>1. Kept(n)
      BY <2>1, <2>2, <2>3 DEF Live
    <3> QED
      BY <3>1
  <2>4. CASE w \notin {n, r}
    BY <2>1, <2>4 DEF Live
  <2> QED
    BY <2>3, <2>4
<1>16. CASE DropFork(n)
  BY <1>16, DropLoses
<1> QED
  BY <1>2, <1>4, <1>5, <1>6, <1>7, <1>8, <1>9, <1>10, <1>11, <1>12, <1>13, <1>14,
     <1>15, <1>16

LEMMA HandlesStep ==
  ASSUME IInv, IInv', NoneLost', NoHandleLost, [Next]_vars
  PROVE  NoHandleLost'
<1> SUFFICES ASSUME NEW f \in issued', f \notin cleared'
             PROVE  \E v \in Nodes : Live(v)' /\ f \in reg'[v].handles
  BY DEF NoHandleLost, Live
<1>1. ASSUME NEW n \in Nodes, Allocate(n), f \notin issued
      PROVE  Live(n)' /\ f \in reg'[n].handles
  <2>1. f = reg[n].next /\ reg'[n].handles = reg[n].handles \cup {reg[n].next}
    BY <1>1 DEF Allocate, Allocated, IInv, SInv, TypeOK, Registry
  <2>2. status'[n] = "running"
    BY <1>1 DEF Allocate, NoneLost, IInv, SInv, TypeOK
  <2> QED
    BY <2>1, <2>2 DEF Live
<1>2. CASE f \notin issued
  <2>1. \E n \in Nodes : Allocate(n)
    BY <1>2 DEF Next, vars, history, Replace, Finish, Terminate, Fork, ForkExhausted,
        StartRight, JoinSequential, Stash, JoinLeft, JoinRight, DropFork
  <2> QED
    BY <1>1, <1>2, <2>1
<1>3. CASE f \in issued
  <2>1. cleared \subseteq cleared'
    BY DEF Next, vars, history, Allocate, Replace, Finish, Terminate, Fork, ForkExhausted,
        StartRight, JoinSequential, Stash, JoinLeft, JoinRight, DropFork
  <2>2. PICK w \in Nodes : Live(w) /\ f \in reg[w].handles
    BY <1>3, <2>1 DEF NoHandleLost, Live
  <2>3. ~Replace(w)
    BY <2>2 DEF Replace
  <2>4. TypeOK'
    BY DEF IInv, SInv
  <2> QED
    BY <2>2, <2>3, <2>4, LiveKept
<1> QED
  BY <1>2, <1>3

\* D13, as long as no Fork was dropped: every fd ever allocated that no
\* Replace released is known to a branch that is alive or will be merged.
THEOREM NoHandleLostUntilDropped == Spec => [](NoneLost => NoHandleLost)
<1>1. Init => (NoneLost => NoHandleLost)
  BY DEF Init, NoHandleLost
<1>2. IInv /\ IInv' /\ (NoneLost => NoHandleLost) /\ [Next]_vars
        => (NoneLost => NoHandleLost)'
  BY LostStays, HandlesStep
<1> QED
  BY <1>1, <1>2, Inductive, PTL DEF Spec

\* D13 for a program whose timeouts drop no Fork.
THEOREM NoHandleLostHolds == ~Drops => (Spec => []NoHandleLost)
<1> SUFFICES ASSUME ~Drops PROVE Spec => []NoHandleLost
  OBVIOUS
<1>1. Spec => []NoneLost
  BY NoneLostHolds
<1> QED
  BY <1>1, NoHandleLostUntilDropped, PTL

-----------------------------------------------------------------------------
(* Compact cursors *)

\* Without Replace, the base, and the cursor a merge would take over, are just
\* past an fd that was issued (or 0), and the root never gets an offset.
Tight(c, fds) == c = 0 \/ c - 1 \in fds
Compacted(r, fds) ==
    /\ r.region.some => Tight(r.region.base, fds) /\ r.region.base + r.region.off <= r.next
    /\ Tight(Cursor(r), fds)

CompactInv ==
    /\ \A n \in Nodes : Compacted(reg[n], issued)
    /\ reg[Root].region.off = 0

LEMMA MergeCompacted ==
  ASSUME NEW p \in Registry, NEW s \in Registry, NEW fds \in SUBSET Nat,
         Compacted(p, fds), Compacted(s, fds)
  PROVE  /\ Compacted(Merge(p, s), fds)
         /\ p.region.off = 0 => Merge(p, s).region.off = 0
<1> DEFINE m == Merge(p, s)
<1>1. /\ m.next = IF Cursor(s) > p.next THEN Cursor(s) ELSE p.next
      /\ m.region = IF ~p.region.some /\ s.region.some
                    THEN At(s.region.base, 0) ELSE p.region
  BY DEF Merge
<1>2. /\ p.next \in Nat /\ p.region.some \in BOOLEAN /\ s.region.some \in BOOLEAN
      /\ p.region.base \in Nat /\ p.region.off \in Nat
      /\ s.region.base \in Nat /\ s.region.off \in Nat /\ s.next \in Nat
      /\ Cursor(s) \in Nat
  BY RegistryTypes DEF Registry, Region
<1>3. p.region.off = 0 => m.region.off = 0
  BY <1>1 DEF At
<1>4. m.region.some => Tight(m.region.base, fds) /\ m.region.base + m.region.off <= m.next
  <2>1. CASE ~p.region.some /\ s.region.some
    <3>1. m.region.base = s.region.base /\ m.region.off = 0 /\ Tight(s.region.base, fds)
      BY <1>1, <2>1 DEF At, Compacted
    <3>2. s.region.base <= Cursor(s)
      BY <1>2, <2>1 DEF Compacted, Cursor
    <3> QED
      BY <3>1, <3>2, <1>1, <1>2
  <2>2. CASE ~(~p.region.some /\ s.region.some)
    BY <2>2, <1>1, <1>2 DEF Compacted
  <2> QED
    BY <2>1, <2>2
<1>5. Tight(Cursor(m), fds)
  <2>1. CASE Cursor(s) > p.next
    <3>1. m.next = Cursor(s) /\ Tight(Cursor(s), fds)
      BY <2>1, <1>1 DEF Compacted
    <3>2. m.region.some => Tight(m.region.base, fds)
      BY <1>4
    <3> QED
      BY <3>1, <3>2 DEF Cursor
  <2>2. CASE ~(Cursor(s) > p.next) /\ m.region = p.region
    <3>1. Cursor(m) = Cursor(p)
      BY <2>2, <1>1 DEF Cursor
    <3> QED
      BY <3>1 DEF Compacted
  <2>3. CASE ~(Cursor(s) > p.next) /\ m.region # p.region
    <3>1. m.next = p.next /\ ~p.region.some
      BY <2>3, <1>1
    <3>2. Tight(p.next, fds)
      BY <3>1 DEF Compacted, Cursor
    <3>3. m.region.some => Tight(m.region.base, fds)
      BY <1>4
    <3> QED
      BY <3>1, <3>2, <3>3 DEF Cursor
  <2> QED
    BY <2>1, <2>2, <2>3
<1> QED
  BY <1>3, <1>4, <1>5 DEF Compacted

\* allocate keeps that shape, since it issues the fd; so does the offset of a
\* right branch.
LEMMA AllocatedCompacted ==
  ASSUME NEW p \in Registry, NEW fds \in SUBSET Nat, Compacted(p, fds)
  PROVE  /\ Compacted(Allocated(p), fds \cup {p.next})
         /\ Allocated(p).region = p.region
         /\ \A off \in Nat : Compacted(Offset(p, off), fds)
<1>1. /\ p.next \in Nat /\ p.region.some \in BOOLEAN
      /\ p.region.base \in Nat /\ p.region.off \in Nat
  BY DEF Registry, Region
<1>2. /\ Allocated(p).next = p.next + 1
      /\ Allocated(p).region = p.region
  BY DEF Allocated, Registry
<1>3. Compacted(Allocated(p), fds \cup {p.next})
  <2>1. Cursor(Allocated(p)) = p.next + 1
    BY <1>1, <1>2 DEF Cursor, Compacted
  <2>2. Tight(p.next + 1, fds \cup {p.next})
    BY <1>1 DEF Tight
  <2>3. p.region.some =>
          /\ Tight(p.region.base, fds \cup {p.next})
          /\ p.region.base + p.region.off <= p.next + 1
    BY <1>1 DEF Compacted, Tight
  <2> QED
    BY <1>2, <2>1, <2>2, <2>3 DEF Compacted
<1>4. ASSUME NEW off \in Nat
      PROVE  Compacted(Offset(p, off), fds)
  <2>1. /\ Offset(p, off).next = Base(p) + off
        /\ Offset(p, off).region = At(Base(p), off)
    BY DEF Offset, Registry
  <2>2. Tight(Base(p), fds) /\ Base(p) \in Nat
    BY <1>1 DEF Base, Compacted, Cursor
  <2> QED
    BY <2>1, <2>2 DEF Compacted, Cursor, At
<1> QED
  BY <1>2, <1>3, <1>4

LEMMA CompactStep ==
  ASSUME ~Replaces, IInv, CompactInv, [Next]_vars
  PROVE  CompactInv'
<1> USE DEF IInv, SInv, TypeOK
<1>1. CASE UNCHANGED vars
  BY <1>1 DEF vars, history, CompactInv
<1>2. SUFFICES ASSUME NEW n \in Nodes,
                      \/ Allocate(n) \/ Finish(n)
                      \/ \E x \in Resources : Terminate(n, x)
                      \/ \E ln \in SUBSET names[n] :
                            \E rn \in SUBSET names[n] : Fork(n, ln, rn)
                      \/ ForkExhausted(n) \/ StartRight(n) \/ JoinSequential(n)
                      \/ Stash(n) \/ JoinLeft(n) \/ JoinRight(n) \/ DropFork(n)
               PROVE  CompactInv'
  BY <1>1 DEF Next, Replace
<1> DEFINE l == LeftOf(fork[n])
<1> DEFINE r == RightOf(fork[n])
<1>3. /\ Root \in Nodes /\ \A q \in Nodes : reg[q] \in Registry
      /\ \A q \in Nodes : Compacted(reg[q], issued)
      /\ reg[Root].region.off = 0
      /\ status[n] = "forked" => l \in Nodes /\ r \in Nodes
  BY ForkBranches DEF CompactInv, Nodes
<1>4. CASE Allocate(n)
  <2>1. /\ reg' = [reg EXCEPT ![n] = Allocated(reg[n])]
        /\ issued' = issued \cup {reg[n].next}
    BY <1>4 DEF Allocate
  <2>2. /\ Compacted(Allocated(reg[n]), issued')
        /\ Allocated(reg[n]).region = reg[n].region
    BY <2>1, <1>3, AllocatedCompacted
  <2>3. ASSUME NEW q \in Nodes
        PROVE  Compacted(reg[q], issued')
    BY <2>1, <1>3 DEF Compacted, Tight
  <2> QED
    BY <2>1, <2>2, <2>3, <1>3 DEF CompactInv
<1>5. CASE \E x \in Resources : Terminate(n, x)
  <2>1. PICK x \in Resources :
          reg' = [reg EXCEPT ![n] = [reg[n] EXCEPT !.owned = @ \cup {x}]]
    BY <1>5 DEF Terminate
  <2>2. issued' = issued
    BY <1>5 DEF Terminate
  <2>3. \A q \in Nodes : reg'[q].next = reg[q].next /\ reg'[q].region = reg[q].region
    BY <2>1, <1>3 DEF Registry
  <2> QED
    BY <2>2, <2>3, <1>3 DEF CompactInv, Compacted, Cursor
<1>6. CASE \E ln \in SUBSET names[n] : \E rn \in SUBSET names[n] : Fork(n, ln, rn)
  <2>1. /\ seq \in 1 .. MaxForks /\ issued' = issued
        /\ reg' = [reg EXCEPT ![LeftOf(seq)] = reg[n],
                              ![RightOf(seq)] = Offset(reg[n], OffsetFor(seq))]
    BY <1>6, BoundAssumption DEF Fork, history
  <2>2. /\ LeftOf(seq) # Root /\ RightOf(seq) # Root
        /\ OffsetFor(seq) \in Nat
    BY <2>1, BranchNodes, OffsetStep
  <2>3. Compacted(Offset(reg[n], OffsetFor(seq)), issued)
    BY <2>2, <1>3, AllocatedCompacted
  <2> QED
    BY <2>1, <2>2, <2>3, <1>3 DEF CompactInv
<1>7. CASE Finish(n) \/ ForkExhausted(n) \/ StartRight(n) \/ Stash(n)
  BY <1>7 DEF Finish, ForkExhausted, StartRight, Stash, history, CompactInv
<1>8. ASSUME NEW m \in Registry, Compacted(m, issued),
             reg[n].region.off = 0 => m.region.off = 0,
             reg' = [reg EXCEPT ![n] = m], issued' = issued
      PROVE  CompactInv'
  BY <1>8, <1>3 DEF CompactInv
<1>9. ASSUME status[n] = "forked", NEW p \in Registry, Compacted(p, issued),
             NEW b \in {l, r}
      PROVE  /\ Merge(p, reg[b]) \in Registry
             /\ Compacted(Merge(p, reg[b]), issued)
             /\ p.region.off = 0 => Merge(p, reg[b]).region.off = 0
  BY <1>9, <1>3, RegistryTypes, MergeCompacted
<1>10. CASE JoinSequential(n) \/ (JoinLeft(n) /\ status[r] = "stashed")
  <2>1. /\ status[n] = "forked" /\ issued' = issued
        /\ reg' = [reg EXCEPT ![n] = Merge(Merge(reg[n], reg[l]), reg[r])]
    BY <1>10 DEF JoinSequential, JoinLeft, history
  <2> DEFINE m == Merge(reg[n], reg[l])
  <2>2. /\ m \in Registry /\ Compacted(m, issued)
        /\ reg[n].region.off = 0 => m.region.off = 0
    BY <2>1, <1>3, <1>9
  <2> HIDE DEF m
  <2>3. /\ Merge(m, reg[r]) \in Registry /\ Compacted(Merge(m, reg[r]), issued)
        /\ m.region.off = 0 => Merge(m, reg[r]).region.off = 0
    BY <2>1, <2>2, <1>9
  <2> QED
    BY <2>1, <2>2, <2>3, <1>8 DEF m
<1>11. CASE JoinLeft(n) /\ status[r] # "stashed"
  <2>1. /\ status[n] = "forked" /\ issued' = issued
        /\ reg' = [reg EXCEPT ![n] = Merge(reg[n], reg[l])]
    BY <1>11 DEF JoinLeft, history
  <2> QED
    BY <2>1, <1>3, <1>8, <1>9
<1>12. CASE JoinRight(n) \/ (DropFork(n) /\ status[r] = "stashed")
  <2>1. /\ status[n] = "forked" /\ issued' = issued
        /\ reg' = [reg EXCEPT ![n] = Merge(reg[n], reg[r])]
    BY <1>12 DEF JoinRight, DropFork, history
  <2> QED
    BY <2>1, <1>3, <1>8, <1>9
<1>13. CASE DropFork(n) /\ status[r] # "stashed"
  <2>1. issued' = issued /\ reg' = reg
    BY <1>13 DEF DropFork, history
  <2> QED
    BY <2>1, <1>3 DEF CompactInv
<1> QED
  BY <1>2, <1>4, <1>5, <1>6, <1>7, <1>10, <1>11, <1>12, <1>13

LEMMA CompactInductive == ~Replaces => (Spec => []CompactInv)
<1> SUFFICES ASSUME ~Replaces PROVE Spec => []CompactInv
  OBVIOUS
<1>1. Init => CompactInv
  BY BranchNodes DEF Init, CompactInv, Compacted, Tight, Cursor, EmptyRegistry, NoRegion,
     Nodes
<1>2. IInv /\ CompactInv /\ [Next]_vars => CompactInv'
  BY CompactStep
<1> QED
  BY <1>1, <1>2, Inductive, PTL DEF Spec

\* Without Replace, merges never leave a gap at the root: its cursor is 0 or
\* just past an fd that was allocated.
THEOREM CompactHolds == ~Replaces => (Spec => []Compact)
<1> SUFFICES ASSUME ~Replaces PROVE Spec => []Compact
  OBVIOUS
<1>1. CompactInv /\ TypeOK => Compact
  <2> SUFFICES ASSUME CompactInv, TypeOK
               PROVE  Tight(reg[Root].next, issued)
    BY DEF Compact, Tight
  <2>1. reg[Root].next \in Nat /\ reg[Root].region.base \in Nat
    BY DEF TypeOK, Registry, Region, Nodes
  <2>2. Compacted(reg[Root], issued) /\ reg[Root].region.off = 0
    BY DEF CompactInv, Nodes
  <2>3. Cursor(reg[Root]) = reg[Root].next
    BY <2>1, <2>2 DEF Cursor
  <2> QED
    BY <2>2, <2>3 DEF Compacted
<1>2. Spec => []CompactInv
  BY CompactInductive
<1> QED
  BY <1>1, <1>2, TypeCorrect, PTL

-----------------------------------------------------------------------------
(* Linear marks *)

\* Without Replace and while no Fork was dropped, what a branch terminated is
\* marked in a registry that still takes part, and every branch that takes
\* part hangs from a Fork that is pending above it.
MarkInv ==
    /\ \A x \in ended : \E n \in Nodes : Live(n) /\ x \in reg[n].owned
    /\ \A n \in Nodes \ {Root} : Attached(n) =>
          \E q \in Nodes : status[q] = "forked"
                           /\ n \in {LeftOf(fork[q]), RightOf(fork[q])}
    /\ \A q \in Nodes : status[q] = "forked" => q[1] < fork[q]

LEMMA Least ==
  ASSUME NEW T \in SUBSET Nat, T # {}
  PROVE  \E x \in T : \A y \in T : x <= y
<1>1. \E x \in T : \A y \in T : <<y, x>> \notin OpToRel(<, Nat)
  BY NatLessThanWellFounded, WFMin, Zenon
<1>2. ASSUME NEW x \in Nat, NEW y \in Nat, <<y, x>> \notin OpToRel(<, Nat)
      PROVE  ~(y < x)
  BY <1>2, Zenon DEF OpToRel
<1>3. ASSUME NEW x \in Nat, NEW y \in Nat, ~(y < x)
      PROVE  x <= y
  BY <1>3
<1>4. T \subseteq Nat
  OBVIOUS
<1> HIDE <1>1
<1> QED
  BY <1>1, <1>2, <1>3, <1>4, Zenon

LEMMA NodeNumbers ==
  /\ \A n \in Nodes : n[1] \in Nat
  /\ \A k \in 1 .. MaxForks : LeftOf(k)[1] = k /\ RightOf(k)[1] = k
  BY BoundAssumption DEF Nodes, Root, LeftOf, RightOf

\* When the root runs, no other branch takes part: the one of the earliest
\* Fork would need a parent of an earlier one.
LEMMA RootAlone ==
  ASSUME IInv, MarkInv, status[Root] = "running", NEW n \in Nodes, Attached(n)
  PROVE  n = Root
<1> SUFFICES ASSUME n # Root PROVE FALSE
  OBVIOUS
<1> DEFINE T == {k \in Nat : \E m \in Nodes \ {Root} : Attached(m) /\ m[1] = k}
<1>1. n[1] \in T
  BY NodeNumbers
<1>2. PICK k \in T : \A j \in T : k <= j
  BY <1>1, Least
<1>3. PICK m \in Nodes \ {Root} : Attached(m) /\ m[1] = k
  BY <1>2
<1>4. PICK q \in Nodes : /\ status[q] = "forked"
                         /\ m \in {LeftOf(fork[q]), RightOf(fork[q])}
  BY <1>3 DEF MarkInv
<1>5. fork[q] \in 1 .. MaxForks /\ q[1] < fork[q] /\ q[1] \in Nat
  BY <1>4, NodeNumbers DEF MarkInv, IInv, SInv, ForkInv
<1>6. m[1] = fork[q]
  BY <1>4, <1>5, NodeNumbers
<1>7. q # Root /\ Attached(q)
  BY <1>4 DEF Attached
<1>8. q[1] \in T
  BY <1>5, <1>7
<1>9. k <= q[1]
  BY <1>2, <1>8
<1> QED
  BY <1>3, <1>5, <1>6, <1>9

LEMMA RefusalStep ==
  ASSUME ~Replaces, IInv, IInv', NoneLost', MarkInv, [Next]_vars
  PROVE  MarkInv'
<1>1. TypeOK /\ TypeOK' /\ ForkInv /\ TreeInv
  BY DEF IInv, SInv
<1>2. ASSUME NEW x \in ended'
      PROVE  \E n \in Nodes : Live(n)' /\ x \in reg'[n].owned
  <2>1. CASE x \in ended
    <3>1. PICK w \in Nodes : Live(w) /\ x \in reg[w].owned
      BY <2>1 DEF MarkInv
    <3>2. ~Replace(w)
      BY DEF Replace
    <3> QED
      BY <3>1, <3>2, <1>1, LiveKept
  <2>2. CASE x \notin ended
    <3>1. PICK n \in Nodes : Terminate(n, x)
      <4>1. \E n \in Nodes, y \in Resources : Terminate(n, y)
        BY <2>2 DEF Next, vars, history, Replace, Allocate, Finish, Fork, ForkExhausted,
            StartRight, JoinSequential, Stash, JoinLeft, JoinRight, DropFork
      <4> QED
        BY <2>2, <4>1 DEF Terminate
    <3>2. /\ status'[n] = "running"
          /\ reg' = [reg EXCEPT ![n] = [reg[n] EXCEPT !.owned = @ \cup {x}]]
      BY <3>1 DEF Terminate
    <3>3. x \in reg'[n].owned
      BY <3>2, <1>1 DEF TypeOK, Registry
    <3> QED
      BY <3>2, <3>3 DEF Live
  <2> QED
    BY <2>1, <2>2
<1>3. /\ \A n \in Nodes \ {Root} : Attached(n)' =>
            \E q \in Nodes : status'[q] = "forked"
                             /\ n \in {LeftOf(fork'[q]), RightOf(fork'[q])}
      /\ \A q \in Nodes : status'[q] = "forked" => q[1] < fork'[q]
  <2> USE <1>1 DEF TypeOK
  <2> DEFINE Child(n, q) == status[q] = "forked"
                            /\ n \in {LeftOf(fork[q]), RightOf(fork[q])}
  <2>1. /\ \A n \in Nodes \ {Root} : Attached(n) => \E q \in Nodes : Child(n, q)
        /\ \A q \in Nodes : status[q] = "forked" => q[1] < fork[q]
    BY DEF MarkInv
  \* Steps that end no Fork and begin none.
  <2>2. ASSUME \A q \in Nodes : Attached(q)' => Attached(q),
               \A q \in Nodes : status'[q] = "forked" <=> status[q] = "forked",
               fork' = fork
        PROVE  <1>3!1 /\ <1>3!2
    BY <2>1, <2>2
  <2>3. CASE UNCHANGED vars
    BY <2>2, <2>3 DEF vars, history, Attached
  <2>4. SUFFICES ASSUME NEW n \in Nodes,
                        \/ Allocate(n) \/ Finish(n)
                        \/ \E x \in Resources : Terminate(n, x)
                        \/ \E ln \in SUBSET names[n] :
                              \E rn \in SUBSET names[n] : Fork(n, ln, rn)
                        \/ ForkExhausted(n) \/ StartRight(n) \/ JoinSequential(n)
                        \/ Stash(n) \/ JoinLeft(n) \/ JoinRight(n) \/ DropFork(n)
                 PROVE  <1>3!1 /\ <1>3!2
    BY <2>3 DEF Next, Replace
  <2> DEFINE l == LeftOf(fork[n])
  <2> DEFINE r == RightOf(fork[n])
  <2>5. status[n] = "forked" =>
           /\ l \in Nodes /\ r \in Nodes /\ l # r
           /\ \A q \in Nodes : q # n /\ status[q] = "forked" =>
                 /\ LeftOf(fork[q]) \notin {l, r} /\ RightOf(fork[q]) \notin {l, r}
    BY ForkBranches
  \* Steps that end n's Fork.
  <2>6. ASSUME status[n] = "forked", status'[n] # "forked",
               status[l] # "forked", status[r] # "forked",
               status'[l] \in Gone, status'[r] \in Gone,
               \A q \in Nodes \ {n, l, r} : status'[q] = status[q],
               \A q \in Nodes \ {n} : fork'[q] = fork[q]
        PROVE  <1>3!1 /\ <1>3!2
    <3>1. ASSUME NEW q \in Nodes, status'[q] = "forked"
          PROVE  q # n /\ status[q] = "forked" /\ fork'[q] = fork[q]
      <4>1. q \notin {n, l, r}
        BY <2>6, <3>1 DEF Gone
      <4> QED
        BY <2>6, <3>1, <4>1
    <3>2. ASSUME NEW m \in Nodes \ {Root}, Attached(m)'
          PROVE  \E q \in Nodes : status'[q] = "forked"
                                  /\ m \in {LeftOf(fork'[q]), RightOf(fork'[q])}
      <4>1. m \notin {l, r} /\ Attached(m)
        BY <2>6, <3>2 DEF Attached, Gone
      <4>2. PICK q \in Nodes : Child(m, q)
        BY <4>1, <2>1
      <4>3. q # n
        BY <4>1, <4>2
      <4>4. q \notin {l, r}
        BY <2>6, <4>2
      <4> QED
        BY <2>6, <4>2, <4>3, <4>4
    <3> QED
      BY <2>1, <3>1, <3>2
  <2>7. CASE Allocate(n)
    BY <2>7, <2>2 DEF Allocate, Attached
  <2>8. CASE Finish(n)
    BY <2>8, <2>2 DEF Finish, Attached
  <2>9. CASE \E x \in Resources : Terminate(n, x)
    BY <2>9, <2>2 DEF Terminate, Attached
  <2>10. CASE ForkExhausted(n)
    BY <2>10, <2>2 DEF ForkExhausted, Attached
  <2>11. CASE StartRight(n)
    BY <2>11, <2>2, <2>5 DEF StartRight, Attached
  <2>12. CASE Stash(n)
    BY <2>12, <2>2, <2>5 DEF Stash, Attached
  <2>13. CASE JoinSequential(n)
    <3>1. /\ status[n] = "forked" /\ fork' = [fork EXCEPT ![n] = 0]
          /\ status' = [status EXCEPT ![n] = "running", ![l] = "joined", ![r] = "joined"]
          /\ status[l] = "finished" /\ status[r] = "finished"
      BY <2>13 DEF JoinSequential
    <3> QED
      BY <3>1, <2>5, <2>6 DEF Gone
  <2>14. CASE JoinLeft(n) /\ status[r] = "stashed"
    <3>1. /\ status[n] = "forked" /\ fork' = [fork EXCEPT ![n] = 0]
          /\ status' = [status EXCEPT ![n] = "running", ![l] = "joined", ![r] = "joined"]
          /\ status[l] = "finished" /\ status[r] = "stashed"
      BY <2>14 DEF JoinLeft
    <3> QED
      BY <3>1, <2>5, <2>6 DEF Gone
  <2>15. CASE JoinLeft(n) /\ status[r] # "stashed"
    <3>1. /\ status[n] = "forked" /\ fork' = fork
          /\ status' = [status EXCEPT ![n] = "forked", ![l] = "joined", ![r] = @]
          /\ status[l] = "finished"
      BY <2>15 DEF JoinLeft
    <3> QED
      BY <3>1, <2>2, <2>5 DEF Attached
  <2>16. CASE JoinRight(n)
    <3>1. /\ status[n] = "forked" /\ status[l] = "joined" /\ status[r] = "finished"
          /\ fork' = [fork EXCEPT ![n] = 0]
          /\ status' = [status EXCEPT ![n] = "running", ![r] = "joined"]
      BY <2>16 DEF JoinRight
    <3> QED
      BY <3>1, <2>5, <2>6 DEF Gone
  <2>17. CASE DropFork(n)
    BY <2>17, DropLoses
  <2>18. ASSUME NEW ln \in SUBSET names[n], NEW rn \in SUBSET names[n], Fork(n, ln, rn)
         PROVE  <1>3!1 /\ <1>3!2
    <3> DEFINE a == LeftOf(seq)
    <3> DEFINE b == RightOf(seq)
    <3>1. /\ seq \in 1 .. MaxForks /\ a \in Nodes /\ b \in Nodes
          /\ status[n] = "running" /\ status[a] = "unborn" /\ status[b] = "unborn"
      BY <2>18, BranchNodes, BoundAssumption DEF Fork, TreeInv
    <3>2. /\ fork' = [fork EXCEPT ![n] = seq]
          /\ status'[n] = "forked"
          /\ status'[a] = "running" /\ status'[b] \in {"running", "waiting"}
          /\ \A q \in Nodes \ {n, a, b} : status'[q] = status[q]
      BY <2>18, <3>1, BranchNodes DEF Fork
    <3>3. n[1] < seq
      <4>1. CASE n = Root
        BY <4>1, <3>1 DEF Root
      <4>2. CASE n # Root
        <5>1. PICK k \in 1 .. MaxForks : n = LeftOf(k) \/ n = RightOf(k)
          BY <4>2 DEF Nodes, LeftOf, RightOf
        <5>2. ~(k >= seq)
          BY <5>1, <3>1 DEF TreeInv
        <5> QED
          BY <5>1, <5>2, <3>1, NodeNumbers
      <4> QED
        BY <4>1, <4>2
    <3>4. ASSUME NEW q \in Nodes, status'[q] = "forked", q # n
          PROVE  status[q] = "forked" /\ fork'[q] = fork[q]
      <4>1. q \notin {n, a, b}
        BY <3>2, <3>4
      <4> QED
        BY <3>2, <3>4, <4>1
    <3>5. ASSUME NEW m \in Nodes \ {Root}, Attached(m)'
          PROVE  \E q \in Nodes : status'[q] = "forked"
                                  /\ m \in {LeftOf(fork'[q]), RightOf(fork'[q])}
      <4>1. CASE m \in {a, b}
        BY <4>1, <3>2
      <4>2. CASE m \notin {a, b}
        <5>1. Attached(m)
          BY <4>2, <3>1, <3>2, <3>5 DEF Attached
        <5>2. PICK q \in Nodes : Child(m, q)
          BY <5>1, <2>1
        <5>3. q \notin {n, a, b}
          BY <5>2, <3>1
        <5> QED
          BY <5>2, <5>3, <3>2
      <4> QED
        BY <4>1, <4>2
    <3> QED
      BY <2>1, <3>2, <3>3, <3>4, <3>5
  <2> QED
    BY <2>4, <2>7, <2>8, <2>9, <2>10, <2>11, <2>12, <2>13, <2>14, <2>15, <2>16, <2>17, <2>18
<1> QED
  BY <1>2, <1>3 DEF MarkInv

LEMMA MarkInductive == ~Replaces => (Spec => [](NoneLost => MarkInv))
<1> SUFFICES ASSUME ~Replaces PROVE Spec => [](NoneLost => MarkInv)
  OBVIOUS
<1>1. Init => (NoneLost => MarkInv)
  BY DEF Init, MarkInv, Attached
<1>2. IInv /\ IInv' /\ (NoneLost => MarkInv) /\ [Next]_vars => (NoneLost => MarkInv)'
  BY LostStays, RefusalStep
<1> QED
  BY <1>1, <1>2, Inductive, PTL DEF Spec

\* F2, without Replace: when every Fork is over and was joined, what any
\* branch terminated, on either path, is marked in the root's registry.
THEOREM EndedIsRefusedHolds == ~Replaces => (Spec => []EndedIsRefused)
<1> SUFFICES ASSUME ~Replaces PROVE Spec => []EndedIsRefused
  OBVIOUS
<1>1. IInv /\ (NoneLost => MarkInv) => EndedIsRefused
  <2> SUFFICES ASSUME IInv, NoneLost => MarkInv, AllJoined, NEW x \in ended
               PROVE  x \in reg[Root].owned
    BY DEF EndedIsRefused
  <2>1. MarkInv /\ status[Root] = "running"
    BY DEF AllJoined, NoneLost
  <2>2. PICK n \in Nodes : Live(n) /\ x \in reg[n].owned
    BY <2>1 DEF MarkInv
  <2>3. n = Root
    BY <2>1, <2>2, RootAlone DEF Live, Attached
  <2> QED
    BY <2>2, <2>3
<1> QED
  BY <1>1, MarkInductive, Inductive, PTL

=============================================================================
