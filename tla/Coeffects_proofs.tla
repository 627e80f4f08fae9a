-------------------------- MODULE Coeffects_proofs ---------------------------
(***************************************************************************)
(* Proofs about Coeffects, for any keys, values and components and any      *)
(* number of bindings.                                                      *)
(***************************************************************************)
EXTENDS Coeffects, SequenceTheorems, TLAPS

\* The oldest binding of a key that is on the stack knows what the tasks alone
\* would have bound it to; a key that is not there is bound to just that.
Knows(k) ==
    k \notin crossed =>
    /\ ~OnStack(k) => table[k] = base[k]
    /\ \A i \in 1 .. Len(undo) :
         undo[i].key = k /\ (\A j \in 1 .. i - 1 : undo[j].key # k) => undo[i].old = base[k]

OldestKnows == \A k \in Keys : Knows(k)

\* What a task puts back is its own, unless it was captured over the segment's.
OwnKnown == \A u \in private : ~u.over => u.old = u.was

\* The state of a component is what it was told last, about the table it saw
\* then.
Told ==
    /\ \A i \in 1 .. Len(last_satisfied) : last_satisfied[i] = Satisfied(synced[i], Deps[i])
    /\ \A i \in All : i \in active <=> i <= Len(last_satisfied) /\ last_satisfied[i]

IInv == TypeOK /\ OldestKnows /\ OwnKnown /\ Told
-----------------------------------------------------------------------------

LEMMA InitHolds == Init => IInv
<1> SUFFICES ASSUME Init PROVE IInv
  OBVIOUS
<1> USE CoeffectAssumption DEF Init
<1>1. Len(undo) = 0 /\ Len(last_satisfied) = 0 /\ Len(Deps) \in Nat
  OBVIOUS
<1>2. TypeOK
  <2>1. Empty \in Tables
    BY DEF Empty, Tables
  <2>2. undo \in Seq(Undos) /\ last_satisfied \in Seq(BOOLEAN)
    OBVIOUS
  <2>3. synced \in [All -> Tables] /\ active \in SUBSET All
    BY <2>1
  <2>4. table \in Tables /\ base \in Tables
    BY <2>1
  <2>5. loaded \in 0 .. Len(Deps) /\ Len(last_satisfied) <= loaded /\ sets \in Nat
    BY <1>1
  <2> QED
    BY <2>2, <2>3, <2>4, <2>5 DEF TypeOK
<1>3. OldestKnows /\ OwnKnown /\ Told
  BY <1>1 DEF OldestKnows, Knows, OnStack, OwnKnown, Told
<1> QED
  BY <1>2, <1>3 DEF IInv

\* What the store's operations keep: the types of the table and of base.
LEMMA SetDependencyKeeps ==
    ASSUME IInv, NEW k \in Keys, NEW v \in Values, SetDependency(k, v)
    PROVE  IInv'
<1> USE CoeffectAssumption DEF IInv, SetDependency, Bind, components
<1>1. UndoOf(k) \in Undos
  BY DEF TypeOK, Tables, Undos, UndoOf
<1>2. TypeOK'
  BY <1>1 DEF TypeOK, Tables
<1>3. /\ Len(undo') = Len(undo) + 1
      /\ \A i \in 1 .. Len(undo) : undo'[i] = undo[i]
      /\ undo'[Len(undo) + 1] = UndoOf(k)
  BY <1>1 DEF TypeOK
<1>4. Len(undo) \in Nat
  BY DEF TypeOK
<1>5. OldestKnows'
  <2> SUFFICES ASSUME NEW l \in Keys PROVE Knows(l)'
    BY DEF OldestKnows
  <2> SUFFICES ASSUME l \notin crossed
               PROVE  /\ ~OnStack(l)' => table'[l] = base'[l]
                      /\ \A i \in 1 .. Len(undo') :
                           undo'[i].key = l /\ (\A j \in 1 .. i - 1 : undo'[j].key # l) => undo'[i].old = base'[l]
    BY DEF Knows
  <2>1. ~OnStack(l)' => table'[l] = base'[l]
    <3>1. ~OnStack(l)' => l # k /\ ~OnStack(l)
      BY <1>3, <1>4 DEF OnStack, UndoOf
    <3> QED
      BY <3>1 DEF OldestKnows, Knows, TypeOK, Tables
  <2>2. ASSUME NEW i \in 1 .. Len(undo'), undo'[i].key = l, \A j \in 1 .. i - 1 : undo'[j].key # l
        PROVE  undo'[i].old = base'[l]
    <3>1. CASE i \in 1 .. Len(undo)
      <4>1. undo'[i] = undo[i] /\ i - 1 <= Len(undo)
        BY <1>3, <1>4, <3>1
      <4>2. \A j \in 1 .. i - 1 : undo[j].key # l
        BY <1>3, <1>4, <2>2, <3>1
      <4> QED
        BY <2>2, <3>1, <4>1, <4>2 DEF OldestKnows, Knows
    <3>2. CASE i = Len(undo) + 1
      <4>1. l = k /\ undo'[i].old = table[k]
        BY <1>3, <2>2, <3>2 DEF UndoOf
      <4>2. ~OnStack(k)
        BY <1>3, <1>4, <2>2, <3>2, <4>1 DEF OnStack
      <4> QED
        BY <4>1, <4>2 DEF OldestKnows, Knows
    <3> QED
      BY <1>3, <1>4, <3>1, <3>2
  <2> QED
    BY <2>1, <2>2
<1>6. Told' /\ OwnKnown'
  BY DEF Told, OwnKnown
<1> QED
  BY <1>2, <1>5, <1>6

\* A task that writes what it would write alone, or shares the key.
LEMMA PrivateKeeps ==
    ASSUME IInv, NEW k \in Keys, NEW v \in Values \cup {Unbound}, NEW b \in Values \cup {Unbound},
           NEW over \in BOOLEAN, WritePrivately(k, v, b, over), ~over => v = b,
           TypeOK', OwnKnown', UNCHANGED <<undo, components>>
    PROVE  IInv'
<1> USE DEF IInv, WritePrivately, Bind, components
<1>1. OldestKnows'
  <2> SUFFICES ASSUME NEW l \in Keys PROVE Knows(l)'
    BY DEF OldestKnows
  <2>1. CASE l # k
    <3>1. table'[l] = table[l] /\ base'[l] = base[l] /\ (l \in crossed' <=> l \in crossed)
      BY <2>1 DEF TypeOK, Tables
    <3> QED
      BY <3>1 DEF OldestKnows, Knows, OnStack
  <2>2. CASE l = k /\ (OnStack(k) \/ over)
    BY <2>2 DEF Knows
  <2>3. CASE l = k /\ ~OnStack(k) /\ ~over
    BY <2>3 DEF Knows, OnStack, TypeOK, Tables
  <2> QED
    BY <2>1, <2>2, <2>3
<1>2. Told'
  BY DEF Told
<1> QED
  BY <1>1, <1>2

LEMMA UndoHandedKeeps ==
    ASSUME IInv, NEW u \in handed, UndoHanded(u)
    PROVE  IInv'
<1> USE DEF IInv, UndoHanded, Bind, components
<1>1. u.key \in Keys /\ u.old \in Values \cup {Unbound} /\ OnStack(u.key)
  BY DEF TypeOK, Undos, OnStack
<1>2. TypeOK'
  BY <1>1 DEF TypeOK, Tables
<1>3. OldestKnows'
  BY <1>1 DEF OldestKnows, Knows, OnStack, TypeOK, Tables
<1>4. Told' /\ OwnKnown'
  BY DEF Told, OwnKnown
<1> QED
  BY <1>2, <1>3, <1>4

LEMMA RecoverNextKeeps ==
    ASSUME IInv, RecoverNext
    PROVE  IInv'
<1> DEFINE n == Len(undo)
<1> USE DEF IInv, RecoverNext, Bind, components
<1>1. n \in Nat \ {0} /\ undo[n] \in Undos
  BY EmptySeq DEF TypeOK
<1>2. undo[n].key \in Keys /\ undo[n].old \in Values \cup {Unbound}
  BY <1>1 DEF Undos
<1>3. undo' \in Seq(Undos) /\ Len(undo') = n - 1 /\ \A i \in 1 .. n - 1 : undo'[i] = undo[i]
  <2>1. undo \in Seq(Undos) /\ undo' = SubSeq(undo, 1, n - 1)
    BY DEF TypeOK
  <2>2. \A i \in 1 .. n - 1 : undo[i] \in Undos
    BY <1>1, <2>1
  <2> HIDE DEF n
  <2>3. 1 \in Int /\ n - 1 \in Int /\ n - 1 - 1 + 1 = n - 1
        /\ (IF 1 <= n - 1 THEN n - 1 - 1 + 1 ELSE 0) = n - 1
    BY <1>1
  <2>4. /\ SubSeq(undo, 1, n - 1) \in Seq(Undos)
        /\ Len(SubSeq(undo, 1, n - 1)) = n - 1
        /\ \A i \in 1 .. n - 1 : SubSeq(undo, 1, n - 1)[i] = undo[1 + i - 1]
    BY <2>2, <2>3, SubSeqProperties
  <2>5. \A i \in 1 .. n - 1 : 1 + i - 1 = i
    BY <2>3
  <2> QED
    BY <2>1, <2>4, <2>5
<1> HIDE DEF n
<1>4. table' = [table EXCEPT ![undo[n].key] = undo[n].old]
  BY DEF n
<1>5. TypeOK'
  BY <1>2, <1>3, <1>4 DEF TypeOK, Tables
<1>6. OldestKnows'
  <2> SUFFICES ASSUME NEW l \in Keys PROVE Knows(l)'
    BY DEF OldestKnows
  <2> SUFFICES ASSUME l \notin crossed
               PROVE  /\ ~OnStack(l)' => table'[l] = base'[l]
                      /\ \A i \in 1 .. Len(undo') :
                           undo'[i].key = l /\ (\A j \in 1 .. i - 1 : undo'[j].key # l) => undo'[i].old = base'[l]
    BY DEF Knows
  <2>1. ~OnStack(l)' => table'[l] = base'[l]
    <3> SUFFICES ASSUME ~OnStack(l)' PROVE table'[l] = base[l]
      OBVIOUS
    <3>1. \A j \in 1 .. n - 1 : undo[j].key # l
      BY <1>3 DEF OnStack
    <3>2. CASE undo[n].key = l
      <4>1. undo[n].old = base[l]
        BY SMTT(60), <1>1, <3>1, <3>2 DEF OldestKnows, Knows, n
      <4> QED
        BY <1>2, <1>4, <3>2, <4>1 DEF TypeOK, Tables
    <3>3. CASE undo[n].key # l
      <4>1. ~OnStack(l)
        BY <1>1, <3>1, <3>3 DEF OnStack, n
      <4> QED
        BY <1>4, <3>3, <4>1 DEF OldestKnows, Knows, TypeOK, Tables
    <3> QED
      BY <3>2, <3>3
  <2>2. ASSUME NEW i \in 1 .. Len(undo'), undo'[i].key = l, \A j \in 1 .. i - 1 : undo'[j].key # l
        PROVE  undo'[i].old = base'[l]
    <3>1. i \in 1 .. n - 1 /\ undo'[i] = undo[i]
      BY <1>1, <1>3, <2>2
    <3>2. \A j \in 1 .. i - 1 : undo[j].key # l
      BY <1>1, <1>3, <2>2, <3>1
    <3>3. i \in 1 .. Len(undo) /\ undo[i].key = l
      BY <1>1, <2>2, <3>1 DEF n
    <3> QED
      BY <3>1, <3>2, <3>3 DEF OldestKnows, Knows
  <2> QED
    BY <2>1, <2>2
<1>7. Told' /\ OwnKnown'
  BY DEF Told, OwnKnown
<1> QED
  BY <1>5, <1>6, <1>7

LEMMA SyncKeeps ==
    ASSUME IInv, SyncComponents
    PROVE  IInv'
<1> USE CoeffectAssumption DEF IInv, SyncComponents, store, All
<1>1. loaded \in Nat /\ loaded <= Len(Deps) /\ Len(Deps) \in Nat
  BY DEF TypeOK
<1>2. last_satisfied' \in Seq(BOOLEAN) /\ Len(last_satisfied') = loaded
      /\ \A i \in 1 .. loaded : last_satisfied'[i] = Satisfied(table, Deps[i])
  BY <1>1 DEF Folded, Satisfied
<1>3. TypeOK'
  <2>1. active' \in SUBSET All
    <3>1. active \subseteq All
      BY DEF TypeOK
    <3>2. active' \subseteq active \cup 1 .. loaded
      OBVIOUS
    <3>3. 1 .. loaded \subseteq All
      BY <1>1
    <3> QED
      BY <3>1, <3>2, <3>3
  <2>2. synced' \in [All -> Tables]
    BY DEF TypeOK
  <2> QED
    BY <1>1, <1>2, <2>1, <2>2 DEF TypeOK
<1>4. OldestKnows' /\ OwnKnown'
  BY DEF OldestKnows, Knows, OnStack, OwnKnown
<1>5. Told'
  <2>1. \A i \in 1 .. loaded : synced'[i] = table
    BY <1>1
  <2>2. \A i \in 1 .. loaded : Resized[i] <=> i \in active
    BY <1>1 DEF Resized, Told, TypeOK
  <2>3. \A i \in 1 .. loaded : i \in active' <=> Satisfied(table, Deps[i])
    BY <2>2 DEF Event
  <2>4. \A i \in All \ 1 .. loaded : i \notin active'
    BY <1>1 DEF Told, TypeOK
  <2> QED
    BY <1>1, <1>2, <2>1, <2>3, <2>4 DEF Told
<1> QED
  BY <1>3, <1>4, <1>5

LEMMA NextKeeps == IInv /\ [Next]_vars => IInv'
<1> SUFFICES ASSUME IInv, [Next]_vars PROVE IInv'
  OBVIOUS
<1>1. ASSUME NEW k \in Keys, NEW v \in Values, SetDependency(k, v) PROVE IInv'
  BY <1>1, SetDependencyKeeps
<1>2. ASSUME NEW k \in Keys, NEW v \in Values, StoreSet(k, v) PROVE IInv'
  <2>1. PrivateUndoOf(k) \in PrivateUndos
    BY DEF IInv, TypeOK, Tables, PrivateUndos, PrivateUndoOf
  <2>2. TypeOK'
    BY <1>2, <2>1 DEF IInv, StoreSet, WritePrivately, Bind, components, TypeOK, Tables
  <2>3. ~PrivateUndoOf(k).over => PrivateUndoOf(k).old = PrivateUndoOf(k).was
    BY DEF IInv, OldestKnows, Knows, PrivateUndoOf
  <2>4. OwnKnown'
    BY <1>2, <2>3 DEF IInv, OwnKnown, StoreSet
  <2>5. v \in Values \cup {Unbound} /\ FALSE \in BOOLEAN
    OBVIOUS
  <2> QED
    BY <1>2, <2>2, <2>4, <2>5, PrivateKeeps DEF StoreSet
<1>3. ASSUME NEW u \in private, UndoPrivately(u) PROVE IInv'
  <2>1. u.key \in Keys /\ u.old \in Values \cup {Unbound} /\ u.was \in Values \cup {Unbound} /\ u.over \in BOOLEAN
    BY DEF IInv, TypeOK, PrivateUndos
  <2>2. TypeOK'
    BY <1>3, <2>1 DEF IInv, UndoPrivately, WritePrivately, Bind, components, TypeOK, Tables
  <2>3. OwnKnown' /\ (~u.over => u.old = u.was)
    BY <1>3 DEF IInv, OwnKnown, UndoPrivately
  <2> QED
    BY <1>3, <2>1, <2>2, <2>3, PrivateKeeps DEF UndoPrivately
<1>4. ASSUME NEW u \in handed, UndoHanded(u) PROVE IInv'
  BY <1>4, UndoHandedKeeps
<1>5. CASE RecoverNext
  BY <1>5, RecoverNextKeeps
<1>6. CASE StartRecover \/ RecoverDone \/ Load \/ UNCHANGED vars
  <2>1. TypeOK'
    <3>1. CASE Load
      <4>1. Len(Deps) \in Nat /\ Len(last_satisfied) \in Nat
        BY CoeffectAssumption DEF IInv, TypeOK
      <4>2. loaded' \in 0 .. Len(Deps) /\ Len(last_satisfied) <= loaded'
        BY <3>1, <4>1 DEF IInv, TypeOK, Load
      <4> QED
        BY <3>1, <4>2 DEF IInv, TypeOK, Load, store
    <3>2. CASE StartRecover \/ RecoverDone \/ UNCHANGED vars
      BY <3>2 DEF IInv, StartRecover, RecoverDone, vars, store, components, TypeOK
    <3> QED
      BY <1>6, <3>1, <3>2
  <2>2. OldestKnows' /\ OwnKnown' /\ Told'
    BY <1>6 DEF IInv, StartRecover, RecoverDone, Load, vars, store, components, OldestKnows, Knows, OnStack,
                OwnKnown, Told
  <2> QED
    BY <2>1, <2>2 DEF IInv
<1>7. CASE SyncComponents
  BY <1>7, SyncKeeps
<1> QED
  BY <1>1, <1>2, <1>3, <1>4, <1>5, <1>6, <1>7 DEF Next

LEMMA Inductive == Spec => []IInv
  BY InitHolds, NextKeeps, PTL DEF Spec

\* The table is a table, and no undo leads out of it.
THEOREM TypesKept == Spec => []TypeOK
<1>1. IInv => TypeOK
  BY DEF IInv
<1> QED
  BY <1>1, Inductive, PTL

\* Once the stack is empty, every key is bound to what the tasks alone would
\* have bound it to (coeffects.rs 47-48), save those they share with the segment.
THEOREM RecoverRestoresHolds == Spec => []RecoverRestores
<1>1. IInv => RecoverRestores
  <2> SUFFICES ASSUME IInv, undo = <<>>, NEW k \in Keys \ crossed PROVE table[k] = base[k]
    BY DEF RecoverRestores
  <2>1. ~OnStack(k)
    BY DEF OnStack
  <2> QED
    BY <2>1 DEF IInv, OldestKnows, Knows
<1> QED
  BY <1>1, Inductive, PTL

\* sync reports what notify says of the two tables a component saw.
THEOREM SyncIsNotifyHolds == Spec => SyncIsNotify
<1>1. IInv /\ [Next]_vars =>
        [SyncComponents =>
            \A i \in 1 .. Len(last_satisfied) : Event(i) = notify(synced[i], table, Deps[i])]_vars
  <2> SUFFICES ASSUME IInv, NEW i \in 1 .. Len(last_satisfied)
               PROVE  Event(i) = notify(synced[i], table, Deps[i])
    OBVIOUS
  <2>1. Resized[i] = last_satisfied[i] /\ last_satisfied[i] = Satisfied(synced[i], Deps[i])
    BY DEF IInv, TypeOK, Resized, Told
  <2> QED
    BY <2>1 DEF Event, notify
<1> QED
  BY <1>1, Inductive, PTL DEF Spec, SyncIsNotify

\* A recover and a sync leave active the components that the tasks' bindings
\* alone would have activated, save those that need a shared key.
THEOREM TornDownHolds == Spec => []TornDown
<1>1. IInv /\ RecoverRestores => TornDown
  <2> SUFFICES ASSUME IInv, RecoverRestores, undo = <<>>, NEW i \in 1 .. loaded, synced[i] = table,
                      i <= Len(last_satisfied), Deps[i] \cap crossed = {}
               PROVE  i \in active <=> Satisfied(base, Deps[i])
    BY DEF TornDown
  <2>1. i \in All /\ i \in 1 .. Len(last_satisfied) /\ Deps[i] \subseteq Keys
    BY CoeffectAssumption DEF IInv, TypeOK, All
  <2>2. i \in active <=> Satisfied(table, Deps[i])
    BY <2>1 DEF IInv, Told
  <2>3. \A k \in Deps[i] : table[k] = base[k]
    BY <2>1 DEF RecoverRestores
  <2> QED
    BY <2>2, <2>3 DEF Satisfied
<1> QED
  BY <1>1, Inductive, RecoverRestoresHolds, PTL
=============================================================================
