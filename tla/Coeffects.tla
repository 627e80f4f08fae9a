------------------------------ MODULE Coeffects ------------------------------
(***************************************************************************)
(* Coeffects (coeffects.rs, and what Runtime does with them): the           *)
(* dependency table, whose bindings are undone with the effects of a        *)
(* segment, and the components that are told when the keys they need come   *)
(* and go.                                                                  *)
(*                                                                          *)
(* Runtime::set_dependency puts one undo on the runtime's stack and hands   *)
(* the caller another one.  Tasks that hold a clone of the CoeffectStore    *)
(* set and undo on their own, also while the runtime recovers.              *)
(***************************************************************************)
EXTENDS Naturals, Sequences

CONSTANTS
    Keys, Values,
    Unbound,        \* no binding
    Deps,           \* Deps[i]: the keys that the i-th component needs
    MaxSets         \* bound on the bindings ever made

ASSUME CoeffectAssumption ==
    /\ Unbound \notin Values
    /\ Deps \in Seq(SUBSET Keys)
    /\ MaxSets \in Nat

VARIABLES
    table,          \* DependencyTable.entries
    undo,           \* the runtime's UndoStack, as far as it is about bindings
    handed,         \* the undos that set_dependency has returned
    private,        \* the undos that set has returned to tasks
    recovering,     \* Runtime::recover is under way
    loaded,         \* the number of components in loaded_components
    last_satisfied, \* ComponentState
    sets,           \* the number of bindings made
    base,           \* history: the table as if the runtime had bound nothing
    crossed,        \* history: the keys that tasks and the segment share
    active,         \* history: the components whose last event was Activating
    synced          \* history: the snapshot that each component saw last

store == <<table, base, crossed>>
components == <<loaded, last_satisfied, active, synced>>
vars == <<store, undo, handed, private, recovering, components, sets>>

Tables == [Keys -> Values \cup {Unbound}]
Empty == [k \in Keys |-> Unbound]
All == 1 .. Len(Deps)

\* What an undo has captured.  (The number tells undos apart.)
Undos == [key : Keys, old : Values \cup {Unbound}, nr : Nat]

\* A task's undo; what base was then, and whether the old binding may be the
\* segment's, is history.
PrivateUndos == [key : Keys, old : Values \cup {Unbound}, nr : Nat,
                 was : Values \cup {Unbound}, over : BOOLEAN]

Init ==
    /\ table = Empty
    /\ undo = <<>>
    /\ handed = {}
    /\ private = {}
    /\ recovering = FALSE
    /\ loaded = 0
    /\ last_satisfied = <<>>
    /\ sets = 0
    /\ base = Empty
    /\ crossed = {}
    /\ active = {}
    /\ synced = [i \in All |-> Empty]

OnStack(k) == \E i \in 1 .. Len(undo) : undo[i].key = k

Bind(k, v) == table' = [table EXCEPT ![k] = v]

\* A task writes v; without the segment it would write b.  Who writes a key
\* that the segment has on the stack, or puts back what it found there, shares
\* the key with the segment; a write of its own ends that.
WritePrivately(k, v, b, over) ==
    /\ Bind(k, v)
    /\ base' = [base EXCEPT ![k] = b]
    /\ crossed' = IF OnStack(k) \/ over THEN crossed \cup {k} ELSE crossed \ {k}

\* &mut Runtime is with no recover.
Idle == ~recovering

-----------------------------------------------------------------------------
(* The table *)

\* Mutant: the binding is replaced first and read then.
UndoOfLate(k) == [key |-> k, old |-> table'[k], nr |-> sets + 1]

UndoOf(k) == [key |-> k, old |-> table[k], nr |-> sets + 1]

SetDependency(k, v) ==
    /\ Idle
    /\ sets < MaxSets
    /\ sets' = sets + 1
    /\ Bind(k, v)
    /\ undo' = Append(undo, UndoOf(k))
    /\ handed' = handed \cup {UndoOf(k)}
    /\ UNCHANGED <<private, recovering, components, base, crossed>>

PrivateUndoOf(k) ==
    [key |-> k, old |-> table[k], nr |-> sets + 1,
     was |-> base[k], over |-> OnStack(k) \/ k \in crossed]

\* CoeffectStore::set, on a clone of the store.
StoreSet(k, v) ==
    /\ sets < MaxSets
    /\ sets' = sets + 1
    /\ WritePrivately(k, v, v, FALSE)
    /\ private' = private \cup {PrivateUndoOf(k)}
    /\ UNCHANGED <<undo, handed, recovering, components>>

UndoPrivately(u) ==
    /\ u \in private
    /\ WritePrivately(u.key, u.old, u.was, u.over)
    /\ private' = private \ {u}
    /\ UNCHANGED <<undo, handed, recovering, components, sets>>

\* The caller undoes at once what it has been handed the undo for.  That the
\* stack has not done so is the discipline set_dependency asks for; that the
\* stack will do so again later is not excluded.
UndoHanded(u) ==
    /\ u \in handed
    /\ \E i \in 1 .. Len(undo) : undo[i] = u
    /\ Bind(u.key, u.old)
    /\ handed' = handed \ {u}
    /\ UNCHANGED <<undo, private, recovering, components, sets, base, crossed>>

StartRecover ==
    /\ Idle
    /\ undo # <<>>
    /\ recovering' = TRUE
    /\ UNCHANGED <<store, undo, handed, private, components, sets>>

\* UndoStack::recover: pop, lock the table, write.
RecoverNext ==
    LET u == undo[Len(undo)] IN
    /\ recovering
    /\ undo # <<>>
    /\ Bind(u.key, u.old)
    /\ undo' = SubSeq(undo, 1, Len(undo) - 1)
    /\ UNCHANGED <<handed, private, recovering, components, sets, base, crossed>>

RecoverDone ==
    /\ recovering
    /\ undo = <<>>
    /\ recovering' = FALSE
    /\ UNCHANGED <<store, undo, handed, private, components, sets>>

-----------------------------------------------------------------------------
(* The components *)

\* Pushed onto Runtime::components().
Load ==
    /\ Idle
    /\ loaded < Len(Deps)
    /\ loaded' = loaded + 1
    /\ UNCHANGED <<store, undo, handed, private, recovering, last_satisfied, active, synced, sets>>

\* d is satisfied by t
Satisfied(t, d) == \A k \in d : t[k] # Unbound

\* notify(t, u, d)
notify(t, u, d) ==
    CASE ~Satisfied(t, d) /\ Satisfied(u, d) -> "Activating"
      [] Satisfied(t, d) /\ ~Satisfied(u, d) -> "Deactivating"
      [] OTHER -> "Neutral"

\* Mutant: the states are forgotten whenever a component was added.
ResizedAfresh == [i \in 1 .. loaded |->
                      IF loaded = Len(last_satisfied) THEN last_satisfied[i] ELSE FALSE]

\* Vec::resize: what was there stays, what is new has not been satisfied.
Resized == [i \in 1 .. loaded |->
                IF i <= Len(last_satisfied) THEN last_satisfied[i] ELSE FALSE]

\* Mutant: nobody is told of what is gone.
EventUp(i) == IF ~Resized[i] /\ Satisfied(table, Deps[i]) THEN "Activating" ELSE "Neutral"

Event(i) ==
    LET is == Satisfied(table, Deps[i]) IN
    CASE ~Resized[i] /\ is -> "Activating"
      [] Resized[i] /\ ~is -> "Deactivating"
      [] OTHER -> "Neutral"

Folded == [i \in 1 .. loaded |-> Satisfied(table, Deps[i])]

\* ComponentState::sync; all the callbacks see one snapshot.
SyncComponents ==
    /\ Idle
    /\ last_satisfied' = Folded
    /\ active' = (active \ {i \in 1 .. loaded : Event(i) = "Deactivating"})
                     \cup {i \in 1 .. loaded : Event(i) = "Activating"}
    /\ synced' = [i \in All |-> IF i <= loaded THEN table ELSE synced[i]]
    /\ UNCHANGED <<store, undo, handed, private, recovering, loaded, sets>>

-----------------------------------------------------------------------------

Next ==
    \/ \E k \in Keys, v \in Values : SetDependency(k, v) \/ StoreSet(k, v)
    \/ \E u \in private : UndoPrivately(u)
    \/ \E u \in handed : UndoHanded(u)
    \/ StartRecover \/ RecoverNext \/ RecoverDone
    \/ Load \/ SyncComponents

Spec == Init /\ [][Next]_vars

-----------------------------------------------------------------------------
(* Properties *)

TypeOK ==
    /\ table \in Tables
    /\ undo \in Seq(Undos)
    /\ handed \in SUBSET Undos
    /\ private \in SUBSET PrivateUndos
    /\ recovering \in BOOLEAN
    /\ loaded \in 0 .. Len(Deps)
    /\ last_satisfied \in Seq(BOOLEAN) /\ Len(last_satisfied) <= loaded
    /\ sets \in Nat
    /\ base \in Tables
    /\ crossed \in SUBSET Keys
    /\ active \in SUBSET All
    /\ synced \in [All -> Tables]

\* set and its undo are reversible (coeffects.rs 47-48), and recover undoes the
\* dependencies with the effects: once the stack is empty, a key is bound to
\* what the tasks alone would have bound it to, whoever ran the undo it was
\* handed before its turn, and whatever tasks bind and undo before the segment
\* binds the key and after recover has passed it.  (A key that a task writes
\* while the segment has it on the stack is left out until the task writes it
\* anew: there the one undo overwrites what the other has restored.)
RecoverRestores == undo = <<>> => \A k \in Keys \ crossed : table[k] = base[k]

\* What sync reports is notify between the tables a component saw last and
\* sees now: nothing is reported twice or left out, however many bindings come
\* and go, and components are added, between two syncs.
SyncIsNotify ==
    [][SyncComponents =>
        \A i \in 1 .. Len(last_satisfied) : Event(i) = notify(synced[i], table, Deps[i])]_vars

\* After a recover and a sync, the components that are active are those that
\* would be if there were the tasks alone; again about keys that are not shared.
TornDown ==
    undo = <<>> =>
        \A i \in 1 .. loaded :
            /\ synced[i] = table
            /\ i <= Len(last_satisfied)
            /\ Deps[i] \cap crossed = {}
            => (i \in active <=> Satisfied(base, Deps[i]))

=============================================================================
