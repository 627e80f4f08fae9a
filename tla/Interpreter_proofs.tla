-------------------------- MODULE Interpreter_proofs --------------------------
(***************************************************************************)
(* Proofs about Interpreter, for any objects, keys and directories, any     *)
(* nesting depth and any number of effects.                                 *)
(*                                                                          *)
(* What a frame remembers of the undo stack is a height (its mark); that    *)
(* this is enough rests on what lies below that height never changing while *)
(* the frame is open, and on every undo leading to the state in which the   *)
(* one below it was recorded.                                               *)
(***************************************************************************)
EXTENDS Interpreter, TLAPS

-----------------------------------------------------------------------------
(* Sequences *)

LEMMA CutProperties ==
    ASSUME NEW S, NEW s \in Seq(S), NEW n \in 0 .. Len(s)
    PROVE  /\ SubSeq(s, 1, n) \in Seq(S)
           /\ Len(SubSeq(s, 1, n)) = n
           /\ DOMAIN SubSeq(s, 1, n) = 1 .. n
           /\ \A i \in 1 .. n : SubSeq(s, 1, n)[i] = s[i]
  OBVIOUS

LEMMA AppendProperties ==
    ASSUME NEW S, NEW s \in Seq(S), NEW e \in S
    PROVE  /\ Append(s, e) \in Seq(S)
           /\ Len(Append(s, e)) = Len(s) + 1
           /\ \A i \in 1 .. Len(s) : Append(s, e)[i] = s[i]
           /\ Append(s, e)[Len(s) + 1] = e
  OBVIOUS

LEMMA LastProperties ==
    ASSUME NEW S, NEW s \in Seq(S), s # << >>
    PROVE  /\ Len(s) \in Nat \ {0}
           /\ s[Len(s)] \in S
           /\ Len(s) - 1 \in 0 .. Len(s)
  OBVIOUS

-----------------------------------------------------------------------------
(* Types *)

LEMMA EffectTypes ==
    ASSUME TypeOK, mode = "io", Effect
    PROVE  world' \in Worlds /\ ops' \in Nat /\ sent' \in SUBSET Nat
<1>1. ops + 1 \in Nat /\ ops' = ops + 1
  BY DEF TypeOK, Effect
<1>2. world' \in Worlds
  BY SMTT(60), <1>1 DEF TypeOK, Effect, Worlds
<1>3. sent' \in SUBSET Nat
  BY <1>1 DEF TypeOK, Effect
<1> QED
  BY <1>1, <1>2, <1>3

LEMMA SucceedTypes ==
    ASSUME TypeOK, Succeed
    PROVE  TypeOK'
<1>1. world' \in Worlds /\ ops' \in Nat /\ sent' \in SUBSET Nat
  BY EffectTypes DEF Succeed
<1>2. undo' \in Seq(Undos)
  <2>1. CASE inflight.obj = NoObject
    BY <2>1 DEF Succeed, TypeOK
  <2>2. CASE inflight.obj # NoObject
    <3>1. inflight.obj \in Objects /\ inflight.own \in BOOLEAN
      BY <2>2 DEF TypeOK, Inflight
    <3>2. world[inflight.obj] \in Nat /\ world \in Worlds /\ ops + 1 \in Nat
      BY <3>1 DEF TypeOK, Worlds
    <3>3. Inverse \in Undos
      BY <3>1, <3>2 DEF Inverse, Undos
    <3> QED
      BY SMTT(60), <2>2, <3>3 DEF Succeed, TypeOK
  <2> QED
    BY <2>1, <2>2
<1>3. inflight' \in Inflight
  BY DEF Succeed, NoInflight, Inflight
<1> QED
  BY <1>1, <1>2, <1>3 DEF Succeed, TypeOK, Modes

LEMMA EnterTypes ==
    ASSUME TypeOK, NEW kind \in Kinds, NEW key \in Keys \cup {NoKey}, NEW dir \in Dirs,
           Enter(kind, key, dir)
    PROVE  TypeOK'
<1>1. Frame(kind, key, dir) \in Frames
  BY ProgramAssumption DEF Frame, Frames, TypeOK
<1>2. stack' \in Seq(Frames) /\ stack' # << >>
  BY <1>1 DEF Enter, TypeOK
<1> QED
  BY <1>2 DEF Enter, TypeOK

LEMMA CommitTypes ==
    ASSUME TypeOK, NEW f \in Frames, Commit(f)
    PROVE  /\ undo' \in Seq(Undos)
           /\ idem' \in [Keys -> {"none", "committed", "reverted"}]
           /\ done' \in [Keys -> SUBSET Nat]
<1>1. f.ops \in Nat /\ f.mark \in Nat
  BY DEF Frames
<1> DEFINE u == [obj |-> NoObject, old |-> 0, own |-> FALSE, key |-> f.key, op |-> 0, world |-> world]
<1>2. u \in Undos
  <2>1. f.key \in Keys \cup {NoKey} /\ world \in Worlds
    BY DEF TypeOK, Frames
  <2> QED
    BY <2>1 DEF Undos
<1>3. f.ops + 1 .. ops \subseteq Nat
  BY <1>1 DEF TypeOK
<1>4. done' \in [Keys -> SUBSET Nat]
  BY <1>3 DEF Commit, TypeOK
<1>5. undo' \in Seq(Undos)
  <2>1. undo' = undo \/ undo' = Append(undo, u)
    BY DEF Commit
  <2>2. undo \in Seq(Undos)
    BY DEF TypeOK
  <2> HIDE DEF u
  <2>3. Append(undo, u) \in Seq(Undos)
    BY <1>2, <2>2, AppendProperties
  <2> QED
    BY <2>1, <2>2, <2>3
<1>6. idem' \in [Keys -> {"none", "committed", "reverted"}]
  BY DEF Commit, TypeOK
<1> QED
  BY <1>4, <1>5, <1>6

LEMMA FireTypes ==
    ASSUME TypeOK, NEW t \in DOMAIN stack, Fire(t)
    PROVE  TypeOK'
<1>1. stack \in Seq(Frames) /\ t \in 1 .. Len(stack) /\ Len(stack) \in Nat
  BY DEF TypeOK
<1>2. [stack[t] EXCEPT !.fired = TRUE] \in Frames
  <2>1. stack[t] \in Frames
    BY <1>1
  <2> QED
    BY <2>1 DEF Frames
<1>3. stack' \in Seq(Frames) /\ Len(stack') = Len(stack)
  BY <1>1, <1>2 DEF Fire
<1>4. stack' # << >>
  BY <1>1, <1>3
<1> QED
  BY <1>3, <1>4 DEF Fire, TypeOK

LEMMA UndoneTypes ==
    ASSUME TypeOK, NEW u \in popped
    PROVE  [world EXCEPT ![u.obj] = u.old] \in Worlds
<1>1. u.old \in Nat
  BY DEF TypeOK, Undos
<1> QED
  BY <1>1 DEF TypeOK, Worlds

LEMMA TakenTypes == TypeOK => Taken \in SUBSET Nat
  BY DEF TypeOK, Taken, Undos

LEMMA GraceTypes ==
    ASSUME TypeOK, NEW t \in DOMAIN stack, GraceEnds(t)
    PROVE  TypeOK'
<1>1. stack \in Seq(Frames) /\ t \in 1 .. Len(stack) /\ Len(stack) \in Nat
  BY DEF TypeOK
<1>2. stack' \in Seq(Frames) /\ stack' # << >>
  <2>1. t \in 0 .. Len(stack) /\ t # 0
    BY <1>1
  <2>2. stack' \in Seq(Frames) /\ Len(stack') = t
    BY <1>1, <2>1, CutProperties DEF GraceEnds, Cut
  <2> QED
    BY <2>1, <2>2
<1>3. world' \in Worlds /\ ops' \in Nat /\ sent' \in SUBSET Nat
  <2>1. CASE UNCHANGED <<world, ops, sent>>
    BY <2>1 DEF TypeOK
  <2>2. CASE mode = "io" /\ Effect
    BY <2>2, EffectTypes
  <2>3. ASSUME NEW u \in popped, world' = [world EXCEPT ![u.obj] = u.old], UNCHANGED <<ops, sent>>
        PROVE  world' \in Worlds /\ ops' \in Nat /\ sent' \in SUBSET Nat
    BY <2>3, UndoneTypes DEF TypeOK
  <2> QED
    BY <2>1, <2>2, <2>3 DEF GraceEnds
<1>4. inflight' \in Inflight
  BY DEF GraceEnds, NoInflight, Inflight
<1>5. undone' \in SUBSET Nat /\ stray' \in SUBSET Nat
  <2>1. /\ undone \in SUBSET Nat /\ stray \in SUBSET Nat /\ Taken \in SUBSET Nat
        /\ ops + 1 \in Nat
    BY TakenTypes DEF TypeOK
  <2>2. /\ undone' \in {undone, undone \cup Taken}
        /\ stray' \in {stray, stray \cup Taken, stray \cup {ops + 1}}
    BY DEF GraceEnds
  <2> QED
    BY <2>1, <2>2
<1> QED
  BY <1>2, <1>3, <1>4, <1>5 DEF GraceEnds, TypeOK, Modes, Undoing

\* The innermost call is over.
LEMMA CutTypes ==
    ASSUME stack \in Seq(Frames), stack # << >>
    PROVE  /\ Cut(Len(stack) - 1) \in Seq(Frames)
           /\ Top \in Frames
<1>1. Len(stack) - 1 \in 0 .. Len(stack) /\ Top \in Frames
  BY LastProperties DEF Top
<1> QED
  BY <1>1, CutProperties DEF Cut

LEMMA CwdTypes ==
    ASSUME TypeOK, stack # << >>
    PROVE  CwdBack \in Dirs
<1>1. Top \in Frames
  BY CutTypes DEF TypeOK
<1> QED
  BY <1>1 DEF CwdBack, Frames, TypeOK

\* A call that is over hands a value or an error on.
LEMMA OverModes ==
    /\ Return => mode \in {"run", "value"} /\ mode' \in {"run", "value"}
    /\ Unwind => mode \in {"err", "value"} /\ mode' \in {"run", "err", "rollback"}
  BY DEF Return, Unwind, Ready

LEMMA ReturnTypes ==
    ASSUME TypeOK, Return
    PROVE  TypeOK'
<1>1. Top \in Frames /\ stack' \in Seq(Frames) /\ cwd' \in Dirs
  BY CutTypes, CwdTypes DEF Return, TypeOK
<1>2. /\ undo' \in Seq(Undos)
      /\ idem' \in [Keys -> {"none", "committed", "reverted"}]
      /\ done' \in [Keys -> SUBSET Nat]
  <2>1. CASE Top.kind = "idem"
    BY <1>1, <2>1, CommitTypes DEF Return
  <2>2. CASE Top.kind # "idem"
    BY <2>2 DEF Return, TypeOK
  <2> QED
    BY <2>1, <2>2
<1> QED
  BY <1>1, <1>2, OverModes DEF Return, TypeOK, Modes

LEMMA UnwindTypes ==
    ASSUME TypeOK, Unwind
    PROVE  TypeOK'
<1>1. stack' \in Seq(Frames) /\ cwd' \in Dirs
  BY CutTypes, CwdTypes DEF Unwind, TypeOK
<1>2. mode' \in Modes /\ (mode' = "rollback" => stack' # << >>) /\ failed' \in BOOLEAN
  BY DEF Unwind, TypeOK, Modes, Undoing
<1> QED
  BY <1>1, <1>2 DEF Unwind, TypeOK

LEMMA RollbackDoneTypes ==
    ASSUME TypeOK, RollbackDone
    PROVE  TypeOK'
<1>1. stack' \in Seq(Frames)
  BY CutTypes DEF RollbackDone, TypeOK
<1> QED
  BY <1>1 DEF RollbackDone, TypeOK, Modes, MarksBefore

\* There is an undo to take.
LEMMA PopsOne ==
    ASSUME TypeOK, PopUndo
    PROVE  undo \in Seq(Undos) /\ undo # << >>
<1>1. Floor \in Nat /\ Len(undo) > Floor
  <2>1. CASE mode = "rollback"
    <3>1. Top \in Frames
      BY <2>1, CutTypes DEF TypeOK
    <3> QED
      BY <2>1, <3>1 DEF Floor, Frames, PopUndo
  <2>2. CASE mode # "rollback"
    BY <2>2 DEF Floor, PopUndo
  <2> QED
    BY <2>1, <2>2
<1> QED
  BY <1>1 DEF TypeOK, PopUndo

LEMMA PopUndoTypes ==
    ASSUME TypeOK, PopUndo
    PROVE  TypeOK'
<1>1. undo \in Seq(Undos) /\ undo # << >>
  BY PopsOne
<1>2. undo[Len(undo)] \in Undos /\ Len(undo) - 1 \in 0 .. Len(undo)
  BY <1>1, LastProperties
<1>3. undo' \in Seq(Undos)
  BY <1>1, <1>2, CutProperties DEF PopUndo
<1>4. popped' \in SUBSET Undos /\ idem' \in [Keys -> {"none", "committed", "reverted"}]
  BY <1>2 DEF PopUndo, TypeOK
<1> QED
  BY <1>3, <1>4 DEF PopUndo, TypeOK

\* The actions that leave the sequences and the world alone.
Plain ==
    \/ \E o \in Objects : Refuse(o)
    \/ Fail \/ Report \/ TooDeep \/ Cancel \/ UndoFails
    \/ Replace \/ Recover \/ ReplaceDone \/ RecoverDone
    \/ UNCHANGED vars

LEMMA PlainTypes ==
    ASSUME TypeOK, Plain
    PROVE  TypeOK'
<1> USE DEF TypeOK, Modes, Undoing
<1>1. ASSUME NEW o \in Objects, Refuse(o) PROVE TypeOK'
  BY <1>1 DEF Refuse
<1>2. CASE Fail
  BY <1>2 DEF Fail, NoInflight, Inflight
<1>3. CASE Report \/ TooDeep \/ Cancel \/ UndoFails
  BY <1>3, TakenTypes DEF Report, TooDeep, Cancel, UndoFails
<1>4. CASE Replace \/ Recover
  BY <1>4 DEF Replace, Recover
<1>5. CASE ReplaceDone
  BY <1>5 DEF ReplaceDone, Restarted
<1>6. CASE RecoverDone
  BY <1>6 DEF RecoverDone, Restarted
<1>7. CASE UNCHANGED vars
  BY <1>7 DEF vars
<1> QED
  BY <1>1, <1>2, <1>3, <1>4, <1>5, <1>6, <1>7 DEF Plain

\* What a step can be.
LEMMA Steps ==
    ASSUME [Next]_vars
    PROVE  \/ Plain
           \/ \E o \in Objects \cup {NoObject}, own \in BOOLEAN : Call(o, own)
           \/ Succeed
           \/ \E kind \in Kinds, key \in Keys \cup {NoKey}, dir \in Dirs : Enter(kind, key, dir)
           \/ Return \/ Unwind
           \/ \E t \in DOMAIN stack : Fire(t)
           \/ \E t \in DOMAIN stack : GraceEnds(t)
           \/ RollbackDone \/ PopUndo \/ UndoOk
  BY DEF Next, Progress, Plain, Propagate

LEMMA TypesStep == TypeOK /\ [Next]_vars => TypeOK'
<1> SUFFICES ASSUME TypeOK, [Next]_vars PROVE TypeOK'
  OBVIOUS
<1>1. ASSUME NEW o \in Objects \cup {NoObject}, NEW own \in BOOLEAN, Call(o, own) PROVE TypeOK'
  <2>1. o \in Objects \/ ~own
    BY <1>1 DEF Call
  <2> QED
    BY <1>1, <2>1 DEF Call, TypeOK, Inflight, Modes
<1>2. CASE UndoOk
  BY <1>2, UndoneTypes, TakenTypes DEF UndoOk, TypeOK
<1> QED
  BY <1>1, <1>2, Steps, PlainTypes, SucceedTypes, EnterTypes, ReturnTypes, UnwindTypes, FireTypes,
     GraceTypes, RollbackDoneTypes, PopUndoTypes

LEMMA InitTypes == Init => TypeOK
<1> SUFFICES ASSUME Init PROVE TypeOK
  OBVIOUS
<1>1. world \in Worlds /\ origin \in [world : Worlds, ops : Nat]
  BY DEF Init, Worlds
<1>2. stack \in Seq(Frames) /\ undo \in Seq(Undos) /\ inflight \in Inflight
  BY DEF Init, NoInflight, Inflight
<1>3. cwd \in Dirs /\ mode \in Modes /\ mode # "rollback"
  BY SentinelAssumption DEF Init, Modes
<1>4. /\ idem \in [Keys -> {"none", "committed", "reverted"}]
      /\ done \in [Keys -> SUBSET Nat]
  BY DEF Init
<1> QED
  BY <1>1, <1>2, <1>3, <1>4 DEF Init, TypeOK

\* The undo stack, the call stack and the registries are what they should be.
THEOREM TypesKept == Spec => []TypeOK
  BY InitTypes, TypesStep, PTL DEF Spec

-----------------------------------------------------------------------------
(* What a step does to the call stack *)

LEMMA EnterShape ==
    ASSUME TypeOK, NEW kind \in Kinds, NEW key \in Keys \cup {NoKey}, NEW dir \in Dirs,
           Enter(kind, key, dir)
    PROVE  /\ Len(stack) \in Nat /\ DOMAIN stack = 1 .. Len(stack)
           /\ Len(stack') = Len(stack) + 1 /\ DOMAIN stack' = 1 .. Len(stack) + 1
           /\ \A i \in DOMAIN stack : stack'[i] = stack[i]
           /\ stack'[Len(stack) + 1] = Frame(kind, key, dir)
<1>1. stack' = Append(stack, Frame(kind, key, dir)) /\ stack \in Seq(Frames)
  BY DEF Enter, TypeOK
<1> QED
  BY <1>1

\* The calls from n + 1 on are over.
LEMMA CutShape ==
    ASSUME TypeOK, NEW n \in 0 .. Len(stack), stack' = Cut(n)
    PROVE  /\ Len(stack) \in Nat /\ DOMAIN stack = 1 .. Len(stack)
           /\ Len(stack') = n /\ DOMAIN stack' = 1 .. n
           /\ \A i \in DOMAIN stack' : i \in DOMAIN stack /\ stack'[i] = stack[i]
<1>1. stack \in Seq(Frames) /\ stack' = SubSeq(stack, 1, n)
  BY DEF Cut, TypeOK
<1>2. Len(stack') = n /\ DOMAIN stack' = 1 .. n /\ \A i \in 1 .. n : stack'[i] = stack[i]
  BY <1>1, CutProperties
<1> QED
  BY <1>1, <1>2

LEMMA ElementTypes ==
    ASSUME TypeOK
    PROVE  /\ \A t \in DOMAIN stack :
                 stack[t].mark \in Nat /\ stack[t].ops \in Nat /\ stack[t].owned \in SUBSET Objects
           /\ \A i \in DOMAIN undo :
                 undo[i].op \in Nat /\ undo[i].old \in Nat /\ undo[i].world \in Worlds
           /\ ops \in Nat
<1>1. \A t \in DOMAIN stack : stack[t] \in Frames
  BY DEF TypeOK
<1>2. \A i \in DOMAIN undo : undo[i] \in Undos
  BY DEF TypeOK
<1>3. ops \in Nat
  BY DEF TypeOK
<1> QED
  BY <1>1, <1>2, <1>3 DEF Frames, Undos

LEMMA TopShape ==
    ASSUME TypeOK, stack # << >>
    PROVE  /\ Len(stack) \in Nat /\ Len(stack) - 1 \in 0 .. Len(stack)
           /\ Len(stack) \in DOMAIN stack
           /\ Top = stack[Len(stack)]
  BY LastProperties DEF TypeOK, Top

LEMMA FireShape ==
    ASSUME TypeOK, NEW t \in DOMAIN stack, Fire(t)
    PROVE  /\ DOMAIN stack' = DOMAIN stack /\ Len(stack') = Len(stack)
           /\ \A i \in DOMAIN stack :
                 /\ stack'[i].kind = stack[i].kind /\ stack'[i].key = stack[i].key
                 /\ stack'[i].mark = stack[i].mark /\ stack'[i].owned = stack[i].owned
                 /\ stack'[i].old = stack[i].old /\ stack'[i].dir = stack[i].dir
                 /\ stack'[i].world = stack[i].world /\ stack'[i].ops = stack[i].ops
<1>1. stack[t] \in Frames /\ stack \in Seq(Frames)
  BY DEF TypeOK
<1>2. stack' = [stack EXCEPT ![t].fired = TRUE]
  BY DEF Fire
<1> QED
  BY <1>1, <1>2 DEF Frames

\* What rolls back is a Timeout.
RollbackTop == mode = "rollback" => Top.kind = "timeout"

LEMMA RollbackTopStep == TypeOK /\ RollbackTop /\ [Next]_vars => RollbackTop'
<1> SUFFICES ASSUME TypeOK, RollbackTop, [Next]_vars, mode' = "rollback" PROVE Top'.kind = "timeout"
  BY DEF RollbackTop
<1>1. CASE UNCHANGED <<mode, stack>>
  BY <1>1 DEF RollbackTop, Top
<1>2. CASE Unwind
  BY <1>2 DEF Unwind, Expired, Top
<1>3. ASSUME NEW t \in DOMAIN stack, GraceEnds(t) PROVE Top'.kind = "timeout"
  <2>1. t \in 0 .. Len(stack) /\ t # 0 /\ stack[t].kind = "timeout" /\ stack' = Cut(t)
    BY <1>3 DEF GraceEnds, Timeouts, TypeOK
  <2> QED
    BY <2>1, CutShape DEF Top
<1>4. ASSUME NEW t \in DOMAIN stack, Fire(t) PROVE Top'.kind = "timeout"
  <2>1. mode = "rollback" /\ stack # << >>
    BY <1>4 DEF Fire, TypeOK
  <2> QED
    BY <1>4, <2>1, FireShape, TopShape DEF RollbackTop, Top
<1>5. Plain => UNCHANGED <<mode, stack>>
  BY DEF Plain, Refuse, Fail, Report, TooDeep, Cancel, UndoFails, Replace, Recover, ReplaceDone,
         RecoverDone, vars
<1>6. PopUndo \/ UndoOk => UNCHANGED <<mode, stack>>
  BY DEF PopUndo, UndoOk
<1>7. ~Succeed /\ ~RollbackDone /\ ~Return
  BY OverModes DEF Succeed, RollbackDone
<1>8. ~\E o \in Objects \cup {NoObject}, own \in BOOLEAN : Call(o, own)
  BY DEF Call
<1>9. ~\E kind \in Kinds, key \in Keys \cup {NoKey}, dir \in Dirs : Enter(kind, key, dir)
  BY DEF Enter, Ready
<1> QED
  BY <1>1, <1>2, <1>3, <1>4, <1>5, <1>6, <1>7, <1>8, <1>9, Steps

-----------------------------------------------------------------------------
(* CommittedRevertible *)

\* A key whose segment is open is not COMMITTED, and its segment is open once.
KeysOpen(s, registry) ==
    /\ \A i \in DOMAIN s : s[i].kind = "idem" => s[i].key \in Keys
    /\ \A i \in DOMAIN s : s[i].key # NoKey => registry[s[i].key] # "committed"
    /\ \A i, j \in DOMAIN s : s[i].key # NoKey /\ s[i].key = s[j].key => i = j

\* A key is COMMITTED while one undo, and only one, reverts it.
KeysUndone(s, registry) ==
    /\ \A k \in Keys : registry[k] = "committed" <=> \E i \in DOMAIN s : s[i].key = k
    /\ \A i, j \in DOMAIN s : s[i].key # NoKey /\ s[i].key = s[j].key => i = j

KeyInv == KeysOpen(stack, idem) /\ KeysUndone(undo, idem)

LEMMA KeysOpenCut ==
    ASSUME NEW s \in Seq(Frames), NEW registry, KeysOpen(s, registry), NEW n \in 0 .. Len(s)
    PROVE  KeysOpen(SubSeq(s, 1, n), registry)
<1> DEFINE c == SubSeq(s, 1, n)
<1>1. DOMAIN c \subseteq DOMAIN s /\ \A i \in DOMAIN c : c[i] = s[i]
  BY CutProperties
<1> HIDE DEF c
<1>2. KeysOpen(c, registry)
  BY <1>1 DEF KeysOpen
<1> QED
  BY <1>2 DEF c

LEMMA KeysAfterSucceed ==
    ASSUME TypeOK, KeyInv, Succeed
    PROVE  KeyInv'
<1>1. CASE UNCHANGED undo
  BY <1>1 DEF Succeed, KeyInv
<1>2. CASE undo' = Append(undo, Inverse)
  <2>1. /\ DOMAIN undo' = 1 .. Len(undo) + 1 /\ DOMAIN undo = 1 .. Len(undo) /\ Len(undo) \in Nat
        /\ \A i \in DOMAIN undo : undo'[i] = undo[i]
        /\ undo'[Len(undo) + 1].key = NoKey
    BY <1>2 DEF TypeOK, Inverse
  <2>2. KeysUndone(undo', idem)
    <3>1. \A k \in Keys : (\E i \in DOMAIN undo' : undo'[i].key = k) <=> \E i \in DOMAIN undo : undo[i].key = k
      BY <2>1, SentinelAssumption
    <3>2. \A i, j \in DOMAIN undo' : undo'[i].key # NoKey /\ undo'[i].key = undo'[j].key => i = j
      BY <2>1 DEF KeyInv, KeysUndone
    <3> QED
      BY <3>1, <3>2 DEF KeyInv, KeysUndone
  <2> QED
    BY <2>2 DEF Succeed, KeyInv
<1> QED
  BY <1>1, <1>2 DEF Succeed

LEMMA KeysAfterEnter ==
    ASSUME TypeOK, KeyInv, NEW kind \in Kinds, NEW key \in Keys \cup {NoKey}, NEW dir \in Dirs,
           Enter(kind, key, dir)
    PROVE  KeyInv'
<1>1. /\ DOMAIN stack' = 1 .. Len(stack) + 1 /\ DOMAIN stack = 1 .. Len(stack) /\ Len(stack) \in Nat
      /\ \A i \in DOMAIN stack : stack'[i] = stack[i]
      /\ stack'[Len(stack) + 1].key = key /\ stack'[Len(stack) + 1].kind = kind
  BY DEF TypeOK, Enter, Frame
<1>2. /\ kind = "idem" => key \in Keys
      /\ key # NoKey => idem[key] # "committed" /\ \A i \in DOMAIN stack : stack[i].key # key
  BY DEF Enter
<1>3. KeysOpen(stack', idem)
  BY <1>1, <1>2 DEF KeyInv, KeysOpen
<1> QED
  BY <1>3 DEF Enter, KeyInv

\* The innermost call is an Idempotent segment that returns a value.
LEMMA KeysAfterCommit ==
    ASSUME TypeOK, KeyInv, stack # << >>, Top.kind = "idem", Commit(Top)
    PROVE  KeysOpen(Cut(Len(stack) - 1), idem') /\ KeysUndone(undo', idem')
<1> DEFINE k == Top.key
           c == Cut(Len(stack) - 1)
<1>1. /\ stack \in Seq(Frames) /\ Len(stack) - 1 \in 0 .. Len(stack)
      /\ Len(stack) \in DOMAIN stack
  BY LastProperties DEF TypeOK
<1>2. /\ k \in Keys /\ k # NoKey /\ idem[k] # "committed"
  BY <1>1, SentinelAssumption DEF KeyInv, KeysOpen, Top
<1>3. KeysOpen(c, idem)
  BY <1>1, KeysOpenCut DEF KeyInv, Cut
<1>4. CASE UNCHANGED <<idem, undo>>
  BY <1>3, <1>4 DEF KeyInv
<1>5. CASE Len(undo) > Top.mark
  <2>1. /\ idem' = [idem EXCEPT ![k] = "committed"]
        /\ DOMAIN undo' = 1 .. Len(undo) + 1 /\ DOMAIN undo = 1 .. Len(undo) /\ Len(undo) \in Nat
        /\ \A i \in DOMAIN undo : undo'[i] = undo[i]
        /\ undo'[Len(undo) + 1].key = k
    <3> DEFINE u == [obj |-> NoObject, old |-> 0, own |-> FALSE, key |-> Top.key, op |-> 0, world |-> world]
    <3>1. idem' = [idem EXCEPT ![k] = "committed"] /\ undo' = Append(undo, u) /\ u.key = k
      BY <1>5 DEF Commit
    <3>2. undo \in Seq(Undos)
      BY DEF TypeOK
    <3> HIDE DEF u, k
    <3> QED
      BY <3>1, <3>2
  <2>2. /\ idem \in [Keys -> {"none", "committed", "reverted"}]
        /\ \A i \in DOMAIN undo : undo[i].key # k
    BY <1>2 DEF TypeOK, KeyInv, KeysUndone
  <2>3. \A i \in DOMAIN c : c[i].key # k
    <3>1. \A i \in DOMAIN c : i \in DOMAIN stack /\ i # Len(stack) /\ c[i] = stack[i]
      BY <1>1, CutProperties DEF Cut
    <3> QED
      BY <1>1, <1>2, <3>1 DEF KeyInv, KeysOpen, Top
  <2> HIDE DEF k, c
  <2>4. KeysOpen(c, idem')
    BY <1>3, <2>1, <2>2, <2>3 DEF KeysOpen
  <2>5. KeysUndone(undo', idem')
    <3>1. \A i, j \in DOMAIN undo' : undo'[i].key # NoKey /\ undo'[i].key = undo'[j].key => i = j
      BY <2>1, <2>2 DEF KeyInv, KeysUndone
    <3>2. ASSUME NEW l \in Keys
          PROVE  idem'[l] = "committed" <=> \E i \in DOMAIN undo' : undo'[i].key = l
      <4>1. CASE l = k
        BY <1>2, <2>1, <2>2, <4>1
      <4>2. CASE l # k
        <5>1. idem'[l] = idem[l]
          BY <2>1, <2>2, <4>2
        <5>2. (\E i \in DOMAIN undo' : undo'[i].key = l) <=> \E i \in DOMAIN undo : undo[i].key = l
          BY <2>1, <4>2
        <5> QED
          BY <5>1, <5>2 DEF KeyInv, KeysUndone
      <4> QED
        BY <4>1, <4>2
    <3> QED
      BY <3>1, <3>2 DEF KeysUndone
  <2> QED
    BY <2>4, <2>5 DEF c
<1> QED
  BY <1>4, <1>5 DEF Commit

LEMMA KeysAfterPop ==
    ASSUME TypeOK, KeyInv, PopUndo
    PROVE  KeyInv'
<1> DEFINE n == Len(undo)
           k == undo[n].key
<1>1. undo \in Seq(Undos) /\ undo # << >>
  BY PopsOne
<1>2. /\ n \in DOMAIN undo /\ DOMAIN undo' = DOMAIN undo \ {n}
      /\ \A i \in DOMAIN undo' : undo'[i] = undo[i]
      /\ k \in Keys \cup {NoKey}
  <2>1. n \in Nat \ {0} /\ n - 1 \in 0 .. n /\ undo[n] \in Undos
    BY <1>1, LastProperties
  <2>2. DOMAIN undo' = 1 .. n - 1 /\ \A i \in 1 .. n - 1 : undo'[i] = undo[i]
    BY <1>1, <2>1, CutProperties DEF PopUndo
  <2>3. k \in Keys \cup {NoKey}
    BY <2>1 DEF Undos
  <2> QED
    BY <1>1, <2>1, <2>2, <2>3
<1>3. \A i, j \in DOMAIN undo' : undo'[i].key # NoKey /\ undo'[i].key = undo'[j].key => i = j
  BY <1>2 DEF KeyInv, KeysUndone
<1>4. CASE k = NoKey
  <2>1. idem' = idem /\ stack' = stack
    BY <1>4 DEF PopUndo
  <2>2. \A l \in Keys : (\E i \in DOMAIN undo' : undo'[i].key = l) <=> \E i \in DOMAIN undo : undo[i].key = l
    BY <1>2, <1>4, SentinelAssumption
  <2> QED
    BY <1>3, <2>1, <2>2 DEF KeyInv, KeysUndone
<1>5. CASE k # NoKey
  <2>1. idem' = [idem EXCEPT ![k] = "reverted"] /\ stack' = stack
    BY <1>5 DEF PopUndo
  <2>2. k \in Keys /\ idem \in [Keys -> {"none", "committed", "reverted"}]
    BY <1>2, <1>5 DEF TypeOK
  <2>3. \A i \in DOMAIN undo' : undo'[i].key # k
    BY <1>2, <1>5 DEF KeyInv, KeysUndone
  <2> HIDE DEF n, k
  <2>4. KeysOpen(stack, idem')
    <3>1. \A l : idem[l] # "committed" => idem'[l] # "committed"
      <4>1. \A l \in Keys : idem[l] # "committed" => idem'[l] # "committed"
        BY <2>1, <2>2
      <4> QED
        BY <4>1, <2>1
    <3> QED
      BY <3>1 DEF KeyInv, KeysOpen
  <2>5. \A l \in Keys : idem'[l] = "committed" <=> \E i \in DOMAIN undo' : undo'[i].key = l
    <3>1. ASSUME NEW l \in Keys
          PROVE  idem'[l] = "committed" <=> \E i \in DOMAIN undo' : undo'[i].key = l
      <4>1. CASE l = k
        BY <2>1, <2>2, <2>3, <4>1
      <4>2. CASE l # k
        <5>1. idem'[l] = idem[l]
          BY <2>1, <2>2, <4>2
        <5>2. (\E i \in DOMAIN undo' : undo'[i].key = l) <=> \E i \in DOMAIN undo : undo[i].key = l
          BY <1>2, <4>2 DEF k
        <5> QED
          BY <5>1, <5>2 DEF KeyInv, KeysUndone
      <4> QED
        BY <4>1, <4>2
    <3> QED
      BY <3>1
  <2> QED
    BY <1>3, <2>1, <2>4, <2>5 DEF KeyInv, KeysUndone
<1> QED
  BY <1>4, <1>5

LEMMA KeyStep == TypeOK /\ KeyInv /\ [Next]_vars => KeyInv'
<1> SUFFICES ASSUME TypeOK, KeyInv, [Next]_vars PROVE KeyInv'
  OBVIOUS
<1>1. ASSUME UNCHANGED <<stack, undo, idem>> PROVE KeyInv'
  BY <1>1 DEF KeyInv
<1>2. ASSUME NEW n \in 0 .. Len(stack), stack' = Cut(n), UNCHANGED <<undo, idem>> PROVE KeyInv'
  BY <1>2, KeysOpenCut DEF KeyInv, TypeOK, Cut
<1>3. stack # << >> => Len(stack) - 1 \in 0 .. Len(stack)
  BY LastProperties DEF TypeOK
<1>4. CASE Plain
  BY <1>1, <1>4 DEF Plain, Refuse, Fail, Report, TooDeep, Cancel, UndoFails, Replace, Recover,
        ReplaceDone, RecoverDone, vars
<1>5. ASSUME NEW o \in Objects \cup {NoObject}, NEW own \in BOOLEAN, Call(o, own) PROVE KeyInv'
  BY <1>1, <1>5 DEF Call
<1>6. CASE Return
  <2>1. CASE Top.kind = "idem"
    BY <1>6, <2>1, KeysAfterCommit DEF Return, KeyInv
  <2>2. CASE Top.kind # "idem"
    BY <1>2, <1>3, <1>6, <2>2 DEF Return
  <2> QED
    BY <2>1, <2>2
<1>7. CASE Unwind
  BY <1>1, <1>2, <1>3, <1>7 DEF Unwind
<1>8. ASSUME NEW t \in DOMAIN stack, Fire(t) PROVE KeyInv'
  <2>1. DOMAIN stack' = DOMAIN stack
    BY <1>8 DEF Fire
  <2>2. \A i \in DOMAIN stack : stack'[i].kind = stack[i].kind /\ stack'[i].key = stack[i].key
    <3>1. stack[t] \in Frames
      BY DEF TypeOK
    <3> QED
      BY <1>8, <3>1 DEF Fire, Frames
  <2>3. KeysOpen(stack', idem)
    BY <2>1, <2>2 DEF KeyInv, KeysOpen
  <2> QED
    BY <1>8, <2>3 DEF Fire, KeyInv
<1>9. ASSUME NEW t \in DOMAIN stack, GraceEnds(t) PROVE KeyInv'
  <2>1. t \in 0 .. Len(stack)
    BY DEF TypeOK
  <2> QED
    BY <1>2, <1>9, <2>1 DEF GraceEnds
<1>10. CASE RollbackDone
  BY <1>2, <1>3, <1>10 DEF RollbackDone, TypeOK
<1>11. CASE UndoOk
  BY <1>1, <1>11 DEF UndoOk
<1> QED
  BY <1>4, <1>5, <1>6, <1>7, <1>8, <1>9, <1>10, <1>11, Steps, KeysAfterSucceed, KeysAfterEnter,
     KeysAfterPop

\* The registry's COMMITTED keys are those an undo on the stack reverts: a
\* Replace, a recover and a Timeout give back every key whose segment they undo.
THEOREM CommittedRevertibleHolds == Spec => []CommittedRevertible
<1>1. Init => KeyInv
  BY DEF Init, KeyInv, KeysOpen, KeysUndone
<1>2. KeyInv => CommittedRevertible
  BY DEF KeyInv, KeysUndone, CommittedRevertible
<1> QED
  BY <1>1, <1>2, InitTypes, TypesStep, KeyStep, PTL DEF Spec

-----------------------------------------------------------------------------
(* ScopeCwd *)

\* The directory of what runs inside the first n calls.
DirInside(s, n, dir) ==
    LET scopes == {i \in 1 .. n : s[i].kind = "scope"} IN
    \/ scopes = {} /\ dir = HomeDir
    \/ \E i \in scopes : dir = s[i].dir /\ \A j \in scopes : j <= i

\* Every call knows the directory outside it, and only a Scope changes it.
DirsKept(s) ==
    \A i \in DOMAIN s :
        /\ s[i].kind # "scope" => s[i].dir = s[i].old
        /\ s[i].old = IF i = 1 THEN HomeDir ELSE s[i - 1].dir
        /\ DirInside(s, i, s[i].dir)

CwdInv ==
    /\ DirsKept(stack)
    /\ cwd = IF stack = << >> THEN HomeDir ELSE Top.dir

\* The first n calls, and the directory they leave.
LEMMA DirsAfterCut ==
    ASSUME TypeOK, DirsKept(stack), NEW n \in 0 .. Len(stack), stack' = Cut(n),
           cwd' = IF n = 0 THEN HomeDir ELSE stack[n].dir
    PROVE  CwdInv'
<1>1. /\ Len(stack') = n /\ DOMAIN stack' = 1 .. n
      /\ \A i \in 1 .. n : i \in DOMAIN stack /\ stack'[i] = stack[i]
  BY CutShape
<1>2. ASSUME NEW i \in 1 .. n PROVE DirInside(stack', i, stack[i].dir)
  <2>1. {j \in 1 .. i : stack'[j].kind = "scope"} = {j \in 1 .. i : stack[j].kind = "scope"}
    BY <1>1
  <2>2. \A j \in 1 .. i : stack'[j] = stack[j]
    BY <1>1
  <2> QED
    BY <1>1, <2>1, <2>2 DEF DirsKept, DirInside
<1>3. DirsKept(stack')
  <2>1. \A i \in 1 .. n : i # 1 => i - 1 \in 1 .. n
    OBVIOUS
  <2> QED
    BY <1>1, <1>2, <2>1 DEF DirsKept
<1>4. stack' \in Seq(Frames)
  BY CutProperties DEF Cut, TypeOK
<1>5. cwd' = IF stack' = << >> THEN HomeDir ELSE Top'.dir
  BY <1>1, <1>4 DEF Top
<1> QED
  BY <1>3, <1>5 DEF CwdInv

\* The innermost call is over and the directory is that outside it.
LEMMA DirsAfterOver ==
    ASSUME TypeOK, CwdInv, stack # << >>, stack' = Cut(Len(stack) - 1), cwd' = Top.old
    PROVE  CwdInv'
<1> DEFINE n == Len(stack)
<1>1. n \in Nat /\ n \in DOMAIN stack /\ Top = stack[n]
  BY TopShape
<1>2. stack[n].old = IF n = 1 THEN HomeDir ELSE stack[n - 1].dir
  BY <1>1 DEF CwdInv, DirsKept
<1>3. cwd' = IF n - 1 = 0 THEN HomeDir ELSE stack[n - 1].dir
  <2> HIDE DEF n
  <2> QED
    BY <1>1, <1>2
<1> QED
  BY <1>3, TopShape, DirsAfterCut DEF CwdInv

LEMMA DirBack ==
    ASSUME TypeOK, CwdInv, stack # << >>
    PROVE  CwdBack = Top.old /\ (Top.kind # "scope" => cwd = Top.old)
  BY TopShape DEF CwdInv, DirsKept, CwdBack

LEMMA DirsAfterEnter ==
    ASSUME TypeOK, CwdInv, NEW kind \in Kinds, NEW key \in Keys \cup {NoKey}, NEW dir \in Dirs,
           Enter(kind, key, dir)
    PROVE  CwdInv'
<1> DEFINE n == Len(stack)
           f == Frame(kind, key, dir)
<1>1. /\ n \in Nat /\ DOMAIN stack = 1 .. n
      /\ Len(stack') = n + 1 /\ DOMAIN stack' = 1 .. n + 1
      /\ \A i \in 1 .. n : stack'[i] = stack[i]
      /\ stack'[n + 1] = f
  BY EnterShape
<1>2. f.kind = kind /\ f.dir = dir /\ f.old = cwd /\ (kind # "scope" => dir = cwd) /\ cwd' = dir
  BY DEF Frame, Enter
<1>3. cwd = IF n = 0 THEN HomeDir ELSE stack[n].dir
  <2>1. n = 0 <=> stack = << >>
    BY DEF TypeOK
  <2> QED
    BY <2>1 DEF CwdInv, Top
<1> HIDE DEF f
<1>4. ASSUME NEW i \in 1 .. n, NEW d, DirInside(stack, i, d) PROVE DirInside(stack', i, d)
  <2>1. {j \in 1 .. i : stack'[j].kind = "scope"} = {j \in 1 .. i : stack[j].kind = "scope"}
    BY <1>1
  <2>2. \A j \in 1 .. i : stack'[j] = stack[j]
    BY <1>1
  <2> QED
    BY <1>4, <2>1, <2>2 DEF DirInside
<1>5. DirInside(stack', n + 1, dir)
  <2> DEFINE outer == {j \in 1 .. n : stack'[j].kind = "scope"}
             all == {j \in 1 .. n + 1 : stack'[j].kind = "scope"}
  <2>1. CASE kind = "scope"
    BY <1>1, <1>2, <2>1 DEF DirInside
  <2>2. CASE kind # "scope" /\ n = 0
    <3>1. all = {}
      BY <1>1, <1>2, <2>2
    <3> QED
      BY <1>2, <1>3, <2>2, <3>1 DEF DirInside
  <2>3. CASE kind # "scope" /\ n # 0
    <3>1. n \in 1 .. n /\ dir = stack[n].dir
      BY <1>1, <1>2, <1>3, <2>3
    <3>2. DirInside(stack', n, dir)
      BY <1>1, <1>4, <3>1 DEF CwdInv, DirsKept
    <3>3. all = outer
      BY <1>1, <1>2, <2>3
    <3> QED
      BY <3>2, <3>3 DEF DirInside
  <2> QED
    BY <2>1, <2>2, <2>3
<1>6. DirsKept(stack')
  <2>1. ASSUME NEW i \in 1 .. n
        PROVE  /\ stack'[i].kind # "scope" => stack'[i].dir = stack'[i].old
               /\ stack'[i].old = IF i = 1 THEN HomeDir ELSE stack'[i - 1].dir
               /\ DirInside(stack', i, stack'[i].dir)
    BY <1>1, <1>4 DEF CwdInv, DirsKept
  <2>2. stack'[n + 1].old = IF n + 1 = 1 THEN HomeDir ELSE stack'[n].dir
    BY <1>1, <1>2, <1>3
  <2> QED
    BY <1>1, <1>2, <1>5, <2>1, <2>2 DEF DirsKept
<1>7. stack' # << >>
  BY <1>1
<1> QED
  BY <1>1, <1>2, <1>6, <1>7 DEF CwdInv, Top

LEMMA CwdStep ==
    ASSUME ~Drops, TypeOK, RollbackTop, CwdInv, [Next]_vars
    PROVE  CwdInv'
<1>1. CASE UNCHANGED <<stack, cwd>>
  BY <1>1 DEF CwdInv, Top
<1>2. CASE Return
  BY <1>2, DirBack, DirsAfterOver DEF Return
<1>3. CASE Unwind
  <2>1. cwd' = Top.old /\ stack # << >>
    BY <1>3, DirBack DEF Unwind
  <2>2. CASE UNCHANGED stack
    <3>1. Top.kind = "timeout"
      BY <1>3, <2>1, <2>2, TopShape, CutShape DEF Unwind, Expired
    <3> QED
      BY <1>1, <2>1, <2>2, <3>1, DirBack
  <2>3. CASE stack' = Cut(Len(stack) - 1)
    BY <2>1, <2>3, DirsAfterOver
  <2> QED
    BY <1>3, <2>2, <2>3 DEF Unwind
<1>4. CASE RollbackDone
  <2>1. stack # << >> /\ Top.kind = "timeout" /\ cwd' = cwd /\ stack' = Cut(Len(stack) - 1)
    BY <1>4 DEF RollbackDone, RollbackTop, TypeOK
  <2> QED
    BY <2>1, DirBack, DirsAfterOver
<1>5. ASSUME NEW t \in DOMAIN stack, Fire(t) PROVE CwdInv'
  <2>1. stack # << >> /\ cwd' = cwd
    BY <1>5 DEF Fire, TypeOK
  <2>2. DOMAIN stack' = DOMAIN stack /\ Len(stack') = Len(stack) /\ DOMAIN stack = 1 .. Len(stack)
    BY <1>5, FireShape DEF TypeOK
  <2>3. \A i \in DOMAIN stack :
           /\ stack'[i].kind = stack[i].kind
           /\ stack'[i].old = stack[i].old
           /\ stack'[i].dir = stack[i].dir
    BY <1>5, FireShape
  <2>4. ASSUME NEW i \in DOMAIN stack PROVE DirInside(stack', i, stack'[i].dir)
    <3>1. i \in Nat /\ \A j \in 1 .. i : j \in DOMAIN stack
      BY <2>2 DEF TypeOK
    <3>2. {j \in 1 .. i : stack'[j].kind = "scope"} = {j \in 1 .. i : stack[j].kind = "scope"}
      BY <2>3, <3>1
    <3> QED
      BY <2>3, <3>1, <3>2 DEF CwdInv, DirsKept, DirInside
  <2>5. \A i \in DOMAIN stack : i # 1 => i - 1 \in DOMAIN stack
    BY <2>2 DEF TypeOK
  <2>6. DirsKept(stack')
    BY <2>2, <2>3, <2>4, <2>5 DEF CwdInv, DirsKept
  <2>7. Top'.dir = Top.dir /\ stack' # << >>
    BY <2>1, <2>2, <2>3, TopShape DEF Top
  <2> QED
    BY <2>1, <2>6, <2>7 DEF CwdInv
<1>6. Plain => UNCHANGED <<stack, cwd>>
  BY DEF Plain, Refuse, Fail, Report, TooDeep, Cancel, UndoFails, Replace, Recover, ReplaceDone,
         RecoverDone, vars
<1>7. Succeed \/ PopUndo \/ UndoOk => UNCHANGED <<stack, cwd>>
  BY DEF Succeed, PopUndo, UndoOk
<1>8. (\E o \in Objects \cup {NoObject}, own \in BOOLEAN : Call(o, own)) => UNCHANGED <<stack, cwd>>
  BY DEF Call
<1>9. \A t \in DOMAIN stack : ~GraceEnds(t)
  BY DEF GraceEnds
<1> QED
  BY <1>1, <1>2, <1>3, <1>4, <1>5, <1>6, <1>7, <1>8, <1>9, DirsAfterEnter, Steps

\* Scope's "restored unconditionally on exit", for programs no grace period
\* of which runs out: a branch dropped at an await never gets to ctx.cwd = old.
THEOREM ScopeCwdHolds ==
    ASSUME ~Drops
    PROVE  Spec => []ScopeCwd
<1>1. Init => RollbackTop /\ CwdInv
  BY DEF Init, RollbackTop, CwdInv, DirsKept
<1>2. TypeOK /\ RollbackTop /\ CwdInv /\ [Next]_vars => (RollbackTop /\ CwdInv)'
  BY RollbackTopStep, CwdStep
<1>3. TypeOK /\ CwdInv => ScopeCwd
  <2> SUFFICES ASSUME TypeOK, CwdInv PROVE ScopeCwd
    OBVIOUS
  <2>1. CASE stack = << >>
    BY <2>1 DEF CwdInv, ScopeCwd
  <2>2. CASE stack # << >>
    <3>1. DirInside(stack, Len(stack), cwd) /\ DOMAIN stack = 1 .. Len(stack)
      BY <2>2, TopShape DEF CwdInv, DirsKept, TypeOK
    <3> QED
      BY <3>1 DEF DirInside, ScopeCwd
  <2> QED
    BY <2>1, <2>2
<1> QED
  BY <1>1, <1>2, <1>3, InitTypes, TypesStep, PTL DEF Spec

-----------------------------------------------------------------------------
(* OwnHolds, TimeoutUndoesInner *)

\* The frames no Replace runs inside of.
Sheltered == {t \in DOMAIN stack : stack[t].kind \notin ReplaceIn}

\* What lies below the mark of such a frame is what lay there when it was
\* opened: older effects, with the marks of the registry they had then.
Below(s, u, n) ==
    \A t \in DOMAIN s : s[t].kind \notin ReplaceIn =>
        /\ s[t].mark <= Len(u)
        /\ s[t].ops <= n
        /\ \A i \in 1 .. s[t].mark :
              u[i].op <= s[t].ops /\ (u[i].own => u[i].obj \in s[t].owned)
        /\ \A r \in 1 .. t : s[r].kind \notin ReplaceIn => s[r].mark <= s[t].mark

\* The syscall awaited has left its mark already, and no undo has the same.
OwnInflight ==
    mode = "io" /\ inflight.own =>
        /\ inflight.obj \in owned
        /\ \A i \in DOMAIN undo : undo[i].own => undo[i].obj # inflight.obj

MarkInv ==
    /\ Below(stack, undo, ops)
    /\ \A i \in DOMAIN undo : undo[i].op <= ops
    /\ OwnHolds
    /\ OwnInflight
    /\ mode \in {"replacing", "recovering"} => Sheltered = {}

\* The steps that change neither the undo stack nor the frames nor the marks.
LEMMA MarksAlone ==
    ASSUME MarkInv, UNCHANGED <<stack, undo, ops, owned>>,
           mode' = "io" => UNCHANGED <<mode, inflight>>,
           mode' \in {"replacing", "recovering"} => Sheltered = {}
    PROVE  MarkInv'
  BY DEF MarkInv, OwnHolds, OwnInflight, Sheltered

\* The calls from n + 1 on are over.
LEMMA MarksAfterCut ==
    ASSUME TypeOK, MarkInv, NEW n \in 0 .. Len(stack), stack' = Cut(n), UNCHANGED undo,
           ops' \in Nat, ops <= ops', mode' \notin {"io", "replacing", "recovering"},
           \A i \in DOMAIN undo : undo[i].own => undo[i].obj \in owned'
    PROVE  MarkInv'
<1>1. /\ DOMAIN stack = 1 .. Len(stack) /\ DOMAIN stack' = 1 .. n
      /\ \A i \in DOMAIN stack' : i \in DOMAIN stack /\ stack'[i] = stack[i]
  BY CutShape
<1>2. /\ \A i \in DOMAIN stack : stack[i].ops \in Nat
      /\ \A i \in DOMAIN undo : undo[i].op \in Nat
      /\ ops \in Nat
  BY ElementTypes
<1>3. Below(stack', undo, ops')
  <2> SUFFICES ASSUME NEW t \in 1 .. n, stack[t].kind \notin ReplaceIn
               PROVE  /\ stack[t].mark <= Len(undo)
                      /\ stack[t].ops <= ops'
                      /\ \A i \in 1 .. stack[t].mark :
                            /\ undo[i].op <= stack[t].ops
                            /\ undo[i].own => undo[i].obj \in stack[t].owned
                      /\ \A r \in 1 .. t : stack'[r].kind \notin ReplaceIn => stack'[r].mark <= stack[t].mark
    BY <1>1 DEF Below
  <2>1. t \in DOMAIN stack /\ \A r \in 1 .. t : r \in DOMAIN stack'
    BY <1>1
  <2>2. /\ stack[t].mark <= Len(undo)
        /\ stack[t].ops <= ops
        /\ \A i \in 1 .. stack[t].mark :
              undo[i].op <= stack[t].ops /\ (undo[i].own => undo[i].obj \in stack[t].owned)
        /\ \A r \in 1 .. t : stack[r].kind \notin ReplaceIn => stack[r].mark <= stack[t].mark
    BY <2>1 DEF MarkInv, Below
  <2>3. stack[t].ops <= ops'
    BY <1>2, <2>1, <2>2
  <2> QED
    BY <1>1, <2>1, <2>2, <2>3
<1>4. \A i \in DOMAIN undo : undo[i].op <= ops'
  BY <1>2 DEF MarkInv
<1> QED
  BY <1>3, <1>4 DEF MarkInv, OwnHolds, OwnInflight

LEMMA MarksAfterEnter ==
    ASSUME TypeOK, MarkInv, NEW kind \in Kinds, NEW key \in Keys \cup {NoKey}, NEW dir \in Dirs,
           Enter(kind, key, dir)
    PROVE  MarkInv'
<1> DEFINE n == Len(stack)
           f == Frame(kind, key, dir)
<1>1. /\ n \in Nat /\ DOMAIN stack = 1 .. n /\ DOMAIN stack' = 1 .. n + 1
      /\ \A i \in 1 .. n : stack'[i] = stack[i]
      /\ stack'[n + 1] = f
  BY EnterShape
<1>2. f.mark = Len(undo) /\ f.ops = ops /\ f.owned = owned
  BY DEF Frame
<1>3. Len(undo) \in Nat /\ DOMAIN undo = 1 .. Len(undo) /\ ops \in Nat
  BY DEF TypeOK
<1> HIDE DEF f
<1>4. Below(stack', undo, ops)
  <2>1. ASSUME NEW t \in 1 .. n, stack[t].kind \notin ReplaceIn
        PROVE  /\ stack[t].mark <= Len(undo) /\ stack[t].ops <= ops
               /\ \A i \in 1 .. stack[t].mark :
                     undo[i].op <= stack[t].ops /\ (undo[i].own => undo[i].obj \in stack[t].owned)
               /\ \A r \in 1 .. t : stack'[r].kind \notin ReplaceIn => stack'[r].mark <= stack[t].mark
    BY <1>1, <2>1 DEF MarkInv, Below
  <2>2. \A i \in 1 .. f.mark : undo[i].op <= f.ops /\ (undo[i].own => undo[i].obj \in f.owned)
    BY <1>2, <1>3 DEF MarkInv, OwnHolds
  <2>3. \A r \in 1 .. n + 1 : stack'[r].kind \notin ReplaceIn => stack'[r].mark <= f.mark
    <3>1. \A r \in 1 .. n : stack[r].kind \notin ReplaceIn => stack[r].mark <= f.mark
      BY <1>1, <1>2, <2>1
    <3> QED
      BY <1>1, <1>2, <1>3, <3>1
  <2> QED
    BY <1>1, <1>2, <1>3, <2>1, <2>2, <2>3 DEF Below
<1> QED
  BY <1>4 DEF Enter, Ready, MarkInv, OwnHolds, OwnInflight

\* A new undo lies above every mark.
LEMMA MarksAfterPush ==
    ASSUME TypeOK, MarkInv, NEW u \in Undos, undo' = Append(undo, u), UNCHANGED <<stack, owned>>,
           ops' \in Nat, ops <= ops', u.op <= ops', u.own => u.obj \in owned, mode' = "run"
    PROVE  MarkInv'
<1>1. /\ Len(undo) \in Nat /\ DOMAIN undo = 1 .. Len(undo)
      /\ Len(undo') = Len(undo) + 1 /\ DOMAIN undo' = 1 .. Len(undo) + 1
      /\ \A i \in 1 .. Len(undo) : undo'[i] = undo[i]
      /\ undo'[Len(undo) + 1] = u
  <2>1. undo \in Seq(Undos)
    BY DEF TypeOK
  <2> QED
    BY <2>1
<1>2. /\ \A i \in DOMAIN stack : stack[i].ops \in Nat /\ stack[i].mark \in Nat
      /\ \A i \in DOMAIN undo : undo[i].op \in Nat
      /\ ops \in Nat
  BY ElementTypes
<1>3. Below(stack, undo', ops')
  <2> SUFFICES ASSUME NEW t \in DOMAIN stack, stack[t].kind \notin ReplaceIn
               PROVE  /\ stack[t].mark <= Len(undo')
                      /\ stack[t].ops <= ops'
                      /\ \A i \in 1 .. stack[t].mark :
                            /\ undo'[i].op <= stack[t].ops
                            /\ undo'[i].own => undo'[i].obj \in stack[t].owned
                      /\ \A r \in 1 .. t : stack[r].kind \notin ReplaceIn => stack[r].mark <= stack[t].mark
    BY DEF Below
  <2>1. /\ stack[t].mark <= Len(undo) /\ stack[t].ops <= ops
        /\ \A i \in 1 .. stack[t].mark :
              undo[i].op <= stack[t].ops /\ (undo[i].own => undo[i].obj \in stack[t].owned)
        /\ \A r \in 1 .. t : stack[r].kind \notin ReplaceIn => stack[r].mark <= stack[t].mark
    BY DEF MarkInv, Below
  <2>2. \A i \in 1 .. stack[t].mark : i \in 1 .. Len(undo)
    BY <1>1, <1>2, <2>1
  <2> QED
    BY <1>1, <1>2, <2>1, <2>2
<1>4. \A i \in DOMAIN undo' : undo'[i].op <= ops'
  BY <1>1, <1>2 DEF MarkInv
<1>5. \A i \in DOMAIN undo' : undo'[i].own => undo'[i].obj \in owned
  BY <1>1 DEF MarkInv, OwnHolds
<1> QED
  BY <1>3, <1>4, <1>5 DEF MarkInv, OwnHolds, OwnInflight

LEMMA MarksAfterPop ==
    ASSUME "timeout" \notin ReplaceIn, TypeOK, RollbackTop, MarkInv, PopUndo
    PROVE  MarkInv'
<1> DEFINE n == Len(undo)
<1>1. undo \in Seq(Undos) /\ undo # << >>
  BY PopsOne
<1>2. /\ n \in Nat /\ DOMAIN undo = 1 .. n
      /\ Len(undo') = n - 1 /\ DOMAIN undo' = 1 .. n - 1
      /\ \A i \in 1 .. n - 1 : undo'[i] = undo[i]
  <2>1. n \in Nat /\ n - 1 \in 0 .. n /\ DOMAIN undo = 1 .. n
    BY <1>1, LastProperties
  <2> QED
    BY <1>1, <2>1, CutProperties DEF PopUndo
<1>3. \A t \in DOMAIN stack : stack[t].kind \notin ReplaceIn => stack[t].mark <= n - 1
  <2> SUFFICES ASSUME NEW t \in DOMAIN stack, stack[t].kind \notin ReplaceIn
               PROVE  stack[t].mark <= n - 1
    OBVIOUS
  <2>1. mode = "rollback"
    BY DEF PopUndo, Undoing, MarkInv, Sheltered
  <2>2. /\ Len(stack) \in DOMAIN stack /\ Top = stack[Len(stack)] /\ Top.kind = "timeout"
        /\ t \in 1 .. Len(stack)
    BY <2>1, TopShape DEF TypeOK, RollbackTop
  <2>3. stack[t].mark <= Top.mark /\ Top.mark < n
    BY <2>1, <2>2 DEF MarkInv, Below, PopUndo, Floor
  <2>4. stack[t].mark \in Nat /\ Top.mark \in Nat
    BY <2>2, ElementTypes
  <2> QED
    BY <1>2, <2>3, <2>4
<1>4. Below(stack, undo', ops)
  <2> SUFFICES ASSUME NEW t \in DOMAIN stack, stack[t].kind \notin ReplaceIn
               PROVE  /\ stack[t].mark <= Len(undo')
                      /\ stack[t].ops <= ops
                      /\ \A i \in 1 .. stack[t].mark :
                            /\ undo'[i].op <= stack[t].ops
                            /\ undo'[i].own => undo'[i].obj \in stack[t].owned
                      /\ \A r \in 1 .. t : stack[r].kind \notin ReplaceIn => stack[r].mark <= stack[t].mark
    BY DEF Below
  <2>1. stack[t].mark \in Nat /\ stack[t].mark <= n - 1
    BY <1>3, ElementTypes
  <2>2. \A i \in 1 .. stack[t].mark : i \in 1 .. n - 1
    BY <1>2, <2>1
  <2> QED
    BY <1>2, <2>1, <2>2 DEF MarkInv, Below
<1>5. \A i \in DOMAIN undo' : i \in DOMAIN undo /\ undo'[i] = undo[i]
  BY <1>2
<1>6. UNCHANGED <<stack, ops, owned, mode>> /\ mode # "io"
  BY DEF PopUndo, Undoing
<1> QED
  BY <1>4, <1>5, <1>6 DEF MarkInv, OwnHolds, OwnInflight, Sheltered

LEMMA MarksAfterRollback ==
    ASSUME "timeout" \notin ReplaceIn, TypeOK, RollbackTop, MarkInv, RollbackDone
    PROVE  MarkInv'
<1>1. stack # << >> /\ Top.kind = "timeout"
  BY DEF RollbackDone, RollbackTop, TypeOK
<1>2. \A i \in DOMAIN undo : undo[i].own => undo[i].obj \in Top.owned
  <2>1. Len(undo) <= Top.mark /\ Len(undo) \in Nat /\ DOMAIN undo = 1 .. Len(undo)
    BY DEF RollbackDone, TypeOK
  <2>2. Top.mark \in Nat
    BY <1>1, TopShape, ElementTypes
  <2>3. \A i \in DOMAIN undo : i \in 1 .. Top.mark
    BY <2>1, <2>2
  <2> QED
    BY <1>1, <2>3, TopShape DEF MarkInv, Below
<1>3. \A i \in DOMAIN undo : undo[i].own => undo[i].obj \in owned'
  BY <1>2 DEF RollbackDone, MarksBefore, MarkInv, OwnHolds
<1> QED
  BY <1>1, <1>3, TopShape, MarksAfterCut DEF RollbackDone, TypeOK

\* Only the marks of the syscall in flight change.
LEMMA MarksAfterFail ==
    ASSUME MarkInv, Fail
    PROVE  MarkInv'
<1>1. UNCHANGED <<stack, undo, ops>> /\ mode' = "err"
  BY DEF Fail
<1>2. \A i \in DOMAIN undo : undo[i].own => undo[i].obj \in owned'
  BY DEF Fail, MarkInv, OwnHolds, OwnInflight
<1> QED
  BY <1>1, <1>2 DEF MarkInv, OwnHolds, OwnInflight

LEMMA MarksAfterCall ==
    ASSUME MarkInv, NEW o \in Objects \cup {NoObject}, NEW own \in BOOLEAN, Call(o, own)
    PROVE  MarkInv'
<1>1. UNCHANGED <<stack, undo, ops>> /\ mode' = "io" /\ inflight' = [obj |-> o, own |-> own]
  BY DEF Call
<1>2. \A i \in DOMAIN undo : undo[i].own => undo[i].obj \in owned' /\ undo[i].obj # o
  BY DEF Call, MarkInv, OwnHolds
<1>3. own => o \in owned'
  BY DEF Call
<1> QED
  BY <1>1, <1>2, <1>3 DEF MarkInv, OwnHolds, OwnInflight

LEMMA MarksAfterSucceed ==
    ASSUME TypeOK, MarkInv, Succeed
    PROVE  MarkInv'
<1>1. /\ UNCHANGED <<stack, owned>> /\ mode' = "run" /\ mode = "io"
      /\ ops \in Nat /\ ops' = ops + 1
  BY DEF Succeed, Effect, TypeOK
<1>2. CASE undo' = Append(undo, Inverse) /\ inflight.obj # NoObject
  <2>1. Inverse \in Undos
    <3>1. inflight.obj \in Objects /\ inflight.own \in BOOLEAN
      BY <1>2 DEF TypeOK, Inflight
    <3>2. world[inflight.obj] \in Nat /\ world \in Worlds
      BY <3>1 DEF TypeOK, Worlds
    <3> QED
      BY <1>1, <3>1, <3>2 DEF Inverse, Undos
  <2>2. Inverse.op = ops' /\ (Inverse.own => Inverse.obj \in owned)
    BY <1>1 DEF Inverse, MarkInv, OwnInflight
  <2>3. ops' \in Nat /\ ops <= ops' /\ Inverse.op <= ops'
    BY <1>1, <2>2
  <2> HIDE DEF Inverse
  <2> QED
    BY <1>1, <1>2, <2>1, <2>2, <2>3, MarksAfterPush
<1>3. CASE UNCHANGED undo
  <2>1. ops <= ops' /\ \A t \in DOMAIN stack : stack[t].ops \in Nat
    BY <1>1, ElementTypes
  <2>2. Below(stack, undo, ops')
    BY <1>1, <2>1 DEF MarkInv, Below
  <2>3. \A i \in DOMAIN undo : undo[i].op <= ops'
    BY <1>1, ElementTypes DEF MarkInv
  <2> QED
    BY <1>1, <1>3, <2>2, <2>3 DEF MarkInv, OwnHolds, OwnInflight
<1> QED
  BY <1>2, <1>3 DEF Succeed

LEMMA MarksAfterReturn ==
    ASSUME TypeOK, MarkInv, Return
    PROVE  MarkInv'
<1>1. /\ stack # << >> /\ Len(stack) - 1 \in 0 .. Len(stack) /\ stack' = Cut(Len(stack) - 1)
      /\ UNCHANGED <<ops, owned>> /\ mode \in {"run", "value"} /\ ops \in Nat
      /\ mode' \in {"run", "value"}
  BY TopShape, OverModes DEF Return, TypeOK
<1>2. CASE UNCHANGED undo
  BY <1>1, <1>2, MarksAfterCut DEF MarkInv, OwnHolds
<1>3. CASE Top.kind = "idem" /\ ~UNCHANGED undo
  <2> DEFINE u == [obj |-> NoObject, old |-> 0, own |-> FALSE, key |-> Top.key, op |-> 0,
                   world |-> world]
  <2>1. undo' = Append(undo, u)
    BY <1>3 DEF Return, Commit
  <2>2. u \in Undos /\ u.op = 0 /\ ~u.own
    <3>1. Top.key \in Keys \cup {NoKey} /\ world \in Worlds
      BY <1>1, CutTypes DEF TypeOK, Frames
    <3> QED
      BY <3>1 DEF Undos
  <2> HIDE DEF u
  <2>3. /\ DOMAIN stack = 1 .. Len(stack) /\ DOMAIN stack' = 1 .. Len(stack) - 1
        /\ \A i \in DOMAIN stack' : i \in DOMAIN stack /\ stack'[i] = stack[i]
    BY <1>1, CutShape
  <2>4. /\ Len(undo) \in Nat /\ DOMAIN undo = 1 .. Len(undo)
        /\ Len(undo') = Len(undo) + 1 /\ DOMAIN undo' = 1 .. Len(undo) + 1
        /\ \A i \in 1 .. Len(undo) : undo'[i] = undo[i]
        /\ undo'[Len(undo) + 1] = u
    <3>1. undo \in Seq(Undos)
      BY DEF TypeOK
    <3> QED
      BY <2>1, <3>1
  <2>5. Below(stack', undo', ops)
    <3> SUFFICES ASSUME NEW t \in DOMAIN stack', stack'[t].kind \notin ReplaceIn
                 PROVE  /\ stack'[t].mark <= Len(undo')
                        /\ stack'[t].ops <= ops
                        /\ \A i \in 1 .. stack'[t].mark :
                              /\ undo'[i].op <= stack'[t].ops
                              /\ undo'[i].own => undo'[i].obj \in stack'[t].owned
                        /\ \A r \in 1 .. t : stack'[r].kind \notin ReplaceIn => stack'[r].mark <= stack'[t].mark
      BY DEF Below
    <3>1. t \in DOMAIN stack /\ stack'[t] = stack[t] /\ \A r \in 1 .. t : r \in DOMAIN stack'
      BY <2>3
    <3>2. /\ stack[t].mark <= Len(undo) /\ stack[t].ops <= ops
          /\ \A i \in 1 .. stack[t].mark :
                undo[i].op <= stack[t].ops /\ (undo[i].own => undo[i].obj \in stack[t].owned)
          /\ \A r \in 1 .. t : stack[r].kind \notin ReplaceIn => stack[r].mark <= stack[t].mark
      BY <3>1 DEF MarkInv, Below
    <3>3. stack[t].mark \in Nat
      BY <3>1, ElementTypes
    <3>4. \A i \in 1 .. stack[t].mark : i \in 1 .. Len(undo)
      BY <2>4, <3>2, <3>3
    <3>5. stack[t].mark <= Len(undo')
      BY <2>4, <3>2, <3>3
    <3>6. \A i \in 1 .. stack[t].mark : undo'[i] = undo[i]
      BY <2>4, <3>4
    <3>7. \A r \in 1 .. t : stack'[r] = stack[r]
      BY <2>3, <3>1
    <3> QED
      BY <3>1, <3>2, <3>5, <3>6, <3>7
  <2>6. \A i \in DOMAIN undo' :
           undo'[i].op <= ops /\ (undo'[i].own => undo'[i].obj \in owned)
    BY <1>1, <2>2, <2>4 DEF MarkInv, OwnHolds
  <2> QED
    BY <1>1, <2>5, <2>6 DEF MarkInv, OwnHolds, OwnInflight
<1> QED
  BY <1>2, <1>3 DEF Return

LEMMA MarkStep ==
    ASSUME "timeout" \notin ReplaceIn, TypeOK, RollbackTop, MarkInv, [Next]_vars
    PROVE  MarkInv'
<1>1. CASE Plain
  <2>1. ASSUME NEW o \in Objects, Refuse(o) PROVE MarkInv'
    BY <2>1, MarksAlone DEF Refuse
  <2>2. CASE Report \/ TooDeep \/ Cancel
    BY <2>2, MarksAlone DEF Report, TooDeep, Cancel
  <2>3. CASE UndoFails
    <3>1. mode # "io"
      BY <2>3, ProgramAssumption DEF UndoFails, Undoing
    <3> QED
      BY <2>3, <3>1, MarksAlone DEF UndoFails, MarkInv
  <2>4. CASE Replace
    <3>1. Sheltered = {}
      BY <2>4 DEF Replace, Sheltered
    <3> QED
      BY <2>4, <3>1, MarksAlone DEF Replace
  <2>5. CASE Recover
    <3>1. Sheltered = {}
      BY <2>5 DEF Recover, Sheltered
    <3> QED
      BY <2>5, <3>1, MarksAlone DEF Recover
  <2>6. CASE ReplaceDone
    <3>1. /\ undo = << >> /\ UNCHANGED <<stack, undo, ops>> /\ mode' \in {"run", "err"}
      BY <2>6 DEF ReplaceDone, Recovered
    <3> QED
      BY <3>1 DEF MarkInv, OwnHolds, OwnInflight
  <2>7. CASE RecoverDone
    BY <2>7, MarksAlone DEF RecoverDone
  <2>8. CASE UNCHANGED vars
    BY <2>8, MarksAlone DEF vars, MarkInv
  <2> QED
    BY <1>1, <2>1, <2>2, <2>3, <2>4, <2>5, <2>6, <2>7, <2>8, MarksAfterFail DEF Plain
<1>2. CASE Unwind
  <2>1. stack # << >> /\ UNCHANGED <<undo, ops, owned>> /\ mode' \in {"rollback", "run", "err"}
    BY <1>2 DEF Unwind
  <2>2. CASE UNCHANGED stack
    BY <2>1, <2>2, MarksAlone
  <2>3. CASE stack' = Cut(Len(stack) - 1)
    <3>1. ops' \in Nat /\ ops <= ops'
      BY <2>1 DEF TypeOK
    <3> QED
      BY <2>1, <2>3, <3>1, TopShape, MarksAfterCut DEF MarkInv, OwnHolds
  <2> QED
    BY <1>2, <2>2, <2>3 DEF Unwind
<1>3. ASSUME NEW t \in DOMAIN stack, Fire(t) PROVE MarkInv'
  <2>1. /\ DOMAIN stack' = DOMAIN stack /\ DOMAIN stack = 1 .. Len(stack)
        /\ \A i \in DOMAIN stack :
              /\ stack'[i].kind = stack[i].kind /\ stack'[i].mark = stack[i].mark
              /\ stack'[i].owned = stack[i].owned /\ stack'[i].ops = stack[i].ops
    BY <1>3, FireShape DEF TypeOK
  <2>2. UNCHANGED <<mode, inflight, undo, owned, ops>>
    BY <1>3 DEF Fire
  <2>3. \A i \in DOMAIN stack : \A r \in 1 .. i : r \in DOMAIN stack
    BY <2>1 DEF TypeOK
  <2>4. Below(stack', undo, ops)
    BY <2>1, <2>3 DEF MarkInv, Below
  <2>5. Sheltered' = Sheltered
    BY <2>1 DEF Sheltered
  <2> QED
    BY <2>2, <2>4, <2>5 DEF MarkInv, OwnHolds, OwnInflight
<1>4. ASSUME NEW t \in DOMAIN stack, GraceEnds(t) PROVE MarkInv'
  <2>1. t \in 0 .. Len(stack) /\ stack' = Cut(t) /\ UNCHANGED <<undo, owned>> /\ mode' = "rollback"
    BY <1>4 DEF GraceEnds, TypeOK
  <2>2. ops' \in Nat /\ ops <= ops'
    BY <1>4 DEF GraceEnds, Effect, TypeOK
  <2> QED
    BY <2>1, <2>2, MarksAfterCut DEF MarkInv, OwnHolds
<1>5. CASE UndoOk
  <2>1. UNCHANGED <<stack, undo, ops, owned, mode, inflight>>
    BY <1>5 DEF UndoOk
  <2> QED
    BY <2>1, MarksAlone DEF MarkInv
<1> QED
  BY <1>1, <1>2, <1>3, <1>4, <1>5, Steps, MarksAfterCall, MarksAfterSucceed, MarksAfterEnter,
     MarksAfterReturn, MarksAfterRollback, MarksAfterPop

LEMMA MarkInit == Init => RollbackTop /\ MarkInv
  BY DEF Init, RollbackTop, MarkInv, Below, OwnHolds, OwnInflight, Sheltered

\* A4 when going back: an Own whose undo is still recorded keeps its mark,
\* for programs that run no Replace inside a Timeout.
THEOREM OwnHoldsKept ==
    ASSUME "timeout" \notin ReplaceIn
    PROVE  Spec => []OwnHolds
<1>1. TypeOK /\ RollbackTop /\ MarkInv /\ [Next]_vars => (RollbackTop /\ MarkInv)'
  BY RollbackTopStep, MarkStep
<1>2. MarkInv => OwnHolds
  BY DEF MarkInv
<1> QED
  BY <1>1, <1>2, MarkInit, InitTypes, TypesStep, PTL DEF Spec

\* run_wall_timeout leaves no undo of what ran inside it, however the inner
\* future ended: by itself, cancelled, or dropped when the grace was over.
THEOREM TimeoutUndoesInnerHolds ==
    ASSUME "timeout" \notin ReplaceIn
    PROVE  Spec => []TimeoutUndoesInner
<1>1. TypeOK /\ RollbackTop /\ MarkInv /\ [Next]_vars => (RollbackTop /\ MarkInv)'
  BY RollbackTopStep, MarkStep
<1>2. TypeOK /\ RollbackTop /\ MarkInv => TimeoutUndoesInner
  <2> SUFFICES ASSUME TypeOK, RollbackTop, MarkInv, mode = "rollback", Len(undo) <= Top.mark,
                      NEW i \in DOMAIN undo
               PROVE  undo[i].op <= Top.ops
    BY DEF TimeoutUndoesInner
  <2>1. Len(stack) \in DOMAIN stack /\ Top = stack[Len(stack)] /\ Top.kind = "timeout"
    BY TopShape DEF TypeOK, RollbackTop
  <2>2. i \in 1 .. Top.mark
    <3>1. Top.mark \in Nat /\ Len(undo) \in Nat /\ i \in 1 .. Len(undo)
      BY <2>1, ElementTypes DEF TypeOK
    <3> QED
      BY <3>1
  <2> QED
    BY <2>1, <2>2 DEF MarkInv, Below
<1> QED
  BY <1>1, <1>2, MarkInit, InitTypes, TypesStep, PTL DEF Spec

-----------------------------------------------------------------------------
(* GateSound, TimeoutRestores *)

\* Doing the undo u in the world w leads to the world u was recorded in.
Leads(u, w) ==
    IF u.obj = NoObject THEN w = u.world ELSE [w EXCEPT ![u.obj] = u.old] = u.world

\* The world in which the undo stack u was n high, if w is the world now.
At(u, w, n) == IF n < Len(u) THEN u[n + 1].world ELSE w

\* The mark of a Timeout is good only as long as no Replace runs inside it.
MarkGood(f) == f.kind = "timeout" /\ "timeout" \notin ReplaceIn

\* Every undo leads to where the one below it starts; at the bottom is the
\* world of the origin, and at the mark of a Timeout the one it was opened in.
Chain(s, u, w, first) ==
    /\ \A i \in DOMAIN u : Leads(u[i], At(u, w, i))
    /\ At(u, w, 0) = first
    /\ \A t \in DOMAIN s : MarkGood(s[t]) => At(u, w, s[t].mark) = s[t].world

\* The world once the undo awaited is done.
Now == IF popped = {} THEN world ELSE (CHOOSE u \in popped : TRUE).world

\* A failed undo breaks the chain, which is mended when the next segment starts.
Broken == failed /\ mode \in {"replacing", "recovering"}

ChainInv ==
    /\ popped # {} => mode \in Undoing /\ \E u \in popped : popped = {u} /\ u.obj # NoObject
    /\ \A i \in DOMAIN undo : undo[i].key = NoKey <=> undo[i].obj # NoObject
    /\ mode = "rollback" => ~failed
    /\ ~Broken =>
          /\ Chain(stack, undo, Now, origin.world)
          /\ \A u \in popped : Leads(u, world)

LEMMA ChainPush ==
    ASSUME NEW s, NEW u \in Seq(Undos), NEW e \in Undos, NEW w, NEW first,
           Chain(s, u, e.world, first), Leads(e, w),
           \A t \in DOMAIN s : MarkGood(s[t]) => s[t].mark \in 0 .. Len(u)
    PROVE  Chain(s, Append(u, e), w, first)
<1> DEFINE n == Len(u)
           v == Append(u, e)
<1>1. /\ n \in Nat /\ DOMAIN u = 1 .. n /\ Len(v) = n + 1 /\ DOMAIN v = 1 .. n + 1
      /\ \A i \in 1 .. n : v[i] = u[i]
      /\ v[n + 1] = e
  OBVIOUS
<1> HIDE DEF v
<1>2. ASSUME NEW i \in 0 .. n PROVE At(v, w, i) = At(u, e.world, i)
  <2>1. CASE i = n
    BY <1>1, <2>1 DEF At
  <2>2. CASE i # n
    <3>1. i + 1 \in 1 .. n /\ i < n /\ i < n + 1
      <4> HIDE DEF n
      <4> QED
        BY <1>1, <2>2
    <3> QED
      BY <1>1, <3>1 DEF At
  <2> QED
    BY <2>1, <2>2
<1>3. At(v, w, n + 1) = w
  BY <1>1 DEF At
<1>4. ASSUME NEW i \in 1 .. n + 1 PROVE Leads(v[i], At(v, w, i))
  <2>1. CASE i = n + 1
    BY <1>1, <1>3, <2>1
  <2>2. CASE i # n + 1
    <3>1. i \in 1 .. n /\ i \in 0 .. n
      BY <1>1, <2>2
    <3>2. Leads(u[i], At(u, e.world, i))
      BY <1>1, <3>1 DEF Chain
    <3> QED
      BY <1>1, <1>2, <3>1, <3>2
  <2> QED
    BY <2>1, <2>2
<1>5. At(v, w, 0) = first
  BY <1>1, <1>2 DEF Chain
<1>6. \A t \in DOMAIN s : MarkGood(s[t]) => At(v, w, s[t].mark) = s[t].world
  BY <1>2 DEF Chain
<1>7. Chain(s, v, w, first)
  BY <1>1, <1>4, <1>5, <1>6 DEF Chain
<1> QED
  BY <1>7 DEF v

LEMMA ChainPop ==
    ASSUME NEW s, NEW u \in Seq(Undos), u # << >>, NEW w, NEW first, Chain(s, u, w, first),
           \A t \in DOMAIN s : MarkGood(s[t]) => s[t].mark \in 0 .. Len(u) - 1
    PROVE  /\ Leads(u[Len(u)], w)
           /\ Chain(s, SubSeq(u, 1, Len(u) - 1), u[Len(u)].world, first)
<1> DEFINE n == Len(u)
           v == SubSeq(u, 1, n - 1)
           e == u[n]
<1>1. n \in Nat \ {0} /\ n - 1 \in 0 .. n /\ DOMAIN u = 1 .. n
  BY LastProperties
<1>2. Len(v) = n - 1 /\ DOMAIN v = 1 .. n - 1 /\ \A i \in 1 .. n - 1 : v[i] = u[i]
  BY <1>1, CutProperties
<1> HIDE DEF v
<1>3. ASSUME NEW i \in 0 .. n - 1 PROVE At(v, e.world, i) = At(u, w, i)
  <2>1. CASE i = n - 1
    BY <1>1, <1>2, <2>1 DEF At
  <2>2. CASE i # n - 1
    <3>1. i + 1 \in 1 .. n - 1 /\ i < n - 1 /\ i < n
      <4> HIDE DEF n
      <4> QED
        BY <1>1, <2>2
    <3> QED
      BY <1>2, <3>1 DEF At
  <2> QED
    BY <2>1, <2>2
<1>4. At(u, w, n) = w
  BY <1>1 DEF At
<1>5. Leads(e, w)
  BY <1>1, <1>4 DEF Chain
<1>6. ASSUME NEW i \in 1 .. n - 1 PROVE Leads(v[i], At(v, e.world, i))
  <2>1. i \in DOMAIN u /\ i \in 0 .. n - 1
    BY <1>1
  <2>2. Leads(u[i], At(u, w, i))
    BY <2>1 DEF Chain
  <2> QED
    BY <1>2, <1>3, <2>1, <2>2
<1>7. At(v, e.world, 0) = first
  BY <1>1, <1>3 DEF Chain
<1>8. \A t \in DOMAIN s : MarkGood(s[t]) => At(v, e.world, s[t].mark) = s[t].world
  BY <1>3 DEF Chain
<1>9. Chain(s, v, e.world, first)
  BY <1>2, <1>6, <1>7, <1>8 DEF Chain
<1> QED
  BY <1>5, <1>9 DEF v

\* The steps that only change what the chain is not about.
LEMMA ChainAlone ==
    ASSUME ChainInv, UNCHANGED <<stack, undo, popped, world, origin>>,
           popped # {} => mode' \in Undoing, mode' = "rollback" => ~failed', Broken => Broken'
    PROVE  ChainInv'
  BY DEF ChainInv, Now

\* Outside Replace, recover and a rollback no undo is awaited.
LEMMA ChainReady ==
    ASSUME ChainInv, mode \notin Undoing
    PROVE  popped = {} /\ Chain(stack, undo, world, origin.world)
  BY DEF ChainInv, Broken, Now, Undoing

Marks == "timeout" \notin ReplaceIn => MarkInv

LEMMA Heights ==
    ASSUME TypeOK, Marks
    PROVE  \A t \in DOMAIN stack : MarkGood(stack[t]) => stack[t].mark \in 0 .. Len(undo)
<1>1. Len(undo) \in Nat
  BY DEF TypeOK
<1> QED
  BY <1>1, ElementTypes DEF Marks, MarkInv, Below, MarkGood

\* The calls from n + 1 on are over.
LEMMA ChainCut ==
    ASSUME TypeOK, NEW n \in 0 .. Len(stack), stack' = Cut(n), NEW u, NEW w, NEW first,
           Chain(stack, u, w, first)
    PROVE  Chain(stack', u, w, first)
  BY CutShape DEF Chain

LEMMA ChainAfterSucceed ==
    ASSUME TypeOK, Marks, ChainInv, Succeed
    PROVE  ChainInv'
<1>1. /\ mode = "io" /\ mode' = "run" /\ UNCHANGED <<stack, popped, origin>>
      /\ popped = {} /\ Chain(stack, undo, world, origin.world)
  BY ChainReady DEF Succeed, Undoing
<1>2. CASE inflight.obj = NoObject
  BY <1>1, <1>2 DEF Succeed, Effect, ChainInv, Now
<1>3. CASE inflight.obj # NoObject
  <2> DEFINE e == Inverse
  <2>1. undo' = Append(undo, e) /\ world' = [world EXCEPT ![inflight.obj] = ops + 1]
    BY <1>3 DEF Succeed, Effect
  <2>2. /\ inflight.obj \in Objects /\ inflight.own \in BOOLEAN
        /\ world \in [Objects -> Nat] /\ ops + 1 \in Nat
    BY <1>3 DEF TypeOK, Inflight, Worlds
  <2>3. e \in Undos /\ e.world = world /\ e.obj = inflight.obj /\ e.key = NoKey
    <3>1. world[inflight.obj] \in Nat
      BY <2>2
    <3> QED
      BY <2>2, <3>1 DEF Inverse, Undos, Worlds
  <2>4. Leads(e, world')
    <3>1. e.old = world[e.obj]
      BY DEF Inverse
    <3> HIDE DEF e
    <3>2. [world' EXCEPT ![e.obj] = e.old] = world
      BY <2>1, <2>2, <2>3, <3>1
    <3> QED
      BY <1>3, <2>3, <3>2 DEF Leads
  <2> HIDE DEF e
  <2>5. undo \in Seq(Undos)
    BY DEF TypeOK
  <2>6. Chain(stack, undo', world', origin.world)
    BY <1>1, <2>1, <2>3, <2>4, <2>5, Heights, ChainPush
  <2>7. \A i \in DOMAIN undo' : undo'[i].key = NoKey <=> undo'[i].obj # NoObject
    <3>1. /\ DOMAIN undo = 1 .. Len(undo) /\ DOMAIN undo' = 1 .. Len(undo) + 1 /\ Len(undo) \in Nat
          /\ \A i \in 1 .. Len(undo) : undo'[i] = undo[i]
          /\ undo'[Len(undo) + 1] = e
      BY <2>1, <2>5
    <3> QED
      BY <1>3, <2>3, <3>1 DEF ChainInv
  <2> QED
    BY <1>1, <2>6, <2>7 DEF ChainInv, Now
<1> QED
  BY <1>2, <1>3

LEMMA ChainAfterReturn ==
    ASSUME TypeOK, KeyInv, Marks, ChainInv, Return
    PROVE  ChainInv'
<1>1. /\ stack # << >> /\ Len(stack) - 1 \in 0 .. Len(stack) /\ stack' = Cut(Len(stack) - 1)
      /\ mode' \in {"run", "value"} /\ UNCHANGED <<popped, world, origin>>
      /\ popped = {} /\ Chain(stack, undo, world, origin.world)
  BY TopShape, ChainReady, OverModes DEF Return, Undoing
<1>2. CASE UNCHANGED undo
  BY <1>1, <1>2, ChainCut DEF ChainInv, Now
<1>3. CASE Top.kind = "idem" /\ ~UNCHANGED undo
  <2> DEFINE e == [obj |-> NoObject, old |-> 0, own |-> FALSE, key |-> Top.key, op |-> 0,
                   world |-> world]
  <2>1. undo' = Append(undo, e)
    BY <1>3 DEF Return, Commit
  <2>2. e \in Undos /\ e.world = world /\ e.obj = NoObject /\ e.key # NoKey
    <3>1. Top.key \in Keys /\ Top.key # NoKey
      BY <1>1, <1>3, TopShape, SentinelAssumption DEF KeyInv, KeysOpen
    <3>2. world \in Worlds
      BY DEF TypeOK
    <3> QED
      BY <3>1, <3>2 DEF Undos
  <2> HIDE DEF e
  <2>3. undo \in Seq(Undos) /\ Leads(e, world)
    BY <2>2 DEF TypeOK, Leads
  <2>4. Chain(stack', undo', world, origin.world)
    BY <1>1, <2>1, <2>2, <2>3, Heights, ChainPush, ChainCut
  <2>5. \A i \in DOMAIN undo' : undo'[i].key = NoKey <=> undo'[i].obj # NoObject
    <3>1. /\ DOMAIN undo = 1 .. Len(undo) /\ DOMAIN undo' = 1 .. Len(undo) + 1 /\ Len(undo) \in Nat
          /\ \A i \in 1 .. Len(undo) : undo'[i] = undo[i]
          /\ undo'[Len(undo) + 1] = e
      BY <2>1, <2>3
    <3> QED
      BY <2>2, <3>1 DEF ChainInv
  <2> QED
    BY <1>1, <2>4, <2>5 DEF ChainInv, Now
<1> QED
  BY <1>2, <1>3 DEF Return

LEMMA ChainAfterEnter ==
    ASSUME TypeOK, ChainInv, NEW kind \in Kinds, NEW key \in Keys \cup {NoKey}, NEW dir \in Dirs,
           Enter(kind, key, dir)
    PROVE  ChainInv'
<1>1. /\ mode = "run" /\ UNCHANGED <<mode, undo, popped, world, origin>>
      /\ popped = {} /\ Chain(stack, undo, world, origin.world)
  BY ChainReady DEF Enter, Ready, Undoing
<1>2. /\ DOMAIN stack = 1 .. Len(stack) /\ DOMAIN stack' = 1 .. Len(stack) + 1
      /\ Len(stack) \in Nat
      /\ \A i \in DOMAIN stack : stack'[i] = stack[i]
      /\ stack'[Len(stack) + 1].mark = Len(undo) /\ stack'[Len(stack) + 1].world = world
  <2>1. Frame(kind, key, dir).mark = Len(undo) /\ Frame(kind, key, dir).world = world
    BY DEF Frame
  <2> QED
    BY <2>1, EnterShape
<1>3. At(undo, world, Len(undo)) = world
  BY DEF At, TypeOK
<1>4. Chain(stack', undo, world, origin.world)
  BY <1>1, <1>2, <1>3 DEF Chain
<1> QED
  BY <1>1, <1>4 DEF ChainInv, Now

LEMMA ChainAfterPop ==
    ASSUME TypeOK, RollbackTop, Marks, ChainInv, PopUndo
    PROVE  ChainInv'
<1> DEFINE n == Len(undo)
           u == undo[n]
<1>1. undo \in Seq(Undos) /\ undo # << >> /\ undo' = SubSeq(undo, 1, n - 1)
  BY PopsOne DEF PopUndo
<1>2. /\ n \in Nat \ {0} /\ n - 1 \in 0 .. n /\ n \in DOMAIN undo
      /\ \A i \in DOMAIN undo' : i \in DOMAIN undo /\ undo'[i] = undo[i]
  BY <1>1, LastProperties, CutProperties
<1>3. UNCHANGED <<stack, mode, failed, world, origin>> /\ popped = {} /\ mode \in Undoing
  BY DEF PopUndo
<1>4. popped' = IF u.key # NoKey THEN {} ELSE {u}
  BY <1>3 DEF PopUndo
<1>5. u.key = NoKey <=> u.obj # NoObject
  BY <1>2 DEF ChainInv
<1>6. Broken' <=> Broken
  BY <1>3 DEF Broken
<1>7. ASSUME ~Broken
      PROVE  Leads(u, world) /\ Chain(stack, undo', u.world, origin.world)
  <2>1. Chain(stack, undo, world, origin.world)
    BY <1>3, <1>7 DEF ChainInv, Now
  <2>2. \A t \in DOMAIN stack : MarkGood(stack[t]) => stack[t].mark \in 0 .. n - 1
    <3>1. n - 1 \in Nat /\ Len(undo') = n - 1
      <4>1. Len(undo') = n - 1
        BY <1>1, <1>2, CutProperties
      <4> HIDE DEF n
      <4> QED
        BY <1>2, <4>1
    <3> QED
      BY <1>3, <3>1, MarksAfterPop, ElementTypes DEF Marks, MarkInv, Below, MarkGood
  <2> QED
    BY <1>1, <2>1, <2>2, ChainPop
<1> HIDE DEF n, u
<1>8. ~Broken => Chain(stack, undo', Now', origin.world) /\ \A v \in popped' : Leads(v, world)
  <2>1. CASE u.key # NoKey
    BY <1>3, <1>4, <1>5, <1>7, <2>1 DEF Now, Leads
  <2>2. CASE u.key = NoKey
    <3>1. popped' = {u} /\ Now' = u.world
      BY <1>4, <2>2 DEF Now
    <3> QED
      BY <1>7, <3>1
  <2> QED
    BY <2>1, <2>2
<1> QED
  BY <1>2, <1>3, <1>4, <1>5, <1>6, <1>8 DEF ChainInv

LEMMA ChainAfterUndo ==
    ASSUME TypeOK, ChainInv, UndoOk
    PROVE  ChainInv'
<1>1. /\ UNCHANGED <<stack, mode, undo, failed, origin>> /\ popped' = {}
      /\ \E u \in popped : world' = [world EXCEPT ![u.obj] = u.old]
  BY DEF UndoOk
<1>2. PICK u \in popped : popped = {u} /\ u.obj # NoObject
  BY <1>1 DEF ChainInv
<1>3. world' = [world EXCEPT ![u.obj] = u.old] /\ Now = u.world
  BY <1>1, <1>2 DEF Now
<1>4. ~Broken => Now' = Now
  BY <1>1, <1>2, <1>3 DEF ChainInv, Leads, Now
<1>5. Broken' <=> Broken
  BY <1>1 DEF Broken
<1> QED
  BY <1>1, <1>4, <1>5 DEF ChainInv

\* What follows Replace or recover starts a chain of its own.
LEMMA ChainRestarts ==
    ASSUME Marks, ChainInv, mode \in {"replacing", "recovering"}, Recovered, Restarted,
           mode' \in {"run", "err"}, UNCHANGED <<stack, undo, popped, world>>
    PROVE  ChainInv'
<1>1. undo = << >> /\ popped = {} /\ origin'.world = world
  BY DEF Recovered, Restarted
<1>2. \A t \in DOMAIN stack : ~MarkGood(stack[t])
  BY DEF Marks, MarkInv, Sheltered, MarkGood
<1>3. Chain(stack, undo, world, origin'.world)
  BY <1>1, <1>2 DEF Chain, At
<1> QED
  BY <1>1, <1>3 DEF ChainInv, Now

LEMMA ChainStep ==
    ASSUME ~Drops, "rollback" \notin FailIn,
           TypeOK, RollbackTop, KeyInv, Marks, ChainInv, [Next]_vars
    PROVE  ChainInv'
<1>1. CASE Plain
  <2>1. ASSUME NEW o \in Objects, Refuse(o) PROVE ChainInv'
    BY <2>1, ChainAlone, ChainReady DEF Refuse, Ready, Broken, Undoing
  <2>2. CASE Fail \/ Report \/ TooDeep \/ Cancel
    BY <2>2, ChainAlone, ChainReady DEF Fail, Report, TooDeep, Cancel, Ready, Broken, Undoing
  <2>3. CASE UndoFails
    <3>1. mode \in {"replacing", "recovering"} /\ Broken'
      BY <2>3, ProgramAssumption DEF UndoFails, Undoing, Broken
    <3> QED
      BY <2>3, <3>1 DEF UndoFails, ChainInv
  <2>4. CASE Replace \/ Recover
    BY <2>4, ChainAlone, ChainReady DEF Replace, Recover, Ready, Broken, Undoing
  <2>5. CASE ReplaceDone \/ RecoverDone
    BY <2>5, ChainRestarts DEF ReplaceDone, RecoverDone
  <2>6. CASE UNCHANGED vars
    BY <2>6, ChainAlone DEF vars, Broken, ChainInv
  <2> QED
    BY <1>1, <2>1, <2>2, <2>3, <2>4, <2>5, <2>6 DEF Plain
<1>2. ASSUME NEW o \in Objects \cup {NoObject}, NEW own \in BOOLEAN, Call(o, own) PROVE ChainInv'
  BY <1>2, ChainAlone, ChainReady DEF Call, Ready, Broken, Undoing
<1>3. CASE Unwind
  <2>1. /\ stack # << >> /\ UNCHANGED <<undo, popped, world, origin>>
        /\ popped = {} /\ Chain(stack, undo, world, origin.world)
        /\ mode' \in {"rollback", "run", "err"} /\ (mode' = "rollback" => ~failed')
    BY <1>3, ChainReady, OverModes DEF Unwind, Undoing
  <2>2. Chain(stack', undo, world, origin.world)
    BY <1>3, <2>1, TopShape, ChainCut DEF Unwind
  <2> QED
    BY <2>1, <2>2 DEF ChainInv, Now
<1>4. ASSUME NEW t \in DOMAIN stack, Fire(t) PROVE ChainInv'
  <2>1. UNCHANGED <<mode, undo, popped, failed, world, origin>>
    BY <1>4 DEF Fire
  <2>2. \A w, first : Chain(stack, undo, w, first) => Chain(stack', undo, w, first)
    BY <1>4, FireShape DEF Chain, MarkGood
  <2> QED
    BY <2>1, <2>2 DEF ChainInv, Now, Broken
<1>5. CASE RollbackDone
  <2>1. /\ mode = "rollback" /\ popped = {} /\ stack # << >> /\ ~failed
        /\ stack' = Cut(Len(stack) - 1) /\ mode' = "run"
        /\ UNCHANGED <<undo, popped, failed, world, origin>>
    BY <1>5 DEF RollbackDone, ChainInv, TypeOK
  <2>2. Chain(stack, undo, world, origin.world)
    BY <2>1 DEF ChainInv, Broken, Now
  <2>3. Chain(stack', undo, world, origin.world)
    BY <2>1, <2>2, TopShape, ChainCut
  <2> QED
    BY <2>1, <2>3 DEF ChainInv, Now
<1>6. \A t \in DOMAIN stack : ~GraceEnds(t)
  BY DEF GraceEnds
<1> QED
  BY <1>1, <1>2, <1>3, <1>4, <1>5, <1>6, Steps, ChainAfterSucceed, ChainAfterEnter,
     ChainAfterReturn, ChainAfterPop, ChainAfterUndo

-----------------------------------------------------------------------------

\* What nothing can undo is known to the gate until the segment ends.
SentInv ==
    /\ \A n \in sent : n <= ops
    /\ irreversible \/ \A n \in sent : n <= origin.ops

LEMMA SentStep ==
    ASSUME ~Drops, TypeOK, SentInv, [Next]_vars
    PROVE  SentInv'
<1>1. CASE UNCHANGED <<irreversible, ops, sent, origin>>
  BY <1>1 DEF SentInv
<1>2. CASE Succeed
  <2>1. ops \in Nat /\ sent \in SUBSET Nat /\ ops' = ops + 1 /\ UNCHANGED origin
    BY <1>2 DEF TypeOK, Succeed, Effect
  <2>2. CASE inflight.obj = NoObject
    <3>1. irreversible' = TRUE /\ sent' = sent \cup {ops + 1}
      BY <1>2, <2>2 DEF Succeed, Effect
    <3> QED
      BY <2>1, <3>1 DEF SentInv
  <2>3. CASE inflight.obj # NoObject
    <3>1. UNCHANGED <<irreversible, sent>>
      BY <1>2, <2>3 DEF Succeed, Effect
    <3> QED
      BY <2>1, <3>1 DEF SentInv
  <2> QED
    BY <2>2, <2>3
<1>3. CASE ReplaceDone \/ RecoverDone
  <2>1. UNCHANGED <<ops, sent>> /\ origin'.ops = ops
    BY <1>3 DEF ReplaceDone, RecoverDone, Restarted
  <2> QED
    BY <2>1 DEF SentInv
<1>4. CASE Plain /\ ~ReplaceDone /\ ~RecoverDone
  BY <1>1, <1>4 DEF Plain, Refuse, Fail, Report, TooDeep, Cancel, UndoFails, Replace, Recover, vars
<1>5. (\E o \in Objects \cup {NoObject}, own \in BOOLEAN : Call(o, own)) =>
         UNCHANGED <<irreversible, ops, sent, origin>>
  BY DEF Call
<1>6. (\E kind \in Kinds, key \in Keys \cup {NoKey}, dir \in Dirs : Enter(kind, key, dir)) =>
         UNCHANGED <<irreversible, ops, sent, origin>>
  BY DEF Enter
<1>7. Return \/ Unwind \/ RollbackDone \/ PopUndo \/ UndoOk =>
         UNCHANGED <<irreversible, ops, sent, origin>>
  BY DEF Return, Unwind, RollbackDone, PopUndo, UndoOk
<1>8. \A t \in DOMAIN stack : ~GraceEnds(t) /\ (Fire(t) => UNCHANGED <<irreversible, ops, sent, origin>>)
  BY DEF Fire, GraceEnds
<1> QED
  BY <1>1, <1>2, <1>3, <1>4, <1>5, <1>6, <1>7, <1>8, Steps

-----------------------------------------------------------------------------

CheckpointInv == TypeOK /\ RollbackTop /\ KeyInv /\ Marks /\ ChainInv /\ SentInv

LEMMA CheckpointInit == Init => CheckpointInv
<1> SUFFICES ASSUME Init PROVE CheckpointInv
  OBVIOUS
<1>1. TypeOK /\ RollbackTop /\ MarkInv
  BY InitTypes, MarkInit
<1>2. KeyInv /\ SentInv
  BY DEF Init, KeyInv, KeysOpen, KeysUndone, SentInv
<1>3. ChainInv
  BY DEF Init, ChainInv, Chain, At, Now
<1> QED
  BY <1>1, <1>2, <1>3 DEF CheckpointInv, Marks

LEMMA CheckpointStep ==
    ASSUME ~Drops, "rollback" \notin FailIn, CheckpointInv, [Next]_vars
    PROVE  CheckpointInv'
  BY TypesStep, RollbackTopStep, KeyStep, MarkStep, ChainStep, SentStep DEF CheckpointInv, Marks

\* Replace's gate: what it lets through has been undone completely, if no
\* grace runs out and no undo of a Timeout that fired fails.
THEOREM GateSoundHolds ==
    ASSUME ~Drops, "rollback" \notin FailIn
    PROVE  Spec => []GateSound
<1>1. CheckpointInv => GateSound
  <2> SUFFICES ASSUME CheckpointInv, mode = "replacing", Recovered, ~failed, ~irreversible
               PROVE  world = origin.world /\ \A n \in sent : n <= origin.ops
    BY DEF GateSound
  <2>1. Chain(stack, << >>, world, origin.world)
    BY DEF CheckpointInv, ChainInv, Broken, Recovered, Now
  <2> QED
    BY <2>1 DEF CheckpointInv, SentInv, Chain, At
<1> QED
  BY <1>1, CheckpointInit, CheckpointStep, PTL DEF Spec

\* A Timeout that fired restores the world its action started in, at any depth
\* of Timeouts, Scopes, Catches and keys, if moreover none holds a Replace.
THEOREM TimeoutRestoresHolds ==
    ASSUME ~Drops, "timeout" \notin ReplaceIn, "rollback" \notin FailIn
    PROVE  Spec => []TimeoutRestores
<1>1. CheckpointInv => TimeoutRestores
  <2> SUFFICES ASSUME CheckpointInv, mode = "rollback", popped = {}, Len(undo) <= Top.mark
               PROVE  world = Top.world
    BY DEF TimeoutRestores
  <2>1. Len(stack) \in DOMAIN stack /\ Top = stack[Len(stack)] /\ Top.kind = "timeout"
    BY TopShape DEF CheckpointInv, TypeOK, RollbackTop
  <2>2. Top.mark = Len(undo) /\ Len(undo) \in Nat
    <3>1. Top.mark \in 0 .. Len(undo) /\ Len(undo) \in Nat
      BY <2>1, Heights DEF CheckpointInv, TypeOK, MarkGood
    <3> QED
      BY <3>1
  <2>3. At(undo, world, Top.mark) = Top.world
    BY <2>1 DEF CheckpointInv, ChainInv, Chain, Broken, Now, MarkGood
  <2> QED
    BY <2>2, <2>3 DEF At
<1> QED
  BY <1>1, CheckpointInit, CheckpointStep, PTL DEF Spec

-----------------------------------------------------------------------------
(* ExactlyOnce *)

\* No effect of a run of an open segment is among the undos u.
Spared(s, u, d) ==
    \A i \in DOMAIN s, j \in DOMAIN u : s[i].kind = "idem" => u[j].op \notin d[s[i].key]

\* The undo that reverts a key lies above those of its effects, with no open
\* Timeout in between: none is rolled back without the other.
Together(s, u, d) ==
    \A k \in Keys, j \in DOMAIN u, c \in DOMAIN u :
        u[j].op \in d[k] /\ j < c /\ u[c].key = k =>
            \A t \in DOMAIN s : s[t].kind = "timeout" => c <= s[t].mark \/ s[t].mark < j

Reverted(u, k, j) == \E c \in DOMAIN u : j < c /\ u[c].key = k

\* Above the floor of a rollback effects may be left whose key is free again.
Leaving(j) == mode \in Undoing /\ j > Floor

OnceInv ==
    /\ sent = {}
    /\ mode = "io" => inflight.obj # NoObject
    /\ \A k \in Keys : \A n \in done[k] : 0 < n /\ n <= ops
    /\ Spared(stack, undo, done)
    /\ Together(stack, undo, done)
    /\ \A k \in Keys, j \in DOMAIN undo :
          undo[j].op \in done[k] => Reverted(undo, k, j) \/ Leaving(j)

\* Every effect has an undo, on the stack or under way, or none any more; and
\* the undo under way is not that of what an earlier run of an open segment did.
CoverInv ==
    /\ popped # {} => mode \in Undoing
    /\ \A n \in 1 .. ops :
          \/ n \in undone \cup stray \cup Taken
          \/ \E j \in DOMAIN undo : undo[j].key = NoKey /\ undo[j].op = n
    /\ \A i \in DOMAIN stack : stack[i].kind = "idem" => done[stack[i].key] \cap Taken = {}

OneShot == ~Sends /\ "timeout" \notin ReplaceIn /\ "idem" \notin ReplaceIn

\* Between two ways of going back every effect is covered.
LEMMA OnceReady ==
    ASSUME OnceInv, mode \notin Undoing
    PROVE  \A k \in Keys, j \in DOMAIN undo : undo[j].op \in done[k] => Reverted(undo, k, j)
  BY DEF OnceInv, Leaving

\* The calls from n + 1 on are over, or none is; no undo is done.
LEMMA OnceAfterCut ==
    ASSUME TypeOK, OnceInv, NEW n \in 0 .. Len(stack), stack' = Cut(n) \/ UNCHANGED stack,
           UNCHANGED <<undo, done, sent>>, ops' \in Nat, ops <= ops',
           mode' = "io" => inflight'.obj # NoObject,
           \A k \in Keys, j \in DOMAIN undo :
               undo[j].op \in done[k] => Reverted(undo, k, j) \/ Leaving(j)'
    PROVE  OnceInv'
<1>1. \A i \in DOMAIN stack' : i \in DOMAIN stack /\ stack'[i] = stack[i]
  BY CutShape
<1>2. Spared(stack', undo, done) /\ Together(stack', undo, done)
  BY <1>1 DEF OnceInv, Spared, Together
<1>3. \A k \in Keys : \A m \in done[k] : 0 < m /\ m <= ops'
  <2>1. \A k \in Keys : done[k] \in SUBSET Nat
    BY DEF TypeOK
  <2>2. ops \in Nat
    BY DEF TypeOK
  <2> QED
    BY <2>1, <2>2 DEF OnceInv
<1> QED
  BY <1>2, <1>3 DEF OnceInv

LEMMA OnceAfterFire ==
    ASSUME TypeOK, OnceInv, NEW t \in DOMAIN stack, Fire(t)
    PROVE  OnceInv'
<1>1. /\ DOMAIN stack' = DOMAIN stack /\ Len(stack') = Len(stack)
      /\ \A i \in DOMAIN stack :
            /\ stack'[i].kind = stack[i].kind /\ stack'[i].key = stack[i].key
            /\ stack'[i].mark = stack[i].mark
  BY FireShape
<1>2. UNCHANGED <<mode, inflight, undo, done, sent, ops>>
  BY DEF Fire
<1>3. Spared(stack', undo, done) /\ Together(stack', undo, done)
  BY <1>1 DEF OnceInv, Spared, Together
<1>4. mode = "rollback" => Top'.mark = Top.mark
  <2>1. mode = "rollback" => stack # << >>
    BY DEF TypeOK
  <2> QED
    BY <1>1, <2>1, TopShape DEF Top
<1>5. Floor' = Floor
  BY <1>2, <1>4 DEF Floor
<1> QED
  BY <1>2, <1>3, <1>5 DEF OnceInv, Leaving

LEMMA OnceAfterSucceed ==
    ASSUME TypeOK, KeyInv, OnceInv, Succeed
    PROVE  OnceInv'
<1>1. /\ mode = "io" /\ mode' = "run" /\ UNCHANGED <<stack, done, sent>>
      /\ ops' = ops + 1 /\ undo' = Append(undo, Inverse)
  BY DEF Succeed, Effect, OnceInv
<1> DEFINE n == Len(undo)
<1>2. /\ n \in Nat /\ DOMAIN undo = 1 .. n /\ DOMAIN undo' = 1 .. n + 1
      /\ \A i \in 1 .. n : undo'[i] = undo[i]
      /\ undo'[n + 1].op = ops + 1 /\ undo'[n + 1].key = NoKey
  <2>1. undo \in Seq(Undos) /\ Inverse.op = ops + 1 /\ Inverse.key = NoKey
    BY DEF TypeOK, Inverse
  <2> HIDE DEF Inverse
  <2> QED
    BY <1>1, <2>1
<1>3. /\ \A k \in Keys : \A m \in done[k] : 0 < m /\ m <= ops /\ m \in Nat
      /\ ops \in Nat
  <2>1. \A k \in Keys : done[k] \in SUBSET Nat
    BY DEF TypeOK
  <2> QED
    BY <2>1 DEF OnceInv, TypeOK
<1> HIDE DEF n
<1>4. \A k \in Keys : undo'[n + 1].op \notin done[k] /\ undo'[n + 1].key # k
  BY <1>2, <1>3, SentinelAssumption
<1>5. \A k \in Keys, j \in DOMAIN undo' : undo'[j].op \in done[k] => j \in 1 .. n /\ undo[j].op \in done[k]
  BY <1>2, <1>4
<1>6. \A k \in Keys, j \in DOMAIN undo' : undo'[j].key = k => j \in 1 .. n /\ undo[j].key = k
  BY <1>2, <1>4
<1>7. Spared(stack, undo', done)
  <2> SUFFICES ASSUME NEW i \in DOMAIN stack, NEW j \in DOMAIN undo', stack[i].kind = "idem",
                      undo'[j].op \in done[stack[i].key]
               PROVE  FALSE
    BY DEF Spared
  <2>1. CASE j = n + 1
    <3>1. stack[i].key \in Keys
      BY DEF KeyInv, KeysOpen
    <3> QED
      BY <1>4, <2>1, <3>1
  <2>2. CASE j # n + 1
    BY <1>2, <2>2 DEF OnceInv, Spared
  <2> QED
    BY <2>1, <2>2
<1>8. Together(stack, undo', done)
  BY <1>2, <1>5, <1>6 DEF OnceInv, Together
<1>9. \A k \in Keys, j \in DOMAIN undo' : undo'[j].op \in done[k] => Reverted(undo', k, j)
  <2>1. \A k \in Keys, j \in DOMAIN undo : undo[j].op \in done[k] => Reverted(undo, k, j)
    BY <1>1, OnceReady DEF Undoing
  <2> QED
    BY <1>2, <1>5, <2>1 DEF Reverted
<1>10. \A k \in Keys : \A m \in done[k] : 0 < m /\ m <= ops'
  BY <1>1, <1>3
<1> QED
  BY <1>1, <1>7, <1>8, <1>9, <1>10 DEF OnceInv

LEMMA OnceAfterEnter ==
    ASSUME TypeOK, KeyInv, OnceInv,
           NEW kind \in Kinds, NEW key \in Keys \cup {NoKey}, NEW dir \in Dirs, Enter(kind, key, dir)
    PROVE  OnceInv'
<1> DEFINE n == Len(stack)
<1>1. /\ n \in Nat /\ DOMAIN stack = 1 .. n /\ DOMAIN stack' = 1 .. n + 1
      /\ \A i \in 1 .. n : stack'[i] = stack[i]
      /\ stack'[n + 1].kind = kind /\ stack'[n + 1].key = key /\ stack'[n + 1].mark = Len(undo)
  <2>1. LET f == Frame(kind, key, dir) IN f.kind = kind /\ f.key = key /\ f.mark = Len(undo)
    BY DEF Frame
  <2> QED
    BY <2>1, EnterShape
<1>2. UNCHANGED <<mode, inflight, undo, done, sent, ops>> /\ mode = "run"
  BY DEF Enter, Ready
<1>3. \A k \in Keys, j \in DOMAIN undo : undo[j].op \in done[k] => Reverted(undo, k, j)
  BY <1>2, OnceReady DEF Undoing
<1>4. kind = "idem" => key \in Keys /\ \A j \in DOMAIN undo : undo[j].op \notin done[key]
  BY <1>3 DEF Enter, KeyInv, KeysUndone, Reverted
<1> HIDE DEF n
<1>5. Spared(stack', undo, done)
  BY <1>1, <1>4 DEF OnceInv, Spared
<1>6. Together(stack', undo, done)
  <2>1. \A c \in DOMAIN undo : c <= Len(undo)
    BY DEF TypeOK
  <2> QED
    BY <1>1, <2>1 DEF OnceInv, Together
<1> QED
  BY <1>2, <1>3, <1>5, <1>6 DEF OnceInv

\* The undos of what the innermost segment has done lie above its mark.
LEMMA SegmentAbove ==
    ASSUME OneShot, TypeOK, MarkInv, stack # << >>, Top.kind = "idem",
           NEW j \in DOMAIN undo, undo[j].op \in Top.ops + 1 .. ops
    PROVE  j > Top.mark
<1>1. Len(stack) \in DOMAIN stack /\ Top = stack[Len(stack)] /\ Top.kind \notin ReplaceIn
  BY TopShape DEF OneShot
<1>2. Top.mark \in Nat /\ Top.ops \in Nat /\ undo[j].op \in Nat /\ j \in Nat \ {0}
  BY <1>1, ElementTypes DEF TypeOK
<1>3. \A i \in 1 .. Top.mark : undo[i].op <= Top.ops
  BY <1>1 DEF MarkInv, Below
<1> QED
  BY <1>2, <1>3

\* The innermost call is a segment that returns a value.
LEMMA OnceAfterCommit ==
    ASSUME OneShot, TypeOK, KeyInv, MarkInv, OnceInv, Return, Top.kind = "idem"
    PROVE  OnceInv'
<1> DEFINE k == Top.key
           n == Len(undo)
           h == Len(stack)
<1>1. /\ stack # << >> /\ h \in Nat /\ h - 1 \in 0 .. h /\ h \in DOMAIN stack /\ Top = stack[h]
      /\ stack' = Cut(h - 1) /\ Commit(Top)
      /\ mode \in {"run", "value"} /\ mode' \in {"run", "value"}
      /\ UNCHANGED <<inflight, sent, ops>>
  BY TopShape, OverModes DEF Return
<1>2. /\ DOMAIN stack = 1 .. h /\ DOMAIN stack' = 1 .. h - 1
      /\ \A i \in DOMAIN stack' : i \in DOMAIN stack /\ i # h /\ stack'[i] = stack[i]
  BY <1>1, CutShape
<1>3. /\ k \in Keys /\ k # NoKey
      /\ \A j \in DOMAIN undo : undo[j].key # k /\ undo[j].op \notin done[k]
      /\ \A i \in DOMAIN stack' : stack'[i].kind = "idem" => stack'[i].key \in Keys /\ stack'[i].key # k
  <2>1. k \in Keys /\ k # NoKey /\ idem[k] # "committed"
    BY <1>1, SentinelAssumption DEF KeyInv, KeysOpen
  <2> QED
    BY <1>1, <1>2, <2>1 DEF KeyInv, KeysOpen, KeysUndone, OnceInv, Spared
<1>4. /\ done'[k] = done[k] \cup (Top.ops + 1 .. ops)
      /\ \A l \in Keys : l # k => done'[l] = done[l]
  <2>1. done \in [Keys -> SUBSET Nat] /\ done' = [done EXCEPT ![k] = @ \cup (Top.ops + 1 .. ops)]
    BY <1>1 DEF TypeOK, Commit
  <2> QED
    BY <1>3, <2>1
<1>5. ops \in Nat /\ Top.ops \in Nat /\ n \in Nat /\ DOMAIN undo = 1 .. n /\ Top.mark \in Nat
  BY <1>1, ElementTypes DEF TypeOK
<1>6. \A l \in Keys : \A m \in done'[l] : 0 < m /\ m <= ops
  <2>1. \A m \in Top.ops + 1 .. ops : 0 < m /\ m <= ops
    BY <1>5
  <2> QED
    BY <1>4, <2>1 DEF OnceInv
<1>7. \A l \in Keys, j \in DOMAIN undo :
         undo[j].op \in done'[l] => (undo[j].op \in done[l] /\ l # k) \/ (l = k /\ j > Top.mark)
  <2>1. ASSUME NEW j \in DOMAIN undo, undo[j].op \in done'[k] PROVE j > Top.mark
    <3>1. undo[j].op \in Top.ops + 1 .. ops
      BY <1>3, <1>4, <2>1
    <3> QED
      BY <1>1, <3>1, SegmentAbove
  <2>2. ASSUME NEW l \in Keys, NEW j \in DOMAIN undo, undo[j].op \in done'[l]
        PROVE  (undo[j].op \in done[l] /\ l # k) \/ (l = k /\ j > Top.mark)
    <3>1. CASE l = k
      BY <2>1, <2>2, <3>1
    <3>2. CASE l # k
      BY <1>4, <2>2, <3>2
    <3> QED
      BY <3>1, <3>2
  <2> QED
    BY <2>2
<1>8. \A t \in DOMAIN stack' : stack'[t].kind = "timeout" => stack'[t].mark <= Top.mark
  BY <1>1, <1>2 DEF MarkInv, Below, OneShot
<1>9. \A l \in Keys, j \in DOMAIN undo : undo[j].op \in done[l] => Reverted(undo, l, j)
  BY <1>1, OnceReady DEF Undoing
<1>10. CASE n <= Top.mark
  <2>1. UNCHANGED undo
    BY <1>1, <1>5, <1>10 DEF Commit
  <2>2. \A l \in Keys, j \in DOMAIN undo : undo[j].op \in done'[l] => undo[j].op \in done[l]
    BY <1>5, <1>7, <1>10
  <2>3. Spared(stack', undo, done')
    BY <1>2, <1>3, <2>2 DEF OnceInv, Spared
  <2>4. Together(stack', undo, done')
    BY <1>2, <2>2 DEF OnceInv, Together
  <2> QED
    BY <1>1, <1>6, <1>9, <2>1, <2>2, <2>3, <2>4 DEF OnceInv
<1>11. CASE n > Top.mark
  <2>1. /\ DOMAIN undo' = 1 .. n + 1
        /\ \A i \in 1 .. n : undo'[i] = undo[i]
        /\ undo'[n + 1].op = 0 /\ undo'[n + 1].key = k
    <3> DEFINE u == [obj |-> NoObject, old |-> 0, own |-> FALSE, key |-> Top.key, op |-> 0,
                     world |-> world]
    <3>1. undo' = Append(undo, u) /\ u.op = 0 /\ u.key = k
      BY <1>1, <1>11 DEF Commit
    <3>2. undo \in Seq(Undos)
      BY DEF TypeOK
    <3> HIDE DEF u, k
    <3> QED
      BY <3>1, <3>2
  <2> HIDE DEF n, h, k
  <2>2. \A l \in Keys, j \in DOMAIN undo' : undo'[j].op \in done'[l] => j \in 1 .. n
    BY <1>5, <1>6, <2>1
  <2>3. Spared(stack', undo', done')
    BY <1>2, <1>3, <1>4, <1>5, <2>1, <2>2 DEF OnceInv, Spared
  <2>4. Together(stack', undo', done')
    <3> SUFFICES ASSUME NEW l \in Keys, NEW j \in DOMAIN undo', NEW c \in DOMAIN undo',
                        undo'[j].op \in done'[l], j < c, undo'[c].key = l,
                        NEW t \in DOMAIN stack', stack'[t].kind = "timeout"
                 PROVE  c <= stack'[t].mark \/ stack'[t].mark < j
      BY DEF Together
    <3>1. j \in DOMAIN undo /\ undo'[j] = undo[j] /\ j \in Nat
      BY <1>5, <2>1, <2>2
    <3>2. CASE l = k
      <4>1. j > Top.mark
        BY <1>7, <3>1, <3>2
      <4>2. stack'[t].mark \in Nat /\ stack'[t].mark <= Top.mark
        BY <1>2, <1>8, ElementTypes
      <4> QED
        BY <1>5, <3>1, <4>1, <4>2
    <3>3. CASE l # k
      <4>1. c \in DOMAIN undo /\ undo'[c] = undo[c] /\ undo[j].op \in done[l]
        BY <1>4, <1>5, <2>1, <3>1, <3>3
      <4> QED
        BY <1>2, <3>1, <4>1 DEF OnceInv, Together
    <3> QED
      BY <3>2, <3>3
  <2>5. ASSUME NEW l \in Keys, NEW j \in DOMAIN undo', undo'[j].op \in done'[l]
        PROVE  Reverted(undo', l, j)
    <3>1. j \in DOMAIN undo /\ undo'[j] = undo[j] /\ j < n + 1 /\ n + 1 \in DOMAIN undo'
      BY <1>5, <2>1, <2>2, <2>5
    <3>2. CASE l = k
      BY <2>1, <3>1, <3>2 DEF Reverted
    <3>3. CASE l # k
      <4>1. undo[j].op \in done[l]
        BY <1>4, <2>5, <3>1, <3>3
      <4> QED
        BY <1>5, <1>9, <2>1, <3>1, <4>1 DEF Reverted
    <3> QED
      BY <3>2, <3>3
  <2> QED
    BY <1>1, <1>6, <2>3, <2>4, <2>5 DEF OnceInv
<1> QED
  BY <1>5, <1>10, <1>11

LEMMA OnceAfterPop ==
    ASSUME OneShot, TypeOK, RollbackTop, OnceInv, PopUndo
    PROVE  OnceInv'
<1> DEFINE n == Len(undo)
<1>1. undo \in Seq(Undos) /\ undo # << >> /\ undo' = SubSeq(undo, 1, n - 1)
  BY PopsOne DEF PopUndo
<1>2. /\ n \in Nat /\ DOMAIN undo = 1 .. n /\ DOMAIN undo' = 1 .. n - 1
      /\ \A i \in DOMAIN undo' : i \in DOMAIN undo /\ undo'[i] = undo[i]
  BY <1>1, LastProperties, CutProperties
<1>3. UNCHANGED <<stack, mode, done, sent, ops>> /\ mode \in Undoing /\ n > Floor
  BY DEF PopUndo
<1>4. Floor' = Floor
  BY <1>3 DEF Floor, Top
<1>5. Spared(stack, undo', done) /\ Together(stack, undo', done)
  BY <1>2 DEF OnceInv, Spared, Together
<1>6. ASSUME NEW k \in Keys, NEW j \in DOMAIN undo', undo'[j].op \in done[k], ~Reverted(undo', k, j)
      PROVE  j > Floor
  <2>1. j \in DOMAIN undo /\ undo[j].op \in done[k] /\ j < n /\ j \in Nat \ {0}
    BY <1>2, <1>6
  <2>2. CASE Leaving(j)
    BY <2>2 DEF Leaving
  <2>3. CASE Reverted(undo, k, j)
    <3>1. undo[n].key = k /\ n \in DOMAIN undo
      <4>1. PICK c \in DOMAIN undo : j < c /\ undo[c].key = k
        BY <2>3 DEF Reverted
      <4>2. c \notin DOMAIN undo'
        BY <1>2, <1>6, <4>1 DEF Reverted
      <4>3. c = n
        BY <1>2, <4>1, <4>2
      <4> QED
        BY <4>1, <4>3
    <3>2. CASE mode = "rollback"
      <4>1. Len(stack) \in DOMAIN stack /\ Top = stack[Len(stack)] /\ Top.kind = "timeout"
        BY <3>2, TopShape DEF TypeOK, RollbackTop
      <4>2. n <= Top.mark \/ Top.mark < j
        BY <2>1, <3>1, <4>1 DEF OnceInv, Together
      <4>3. Floor = Top.mark /\ Top.mark \in Nat
        BY <3>2, <4>1, ElementTypes DEF Floor
      <4> QED
        BY <1>2, <1>3, <2>1, <4>2, <4>3
    <3>3. CASE mode # "rollback"
      BY <2>1, <3>3 DEF Floor
    <3> QED
      BY <3>2, <3>3
  <2> QED
    BY <2>1, <2>2, <2>3 DEF OnceInv
<1> HIDE DEF n
<1>7. mode' # "io"
  BY <1>3 DEF Undoing
<1> QED
  BY <1>3, <1>4, <1>5, <1>6, <1>7 DEF OnceInv, Leaving

\* The steps that leave the undo stack and the call stack alone.
LEMMA OnceAlone ==
    ASSUME TypeOK, OnceInv, UNCHANGED <<stack, undo, done, sent, ops>>,
           mode' = "io" => inflight'.obj # NoObject,
           mode \in Undoing => UNCHANGED mode \/ undo = << >>
    PROVE  OnceInv'
<1>1. UNCHANGED mode => Floor' = Floor
  BY DEF Floor, Top
<1>2. 0 \in 0 .. Len(stack) /\ ops' \in Nat /\ ops <= ops'
  BY DEF TypeOK
<1>3. \A k \in Keys, j \in DOMAIN undo :
         undo[j].op \in done[k] => Reverted(undo, k, j) \/ Leaving(j)'
  <2>1. CASE mode \notin Undoing
    BY <2>1, OnceReady
  <2>2. CASE UNCHANGED mode
    BY <1>1, <2>2 DEF OnceInv, Leaving
  <2>3. CASE undo = << >>
    BY <2>3
  <2> QED
    BY <2>1, <2>2, <2>3
<1> QED
  BY <1>2, <1>3, OnceAfterCut

\* The inner future of a Timeout is dropped: what it left to undo lies above
\* the floor of the Timeout's own rollback.
LEMMA OnceAfterGrace ==
    ASSUME OneShot, TypeOK, RollbackTop, MarkInv, OnceInv, NEW t \in DOMAIN stack, GraceEnds(t)
    PROVE  OnceInv'
<1>1. /\ t \in 0 .. Len(stack) /\ t # 0 /\ stack' = Cut(t) /\ stack[t].kind = "timeout"
      /\ UNCHANGED <<undo, done>> /\ mode' = "rollback"
      /\ DOMAIN stack = 1 .. Len(stack)
  BY DEF GraceEnds, Timeouts, TypeOK
<1>2. ops' \in Nat /\ ops <= ops' /\ UNCHANGED sent
  BY DEF GraceEnds, Effect, TypeOK, OnceInv
<1>3. Floor' = stack[t].mark
  <2>1. Len(stack') = t /\ stack'[t] = stack[t]
    BY <1>1, CutShape
  <2> QED
    BY <1>1, <2>1 DEF Floor, Top
<1>4. ASSUME NEW j \in DOMAIN undo, Leaving(j) PROVE j > stack[t].mark
  <2>1. mode = "rollback"
    BY <1>1, <1>4 DEF GraceEnds, Leaving, Undoing, MarkInv, Sheltered, OneShot
  <2>2. /\ Len(stack) \in DOMAIN stack /\ Top = stack[Len(stack)] /\ Top.kind = "timeout"
        /\ t \in 1 .. Len(stack)
    BY <1>1, <2>1, TopShape DEF RollbackTop, TypeOK
  <2>3. stack[t].mark <= Top.mark /\ j > Top.mark
    BY <1>1, <1>4, <2>1, <2>2 DEF MarkInv, Below, Leaving, Floor, OneShot
  <2>4. stack[t].mark \in Nat /\ Top.mark \in Nat /\ j \in Nat
    BY <2>2, ElementTypes DEF TypeOK
  <2> QED
    BY <2>3, <2>4
<1>5. \A k \in Keys, j \in DOMAIN undo :
         undo[j].op \in done[k] => Reverted(undo, k, j) \/ Leaving(j)'
  BY <1>1, <1>3, <1>4 DEF OnceInv, Leaving, Undoing
<1> QED
  BY <1>1, <1>2, <1>5, OnceAfterCut

LEMMA OnceAfterRollback ==
    ASSUME TypeOK, OnceInv, RollbackDone
    PROVE  OnceInv'
<1>1. /\ stack # << >> /\ stack' = Cut(Len(stack) - 1) /\ UNCHANGED <<undo, done, sent, ops>>
      /\ mode' # "io" /\ ops' \in Nat /\ ops <= ops'
  BY DEF RollbackDone, TypeOK
<1>2. \A j \in DOMAIN undo : ~Leaving(j)
  <2>1. Floor \in Nat /\ Len(undo) <= Floor /\ DOMAIN undo = 1 .. Len(undo) /\ Len(undo) \in Nat
    BY <1>1, TopShape, ElementTypes DEF RollbackDone, Floor, TypeOK
  <2> QED
    BY <2>1 DEF Leaving
<1> QED
  BY <1>1, <1>2, TopShape, OnceAfterCut DEF OnceInv

LEMMA OnceStep ==
    ASSUME OneShot, TypeOK, RollbackTop, KeyInv, MarkInv, OnceInv, [Next]_vars
    PROVE  OnceInv'
<1>1. CASE Plain
  <2>1. ASSUME NEW o \in Objects, Refuse(o) PROVE OnceInv'
    BY <2>1, OnceAlone DEF Refuse, Ready, Undoing
  <2>2. CASE Fail \/ Report \/ TooDeep \/ Cancel
    BY <2>2, OnceAlone DEF Fail, Report, TooDeep, Cancel, Ready, Undoing
  <2>3. CASE UndoFails
    <3>1. mode # "io"
      BY <2>3, ProgramAssumption DEF UndoFails, Undoing
    <3> QED
      BY <2>3, <3>1, OnceAlone DEF UndoFails
  <2>4. CASE Replace \/ Recover
    BY <2>4, OnceAlone DEF Replace, Recover, Ready, Undoing
  <2>5. CASE ReplaceDone \/ RecoverDone
    BY <2>5, OnceAlone DEF ReplaceDone, RecoverDone, Recovered
  <2>6. CASE UNCHANGED vars
    BY <2>6, OnceAlone DEF vars, OnceInv
  <2> QED
    BY <1>1, <2>1, <2>2, <2>3, <2>4, <2>5, <2>6 DEF Plain
<1>2. ASSUME NEW o \in Objects \cup {NoObject}, NEW own \in BOOLEAN, Call(o, own) PROVE OnceInv'
  <2>1. inflight'.obj # NoObject
    BY <1>2 DEF Call, OneShot
  <2> QED
    BY <1>2, <2>1, OnceAlone DEF Call, Ready, Undoing
<1>3. CASE Return
  <2>1. CASE Top.kind = "idem"
    BY <1>3, <2>1, OnceAfterCommit
  <2>2. CASE Top.kind # "idem"
    <3>1. /\ stack # << >> /\ stack' = Cut(Len(stack) - 1)
          /\ UNCHANGED <<undo, done, sent, ops>> /\ mode \in {"run", "value"}
          /\ mode' # "io" /\ ops' \in Nat /\ ops <= ops'
      BY <1>3, <2>2, OverModes DEF Return, TypeOK
    <3>2. \A k \in Keys, j \in DOMAIN undo : undo[j].op \in done[k] => Reverted(undo, k, j)
      BY <3>1, OnceReady DEF Undoing
    <3> QED
      BY <3>1, <3>2, TopShape, OnceAfterCut
  <2> QED
    BY <2>1, <2>2
<1>4. CASE Unwind
  <2>1. /\ stack' = Cut(Len(stack) - 1) \/ UNCHANGED stack
        /\ UNCHANGED <<undo, done, sent, ops>> /\ mode \notin Undoing /\ mode' # "io"
        /\ ops' \in Nat /\ ops <= ops'
    BY <1>4, OverModes DEF Unwind, TypeOK, Undoing
  <2>2. \A k \in Keys, j \in DOMAIN undo : undo[j].op \in done[k] => Reverted(undo, k, j)
    BY <2>1, OnceReady DEF Undoing
  <2>3. stack # << >>
    BY <1>4 DEF Unwind
  <2> QED
    BY <2>1, <2>2, <2>3, TopShape, OnceAfterCut
<1>5. CASE UndoOk
  <2>1. UNCHANGED <<stack, undo, done, sent, ops, mode, inflight>>
    BY <1>5 DEF UndoOk
  <2> QED
    BY <2>1, OnceAlone DEF OnceInv
<1> QED
  BY <1>1, <1>2, <1>3, <1>4, <1>5, Steps, OnceAfterSucceed, OnceAfterEnter, OnceAfterFire,
     OnceAfterGrace, OnceAfterRollback, OnceAfterPop

\* The steps that take no undo and put none on the stack.
LEMMA CoverSame ==
    ASSUME TypeOK, CoverInv, UNCHANGED <<popped, undo, ops, undone, stray, done>>,
           popped # {} => mode' \in Undoing,
           \A i \in DOMAIN stack' : stack'[i].kind = "idem" =>
               \/ Taken = {}
               \/ \E h \in DOMAIN stack : stack[h].kind = "idem" /\ stack[h].key = stack'[i].key
    PROVE  CoverInv'
  BY DEF CoverInv, Taken

LEMMA CoverStep ==
    ASSUME OneShot, TypeOK, KeyInv, OnceInv, CoverInv, [Next]_vars
    PROVE  CoverInv'
<1> USE DEF Taken
<1>1. CASE UndoFails
  BY <1>1 DEF UndoFails, CoverInv
<1>2. CASE Plain /\ ~UndoFails
  <2>1. /\ UNCHANGED <<stack, popped, undo, ops, undone, stray, done>>
        /\ UNCHANGED mode \/ mode \notin Undoing \/ popped = {}
    BY <1>2 DEF Plain, Refuse, Fail, Report, TooDeep, Cancel, Replace, Recover, ReplaceDone,
       RecoverDone, Recovered, Ready, Undoing, vars
  <2> QED
    BY <2>1, CoverSame DEF CoverInv
<1>3. ASSUME NEW o \in Objects \cup {NoObject}, NEW own \in BOOLEAN, Call(o, own)
      PROVE  CoverInv'
  <2>1. UNCHANGED <<stack, popped, undo, ops, undone, stray, done>> /\ mode \notin Undoing
    BY <1>3 DEF Call, Ready, Undoing
  <2> QED
    BY <2>1, CoverSame DEF CoverInv
<1>4. CASE Succeed
  <2>1. /\ UNCHANGED <<stack, popped, undone, stray, done>> /\ mode \notin Undoing
        /\ ops' = ops + 1 /\ undo' = Append(undo, Inverse) /\ popped = {}
    BY <1>4 DEF Succeed, Effect, OnceInv, CoverInv, Undoing
  <2>2. /\ Len(undo) \in Nat /\ DOMAIN undo = 1 .. Len(undo)
        /\ DOMAIN undo' = 1 .. Len(undo) + 1
        /\ \A j \in DOMAIN undo : undo'[j] = undo[j]
        /\ undo'[Len(undo) + 1].op = ops + 1 /\ undo'[Len(undo) + 1].key = NoKey
    <3>1. undo \in Seq(Undos) /\ Inverse.op = ops + 1 /\ Inverse.key = NoKey
      BY DEF TypeOK, Inverse
    <3> HIDE DEF Inverse
    <3> QED
      BY <2>1, <3>1
  <2>3. \A n \in 1 .. ops' : n \in 1 .. ops \/ n = ops + 1
    BY <2>1 DEF TypeOK
  <2>4. \A n \in 1 .. ops' :
           \/ n \in undone \cup stray
           \/ \E j \in DOMAIN undo' : undo'[j].key = NoKey /\ undo'[j].op = n
    <3> SUFFICES ASSUME NEW n \in 1 .. ops', n \notin undone \cup stray
                 PROVE  \E j \in DOMAIN undo' : undo'[j].key = NoKey /\ undo'[j].op = n
      OBVIOUS
    <3>1. CASE n = ops + 1
      BY <2>2, <3>1
    <3>2. CASE n \in 1 .. ops
      <4>1. PICK j \in DOMAIN undo : undo[j].key = NoKey /\ undo[j].op = n
        BY <2>1, <3>2 DEF CoverInv
      <4> QED
        BY <2>2, <4>1
    <3> QED
      BY <2>3, <3>1, <3>2
  <2> QED
    BY <2>1, <2>4 DEF CoverInv
<1>5. ASSUME NEW kind \in Kinds, NEW key \in Keys \cup {NoKey}, NEW dir \in Dirs,
             Enter(kind, key, dir)
      PROVE  CoverInv'
  <2>1. UNCHANGED <<mode, popped, undo, ops, undone, stray, done>> /\ mode \notin Undoing
    BY <1>5 DEF Enter, Ready, Undoing
  <2>2. popped = {}
    BY <2>1 DEF CoverInv
  <2> QED
    BY <2>1, <2>2, CoverSame
<1>6. CASE Return
  <2>1. /\ UNCHANGED <<popped, ops, undone, stray>> /\ popped = {}
    BY <1>6, OverModes DEF Return, CoverInv, Undoing
  <2>2. \A j \in DOMAIN undo : j \in DOMAIN undo' /\ undo'[j] = undo[j]
    <3>1. undo' = undo \/ \E u : undo' = Append(undo, u)
      BY <1>6 DEF Return, Commit
    <3>2. undo \in Seq(Undos)
      BY DEF TypeOK
    <3> QED
      BY <3>1, <3>2
  <2>3. \A n \in 1 .. ops :
           \/ n \in undone \cup stray
           \/ \E j \in DOMAIN undo' : undo'[j].key = NoKey /\ undo'[j].op = n
    <3> SUFFICES ASSUME NEW n \in 1 .. ops, n \notin undone \cup stray
                 PROVE  \E j \in DOMAIN undo' : undo'[j].key = NoKey /\ undo'[j].op = n
      OBVIOUS
    <3>1. PICK j \in DOMAIN undo : undo[j].key = NoKey /\ undo[j].op = n
      BY <2>1 DEF CoverInv
    <3> QED
      BY <2>2, <3>1
  <2> QED
    BY <2>1, <2>3 DEF CoverInv
<1>7. CASE Unwind
  <2>1. UNCHANGED <<popped, undo, ops, undone, stray, done>> /\ popped = {}
    BY <1>7, OverModes DEF Unwind, CoverInv, Undoing
  <2> QED
    BY <2>1, CoverSame
<1>8. ASSUME NEW t \in DOMAIN stack, Fire(t) PROVE CoverInv'
  <2>1. UNCHANGED <<mode, popped, undo, ops, undone, stray, done>>
    BY <1>8 DEF Fire
  <2>2. \A i \in DOMAIN stack' : /\ i \in DOMAIN stack /\ stack'[i].kind = stack[i].kind
                                 /\ stack'[i].key = stack[i].key
    BY <1>8, FireShape
  <2> QED
    BY <2>1, <2>2, CoverSame DEF CoverInv
<1>9. ASSUME NEW t \in DOMAIN stack, GraceEnds(t) PROVE CoverInv'
  <2>1. UNCHANGED undo /\ popped' = {} /\ ops \in Nat
    BY <1>9 DEF GraceEnds, TypeOK
  <2>2. ASSUME NEW n \in 1 .. ops'
        PROVE  \/ n \in undone' \cup stray'
               \/ \E j \in DOMAIN undo : undo[j].key = NoKey /\ undo[j].op = n
    <3>1. undone \subseteq undone' /\ stray \subseteq stray'
      BY <1>9 DEF GraceEnds
    <3>2. CASE n \in 1 .. ops
      <4>1. CASE mode = "io"
        BY <3>1, <3>2, <4>1 DEF CoverInv, Undoing
      <4>2. CASE mode # "io"
        <5>1. Taken \subseteq undone' \cup stray'
          BY <1>9, <4>2 DEF GraceEnds
        <5> QED
          BY <3>1, <3>2, <5>1 DEF CoverInv
      <4> QED
        BY <4>1, <4>2
    <3>3. CASE n \notin 1 .. ops
      BY <1>9, <2>1, <3>3 DEF GraceEnds, Effect
    <3> QED
      BY <3>2, <3>3
  <2> QED
    BY <2>1, <2>2 DEF CoverInv
<1>10. CASE RollbackDone
  <2>1. UNCHANGED <<popped, undo, ops, undone, stray, done>> /\ popped = {}
    BY <1>10 DEF RollbackDone
  <2> QED
    BY <2>1, CoverSame
<1>11. CASE PopUndo
  <2> DEFINE u == undo[Len(undo)]
  <2>1. /\ undo \in Seq(Undos) /\ undo # << >> /\ undo' = SubSeq(undo, 1, Len(undo) - 1)
    BY <1>11, PopsOne DEF PopUndo
  <2>2. /\ Len(undo) \in DOMAIN undo
        /\ \A j \in DOMAIN undo : j # Len(undo) => j \in DOMAIN undo' /\ undo'[j] = undo[j]
    BY <2>1, LastProperties, CutProperties
  <2>3. /\ UNCHANGED <<stack, mode, ops, undone, stray, done>> /\ popped = {} /\ mode \in Undoing
        /\ popped' = {u} \/ (popped' = {} /\ u.key # NoKey)
    BY <1>11 DEF PopUndo
  <2> HIDE DEF u
  <2>4. ASSUME NEW n \in 1 .. ops, n \notin undone \cup stray \cup Taken'
        PROVE  \E j \in DOMAIN undo' : undo'[j].key = NoKey /\ undo'[j].op = n
    <3>1. PICK j \in DOMAIN undo : undo[j].key = NoKey /\ undo[j].op = n
      BY <2>3, <2>4 DEF CoverInv
    <3>2. j # Len(undo)
      BY <2>3, <2>4, <3>1 DEF u
    <3> QED
      BY <2>2, <3>1, <3>2
  <2>5. ASSUME NEW i \in DOMAIN stack, stack[i].kind = "idem"
        PROVE  done[stack[i].key] \cap Taken' = {}
    <3>1. u.op \notin done[stack[i].key]
      BY <2>2, <2>5 DEF OnceInv, Spared, u
    <3> QED
      BY <2>3, <3>1
  <2> QED
    BY <2>3, <2>4, <2>5 DEF CoverInv
<1>12. CASE UndoOk
  BY <1>12 DEF UndoOk, CoverInv
<1> QED
  BY <1>1, <1>2, <1>3, <1>4, <1>5, <1>6, <1>7, <1>8, <1>9, <1>10, <1>11, <1>12, Steps

\* Idempotent's "exactly once" across Timeouts, drops and going back, for
\* programs whose syscalls can be undone and that run no Replace inside a
\* segment or a Timeout: when a segment runs again, every effect of its
\* earlier runs has been taken back, or is stray.
THEOREM ExactlyOnceHolds ==
    ASSUME ~Sends, "timeout" \notin ReplaceIn, "idem" \notin ReplaceIn
    PROVE  Spec => []ExactlyOnce
<1> DEFINE Inv == TypeOK /\ RollbackTop /\ KeyInv /\ MarkInv /\ OnceInv /\ CoverInv
<1>1. Init => Inv
  <2> SUFFICES ASSUME Init PROVE Inv
    OBVIOUS
  <2>1. TypeOK /\ RollbackTop /\ MarkInv
    BY InitTypes, MarkInit
  <2>2. KeyInv
    BY DEF Init, KeyInv, KeysOpen, KeysUndone
  <2>3. OnceInv
    BY DEF Init, OnceInv, Spared, Together
  <2>4. CoverInv
    BY DEF Init, CoverInv
  <2> QED
    BY <2>1, <2>2, <2>3, <2>4
<1>2. Inv /\ [Next]_vars => Inv'
  BY TypesStep, RollbackTopStep, KeyStep, MarkStep, OnceStep, CoverStep DEF OneShot
<1>3. Inv => ExactlyOnce
  <2> SUFFICES ASSUME Inv, NEW i \in DOMAIN stack, stack[i].kind = "idem",
                      NEW n \in done[stack[i].key], n \notin undone \cup stray
               PROVE  FALSE
    BY DEF ExactlyOnce
  <2>1. stack[i].key \in Keys
    BY DEF KeyInv, KeysOpen
  <2>2. n \in 1 .. ops
    BY <2>1 DEF OnceInv, TypeOK
  <2>3. n \notin Taken
    BY DEF CoverInv
  <2>4. PICK j \in DOMAIN undo : undo[j].op = n
    BY <2>2, <2>3 DEF CoverInv
  <2> QED
    BY <2>4 DEF OnceInv, Spared
<1> QED
  BY <1>1, <1>2, <1>3, PTL DEF Spec

-----------------------------------------------------------------------------
(* ImplementsCheckpoints *)

\* Where the segment's own checkpoint is.
Base == IF Regressing /\ failed THEN world ELSE origin.world

LEMMA TimeoutFacts ==
    ASSUME TypeOK
    PROVE  /\ 0 \notin Timeouts /\ Timeouts \subseteq 1 .. Len(stack) /\ Len(stack) \in Nat
           /\ DOMAIN Checkpointed = {0} \cup Timeouts
           /\ Checkpointed[0] = Base
           /\ \A t \in Timeouts : Checkpointed[t] = stack[t].world
<1>1. Len(stack) \in Nat /\ DOMAIN stack = 1 .. Len(stack)
  BY DEF TypeOK
<1> QED
  BY <1>1 DEF Timeouts, Checkpointed, Base

LEMMA SameCheckpoints ==
    ASSUME Timeouts' = Timeouts, Base' = Base,
           \A t \in Timeouts : stack'[t].world = stack[t].world
    PROVE  Checkpointed' = Checkpointed
<1>1. \A t \in {0} \cup Timeouts :
        (IF t # 0 THEN stack'[t].world ELSE Base') = (IF t # 0 THEN stack[t].world ELSE Base)
  OBVIOUS
<1>2. Checkpointed = [t \in {0} \cup Timeouts |-> IF t # 0 THEN stack[t].world ELSE Base]
  BY DEF Checkpointed, Base
<1>3. Checkpointed' = [t \in {0} \cup Timeouts' |-> IF t # 0 THEN stack'[t].world ELSE Base']
  BY DEF Checkpointed, Base
<1> QED
  BY <1>1, <1>2, <1>3

\* The last Timeout is the last checkpoint.
LEMMA LatestIs ==
    ASSUME TypeOK, NEW t \in Timeouts, \A s \in Timeouts : s <= t
    PROVE  Abstract!Latest = t
<1>1. Timeouts \subseteq Nat /\ t \in Nat /\ DOMAIN Checkpointed = {0} \cup Timeouts
  BY TimeoutFacts
<1>2. t \in DOMAIN Checkpointed /\ \A m \in DOMAIN Checkpointed : m <= t
  <2>1. t \in Nat /\ 0 <= t
    BY <1>1, TimeoutFacts
  <2> QED
    BY <1>1, <2>1
<1>3. \A l \in DOMAIN Checkpointed : (\A m \in DOMAIN Checkpointed : m <= l) => l = t
  <2> SUFFICES ASSUME NEW l \in DOMAIN Checkpointed, \A m \in DOMAIN Checkpointed : m <= l
               PROVE  l = t
    OBVIOUS
  <2>1. t <= l /\ l <= t
    BY <1>2
  <2>2. l = 0 \/ l \in Timeouts
    BY <1>1
  <2>3. \A s \in Timeouts : s \in Nat
    BY <1>1
  <2>4. l \in Nat
    BY <2>2, <2>3
  <2> QED
    BY <1>1, <2>1, <2>4
<1>4. Abstract!Latest = CHOOSE l \in DOMAIN Checkpointed : \A m \in DOMAIN Checkpointed : m <= l
  BY DEF Abstract!Latest, Abstract!Open
<1> QED
  BY <1>2, <1>3, <1>4

\* A step that moves nothing but frames that are no Timeouts.
LEMMA Unmoved ==
    ASSUME Timeouts' = Timeouts, \A t \in Timeouts : stack'[t].world = stack[t].world,
           UNCHANGED <<world, origin>>, mode # "rollback", mode' # "rollback",
           ~Regressing, ~Regressing'
    PROVE  UNCHANGED Abstract!vars
<1>1. Base' = Base /\ Goal' = Goal
  BY DEF Base, Goal
<1>2. Checkpointed' = Checkpointed
  BY <1>1, SameCheckpoints
<1>3. (Regressing /\ failed)' = (Regressing /\ failed)
  OBVIOUS
<1> QED
  BY <1>1, <1>2, <1>3 DEF Abstract!vars

LEMMA InitRefines == Init => Abstract!Init
<1> SUFFICES ASSUME Init PROVE Abstract!Init
  OBVIOUS
<1>1. TypeOK /\ stack = << >> /\ mode = "run" /\ origin.world = world
  BY InitTypes DEF Init
<1>2. Timeouts = {} /\ ~Regressing /\ Goal = world
  BY <1>1 DEF Timeouts, Regressing, Goal
<1>3. Checkpointed = [l \in {0} |-> Goal]
  BY <1>1, <1>2 DEF Checkpointed
<1> QED
  BY <1>1, <1>2, <1>3 DEF Abstract!Init, Abstract!Worlds, TypeOK, Worlds

\* A call is over that was no Timeout, or no call at all.
LEMMA StaysOpen ==
    ASSUME TypeOK, stack # << >>, Top.kind # "timeout", stack' = Cut(Len(stack) - 1)
    PROVE  Timeouts' = Timeouts /\ \A t \in Timeouts : stack'[t].world = stack[t].world
<1>1. /\ Len(stack) \in Nat /\ Len(stack) - 1 \in 0 .. Len(stack) /\ Top = stack[Len(stack)]
      /\ DOMAIN stack = 1 .. Len(stack)
  BY TopShape DEF TypeOK
<1>2. /\ DOMAIN stack' = 1 .. Len(stack) - 1
      /\ \A i \in DOMAIN stack' : stack'[i] = stack[i]
  BY <1>1, CutShape
<1>3. \A t \in DOMAIN stack : t \in DOMAIN stack' \/ t = Len(stack)
  BY <1>1, <1>2
<1>4. \A t \in DOMAIN stack' : t \in DOMAIN stack
  BY <1>1, <1>2
<1> QED
  BY <1>1, <1>2, <1>3, <1>4 DEF Timeouts

\* The innermost call is a Timeout, and over.
LEMMA FinishIs ==
    ASSUME TypeOK, stack # << >>, Top.kind = "timeout", stack' = Cut(Len(stack) - 1),
           UNCHANGED origin, Goal' = Goal, ~Regressing, ~Regressing'
    PROVE  Abstract!Finish
<1> DEFINE n == Len(stack)
<1>1. /\ n \in Nat \ {0} /\ n - 1 \in 0 .. n /\ Top = stack[n] /\ DOMAIN stack = 1 .. n
  BY TopShape, LastProperties DEF TypeOK
<1>2. /\ DOMAIN stack' = 1 .. n - 1
      /\ \A i \in DOMAIN stack' : stack'[i] = stack[i]
  BY <1>1, CutShape
<1> HIDE DEF n
<1>3. n \in Timeouts /\ \A s \in Timeouts : s <= n
  BY <1>1 DEF Timeouts
<1>4. Abstract!Latest = n
  BY <1>3, LatestIs
<1>5. Timeouts' = Timeouts \ {n} /\ \A t \in Timeouts' : stack'[t] = stack[t]
  BY <1>1, <1>2 DEF Timeouts
<1>6. Checkpointed' = [m \in ({0} \cup Timeouts) \ {n} |-> Checkpointed[m]]
  <2>1. 0 # n /\ Base' = Base /\ 0 \notin Timeouts
    BY <1>1, TimeoutFacts DEF Base
  <2>2. Checkpointed = [t \in {0} \cup Timeouts |-> IF t # 0 THEN stack[t].world ELSE Base]
    BY DEF Checkpointed, Base
  <2>3. Checkpointed' = [t \in {0} \cup Timeouts' |-> IF t # 0 THEN stack'[t].world ELSE Base']
    BY DEF Checkpointed, Base
  <2>4. {0} \cup Timeouts' = ({0} \cup Timeouts) \ {n}
    BY <1>5, <2>1
  <2>5. \A t \in {0} \cup Timeouts' :
          (IF t # 0 THEN stack'[t].world ELSE Base') = Checkpointed[t]
    BY <1>5, <2>1, <2>2
  <2> QED
    BY <2>3, <2>4, <2>5
<1>7. Abstract!Open = {0} \cup Timeouts
  BY TimeoutFacts DEF Abstract!Open
<1>8. n # 0 /\ ~(Regressing /\ failed) /\ ~(Regressing /\ failed)'
  BY <1>1
<1> QED
  BY <1>4, <1>6, <1>7, <1>8 DEF Abstract!Finish

LEMMA ReturnRefines ==
    ASSUME TypeOK, Return
    PROVE  [Abstract!Next]_(Abstract!vars)
<1>1. /\ stack # << >> /\ stack' = Cut(Len(stack) - 1) /\ UNCHANGED <<world, origin>>
      /\ mode \in {"run", "value"} /\ mode' \in {"run", "value"}
  BY OverModes DEF Return
<1>2. ~Regressing /\ ~Regressing' /\ Goal' = Goal
  BY <1>1 DEF Regressing, Goal
<1>3. CASE Top.kind = "timeout"
  BY <1>1, <1>2, <1>3, FinishIs DEF Abstract!Next
<1>4. CASE Top.kind # "timeout"
  BY <1>1, <1>2, <1>4, StaysOpen, Unmoved
<1> QED
  BY <1>3, <1>4

LEMMA UnwindRefines ==
    ASSUME TypeOK, Unwind
    PROVE  [Abstract!Next]_(Abstract!vars)
<1>1. /\ stack # << >> /\ UNCHANGED <<world, origin>> /\ mode \in {"err", "value"}
      /\ mode' \in {"run", "err", "rollback"}
  BY OverModes DEF Unwind
<1>2. ~Regressing /\ ~Regressing' /\ Goal = world
  BY <1>1 DEF Regressing, Goal
<1>3. CASE Top.kind = "timeout" /\ Top.fired
  <2>1. UNCHANGED stack /\ mode' = "rollback"
    BY <1>3 DEF Unwind, Expired
  <2>2. Goal' = stack[Len(stack)].world
    <3>1. Goal' = Top'.world
      BY <2>1 DEF Goal, Regressing
    <3>2. Top' = stack[Len(stack)]
      BY <2>1 DEF Top
    <3> QED
      BY <3>1, <3>2
  <2>3. Len(stack) \in Timeouts /\ \A s \in Timeouts : s <= Len(stack)
    <3>1. Len(stack) \in DOMAIN stack /\ Top = stack[Len(stack)] /\ DOMAIN stack = 1 .. Len(stack)
      BY <1>1, TopShape DEF TypeOK
    <3> QED
      BY <1>3, <3>1 DEF Timeouts
  <2>4. Checkpointed[Abstract!Latest] = stack[Len(stack)].world
    BY <2>3, LatestIs, TimeoutFacts
  <2>5. Timeouts' = Timeouts /\ Base' = Base
    BY <1>1, <1>2, <2>1 DEF Timeouts, Base
  <2>6. Checkpointed' = Checkpointed
    BY <2>1, <2>5, SameCheckpoints
  <2>7. (Regressing /\ failed)' = (Regressing /\ failed)
    BY <1>2
  <2> QED
    BY <2>2, <2>4, <2>6, <2>7 DEF Abstract!Rollback, Abstract!Next
<1>4. CASE ~(Top.kind = "timeout" /\ Top.fired)
  <2>1. stack' = Cut(Len(stack) - 1) /\ mode' \in {"run", "err"}
    BY <1>4 DEF Unwind, Expired
  <2>2. Goal' = Goal
    BY <1>1, <1>2, <2>1 DEF Goal, Regressing
  <2>3. CASE Top.kind = "timeout"
    BY <1>1, <1>2, <2>1, <2>2, <2>3, FinishIs DEF Abstract!Next
  <2>4. CASE Top.kind # "timeout"
    BY <1>1, <1>2, <2>1, <2>4, StaysOpen, Unmoved
  <2> QED
    BY <2>3, <2>4
<1> QED
  BY <1>3, <1>4

LEMMA EnterRefines ==
    ASSUME TypeOK, NEW kind \in Kinds, NEW key \in Keys \cup {NoKey}, NEW dir \in Dirs,
           Enter(kind, key, dir)
    PROVE  [Abstract!Next]_(Abstract!vars)
<1> DEFINE n == Len(stack)
           l == n + 1
<1>1. /\ UNCHANGED <<mode, world, origin, failed>> /\ mode = "run" /\ n < MaxDepth
  BY DEF Enter, Ready
<1>2. ~Regressing /\ ~Regressing' /\ Goal = world /\ Goal' = world
  BY <1>1 DEF Regressing, Goal
<1>3. /\ n \in Nat /\ DOMAIN stack = 1 .. n /\ DOMAIN stack' = 1 .. l
      /\ \A i \in DOMAIN stack : stack'[i] = stack[i]
      /\ stack'[l] = Frame(kind, key, dir)
  BY EnterShape
<1>4. stack'[l].kind = kind /\ stack'[l].world = world
  BY <1>3 DEF Frame
<1> HIDE DEF n
<1>5. l \in 1 .. MaxDepth /\ l # 0 /\ l \notin DOMAIN stack /\ DOMAIN stack' = DOMAIN stack \cup {l}
  BY <1>1, <1>3, ProgramAssumption
<1>6. \A m \in {0} \cup Timeouts : m < l
  BY <1>3 DEF Timeouts
<1> HIDE DEF l
<1>7. CASE kind = "timeout"
  <2>1. Timeouts' = Timeouts \cup {l} /\ l \notin Timeouts
    BY <1>3, <1>4, <1>5, <1>7 DEF Timeouts
  <2>2. Base' = Base /\ 0 \notin Timeouts
    BY <1>1, <1>2, TimeoutFacts DEF Base
  <2>3. Checkpointed = [t \in {0} \cup Timeouts |-> IF t # 0 THEN stack[t].world ELSE Base]
    BY DEF Checkpointed, Base
  <2>4. Checkpointed' = [t \in {0} \cup Timeouts' |-> IF t # 0 THEN stack'[t].world ELSE Base']
    BY DEF Checkpointed, Base
  <2>5. Abstract!Open = {0} \cup Timeouts
    BY TimeoutFacts DEF Abstract!Open
  <2>6. {0} \cup Timeouts' = Abstract!Open \cup {l}
    BY <2>1, <2>5
  <2>7. \A t \in {0} \cup Timeouts' :
          (IF t # 0 THEN stack'[t].world ELSE Base') = (IF t = l THEN Goal ELSE Checkpointed[t])
    <3>1. \A t \in Timeouts : stack'[t] = stack[t]
      BY <1>3 DEF Timeouts
    <3> QED
      BY <1>2, <1>4, <1>5, <2>1, <2>2, <2>3, <3>1
  <2>8. Checkpointed' = [t \in Abstract!Open \cup {l} |-> IF t = l THEN Goal ELSE Checkpointed[t]]
    BY <2>4, <2>6, <2>7
  <2>9. (Regressing /\ failed)' = (Regressing /\ failed)
    BY <1>2
  <2>10. Abstract!Start(l)
    BY <1>2, <1>6, <2>5, <2>8, <2>9 DEF Abstract!Start
  <2> QED
    BY <1>5, <2>10 DEF Abstract!Next
<1>8. CASE kind # "timeout"
  <2>1. Timeouts' = Timeouts /\ \A t \in Timeouts : stack'[t].world = stack[t].world
    BY <1>3, <1>4, <1>5, <1>8 DEF Timeouts
  <2> QED
    BY <1>1, <1>2, <2>1, Unmoved
<1> QED
  BY <1>7, <1>8


LEMMA SucceedRefines ==
    ASSUME TypeOK, Succeed
    PROVE  [Abstract!Next]_(Abstract!vars)
<1>1. mode = "io" /\ mode' = "run" /\ UNCHANGED <<stack, origin, failed>> /\ Effect
  BY DEF Succeed
<1>2. ~Regressing /\ ~Regressing' /\ Goal = world /\ Goal' = world'
  BY <1>1 DEF Regressing, Goal
<1>3. Timeouts' = Timeouts /\ \A t \in Timeouts : stack'[t].world = stack[t].world
  BY <1>1 DEF Timeouts
<1>4. CASE inflight.obj = NoObject
  <2>1. UNCHANGED world
    BY <1>1, <1>4 DEF Effect
  <2> QED
    BY <1>1, <1>2, <1>3, <2>1, Unmoved
<1>5. CASE inflight.obj # NoObject
  <2>1. /\ world' \in [Objects -> Nat]
        /\ inflight.obj \in Objects
        /\ \A p \in Objects \ {inflight.obj} : world'[p] = world[p]
    BY <1>1, <1>5 DEF Effect, TypeOK, Inflight, Worlds
  <2>2. Checkpointed' = Checkpointed
    BY <1>1, <1>2, <1>3, SameCheckpoints DEF Base
  <2>3. (Regressing /\ failed)' = (Regressing /\ failed)
    BY <1>2
  <2>4. Abstract!Write(inflight.obj)
    BY <1>2, <2>1, <2>2, <2>3 DEF Abstract!Write, Abstract!Worlds
  <2> QED
    BY <2>1, <2>4 DEF Abstract!Next
<1> QED
  BY <1>4, <1>5

\* No Timeout is open while Replace or recover undoes, and an undo is awaited
\* only there and in a rollback.
LEMMA NoneOpen ==
    ASSUME "timeout" \notin ReplaceIn, CheckpointInv
    PROVE  /\ Regressing => Timeouts = {}
           /\ popped # {} => mode \in Undoing
           /\ mode = "rollback" => ~failed
<1>1. Regressing => Sheltered = {}
  BY DEF CheckpointInv, Marks, MarkInv, Regressing
<1>2. Timeouts \subseteq Sheltered
  BY DEF Timeouts, Sheltered
<1> QED
  BY <1>1, <1>2 DEF CheckpointInv, ChainInv

\* What Replace or recover has failed to undo stays: the new segment starts
\* from the world as it is.
LEMMA FailIs ==
    ASSUME TypeOK, TypeOK', Timeouts = {}, Regressing', failed', UNCHANGED stack
    PROVE  Abstract!Fail
<1>1. Goal' = world'
  BY DEF Goal, Regressing
<1>2. Timeouts' = {} /\ Base' = world'
  BY DEF Timeouts, Base
<1>3. Checkpointed' = [t \in {0} |-> Goal']
  <2>1. Checkpointed' = [t \in {0} \cup Timeouts' |-> IF t # 0 THEN stack'[t].world ELSE Base']
    BY DEF Checkpointed, Base
  <2> QED
    BY <1>1, <1>2, <2>1
<1>4. Abstract!Outside
  <2>1. DOMAIN Checkpointed = {0}
    BY TimeoutFacts
  <2> QED
    BY <2>1 DEF Abstract!Outside, Abstract!Open
<1>5. Goal' \in [Objects -> Nat]
  BY <1>1 DEF TypeOK, Worlds
<1>6. (Regressing /\ failed)' = TRUE
  OBVIOUS
<1> QED
  BY <1>3, <1>4, <1>5, <1>6 DEF Abstract!Fail, Abstract!Worlds

\* Replace or recover starts: the program is already back at the start.
LEMMA RegressIs ==
    ASSUME TypeOK, Timeouts = {}, ~Regressing, Regressing', ~failed',
           UNCHANGED <<stack, world, origin>>
    PROVE  Abstract!Regress
<1>1. Goal' = origin.world
  BY DEF Goal, Regressing
<1>2. Base = origin.world /\ Base' = origin.world /\ Timeouts' = Timeouts
  BY DEF Base, Timeouts
<1>3. Checkpointed' = Checkpointed
  BY <1>2, SameCheckpoints
<1>4. DOMAIN Checkpointed = {0} /\ Checkpointed[0] = origin.world
  BY <1>2, TimeoutFacts
<1>5. (Regressing /\ failed)' = (Regressing /\ failed)
  OBVIOUS
<1> QED
  BY <1>1, <1>3, <1>4, <1>5 DEF Abstract!Regress, Abstract!Outside, Abstract!Open

\* Replace or recover is over.
LEMMA OverIs ==
    ASSUME "timeout" \notin ReplaceIn, CheckpointInv, Regressing, Recovered, Restarted,
           ~Regressing', mode' # "rollback", UNCHANGED <<stack, world>>
    PROVE  [Abstract!Next]_(Abstract!vars)
<1>1. Goal' = world /\ origin'.world = world
  BY DEF Goal, Restarted
<1>2. Timeouts = {} /\ Timeouts' = {}
  BY NoneOpen DEF Timeouts
<1>3. Base' = world
  BY <1>1 DEF Base
<1>4. failed \/ world = origin.world
  <2>1. failed \/ Chain(stack, << >>, world, origin.world)
    BY DEF CheckpointInv, ChainInv, Broken, Recovered, Now
  <2> QED
    BY <2>1 DEF Chain, At
<1>5. Goal = world
  BY <1>4 DEF Goal, Regressing
<1>6. Checkpointed' = Checkpointed
  <2>1. Base = world
    BY <1>4 DEF Base
  <2> QED
    BY <1>2, <1>3, <2>1, SameCheckpoints
<1>7. (Regressing /\ failed)' = FALSE
  OBVIOUS
<1>8. CASE failed
  <2>1. Abstract!Report
    BY <1>1, <1>5, <1>6, <1>7, <1>8 DEF Abstract!Report
  <2> QED
    BY <2>1 DEF Abstract!Next
<1>9. CASE ~failed
  <2>1. (Regressing /\ failed) = FALSE
    BY <1>9
  <2> QED
    BY <1>1, <1>5, <1>6, <1>7, <2>1 DEF Abstract!vars
<1> QED
  BY <1>8, <1>9


LEMMA UndoRefines ==
    ASSUME "timeout" \notin ReplaceIn, CheckpointInv, TypeOK', UndoOk
    PROVE  [Abstract!Next]_(Abstract!vars)
<1>1. UNCHANGED <<stack, mode, failed, origin>> /\ popped # {}
  BY DEF UndoOk
<1>2. mode \in Undoing /\ TypeOK
  BY <1>1, NoneOpen DEF CheckpointInv
<1>3. CASE Regressing /\ failed
  <2>1. Timeouts = {} /\ Regressing' /\ failed'
    BY <1>1, <1>3, NoneOpen DEF Regressing
  <2> QED
    BY <1>1, <1>2, <2>1, FailIs DEF Abstract!Next
<1>4. CASE ~(Regressing /\ failed)
  <2>1. Goal' = Goal
    <3>1. CASE mode = "rollback"
      BY <1>1, <3>1 DEF Goal, Regressing, Top
    <3>2. CASE mode # "rollback"
      <4>1. Regressing /\ ~failed /\ Regressing' /\ ~failed'
        BY <1>1, <1>2, <1>4, <3>2 DEF Regressing, Undoing
      <4> QED
        BY <1>1, <3>2, <4>1 DEF Goal
    <3> QED
      BY <3>1, <3>2
  <2>2. Timeouts' = Timeouts /\ Base' = Base
    BY <1>1, <1>4 DEF Timeouts, Base, Regressing
  <2>3. Checkpointed' = Checkpointed
    BY <1>1, <2>2, SameCheckpoints
  <2>4. (Regressing /\ failed)' = (Regressing /\ failed)
    BY <1>1 DEF Regressing
  <2> QED
    BY <2>1, <2>3, <2>4 DEF Abstract!vars
<1> QED
  BY <1>3, <1>4

\* What goes on while undos run and concerns none of the checkpoints.
LEMMA Untouched ==
    ASSUME Timeouts' = Timeouts, Len(stack') = Len(stack),
           \A t \in DOMAIN stack : stack'[t].world = stack[t].world,
           Len(stack) \in DOMAIN stack \/ mode # "rollback",
           UNCHANGED <<mode, failed, world, origin>>
    PROVE  UNCHANGED Abstract!vars
<1>1. Goal' = Goal
  <2>1. CASE mode = "rollback"
    <3>1. Top'.world = Top.world
      BY <2>1 DEF Top
    <3>2. Goal = Top.world /\ Goal' = Top'.world
      BY <2>1 DEF Goal, Regressing
    <3> QED
      BY <3>1, <3>2
  <2>2. CASE mode # "rollback"
    BY <2>2 DEF Goal, Regressing
  <2> QED
    BY <2>1, <2>2
<1>2. Base' = Base /\ (Regressing /\ failed)' = (Regressing /\ failed)
  BY DEF Base, Regressing
<1>3. Checkpointed' = Checkpointed
  BY <1>2, SameCheckpoints DEF Timeouts
<1> QED
  BY <1>1, <1>2, <1>3 DEF Abstract!vars

LEMMA FireRefines ==
    ASSUME TypeOK, NEW t \in DOMAIN stack, Fire(t)
    PROVE  UNCHANGED Abstract!vars
<1>1. /\ DOMAIN stack' = DOMAIN stack /\ Len(stack') = Len(stack)
      /\ \A i \in DOMAIN stack :
            stack'[i].kind = stack[i].kind /\ stack'[i].world = stack[i].world
  BY FireShape
<1>2. Timeouts' = Timeouts
  BY <1>1 DEF Timeouts
<1>3. UNCHANGED <<mode, failed, world, origin>>
  BY DEF Fire
<1>4. Len(stack) \in DOMAIN stack \/ mode # "rollback"
  BY TopShape DEF TypeOK
<1> QED
  BY <1>1, <1>2, <1>3, <1>4, Untouched

LEMMA StillRefines ==
    ASSUME UNCHANGED <<stack, mode, failed, world, origin>>
    PROVE  UNCHANGED Abstract!vars
<1>1. UNCHANGED <<Goal, Checkpointed, Regressing>>
  BY DEF Goal, Checkpointed, Regressing, Top, Timeouts
<1> QED
  BY <1>1 DEF Abstract!vars

\* A Timeout that fired has undone everything: it is back where it started.
LEMMA RollbackRefines ==
    ASSUME "timeout" \notin ReplaceIn, CheckpointInv, TimeoutRestores, RollbackDone
    PROVE  [Abstract!Next]_(Abstract!vars)
<1>1. /\ mode = "rollback" /\ popped = {} /\ Len(undo) <= Top.mark /\ ~failed
      /\ stack' = Cut(Len(stack) - 1) /\ UNCHANGED <<world, origin>>
      /\ mode' \in {"run", "err"}
  BY NoneOpen DEF RollbackDone
<1>2. TypeOK /\ stack # << >> /\ Top.kind = "timeout"
  BY <1>1 DEF CheckpointInv, TypeOK, RollbackTop
<1>3. ~Regressing /\ ~Regressing'
  BY <1>1 DEF Regressing
<1>4. Goal' = Goal
  <2>1. Goal = Top.world
    BY <1>1 DEF Goal, Regressing
  <2>2. Goal' = world
    BY <1>1 DEF Goal, Regressing
  <2> QED
    BY <1>1, <2>1, <2>2 DEF TimeoutRestores
<1> QED
  BY <1>1, <1>2, <1>3, <1>4, FinishIs DEF Abstract!Next

LEMMA PlainRefines ==
    ASSUME "timeout" \notin ReplaceIn, "rollback" \notin FailIn, CheckpointInv, TypeOK', Plain
    PROVE  [Abstract!Next]_(Abstract!vars)
<1> DEFINE Quiet ==
       /\ UNCHANGED <<stack, world, origin>>
       /\ mode \in {"run", "io", "err"} /\ mode' \in {"run", "io", "err"}
<1>1. ASSUME Quiet PROVE UNCHANGED Abstract!vars
  <2>1. Timeouts' = Timeouts /\ \A t \in Timeouts : stack'[t].world = stack[t].world
    BY <1>1 DEF Timeouts
  <2>2. ~Regressing /\ ~Regressing' /\ mode # "rollback" /\ mode' # "rollback"
    BY <1>1 DEF Regressing
  <2> QED
    BY <1>1, <2>1, <2>2, Unmoved
<1>2. ASSUME NEW o \in Objects, Refuse(o) PROVE Quiet
  BY <1>2 DEF Refuse, Ready
<1>3. CASE Fail \/ Report \/ TooDeep \/ Cancel
  <2>1. Quiet
    BY <1>3 DEF Fail, Report, TooDeep, Cancel, Ready
  <2> QED
    BY <1>1, <2>1
<1>4. CASE UndoFails
  <2>1. UNCHANGED <<stack, mode>> /\ failed' /\ popped # {} /\ mode # "rollback"
    BY <1>4 DEF UndoFails
  <2>2. Regressing /\ Regressing'
    BY <2>1, NoneOpen DEF Regressing, Undoing
  <2>3. Timeouts = {} /\ TypeOK
    BY <2>2, NoneOpen DEF CheckpointInv
  <2> QED
    BY <2>1, <2>2, <2>3, FailIs DEF Abstract!Next
<1>5. CASE Replace \/ Recover
  <2>1. Timeouts = {}
    BY <1>5 DEF Replace, Recover, Timeouts
  <2>2. ~Regressing /\ Regressing' /\ ~failed' /\ UNCHANGED <<stack, world, origin>>
    BY <1>5 DEF Replace, Recover, Ready, Regressing
  <2> QED
    BY <2>1, <2>2, RegressIs DEF CheckpointInv, Abstract!Next
<1>6. CASE ReplaceDone \/ RecoverDone
  <2>1. /\ Regressing /\ Recovered /\ Restarted /\ UNCHANGED <<stack, world>>
        /\ mode' \in {"run", "err"}
    BY <1>6 DEF ReplaceDone, RecoverDone, Regressing
  <2>2. ~Regressing' /\ mode' # "rollback"
    BY <2>1 DEF Regressing
  <2> QED
    BY <2>1, <2>2, OverIs
<1>7. CASE UNCHANGED vars
  BY <1>7, StillRefines DEF vars
<1> QED
  BY <1>1, <1>2, <1>3, <1>4, <1>5, <1>6, <1>7 DEF Plain

LEMMA StepRefines ==
    ASSUME ~Drops, "timeout" \notin ReplaceIn, "rollback" \notin FailIn,
           CheckpointInv, TimeoutRestores, [Next]_vars
    PROVE  [Abstract!Next]_(Abstract!vars)
<1>1. TypeOK /\ TypeOK'
  BY TypesStep DEF CheckpointInv
<1>2. ASSUME NEW o \in Objects \cup {NoObject}, NEW own \in BOOLEAN, Call(o, own)
      PROVE  UNCHANGED Abstract!vars
  <2>1. /\ UNCHANGED <<stack, world, origin>> /\ mode = "run" /\ mode' = "io"
    BY <1>2 DEF Call, Ready
  <2>2. Timeouts' = Timeouts /\ \A t \in Timeouts : stack'[t].world = stack[t].world
    BY <2>1 DEF Timeouts
  <2>3. ~Regressing /\ ~Regressing'
    BY <2>1 DEF Regressing
  <2> QED
    BY <2>1, <2>2, <2>3, Unmoved
<1>3. CASE PopUndo
  BY <1>3, StillRefines DEF PopUndo
<1>4. ~\E t \in DOMAIN stack : GraceEnds(t)
  BY DEF GraceEnds
<1> QED
  BY <1>1, <1>2, <1>3, <1>4, Steps, PlainRefines, SucceedRefines, EnterRefines, ReturnRefines,
     UnwindRefines, FireRefines, RollbackRefines, UndoRefines

\* The undos, done one by one, implement going back at once: to the start of
\* the segment for Replace and recover, to its own start for a Timeout.
THEOREM ImplementsCheckpointsHolds ==
    ASSUME ~Drops, "timeout" \notin ReplaceIn, "rollback" \notin FailIn
    PROVE  Spec => ImplementsCheckpoints
<1>1. TypeOK /\ CheckpointInv /\ [Next]_vars => CheckpointInv'
  BY CheckpointStep
<1>2. CheckpointInv /\ TimeoutRestores /\ [Next]_vars => [Abstract!Next]_(Abstract!vars)
  BY StepRefines
<1>3. CheckpointInv => TypeOK
  BY DEF CheckpointInv
<1>4. Spec => []TimeoutRestores
  BY TimeoutRestoresHolds
<1> QED
  BY <1>1, <1>2, <1>3, <1>4, CheckpointInit, InitRefines, PTL
     DEF Spec, ImplementsCheckpoints, Abstract!Spec

=============================================================================
