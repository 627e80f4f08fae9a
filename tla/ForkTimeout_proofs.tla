-------------------------- MODULE ForkTimeout_proofs --------------------------
(***************************************************************************)
(* Proofs about ForkTimeout, for any objects and keys, any number of Forks  *)
(* and Timeouts, nested in any way.                                         *)
(*                                                                          *)
(* Each object that is not stray has one task that may change it: the last  *)
(* one on a path of Forks from the root that names it.  What a Timeout has  *)
(* to restore is then in the undo stacks along this path, and the oldest    *)
(* undo of the object above the mark, or else the world that the next task  *)
(* on the path started in, is what the Timeout found.                       *)
(***************************************************************************)
EXTENDS ForkTimeout, TLAPS

-----------------------------------------------------------------------------
(* Sequences *)

LEMMA CutProperties ==
    ASSUME NEW S, NEW s \in Seq(S), NEW n \in 0 .. Len(s)
    PROVE  /\ SubSeq(s, 1, n) \in Seq(S)
           /\ Len(SubSeq(s, 1, n)) = n
           /\ DOMAIN SubSeq(s, 1, n) = 1 .. n
           /\ \A i \in 1 .. n : SubSeq(s, 1, n)[i] = s[i]
  OBVIOUS

LEMMA PushProperties ==
    ASSUME NEW S, NEW s \in Seq(S), NEW e \in S
    PROVE  /\ Append(s, e) \in Seq(S)
           /\ Len(Append(s, e)) = Len(s) + 1
           /\ DOMAIN Append(s, e) = 1 .. Len(s) + 1
           /\ \A i \in 1 .. Len(s) : Append(s, e)[i] = s[i]
           /\ Append(s, e)[Len(s) + 1] = e
  OBVIOUS

LEMMA JoinProperties ==
    ASSUME NEW S, NEW s \in Seq(S), NEW t \in Seq(S)
    PROVE  /\ s \o t \in Seq(S)
           /\ Len(s \o t) = Len(s) + Len(t)
           /\ DOMAIN (s \o t) = 1 .. Len(s) + Len(t)
           /\ \A i \in 1 .. Len(s) : (s \o t)[i] = s[i]
           /\ \A i \in 1 .. Len(t) : (s \o t)[Len(s) + i] = t[i]
  OBVIOUS

LEMMA JoinGrows ==
    ASSUME NEW S, NEW s \in Seq(S), NEW t \in Seq(S), NEW u \in Seq(S)
    PROVE  /\ Len(s \o t) >= Len(s) /\ Len((s \o t) \o u) >= Len(s)
           /\ \A k \in 0 .. Len(s) : k \in 0 .. Len(s \o t)
<1>1. /\ Len(s) \in Nat /\ Len(t) \in Nat /\ Len(u) \in Nat
      /\ Len(s \o t) = Len(s) + Len(t)
  BY JoinProperties
<1>2. s \o t \in Seq(S)
  BY JoinProperties
<1>3. Len((s \o t) \o u) = Len(s \o t) + Len(u)
  BY <1>2, JoinProperties
<1> QED
  BY <1>1, <1>3

-----------------------------------------------------------------------------
(* What a step makes of a branch *)

LEMMA Fields ==
    ASSUME TypeOK, NEW n \in Nodes
    PROVE  /\ br[n] \in Branches
           /\ br[n].stack \in Seq(Frames) /\ br[n].mode \in Modes
           /\ br[n].undo \in Seq(Undos)
           /\ br[n].call \in [obj : Objects \cup {NoObject}, op : Nat]
           /\ br[n].popped \in SUBSET Undos /\ br[n].failed \in BOOLEAN
           /\ br[n].token \in Nat /\ br[n].fork \in 0 .. MaxForks
           /\ br[n].names \in SUBSET (Objects \cup Keys) /\ br[n].base \in Worlds
           /\ Depth(n) \in Nat /\ DOMAIN br[n].stack = 1 .. Depth(n)
           /\ DOMAIN br[n].undo = 1 .. Len(br[n].undo) /\ Len(br[n].undo) \in Nat
           /\ \A i \in 1 .. Depth(n) : br[n].stack[i] \in Frames
           /\ \A i \in 1 .. Len(br[n].undo) : br[n].undo[i] \in Undos
<1>1. br[n] \in Branches
  BY DEF TypeOK
<1>2. /\ br[n].stack \in Seq(Frames) /\ br[n].mode \in Modes
      /\ br[n].undo \in Seq(Undos)
      /\ br[n].call \in [obj : Objects \cup {NoObject}, op : Nat]
      /\ br[n].popped \in SUBSET Undos /\ br[n].failed \in BOOLEAN
      /\ br[n].token \in Nat /\ br[n].fork \in 0 .. MaxForks
      /\ br[n].names \in SUBSET (Objects \cup Keys) /\ br[n].base \in Worlds
  BY <1>1 DEF Branches
<1> QED
  BY <1>1, <1>2 DEF Depth

\* What a step may change of the branch of n,
Turns(n, stack, mode, undo, call, popped, fork) ==
    /\ br'[n].stack = stack /\ br'[n].mode = mode /\ br'[n].undo = undo
    /\ br'[n].call = call /\ br'[n].popped = popped /\ br'[n].fork = fork
    /\ br'[n].names = br[n].names /\ br'[n].base = br[n].base

\* and of no other.
Becomes(n, stack, mode, undo, call, popped, fork) ==
    /\ br' \in [Nodes -> Branches]
    /\ \A m \in Nodes \ {n} : br'[m] = br[m]
    /\ Turns(n, stack, mode, undo, call, popped, fork)

LEMMA Changed ==
    ASSUME TypeOK, NEW n \in Nodes, NEW b \in Branches, br' = [br EXCEPT ![n] = b],
           b.names = br[n].names, b.base = br[n].base
    PROVE  Becomes(n, b.stack, b.mode, b.undo, b.call, b.popped, b.fork)
  BY DEF Becomes, Turns, TypeOK

LEMMA ModeShape ==
    ASSUME TypeOK, NEW n \in Nodes, NEW mode \in Modes,
           br' = [br EXCEPT ![n].mode = mode]
    PROVE  Becomes(n, br[n].stack, mode, br[n].undo, br[n].call, br[n].popped, br[n].fork)
<1> DEFINE b == [br[n] EXCEPT !.mode = mode]
<1>1. b \in Branches /\ b.names = br[n].names /\ b.base = br[n].base
      /\ b.stack = br[n].stack /\ b.mode = mode /\ b.undo = br[n].undo
      /\ b.call = br[n].call /\ b.popped = br[n].popped /\ b.fork = br[n].fork
  BY Fields DEF Branches
<1>2. br' = [br EXCEPT ![n] = b]
  OBVIOUS
<1> HIDE DEF b
<1> QED
  BY <1>1, <1>2, Changed

LEMMA CallShape ==
    ASSUME TypeOK, NEW n \in Nodes, NEW o \in Objects, Call(n, o)
    PROVE  Becomes(n, br[n].stack, "io", br[n].undo, [obj |-> o, op |-> ops + 1],
                   br[n].popped, br[n].fork)
<1> DEFINE b == [br[n] EXCEPT !.mode = "io", !.call = [obj |-> o, op |-> ops + 1]]
<1>0. [obj |-> o, op |-> ops + 1] \in [obj : Objects \cup {NoObject}, op : Nat]
  BY DEF TypeOK
<1>1. b \in Branches /\ b.names = br[n].names /\ b.base = br[n].base
      /\ b.stack = br[n].stack /\ b.mode = "io" /\ b.undo = br[n].undo
      /\ b.call = [obj |-> o, op |-> ops + 1]
      /\ b.popped = br[n].popped /\ b.fork = br[n].fork
  BY ZenonT(60), <1>0, Fields DEF Branches, Modes
<1>2. br' = [br EXCEPT ![n] = b]
  BY DEF Call, TypeOK
<1> HIDE DEF b
<1> QED
  BY <1>1, <1>2, Changed

LEMMA SucceedShape ==
    ASSUME TypeOK, NEW n \in Nodes, Succeed(n), br[n].call.obj \in Objects
    PROVE  /\ Inverse(br[n].call) \in Undos
           /\ Becomes(n, br[n].stack, "run", Append(br[n].undo, Inverse(br[n].call)),
                      NoCall, br[n].popped, br[n].fork)
<1> DEFINE b == [br[n] EXCEPT !.mode = "run", !.call = NoCall,
                              !.undo = Append(@, Inverse(br[n].call))]
<1>1. Inverse(br[n].call) \in Undos
  BY Fields DEF Inverse, Undos, TypeOK, Worlds
<1>2. Append(br[n].undo, Inverse(br[n].call)) \in Seq(Undos)
  BY <1>1, Fields, PushProperties
<1>3. NoCall \in [obj : Objects \cup {NoObject}, op : Nat]
  BY DEF NoCall
<1>4. b \in Branches /\ b.names = br[n].names /\ b.base = br[n].base
      /\ b.stack = br[n].stack /\ b.mode = "run"
      /\ b.undo = Append(br[n].undo, Inverse(br[n].call)) /\ b.call = NoCall
      /\ b.popped = br[n].popped /\ b.fork = br[n].fork
  BY ZenonT(60), <1>2, <1>3, Fields DEF Branches, Modes
<1>5. br' = [br EXCEPT ![n] = b]
  BY DEF Succeed, TypeOK
<1> HIDE DEF b
<1> QED
  BY <1>1, <1>4, <1>5, Changed

LEMMA FailShape ==
    ASSUME TypeOK, NEW n \in Nodes, Fail(n)
    PROVE  Becomes(n, br[n].stack, "err", br[n].undo, NoCall, br[n].popped, br[n].fork)
<1> DEFINE b == [br[n] EXCEPT !.mode = "err", !.call = NoCall]
<1>1. NoCall \in [obj : Objects \cup {NoObject}, op : Nat]
  BY DEF NoCall
<1>2. b \in Branches /\ b.names = br[n].names /\ b.base = br[n].base
      /\ b.stack = br[n].stack /\ b.mode = "err" /\ b.undo = br[n].undo
      /\ b.call = NoCall /\ b.popped = br[n].popped /\ b.fork = br[n].fork
  BY ZenonT(60), <1>1, Fields DEF Branches, Modes
<1>3. br' = [br EXCEPT ![n] = b]
  BY DEF Fail, TypeOK
<1> HIDE DEF b
<1> QED
  BY <1>2, <1>3, Changed

LEMMA EnterShape ==
    ASSUME TypeOK, NEW n \in Nodes, NEW kind \in Kinds, NEW key \in Keys \cup {NoKey},
           Enter(n, kind, key)
    PROVE  /\ Frame(n, kind, key) \in Frames
           /\ Becomes(n, Append(br[n].stack, Frame(n, kind, key)), br[n].mode,
                      br[n].undo, br[n].call, br[n].popped, br[n].fork)
<1> DEFINE b == [br[n] EXCEPT !.stack = Append(@, Frame(n, kind, key))]
<1>a. (IF kind = "timeout" THEN world ELSE Blank) \in Worlds
  BY DEF TypeOK, Worlds, Blank
<1>b. (IF kind = "timeout" THEN timers + 1 ELSE Token(n, Depth(n) + 1)) \in Nat
  <2>1. Depth(n) # 0 => br[n].stack[Depth(n)] \in Frames
    BY Fields
  <2>2. Token(n, Depth(n) + 1) \in Nat
    BY <2>1, Fields DEF Token, Frames
  <2> QED
    BY <2>2 DEF TypeOK
<1>c. kind \in {"timeout", "catch", "idem"} /\ Len(br[n].undo) \in Nat
  BY Fields, ProgramAssumption
<1>1. Frame(n, kind, key) \in Frames
  BY <1>a, <1>b, <1>c DEF Frame, Frames
<1>2. Append(br[n].stack, Frame(n, kind, key)) \in Seq(Frames)
  BY <1>1, Fields, PushProperties
<1>3. b \in Branches /\ b.names = br[n].names /\ b.base = br[n].base
      /\ b.stack = Append(br[n].stack, Frame(n, kind, key)) /\ b.mode = br[n].mode
      /\ b.undo = br[n].undo /\ b.call = br[n].call /\ b.popped = br[n].popped
      /\ b.fork = br[n].fork
  BY <1>2, Fields DEF Branches
<1>4. br' = [br EXCEPT ![n] = b]
  BY DEF Enter, TypeOK
<1> HIDE DEF b
<1> QED
  BY <1>1, <1>3, <1>4, Changed

LEMMA CutTypes ==
    ASSUME TypeOK, NEW n \in Nodes, NEW d \in 0 .. Depth(n)
    PROVE  /\ Cut(n, d) \in Seq(Frames) /\ Len(Cut(n, d)) = d
           /\ DOMAIN Cut(n, d) = 1 .. d
           /\ \A i \in 1 .. d : Cut(n, d)[i] = br[n].stack[i]
<1>1. br[n].stack \in Seq(Frames) /\ d \in 0 .. Len(br[n].stack)
  BY Fields DEF Depth
<1> QED
  BY <1>1, CutProperties DEF Cut

\* What Return leaves on the undo stack.
Returned(n) ==
    IF Top(n).kind = "idem" /\ Len(br[n].undo) > Top(n).mark
    THEN Append(br[n].undo, Revert(Top(n).key))
    ELSE br[n].undo

LEMMA TopTypes ==
    ASSUME TypeOK, NEW n \in Nodes, Depth(n) > 0
    PROVE  /\ Top(n) \in Frames /\ Depth(n) \in DOMAIN br[n].stack
           /\ Depth(n) - 1 \in 0 .. Depth(n) /\ Depth(n) \in Nat
           /\ Top(n).mark \in Nat /\ Top(n).key \in Keys \cup {NoKey}
           /\ Top(n).kind \in {"timeout", "catch", "idem"}
<1>1. Depth(n) \in 1 .. Depth(n) /\ Depth(n) \in Nat
  BY Fields
<1>2. Top(n) \in Frames
  BY <1>1, Fields DEF Top
<1>3. /\ Top(n).mark \in Nat /\ Top(n).key \in Keys \cup {NoKey}
      /\ Top(n).kind \in {"timeout", "catch", "idem"}
  BY <1>2 DEF Frames
<1> QED
  BY <1>1, <1>2, <1>3, Fields

LEMMA RevertTypes ==
    ASSUME NEW k \in Keys \cup {NoKey}
    PROVE  Revert(k) \in Undos /\ Revert(k).obj = NoObject /\ Revert(k).key = k
  BY DEF Revert, Undos

LEMMA ReturnShape ==
    ASSUME TypeOK, NEW n \in Nodes, Return(n)
    PROVE  /\ Depth(n) > 0
           /\ Returned(n) \in Seq(Undos)
           /\ Becomes(n, Cut(n, Depth(n) - 1), br[n].mode, Returned(n), br[n].call,
                      br[n].popped, br[n].fork)
<1> DEFINE b == [br[n] EXCEPT !.stack = Cut(n, Depth(n) - 1), !.undo = Returned(n)]
<1>1. Depth(n) > 0
  BY DEF Return
<1>2. Returned(n) \in Seq(Undos)
  BY <1>1, TopTypes, RevertTypes, Fields, PushProperties DEF Returned
<1>3. Cut(n, Depth(n) - 1) \in Seq(Frames)
  BY <1>1, TopTypes, CutTypes
<1>4. b \in Branches /\ b.names = br[n].names /\ b.base = br[n].base
      /\ b.stack = Cut(n, Depth(n) - 1) /\ b.mode = br[n].mode /\ b.undo = Returned(n)
      /\ b.call = br[n].call /\ b.popped = br[n].popped /\ b.fork = br[n].fork
  BY <1>2, <1>3, Fields DEF Branches
<1>5. br' = [br EXCEPT ![n] = b]
  BY DEF Return, Returned, TypeOK
<1> HIDE DEF b
<1> QED
  BY <1>1, <1>2, <1>4, <1>5, Changed

LEMMA UnwindShape ==
    ASSUME TypeOK, NEW n \in Nodes, Unwind(n)
    PROVE  /\ Depth(n) > 0 /\ br[n].mode = "err"
           /\ \/ /\ Top(n).kind = "timeout"
                 /\ Becomes(n, br[n].stack, "rollback", br[n].undo, br[n].call,
                            br[n].popped, br[n].fork)
              \/ \E mode \in {"run", "err"} :
                    Becomes(n, Cut(n, Depth(n) - 1), mode, br[n].undo, br[n].call,
                            br[n].popped, br[n].fork)
<1> DEFINE b == [br[n] EXCEPT !.mode = "rollback", !.failed = FALSE]
           mode == IF Top(n).kind = "catch" THEN "run" ELSE "err"
           c == [br[n] EXCEPT !.mode = mode, !.stack = Cut(n, Depth(n) - 1)]
<1>1. Depth(n) > 0 /\ br[n].mode = "err"
  BY DEF Unwind
<1>2. Cut(n, Depth(n) - 1) \in Seq(Frames)
  BY <1>1, TopTypes, CutTypes
<1>3. mode \in {"run", "err"} /\ mode \in Modes
  BY DEF Modes
<1> HIDE DEF mode
<1>4. b \in Branches /\ b.names = br[n].names /\ b.base = br[n].base
      /\ b.stack = br[n].stack /\ b.mode = "rollback" /\ b.undo = br[n].undo
      /\ b.call = br[n].call /\ b.popped = br[n].popped /\ b.fork = br[n].fork
  BY Fields DEF Branches, Modes
<1>5. c \in Branches /\ c.names = br[n].names /\ c.base = br[n].base
      /\ c.stack = Cut(n, Depth(n) - 1) /\ c.mode = mode /\ c.undo = br[n].undo
      /\ c.call = br[n].call /\ c.popped = br[n].popped /\ c.fork = br[n].fork
  BY <1>2, <1>3, Fields DEF Branches
<1>6. \/ Top(n).kind = "timeout" /\ br' = [br EXCEPT ![n] = b]
      \/ br' = [br EXCEPT ![n] = c]
  BY DEF Unwind, mode, TypeOK
<1> HIDE DEF b, c
<1>7. CASE Top(n).kind = "timeout" /\ br' = [br EXCEPT ![n] = b]
  BY <1>1, <1>4, <1>7, Changed
<1>8. CASE br' = [br EXCEPT ![n] = c]
  <2>1. Becomes(n, Cut(n, Depth(n) - 1), mode, br[n].undo, br[n].call,
                br[n].popped, br[n].fork)
    BY <1>5, <1>8, Changed
  <2> QED
    BY <1>1, <1>3, <2>1
<1> QED
  BY <1>6, <1>7, <1>8

LEMMA PopUndoShape ==
    ASSUME TypeOK, NEW n \in Nodes, PopUndo(n)
    PROVE  LET last == Len(br[n].undo)
               u == br[n].undo[last]
           IN  /\ last \in Nat \ {0} /\ u \in Undos
               /\ Becomes(n, br[n].stack, br[n].mode, SubSeq(br[n].undo, 1, last - 1),
                          br[n].call, IF u.key = NoKey THEN {u} ELSE {}, br[n].fork)
<1> DEFINE last == Len(br[n].undo)
           u == br[n].undo[last]
           left == SubSeq(br[n].undo, 1, last - 1)
           popped == IF u.key = NoKey THEN {u} ELSE {}
           b == [br[n] EXCEPT !.undo = left, !.popped = popped]
<1>1. Depth(n) > 0
  BY DEF PopUndo, TypeOK
<1>2. last \in Nat \ {0} /\ u \in Undos /\ last - 1 \in 0 .. Len(br[n].undo)
  <2>1. last \in Nat /\ last > Top(n).mark
    BY Fields DEF PopUndo
  <2> QED
    BY SMTT(60), <1>1, <2>1, TopTypes, Fields
<1>3. left \in Seq(Undos)
  BY <1>2, CutProperties, Fields
<1>4. popped \in SUBSET Undos
  BY <1>2
<1>5. br' = [br EXCEPT ![n] = b]
  BY DEF PopUndo, TypeOK
<1> HIDE DEF left, popped, u, last
<1>6. b \in Branches /\ b.names = br[n].names /\ b.base = br[n].base
      /\ b.stack = br[n].stack /\ b.mode = br[n].mode /\ b.undo = left
      /\ b.call = br[n].call /\ b.popped = popped /\ b.fork = br[n].fork
  BY <1>3, <1>4, Fields DEF Branches
<1> HIDE DEF b
<1>7. Becomes(n, br[n].stack, br[n].mode, left, br[n].call, popped, br[n].fork)
  BY <1>5, <1>6, Changed
<1> QED
  BY <1>2, <1>7 DEF left, popped, u, last

LEMMA UndoOkShape ==
    ASSUME TypeOK, NEW n \in Nodes, UndoOk(n) \/ UndoFails(n)
    PROVE  Becomes(n, br[n].stack, br[n].mode, br[n].undo, br[n].call, {}, br[n].fork)
<1> DEFINE b == [br[n] EXCEPT !.popped = {}]
           c == [br[n] EXCEPT !.popped = {}, !.failed = TRUE]
<1>1. b \in Branches /\ b.names = br[n].names /\ b.base = br[n].base
      /\ b.stack = br[n].stack /\ b.mode = br[n].mode /\ b.undo = br[n].undo
      /\ b.call = br[n].call /\ b.popped = {} /\ b.fork = br[n].fork
  BY Fields DEF Branches
<1>2. c \in Branches /\ c.names = br[n].names /\ c.base = br[n].base
      /\ c.stack = br[n].stack /\ c.mode = br[n].mode /\ c.undo = br[n].undo
      /\ c.call = br[n].call /\ c.popped = {} /\ c.fork = br[n].fork
  BY Fields DEF Branches
<1>3. br' = [br EXCEPT ![n] = b] \/ br' = [br EXCEPT ![n] = c]
  BY DEF UndoOk, UndoFails, TypeOK
<1> HIDE DEF b, c
<1>4. CASE br' = [br EXCEPT ![n] = b]
  BY <1>1, <1>4, Changed
<1>5. CASE br' = [br EXCEPT ![n] = c]
  BY <1>2, <1>5, Changed
<1> QED
  BY <1>3, <1>4, <1>5

LEMMA RollbackDoneShape ==
    ASSUME TypeOK, NEW n \in Nodes, RollbackDone(n)
    PROVE  /\ Depth(n) > 0
           /\ \E mode \in {"run", "err"} :
                Becomes(n, Cut(n, Depth(n) - 1), mode, br[n].undo, br[n].call,
                        br[n].popped, br[n].fork)
<1> DEFINE mode == IF br[n].failed THEN "err" ELSE "run"
           b == [br[n] EXCEPT !.stack = Cut(n, Depth(n) - 1), !.mode = mode]
<1>1. Depth(n) > 0
  BY DEF RollbackDone, TypeOK
<1>2. Cut(n, Depth(n) - 1) \in Seq(Frames)
  BY <1>1, TopTypes, CutTypes
<1>3. mode \in {"run", "err"} /\ mode \in Modes
  BY DEF Modes
<1> HIDE DEF mode
<1>4. b \in Branches /\ b.names = br[n].names /\ b.base = br[n].base
      /\ b.stack = Cut(n, Depth(n) - 1) /\ b.mode = mode /\ b.undo = br[n].undo
      /\ b.call = br[n].call /\ b.popped = br[n].popped /\ b.fork = br[n].fork
  BY <1>2, <1>3, Fields DEF Branches
<1>5. br' = [br EXCEPT ![n] = b]
  BY DEF RollbackDone, mode, TypeOK
<1> HIDE DEF b
<1>6. Becomes(n, Cut(n, Depth(n) - 1), mode, br[n].undo, br[n].call,
              br[n].popped, br[n].fork)
  BY <1>4, <1>5, Changed
<1> QED
  BY <1>1, <1>3, <1>6

-----------------------------------------------------------------------------
(* The tree of Forks *)

\* A task that has not been joined yet, or runs on.
Pending(n) == status[n] \in {"running", "finished", "stashed", "orphan"}

\* What a branch looks like in each mode and status.
ShapeOf(n) ==
    /\ br[n].mode = "rollback" => Depth(n) > 0 /\ Top(n).kind = "timeout"
    /\ br[n].mode # "rollback" => br[n].popped = {}
    /\ \A u, v \in br[n].popped : u = v
    /\ \A u \in br[n].popped : u.obj \in Objects /\ u.obj \in br[n].names
    /\ br[n].mode = "io" => br[n].call.obj \in Objects /\ br[n].call.obj \in br[n].names
    /\ br[n].mode # "io" => br[n].call = NoCall
    /\ br[n].mode = "forked" <=> br[n].fork # 0
    /\ br[n].fork <= forks
    /\ br[n].fork # 0 => n[1] < br[n].fork
    /\ status[n] \in {"finished", "stashed"} =>
         br[n].mode \in {"run", "err"} /\ br[n].stack = << >>
    /\ ~Pending(n) =>
         br[n].mode \in {"run", "err"} /\ br[n].stack = << >> /\ br[n].undo = << >>

\* An undo is of an object the branch names, or reverts a key.
UndosOf(n) ==
    \A i \in 1 .. Len(br[n].undo) :
        IF br[n].undo[i].key = NoKey
        THEN br[n].undo[i].obj \in Objects /\ br[n].undo[i].obj \in br[n].names
        ELSE br[n].undo[i].obj = NoObject

\* Marks grow with the frames and lie below the top of the undo stack.
MarksOf(n) ==
    \A t \in 1 .. Depth(n) :
        /\ br[n].stack[t].mark <= Len(br[n].undo)
        /\ \A s \in 1 .. t : br[n].stack[s].mark <= br[n].stack[t].mark
        /\ br[n].stack[t].kind = "idem" => br[n].stack[t].key \in Keys

BranchInv == \A n \in Nodes : ShapeOf(n) /\ UndosOf(n) /\ MarksOf(n)

TreeInv ==
    /\ status[Root] = "running"
    /\ \A n \in Nodes : n[1] > forks => status[n] = "unborn"
    /\ \A a, b \in Nodes : br[a].fork # 0 /\ br[a].fork = br[b].fork => a = b
    /\ \A n \in Nodes : br[n].fork # 0 =>
         /\ br[Left(n)].names \cup br[Right(n)].names \subseteq br[n].names
         /\ br[Left(n)].names \cap br[Right(n)].names = {}
         /\ status[Left(n)] \in {"running", "finished", "joined"}
         /\ status[Right(n)] \in {"running", "finished", "stashed"}

StructInv == TypeOK /\ BranchInv /\ TreeInv

LEMMA NodeFacts ==
    /\ Root \in Nodes /\ Root[1] = 0
    /\ \A k \in 1 .. MaxForks :
         /\ LeftOf(k) \in Nodes /\ RightOf(k) \in Nodes /\ LeftOf(k) # RightOf(k)
         /\ LeftOf(k)[1] = k /\ RightOf(k)[1] = k
    /\ \A n \in Nodes : n[1] \in 0 .. MaxForks
    /\ MaxForks \in Nat
  BY ProgramAssumption DEF Nodes, Root, LeftOf, RightOf

LEMMA BranchTypes ==
    ASSUME NEW names \in SUBSET (Objects \cup Keys), NEW token \in Nat, NEW base \in Worlds
    PROVE  LET b == Branch(names, token, base) IN
           /\ b \in Branches /\ b.stack = << >> /\ b.mode = "run" /\ b.undo = << >>
           /\ b.call = NoCall /\ b.popped = {} /\ b.fork = 0 /\ b.names = names
           /\ b.base = base
<1>1. NoCall \in [obj : Objects \cup {NoObject}, op : Nat]
  BY DEF NoCall
<1>2. 0 \in 0 .. MaxForks
  BY ProgramAssumption
<1> QED
  BY <1>1, <1>2 DEF Branch, Branches, Modes

LEMMA NobodyTypes ==
    /\ Nobody \in Branches /\ Nobody.stack = << >> /\ Nobody.mode = "run"
    /\ Nobody.undo = << >> /\ Nobody.call = NoCall /\ Nobody.popped = {}
    /\ Nobody.fork = 0 /\ Nobody.names = {}
<1>1. Blank \in Worlds
  BY DEF Blank, Worlds
<1>2. {} \in SUBSET (Objects \cup Keys) /\ 0 \in Nat
  OBVIOUS
<1>3. LET b == Branch({}, 0, Blank) IN
      /\ b \in Branches /\ b.stack = << >> /\ b.mode = "run" /\ b.undo = << >>
      /\ b.call = NoCall /\ b.popped = {} /\ b.fork = 0 /\ b.names = {}
  BY <1>1, <1>2, BranchTypes
<1> QED
  BY <1>3 DEF Nobody

LEMMA RootTypes ==
    LET b == Branch(Objects \cup Keys, 0, Blank) IN
    /\ b \in Branches /\ b.stack = << >> /\ b.mode = "run" /\ b.undo = << >>
    /\ b.call = NoCall /\ b.popped = {} /\ b.fork = 0
<1>1. Blank \in Worlds
  BY DEF Blank, Worlds
<1>2. NoCall \in [obj : Objects \cup {NoObject}, op : Nat]
  BY DEF NoCall
<1>3. 0 \in 0 .. MaxForks
  BY ProgramAssumption
<1> QED
  BY <1>1, <1>2, <1>3 DEF Branch, Branches, Modes

LEMMA KidFacts ==
    ASSUME StructInv, NEW n \in Nodes, br[n].fork # 0
    PROVE  /\ Left(n) \in Nodes /\ Right(n) \in Nodes /\ Left(n) # Right(n)
           /\ Left(n) # n /\ Right(n) # n /\ br[n].fork \in 1 .. MaxForks
           /\ Children(n) = {Left(n), Right(n)}
<1>1. br[n].fork \in 1 .. MaxForks
  BY Fields DEF StructInv
<1>2. n[1] < br[n].fork /\ n[1] \in Nat
  BY NodeFacts DEF StructInv, BranchInv, ShapeOf
<1>3. Left(n)[1] = br[n].fork /\ Right(n)[1] = br[n].fork
  BY <1>1, NodeFacts DEF Left, Right
<1>4. Left(n) # n /\ Right(n) # n
  BY <1>1, <1>2, <1>3
<1>5. br[n].mode = "forked"
  BY DEF StructInv, BranchInv, ShapeOf
<1> QED
  BY <1>1, <1>4, <1>5, NodeFacts DEF Left, Right, Children

LEMMA NoKids ==
    ASSUME StructInv, NEW n \in Nodes, br[n].fork = 0
    PROVE  Children(n) = {}
  BY DEF StructInv, BranchInv, ShapeOf, Children

LEMMA TokenTypes ==
    ASSUME TypeOK, NEW n \in Nodes
    PROVE  Token(n, Depth(n) + 1) \in Nat
<1>1. Depth(n) # 0 => br[n].stack[Depth(n)] \in Frames
  BY Fields
<1> QED
  BY <1>1, Fields DEF Token, Frames

AnyFork(n) == \E split \in Splits : Fork(n, split)

LEMMA ForkShape ==
    ASSUME StructInv, NEW n \in Nodes, NEW split, Fork(n, split)
    PROVE  LET l == LeftOf(forks + 1)
               r == RightOf(forks + 1)
               lnames == split[1]
               rnames == split[2]
               token == Token(n, Depth(n) + 1)
           IN  /\ l \in Nodes /\ r \in Nodes /\ l # r /\ l # n /\ r # n
               /\ l[1] = forks + 1 /\ r[1] = forks + 1
               /\ forks + 1 \in 1 .. MaxForks /\ n[1] <= forks
               /\ status[l] = "unborn" /\ status[r] = "unborn" /\ Live(n)
               /\ br[n].mode = "run" /\ br[n].fork = 0
               /\ lnames \cup rnames \subseteq br[n].names /\ lnames \cap rnames = {}
               /\ lnames \cap Open(n) = {} /\ rnames \cap Open(n) = {}
               /\ br' \in [Nodes -> Branches]
               /\ \A m \in Nodes \ {n, l, r} : br'[m] = br[m]
               /\ Turns(n, br[n].stack, "forked", br[n].undo, br[n].call,
                        br[n].popped, forks + 1)
               /\ Branch(lnames, token, world) \in Branches
               /\ Branch(rnames, token, world) \in Branches
               /\ br'[l] = Branch(lnames, token, world)
               /\ br'[r] = Branch(rnames, token, world)
               /\ status' = [status EXCEPT ![l] = "running", ![r] = "running"]
<1> DEFINE l == LeftOf(forks + 1)
           r == RightOf(forks + 1)
           lnames == split[1]
           rnames == split[2]
           token == Token(n, Depth(n) + 1)
           b == [br[n] EXCEPT !.mode = "forked", !.fork = forks + 1]
           lb == Branch(lnames, token, world)
           rb == Branch(rnames, token, world)
<1>0. TypeOK
  BY DEF StructInv
<1>1. forks + 1 \in 1 .. MaxForks /\ forks \in Nat
  BY <1>0, NodeFacts DEF TypeOK, Fork, ForkInto
<1>2. Live(n) /\ br[n].mode = "run"
  BY DEF Fork, ForkInto, Ready
<1>3. br[n].fork = 0
  BY <1>2 DEF StructInv, BranchInv, ShapeOf
<1>4. n[1] <= forks
  BY <1>0, <1>2, NodeFacts DEF StructInv, TreeInv, Live, TypeOK
<1>5. /\ l \in Nodes /\ r \in Nodes /\ l # r /\ l # n /\ r # n
      /\ l[1] = forks + 1 /\ r[1] = forks + 1
  BY <1>1, <1>4, NodeFacts
<1>6. status[l] = "unborn" /\ status[r] = "unborn"
  BY <1>1, <1>5 DEF StructInv, TreeInv
<1>7. /\ lnames \cup rnames \subseteq br[n].names /\ lnames \cap rnames = {}
      /\ lnames \cap Open(n) = {} /\ rnames \cap Open(n) = {}
  BY DEF Fork, Within, Names
<1>8. lb \in Branches /\ rb \in Branches
  <2>1. lnames \in SUBSET (Objects \cup Keys) /\ rnames \in SUBSET (Objects \cup Keys)
    BY <1>0, <1>7, Fields
  <2>2. token \in Nat /\ world \in Worlds
    BY <1>0, TokenTypes DEF TypeOK
  <2> HIDE DEF lnames, rnames, token
  <2> QED
    BY <2>1, <2>2, BranchTypes
<1>9. /\ b \in Branches /\ b.stack = br[n].stack /\ b.mode = "forked"
      /\ b.undo = br[n].undo /\ b.call = br[n].call /\ b.popped = br[n].popped
      /\ b.fork = forks + 1 /\ b.names = br[n].names /\ b.base = br[n].base
  <2>1. forks + 1 \in 0 .. MaxForks
    BY <1>1, NodeFacts
  <2> QED
    BY <1>0, <2>1, Fields DEF Branches, Modes
<1>10. br' = [br EXCEPT ![n] = b, ![l] = lb, ![r] = rb]
  BY <1>0 DEF Fork, ForkInto, TypeOK
<1>11. status' = [status EXCEPT ![l] = "running", ![r] = "running"]
  BY DEF Fork, ForkInto
<1> HIDE DEF l, r, b, lb, rb, token, lnames, rnames
<1>12. /\ br' \in [Nodes -> Branches]
       /\ \A m \in Nodes \ {n, l, r} : br'[m] = br[m]
       /\ br'[n] = b /\ br'[l] = lb /\ br'[r] = rb
  BY <1>0, <1>5, <1>8, <1>9, <1>10 DEF TypeOK
<1>13. Turns(n, br[n].stack, "forked", br[n].undo, br[n].call, br[n].popped, forks + 1)
  BY <1>9, <1>12 DEF Turns
<1> QED
  BY <1>1, <1>2, <1>3, <1>4, <1>5, <1>6, <1>7, <1>8, <1>11, <1>12, <1>13
  DEF l, r, lb, rb, token, lnames, rnames

LEMMA MergeTypes ==
    ASSUME StructInv, NEW n \in Nodes, br[n].fork # 0
    PROVE  /\ br[n].undo \o br[Left(n)].undo \in Seq(Undos)
           /\ br[n].undo \o br[Right(n)].undo \in Seq(Undos)
           /\ (br[n].undo \o br[Left(n)].undo) \o br[Right(n)].undo \in Seq(Undos)
<1>1. /\ br[n].undo \in Seq(Undos) /\ br[Left(n)].undo \in Seq(Undos)
      /\ br[Right(n)].undo \in Seq(Undos)
  BY KidFacts, Fields DEF StructInv
<1>2. br[n].undo \o br[Left(n)].undo \in Seq(Undos)
  BY <1>1, JoinProperties
<1> QED
  BY <1>1, <1>2, JoinProperties

\* The left branch is merged and the right one is not done.
LEMMA MergeLeftShape ==
    ASSUME StructInv, NEW n \in Nodes, JoinLeft(n), status[Right(n)] # "stashed"
    PROVE  LET l == Left(n) IN
           /\ br[n].fork # 0 /\ Live(n) /\ br[n].mode = "forked" /\ status[l] = "finished"
           /\ br' \in [Nodes -> Branches]
           /\ \A m \in Nodes \ {n, l} : br'[m] = br[m]
           /\ Turns(n, br[n].stack, br[n].mode, br[n].undo \o br[l].undo, br[n].call,
                    br[n].popped, br[n].fork)
           /\ Turns(l, br[l].stack, br[l].mode, << >>, br[l].call, br[l].popped,
                    br[l].fork)
           /\ status' = [status EXCEPT ![l] = "joined"]
<1> DEFINE l == Left(n)
           b == [br[n] EXCEPT !.undo = @ \o br[l].undo]
           c == [br[l] EXCEPT !.undo = << >>]
<1>0. TypeOK
  BY DEF StructInv
<1>1. Live(n) /\ br[n].mode = "forked" /\ status[l] = "finished"
  BY DEF JoinLeft, Joining
<1>2. br[n].fork # 0
  BY <1>1 DEF StructInv, BranchInv, ShapeOf
<1>3. /\ b \in Branches /\ b.stack = br[n].stack /\ b.mode = br[n].mode
      /\ b.undo = br[n].undo \o br[l].undo /\ b.call = br[n].call
      /\ b.popped = br[n].popped /\ b.fork = br[n].fork /\ b.names = br[n].names
      /\ b.base = br[n].base
  BY <1>0, <1>2, MergeTypes, Fields DEF Branches
<1>4. /\ c \in Branches /\ c.stack = br[l].stack /\ c.mode = br[l].mode
      /\ c.undo = << >> /\ c.call = br[l].call
      /\ c.popped = br[l].popped /\ c.fork = br[l].fork /\ c.names = br[l].names
      /\ c.base = br[l].base
  <2>1. l \in Nodes /\ << >> \in Seq(Undos)
    BY <1>2, KidFacts
  <2> HIDE DEF l
  <2>2. br[l] \in Branches
    BY <1>0, <2>1, Fields
  <2> QED
    BY <2>1, <2>2 DEF Branches
<1>5. l \in Nodes /\ l # n
  BY <1>2, KidFacts
<1>6. br' = [br EXCEPT ![n] = b, ![l] = c]
  BY <1>0, <1>5 DEF JoinLeft, TypeOK
<1>7. status' = [status EXCEPT ![l] = "joined"]
  BY <1>0, <1>2, KidFacts DEF JoinLeft, TypeOK
<1> HIDE DEF b, c, l
<1>8. /\ br' \in [Nodes -> Branches] /\ br'[n] = b /\ br'[l] = c
      /\ \A m \in Nodes \ {n, l} : br'[m] = br[m]
  BY <1>0, <1>3, <1>4, <1>5, <1>6 DEF TypeOK
<1>9. /\ Turns(n, br[n].stack, br[n].mode, br[n].undo \o br[l].undo, br[n].call,
               br[n].popped, br[n].fork)
      /\ Turns(l, br[l].stack, br[l].mode, << >>, br[l].call, br[l].popped, br[l].fork)
  BY <1>3, <1>4, <1>8 DEF Turns
<1> QED
  BY <1>1, <1>2, <1>7, <1>8, <1>9 DEF l

\* What is stashed, or done last, is merged, and the Fork is over.
Completes(n) == JoinRight(n) \/ (JoinLeft(n) /\ status[Right(n)] = "stashed")

LEMMA CompleteShape ==
    ASSUME StructInv, NEW n \in Nodes, Completes(n)
    PROVE  LET l == Left(n)
               r == Right(n)
           IN  /\ br[n].fork # 0 /\ Live(n) /\ br[n].mode = "forked"
               /\ status[l] \in {"finished", "joined"}
               /\ status[r] \in {"finished", "stashed"}
               /\ br' \in [Nodes -> Branches]
               /\ \A m \in Nodes \ {n, l, r} : br'[m] = br[m]
               /\ \E mode \in {"run", "err"} :
                    Turns(n, br[n].stack, mode, (br[n].undo \o br[l].undo) \o br[r].undo,
                          br[n].call, br[n].popped, 0)
               /\ br'[l] = Nobody /\ br'[r] = Nobody
               /\ status' \in [Nodes -> Statuses]
               /\ \A m \in Nodes \ {l, r} : status'[m] = status[m]
               /\ status'[l] = "joined" /\ status'[r] = "joined"
<1> DEFINE l == Left(n)
           r == Right(n)
           mode == Outcome(n)
           undo == (br[n].undo \o br[l].undo) \o br[r].undo
           b == [br[n] EXCEPT !.undo = undo, !.mode = mode, !.fork = 0]
<1>0. TypeOK
  BY DEF StructInv
<1>1. Live(n) /\ br[n].mode = "forked"
  BY DEF Completes, JoinLeft, JoinRight, Joining
<1>2. br[n].fork # 0
  BY <1>1 DEF StructInv, BranchInv, ShapeOf
<1>3. l \in Nodes /\ r \in Nodes /\ l # r /\ l # n /\ r # n
  BY <1>2, KidFacts
<1>4. /\ status[l] \in {"finished", "joined"} /\ status[r] \in {"finished", "stashed"}
      /\ \A m \in Nodes \ {l, r} : status'[m] = status[m]
      /\ status'[l] = "joined" /\ status'[r] = "joined"
      /\ status' \in [Nodes -> Statuses]
  BY <1>0, <1>3 DEF Completes, JoinLeft, JoinRight, TypeOK, Statuses
<1>5. undo \in Seq(Undos) /\ mode \in {"run", "err"} /\ mode \in Modes
      /\ 0 \in 0 .. MaxForks
  BY <1>2, MergeTypes, NodeFacts DEF Outcome, Modes
<1>6. JoinRight(n) => undo = br[n].undo \o br[r].undo
  <2>1. JoinRight(n) => br[l].undo = << >>
    BY <1>3 DEF JoinRight, StructInv, BranchInv, ShapeOf, Pending
  <2>2. br[n].undo \in Seq(Undos)
    BY <1>0, Fields
  <2>3. br[n].undo \o << >> = br[n].undo
    BY <2>2
  <2> QED
    BY <2>1, <2>3
<1>7. br' = [br EXCEPT ![n] = b, ![l] = Nobody, ![r] = Nobody]
  <2>1. CASE JoinRight(n)
    BY <1>0, <1>3, <1>6, <2>1 DEF JoinRight, TypeOK
  <2>2. CASE JoinLeft(n) /\ status[r] = "stashed"
    BY <1>0, <1>3, <2>2 DEF JoinLeft, TypeOK
  <2> QED
    BY <2>1, <2>2 DEF Completes
<1> HIDE DEF undo, mode
<1>8. /\ b \in Branches /\ b.stack = br[n].stack /\ b.mode = mode
      /\ b.undo = undo /\ b.call = br[n].call
      /\ b.popped = br[n].popped /\ b.fork = 0 /\ b.names = br[n].names
      /\ b.base = br[n].base
  BY <1>0, <1>5, Fields DEF Branches
<1> HIDE DEF b, l, r
<1>9. /\ br' \in [Nodes -> Branches] /\ br'[n] = b /\ br'[l] = Nobody /\ br'[r] = Nobody
      /\ \A m \in Nodes \ {n, l, r} : br'[m] = br[m]
  BY <1>0, <1>3, <1>7, <1>8, NobodyTypes DEF TypeOK
<1>10. Turns(n, br[n].stack, mode, undo, br[n].call, br[n].popped, 0)
  BY <1>8, <1>9 DEF Turns
<1> QED
  BY <1>1, <1>2, <1>4, <1>5, <1>9, <1>10 DEF l, r, undo

LEMMA KeptTypes ==
    ASSUME StructInv, NEW n \in Nodes
    PROVE  Kept(n) \in Seq(Undos)
<1>0. TypeOK
  BY DEF StructInv
<1>1. CASE br[n].fork = 0
  BY <1>0, <1>1, NoKids, Fields DEF Kept
<1>2. CASE br[n].fork # 0
  BY <1>0, <1>2, MergeTypes, Fields DEF Kept
<1> QED
  BY <1>1, <1>2

LEMMA GraceShape ==
    ASSUME StructInv, NEW n \in Nodes, NEW t \in DOMAIN br[n].stack, GraceEnds(n, t)
    PROVE  /\ Live(n) /\ t \in 1 .. Depth(n) /\ br[n].stack[t].kind = "timeout"
           /\ br[n].mode \in {"io", "forked", "rollback"}
           /\ br[n].mode = "rollback" => t < Depth(n)
           /\ Children(n) \subseteq Nodes \ {n}
           /\ br' \in [Nodes -> Branches]
           /\ \A m \in Nodes \ (Children(n) \cup {n}) : br'[m] = br[m]
           /\ Turns(n, Cut(n, t), "rollback", Kept(n), NoCall, {}, 0)
           /\ status' \in [Nodes -> Statuses]
           /\ \A m \in Nodes \ Children(n) : status'[m] = status[m]
           /\ \A c \in Children(n) :
                IF status[c] = "running"
                THEN br'[c] = br[c] /\ status'[c] = "orphan"
                ELSE br'[c] = Nobody /\ status'[c] \in {"dead", "joined"}
<1> DEFINE b == [br[n] EXCEPT !.stack = Cut(n, t), !.mode = "rollback", !.undo = Kept(n),
                    !.call = NoCall, !.popped = {}, !.failed = FALSE, !.fork = 0]
<1>0. TypeOK
  BY DEF StructInv
<1>1. /\ Live(n) /\ t \in 1 .. Depth(n) /\ br[n].stack[t].kind = "timeout"
      /\ br[n].mode \in {"io", "forked", "rollback"}
      /\ br[n].mode = "rollback" => t < Depth(n)
  BY <1>0, Fields DEF GraceEnds, Timeouts
<1>2. Children(n) \subseteq Nodes \ {n}
  BY KidFacts, NoKids
<1>3. /\ b \in Branches /\ b.stack = Cut(n, t) /\ b.mode = "rollback"
      /\ b.undo = Kept(n) /\ b.call = NoCall /\ b.popped = {} /\ b.fork = 0
      /\ b.names = br[n].names /\ b.base = br[n].base
  <2>1. Cut(n, t) \in Seq(Frames)
    BY <1>0, <1>1, CutTypes, Fields
  <2>2. Kept(n) \in Seq(Undos) /\ 0 \in 0 .. MaxForks
    BY KeptTypes, NodeFacts
  <2>3. NoCall \in [obj : Objects \cup {NoObject}, op : Nat]
    BY DEF NoCall
  <2> QED
    BY ZenonT(60), <1>0, <2>1, <2>2, <2>3, Fields DEF Branches, Modes
<1>4. br' = [c \in Nodes |->
               CASE c = n -> b
                 [] c \in Children(n) /\ status[c] # "running" -> Nobody
                 [] OTHER -> br[c]]
  BY DEF GraceEnds
<1> HIDE DEF b
<1>5. /\ br'[n] = b
      /\ \A m \in Nodes \ (Children(n) \cup {n}) : br'[m] = br[m]
      /\ \A c \in Children(n) :
           br'[c] = IF status[c] = "running" THEN br[c] ELSE Nobody
  BY <1>2, <1>4
<1>6. br' \in [Nodes -> Branches]
  <2>1. \A m \in Nodes : br'[m] \in Branches
    BY <1>0, <1>3, <1>5, NobodyTypes DEF TypeOK
  <2> QED
    BY <1>4, <2>1
<1>7. /\ status' \in [Nodes -> Statuses]
      /\ \A m \in Nodes \ Children(n) : status'[m] = status[m]
      /\ \A c \in Children(n) :
            IF status[c] = "running" THEN status'[c] = "orphan"
            ELSE status'[c] \in {"dead", "joined"}
  <2>1. \A c \in Children(n) : status[c] \in {"running", "finished", "stashed", "joined"}
    BY KidFacts, NoKids DEF StructInv, TreeInv
  <2>2. \A c \in Children(n) : IF status[c] = "running" THEN Fate[status[c]] = "orphan"
                              ELSE Fate[status[c]] \in {"dead", "joined"}
    BY <2>1 DEF Fate
  <2>3. status' = [c \in Nodes |->
                     IF c \in Children(n) THEN Fate[status[c]] ELSE status[c]]
    BY DEF GraceEnds
  <2>4. \A c \in Nodes : status'[c] \in Statuses
    BY <1>0, <2>2, <2>3 DEF TypeOK, Statuses
  <2> QED
    BY <1>2, <2>2, <2>3, <2>4
<1>8. Turns(n, Cut(n, t), "rollback", Kept(n), NoCall, {}, 0)
  BY <1>3, <1>5 DEF Turns
<1> QED
  BY <1>1, <1>2, <1>5, <1>6, <1>7, <1>8

LEMMA FinishShape ==
    ASSUME StructInv, NEW n \in Nodes, Finish(n)
    PROVE  /\ n # Root /\ Live(n) /\ br[n].stack = << >>
           /\ br[n].mode \in {"run", "err"} /\ br[n].fork = 0
           /\ \/ /\ status[n] = "orphan"
                 /\ status' = [status EXCEPT ![n] = "dead"]
                 /\ br' = [br EXCEPT ![n] = Nobody]
              \/ /\ status[n] = "running"
                 /\ status' = [status EXCEPT ![n] = "finished"]
                 /\ br' = br
<1>1. n # Root /\ Live(n) /\ br[n].mode \in {"run", "err"} /\ Depth(n) = 0
  BY DEF Finish, Ready
<1>2. br[n].stack = << >> /\ br[n].fork = 0
  BY <1>1, Fields DEF StructInv, BranchInv, ShapeOf, Depth
<1>3. status[n] = "orphan" \/ status[n] = "running"
  BY <1>1 DEF Live
<1> QED
  BY <1>1, <1>2, <1>3 DEF Finish

-----------------------------------------------------------------------------
(* The shape of branches is kept *)

LEMMA BranchSame ==
    ASSUME StructInv, NEW m \in Nodes, br'[m] = br[m], status'[m] = status[m],
           forks' >= forks, forks' \in Nat
    PROVE  ShapeOf(m)' /\ UndosOf(m)' /\ MarksOf(m)'
<1>1. ShapeOf(m) /\ UndosOf(m) /\ MarksOf(m)
  BY DEF StructInv, BranchInv
<1>2. UndosOf(m)' /\ MarksOf(m)'
  BY <1>1 DEF UndosOf, MarksOf, Depth
<1>3. br[m].fork <= forks => br'[m].fork <= forks'
  <2>1. br[m].fork \in Nat /\ forks \in Nat
    BY Fields, NodeFacts DEF StructInv, TypeOK
  <2> QED
    BY <2>1
<1>4. ShapeOf(m)'
  BY <1>1, <1>3 DEF ShapeOf, Pending, Depth, Top
<1> QED
  BY <1>2, <1>4

\* A step of one branch that neither starts nor ends a Fork.
LEMMA Alone ==
    ASSUME StructInv, NEW n \in Nodes, UNCHANGED <<status, forks>>,
           br' \in [Nodes -> Branches], \A m \in Nodes \ {n} : br'[m] = br[m],
           br'[n].fork = br[n].fork, br'[n].names = br[n].names,
           ShapeOf(n)', UndosOf(n)', MarksOf(n)'
    PROVE  BranchInv' /\ TreeInv'
<1>1. BranchInv'
  <2>1. forks' >= forks /\ forks' \in Nat
    BY NodeFacts DEF StructInv, TypeOK
  <2>2. ASSUME NEW m \in Nodes PROVE (ShapeOf(m) /\ UndosOf(m) /\ MarksOf(m))'
    BY <2>1, BranchSame
  <2> QED
    BY <2>2 DEF BranchInv
<1>2. \A m \in Nodes : br'[m].fork = br[m].fork /\ br'[m].names = br[m].names
  OBVIOUS
<1>3. \A m \in Nodes : Left(m)' = Left(m) /\ Right(m)' = Right(m)
  BY <1>2 DEF Left, Right
<1>4. TreeInv'
  <2>1. \A m \in Nodes : br[m].fork # 0 => Left(m) \in Nodes /\ Right(m) \in Nodes
    BY KidFacts
  <2> QED
    BY <1>2, <1>3, <2>1 DEF StructInv, TreeInv
<1> QED
  BY <1>1, <1>4

LEMMA NextFields ==
    ASSUME br' \in [Nodes -> Branches], NEW n \in Nodes
    PROVE  /\ br'[n].stack \in Seq(Frames) /\ br'[n].undo \in Seq(Undos)
           /\ Depth(n)' = Len(br'[n].stack) /\ Depth(n)' \in Nat
           /\ Len(br'[n].undo) \in Nat
<1>1. br'[n] \in Branches
  OBVIOUS
<1>2. br'[n].stack \in Seq(Frames) /\ br'[n].undo \in Seq(Undos)
  BY <1>1 DEF Branches
<1> QED
  BY <1>2 DEF Depth

\* Frames are closed, and no undo below their marks is taken.
LEMMA MarksBelow ==
    ASSUME TypeOK, br' \in [Nodes -> Branches], NEW n \in Nodes, MarksOf(n),
           Len(br'[n].stack) <= Depth(n),
           \A t \in 1 .. Len(br'[n].stack) : br'[n].stack[t] = br[n].stack[t],
           \A t \in 1 .. Len(br'[n].stack) : br[n].stack[t].mark <= Len(br'[n].undo)
    PROVE  MarksOf(n)'
<1>1. Depth(n) \in Nat /\ Depth(n)' \in Nat /\ Depth(n)' = Len(br'[n].stack)
  BY Fields, NextFields
<1>2. \A t \in 1 .. Depth(n)' :
        t \in 1 .. Depth(n) /\ \A s \in 1 .. t : s \in 1 .. Depth(n)'
  BY <1>1
<1> QED
  BY <1>1, <1>2 DEF MarksOf

\* The undos of n are those it had, or the first of them.
LEMMA UndosBelow ==
    ASSUME TypeOK, br' \in [Nodes -> Branches], NEW n \in Nodes, UndosOf(n),
           Len(br'[n].undo) <= Len(br[n].undo), br'[n].names = br[n].names,
           \A i \in 1 .. Len(br'[n].undo) : br'[n].undo[i] = br[n].undo[i]
    PROVE  UndosOf(n)'
<1>1. Len(br'[n].undo) \in Nat /\ Len(br[n].undo) \in Nat
  BY Fields, NextFields
<1> QED
  BY <1>1 DEF UndosOf

LEMMA EmptyStack ==
    ASSUME TypeOK, NEW n \in Nodes
    PROVE  Depth(n) = 0 <=> br[n].stack = << >>
  BY Fields DEF Depth

\* A step that changes the mode of n and perhaps closes its innermost frame.
LEMMA ModeStep ==
    ASSUME StructInv, NEW n \in Nodes, Live(n), UNCHANGED <<status, forks>>,
           NEW stack, NEW mode \in {"run", "err", "rollback"}, br[n].fork = 0,
           stack = br[n].stack \/ (Depth(n) > 0 /\ stack = Cut(n, Depth(n) - 1)),
           mode = "rollback" =>
               Depth(n) > 0 /\ stack = br[n].stack /\ Top(n).kind = "timeout",
           br[n].popped = {}, br[n].call = NoCall \/ br[n].mode = "io",
           Becomes(n, stack, mode, br[n].undo, NoCall, {}, 0)
    PROVE  BranchInv' /\ TreeInv'
<1>0. TypeOK /\ ShapeOf(n) /\ UndosOf(n) /\ MarksOf(n)
  BY DEF StructInv, BranchInv
<1>1. /\ br' \in [Nodes -> Branches] /\ br'[n].stack = stack /\ br'[n].mode = mode
      /\ br'[n].undo = br[n].undo /\ br'[n].call = NoCall /\ br'[n].popped = {}
      /\ br'[n].fork = 0 /\ br'[n].names = br[n].names
  BY DEF Becomes, Turns
<1>2. /\ Len(stack) <= Depth(n) /\ Len(stack) \in Nat
      /\ \A t \in 1 .. Len(stack) : stack[t] = br[n].stack[t]
  <2>1. CASE stack = br[n].stack
    BY <1>0, <2>1, Fields DEF Depth
  <2>2. CASE Depth(n) > 0 /\ stack = Cut(n, Depth(n) - 1)
    <3>1. Depth(n) \in Nat /\ Depth(n) - 1 \in 0 .. Depth(n)
      BY <1>0, <2>2, TopTypes
    <3> QED
      BY <1>0, <2>2, <3>1, CutTypes
  <2> QED
    BY <2>1, <2>2
<1>3. MarksOf(n)'
  <2>1. \A t \in 1 .. Len(stack) : t \in 1 .. Depth(n)
    BY <1>0, <1>2, Fields
  <2>2. \A t \in 1 .. Len(stack) : br[n].stack[t].mark <= Len(br[n].undo)
    BY <1>0, <2>1 DEF MarksOf
  <2> QED
    BY <1>0, <1>1, <1>2, <2>2, MarksBelow
<1>4. UndosOf(n)'
  BY <1>0, <1>1, UndosBelow, Fields
<1>5. ShapeOf(n)'
  <2>1. Pending(n)' /\ status'[n] \notin {"finished", "stashed"}
    BY DEF Live, Pending
  <2>2. mode = "rollback" => Depth(n)' > 0 /\ Top(n)'.kind = "timeout"
    BY <1>1 DEF Depth, Top
  <2>3. 0 <= forks'
    BY <1>0, NodeFacts DEF TypeOK
  <2> QED
    BY <1>1, <2>1, <2>2, <2>3 DEF ShapeOf
<1> QED
  BY <1>1, <1>3, <1>4, <1>5, Alone DEF Becomes

LEMMA ReportTree ==
    ASSUME StructInv, Report
    PROVE  BranchInv' /\ TreeInv'
<1>1. TypeOK /\ ShapeOf(Root) /\ Root \in Nodes
  BY NodeFacts DEF StructInv, BranchInv
<1>2. Live(Root) /\ br[Root].mode = "err"
  BY DEF StructInv, TreeInv, Live, Report
<1>3. br[Root].fork = 0 /\ br[Root].popped = {} /\ br[Root].call = NoCall
  BY <1>1, <1>2 DEF ShapeOf
<1>4. Becomes(Root, br[Root].stack, "run", br[Root].undo, NoCall, {}, 0)
  BY <1>1, <1>3, ModeShape DEF Report, Modes
<1> QED
  BY <1>1, <1>2, <1>3, <1>4, ModeStep DEF Report

LEMMA StillTree ==
    ASSUME StructInv, UNCHANGED <<br, forks>>, status' \in [Nodes -> Statuses],
           \A m \in Nodes : \/ status'[m] = status[m]
                            \/ status[m] = "finished" /\ status'[m] = "stashed"
                                 /\ \A n \in Nodes : br[n].fork # 0 => Left(n) # m,
           status'[Root] = status[Root]
    PROVE  BranchInv' /\ TreeInv'
<1>1. ASSUME NEW m \in Nodes PROVE (ShapeOf(m) /\ UndosOf(m) /\ MarksOf(m))'
  <2>1. ShapeOf(m) /\ UndosOf(m) /\ MarksOf(m)
    BY DEF StructInv, BranchInv
  <2>2. UndosOf(m)' /\ MarksOf(m)'
    BY <2>1 DEF UndosOf, MarksOf, Depth
  <2>3. Pending(m)' = Pending(m)
    BY DEF Pending
  <2>4. status'[m] \in {"finished", "stashed"} => status[m] \in {"finished", "stashed"}
    OBVIOUS
  <2>5. ShapeOf(m)'
    BY <2>1, <2>3, <2>4 DEF ShapeOf, Depth, Top
  <2> QED
    BY <2>2, <2>5
<1>2. \A m \in Nodes : Left(m)' = Left(m) /\ Right(m)' = Right(m)
  BY DEF Left, Right
<1>3. \A m \in Nodes : br[m].fork # 0 => Left(m) \in Nodes /\ Right(m) \in Nodes
  BY KidFacts
<1>4. TreeInv'
  BY <1>2, <1>3 DEF StructInv, TreeInv
<1> QED
  BY <1>1, <1>4 DEF BranchInv

LEMMA CallTree ==
    ASSUME StructInv, NEW n \in Nodes, NEW o \in Objects, Call(n, o)
    PROVE  BranchInv' /\ TreeInv'
<1>1. TypeOK /\ ShapeOf(n) /\ UndosOf(n) /\ MarksOf(n)
  BY DEF StructInv, BranchInv
<1>2. /\ Live(n) /\ br[n].mode = "run" /\ o \in br[n].names
      /\ UNCHANGED <<status, forks>>
  BY DEF Call, Ready
<1>3. Becomes(n, br[n].stack, "io", br[n].undo, [obj |-> o, op |-> ops + 1],
              br[n].popped, br[n].fork)
  BY <1>1, CallShape
<1>4. UndosOf(n)' /\ MarksOf(n)'
  BY <1>1, <1>3 DEF UndosOf, MarksOf, Depth, Becomes, Turns
<1>5. ShapeOf(n)'
  BY <1>1, <1>2, <1>3 DEF ShapeOf, Becomes, Turns, Live, Pending
<1> QED
  BY <1>2, <1>3, <1>4, <1>5, Alone DEF Becomes, Turns

LEMMA SucceedTree ==
    ASSUME StructInv, NEW n \in Nodes, Succeed(n)
    PROVE  BranchInv' /\ TreeInv'
<1>1. TypeOK /\ ShapeOf(n) /\ UndosOf(n) /\ MarksOf(n)
  BY DEF StructInv, BranchInv
<1>2. Live(n) /\ br[n].mode = "io" /\ UNCHANGED <<status, forks>>
  BY DEF Succeed, Awaits
<1>3. /\ br[n].call.obj \in Objects /\ br[n].call.obj \in br[n].names
      /\ br[n].popped = {}
  BY <1>1, <1>2 DEF ShapeOf
<1> DEFINE u == Inverse(br[n].call)
<1>4. /\ u \in Undos
      /\ Becomes(n, br[n].stack, "run", Append(br[n].undo, u), NoCall, br[n].popped,
                 br[n].fork)
  BY <1>1, <1>3, SucceedShape
<1>5. u.key = NoKey /\ u.obj = br[n].call.obj
  BY DEF Inverse
<1> HIDE DEF u
<1>6. /\ Len(Append(br[n].undo, u)) = Len(br[n].undo) + 1 /\ Len(br[n].undo) \in Nat
      /\ \A i \in 1 .. Len(br[n].undo) : Append(br[n].undo, u)[i] = br[n].undo[i]
      /\ Append(br[n].undo, u)[Len(br[n].undo) + 1] = u
  BY <1>1, <1>4, Fields, PushProperties
<1>7. UndosOf(n)'
  BY <1>1, <1>3, <1>4, <1>5, <1>6 DEF UndosOf, Becomes, Turns
<1>8. MarksOf(n)'
  <2>1. \A t \in 1 .. Depth(n) : br[n].stack[t].mark \in Nat
    BY <1>1, Fields DEF Frames
  <2>2. br'[n].stack = br[n].stack /\ Len(br'[n].undo) = Len(br[n].undo) + 1
    BY <1>4, <1>6 DEF Becomes, Turns
  <2> QED
    BY SMTT(60), <1>1, <1>6, <2>1, <2>2 DEF MarksOf, Depth
<1>9. ShapeOf(n)'
  BY <1>1, <1>2, <1>3, <1>4 DEF ShapeOf, Becomes, Turns, Live, Pending
<1> QED
  BY <1>2, <1>4, <1>7, <1>8, <1>9, Alone DEF Becomes, Turns

LEMMA FailTree ==
    ASSUME StructInv, NEW n \in Nodes, Fail(n)
    PROVE  BranchInv' /\ TreeInv'
<1>1. TypeOK /\ ShapeOf(n)
  BY DEF StructInv, BranchInv
<1>2. Live(n) /\ br[n].mode = "io" /\ UNCHANGED <<status, forks>>
  BY DEF Fail, Awaits
<1>3. br[n].fork = 0 /\ br[n].popped = {}
  BY <1>1, <1>2 DEF ShapeOf
<1>4. Becomes(n, br[n].stack, "err", br[n].undo, NoCall, {}, 0)
  BY <1>1, <1>3, FailShape
<1> QED
  BY <1>2, <1>3, <1>4, ModeStep

LEMMA CancelTree ==
    ASSUME StructInv, NEW n \in Nodes, Cancel(n)
    PROVE  BranchInv' /\ TreeInv'
<1>1. TypeOK /\ ShapeOf(n)
  BY DEF StructInv, BranchInv
<1>2. Live(n) /\ br[n].mode = "run" /\ UNCHANGED <<status, forks>>
  BY DEF Cancel
<1>3. br[n].fork = 0 /\ br[n].popped = {} /\ br[n].call = NoCall
  BY <1>1, <1>2 DEF ShapeOf
<1>4. Becomes(n, br[n].stack, "err", br[n].undo, NoCall, {}, 0)
  BY <1>1, <1>3, ModeShape DEF Cancel, Modes
<1> QED
  BY <1>2, <1>3, <1>4, ModeStep

LEMMA UnwindTree ==
    ASSUME StructInv, NEW n \in Nodes, Unwind(n)
    PROVE  BranchInv' /\ TreeInv'
<1>1. TypeOK /\ ShapeOf(n)
  BY DEF StructInv, BranchInv
<1>2. Live(n) /\ br[n].mode = "err" /\ UNCHANGED <<status, forks>> /\ Depth(n) > 0
  BY DEF Unwind
<1>3. br[n].fork = 0 /\ br[n].popped = {} /\ br[n].call = NoCall
  BY <1>1, <1>2 DEF ShapeOf
<1>4. CASE /\ Top(n).kind = "timeout"
           /\ Becomes(n, br[n].stack, "rollback", br[n].undo, NoCall, {}, 0)
  BY <1>2, <1>3, <1>4, ModeStep
<1>5. ASSUME NEW mode \in {"run", "err"},
             Becomes(n, Cut(n, Depth(n) - 1), mode, br[n].undo, NoCall, {}, 0)
      PROVE  BranchInv' /\ TreeInv'
  BY <1>2, <1>3, <1>5, ModeStep
<1> QED
  BY <1>1, <1>3, <1>4, <1>5, UnwindShape

LEMMA RollbackDoneTree ==
    ASSUME StructInv, NEW n \in Nodes, RollbackDone(n)
    PROVE  BranchInv' /\ TreeInv'
<1>1. TypeOK /\ ShapeOf(n)
  BY DEF StructInv, BranchInv
<1>2. /\ Live(n) /\ br[n].mode = "rollback" /\ UNCHANGED <<status, forks>>
      /\ br[n].popped = {}
  BY DEF RollbackDone, Undoing, Marked
<1>3. br[n].fork = 0 /\ br[n].call = NoCall
  BY <1>1, <1>2 DEF ShapeOf
<1>4. ASSUME NEW mode \in {"run", "err"}, Depth(n) > 0,
             Becomes(n, Cut(n, Depth(n) - 1), mode, br[n].undo, NoCall, {}, 0)
      PROVE  BranchInv' /\ TreeInv'
  BY <1>2, <1>3, <1>4, ModeStep
<1> QED
  BY <1>1, <1>2, <1>3, <1>4, RollbackDoneShape

LEMMA UndoTree ==
    ASSUME StructInv, NEW n \in Nodes, UndoOk(n) \/ UndoFails(n)
    PROVE  BranchInv' /\ TreeInv'
<1>1. TypeOK /\ ShapeOf(n) /\ UndosOf(n) /\ MarksOf(n)
  BY DEF StructInv, BranchInv
<1>2. UNCHANGED <<status, forks>>
  BY DEF UndoOk, UndoFails
<1>3. Becomes(n, br[n].stack, br[n].mode, br[n].undo, br[n].call, {}, br[n].fork)
  BY <1>1, UndoOkShape
<1>4. UndosOf(n)' /\ MarksOf(n)'
  BY <1>1, <1>3 DEF UndosOf, MarksOf, Depth, Becomes, Turns
<1>5. ShapeOf(n)'
  BY <1>1, <1>2, <1>3 DEF ShapeOf, Becomes, Turns, Pending, Depth, Top
<1> QED
  BY <1>2, <1>3, <1>4, <1>5, Alone DEF Becomes, Turns

LEMMA PopUndoTree ==
    ASSUME StructInv, NEW n \in Nodes, PopUndo(n)
    PROVE  BranchInv' /\ TreeInv'
<1> DEFINE last == Len(br[n].undo)
           u == br[n].undo[last]
           popped == IF u.key = NoKey THEN {u} ELSE {}
<1>1. TypeOK /\ ShapeOf(n) /\ UndosOf(n) /\ MarksOf(n)
  BY DEF StructInv, BranchInv
<1>2. UNCHANGED <<status, forks>> /\ br[n].mode = "rollback" /\ last > Top(n).mark
  BY DEF PopUndo, Undoing
<1>3. /\ last \in Nat \ {0} /\ u \in Undos
      /\ Becomes(n, br[n].stack, br[n].mode, SubSeq(br[n].undo, 1, last - 1),
                 br[n].call, popped, br[n].fork)
  BY <1>1, PopUndoShape
<1>4. /\ Len(SubSeq(br[n].undo, 1, last - 1)) = last - 1
      /\ \A i \in 1 .. last - 1 : SubSeq(br[n].undo, 1, last - 1)[i] = br[n].undo[i]
  <2>1. last - 1 \in 0 .. Len(br[n].undo) /\ br[n].undo \in Seq(Undos)
    BY <1>1, <1>3, Fields
  <2> QED
    BY <2>1, CutProperties
<1>5. Depth(n) > 0 /\ Top(n).kind = "timeout"
  BY <1>1, <1>2 DEF ShapeOf
<1>6. UndosOf(n)'
  <2>1. /\ br' \in [Nodes -> Branches] /\ br'[n].names = br[n].names
        /\ br'[n].undo = SubSeq(br[n].undo, 1, last - 1)
    BY <1>3 DEF Becomes, Turns
  <2>2. /\ Len(br'[n].undo) <= Len(br[n].undo)
        /\ \A i \in 1 .. Len(br'[n].undo) : br'[n].undo[i] = br[n].undo[i]
    BY <1>3, <1>4, <2>1
  <2> QED
    BY <1>1, <2>1, <2>2, UndosBelow
<1>7. MarksOf(n)'
  <2>1. \A t \in 1 .. Depth(n) : br[n].stack[t].mark <= last - 1
    <3>1. TAKE t \in 1 .. Depth(n)
    <3>2. br[n].stack[t].mark <= Top(n).mark
      BY <1>1, <1>5, TopTypes DEF MarksOf, Top
    <3>3. br[n].stack[t].mark \in Nat /\ Top(n).mark \in Nat
      BY <1>1, <1>5, TopTypes, Fields DEF Frames
    <3> QED
      BY <1>2, <1>3, <3>2, <3>3
  <2>2. br'[n].stack = br[n].stack /\ Len(br'[n].undo) = last - 1
        /\ br' \in [Nodes -> Branches]
    BY <1>3, <1>4 DEF Becomes, Turns
  <2>3. Len(br[n].stack) = Depth(n) /\ Depth(n) \in Nat
    BY <1>1, Fields DEF Depth
  <2>4. /\ Len(br'[n].stack) <= Depth(n)
        /\ \A t \in 1 .. Len(br'[n].stack) : br'[n].stack[t] = br[n].stack[t]
        /\ \A t \in 1 .. Len(br'[n].stack) : br[n].stack[t].mark <= Len(br'[n].undo)
    BY <2>1, <2>2, <2>3
  <2> QED
    BY <1>1, <2>2, <2>4, MarksBelow
<1>8. ShapeOf(n)'
  <2>1. u.key = NoKey => u.obj \in Objects /\ u.obj \in br[n].names
    BY <1>1, <1>3 DEF UndosOf
  <2>2. \A v, w \in popped : v = w
    OBVIOUS
  <2>3. \A v \in popped : v.obj \in Objects /\ v.obj \in br[n].names
    BY <2>1
  <2>4. Live(n)
    BY DEF PopUndo, Undoing
  <2> HIDE DEF popped, u, last
  <2> QED
    BY <1>1, <1>2, <1>3, <1>5, <2>2, <2>3, <2>4
    DEF ShapeOf, Becomes, Turns, Pending, Live, Depth, Top
<1> QED
  BY <1>2, <1>3, <1>6, <1>7, <1>8, Alone DEF Becomes, Turns

LEMMA EnterTree ==
    ASSUME StructInv, NEW n \in Nodes, NEW kind \in Kinds, NEW key \in Keys \cup {NoKey},
           Enter(n, kind, key)
    PROVE  BranchInv' /\ TreeInv'
<1> DEFINE f == Frame(n, kind, key)
           len == Len(br[n].undo)
<1>1. TypeOK /\ ShapeOf(n) /\ UndosOf(n) /\ MarksOf(n)
  BY DEF StructInv, BranchInv
<1>2. /\ Live(n) /\ br[n].mode = "run" /\ UNCHANGED <<status, forks>>
      /\ kind = "idem" => key \in br[n].names
  BY DEF Enter, Ready
<1>3. /\ f \in Frames
      /\ Becomes(n, Append(br[n].stack, f), br[n].mode, br[n].undo, br[n].call,
                 br[n].popped, br[n].fork)
  BY <1>1, EnterShape
<1>4. f.mark = len /\ f.key = key /\ f.kind = kind
  BY DEF Frame
<1>5. key \in br[n].names => key \in Keys \/ key = NoKey
  OBVIOUS
<1>6. kind = "idem" => key \in Keys
  <2>1. kind = "idem" => key # NoKey
    BY <1>2, <1>1, Fields, SentinelAssumption DEF Enter, TypeOK
  <2> QED
    BY <2>1
<1> HIDE DEF f
<1>7. /\ Len(Append(br[n].stack, f)) = Depth(n) + 1 /\ Depth(n) \in Nat
      /\ \A t \in 1 .. Depth(n) : Append(br[n].stack, f)[t] = br[n].stack[t]
      /\ Append(br[n].stack, f)[Depth(n) + 1] = f
  BY <1>1, <1>3, Fields, PushProperties DEF Depth
<1>8. UndosOf(n)'
  BY <1>1, <1>3 DEF UndosOf, Becomes, Turns
<1>9. MarksOf(n)'
  <2>1. /\ Depth(n)' = Depth(n) + 1 /\ br'[n].undo = br[n].undo
        /\ \A t \in 1 .. Depth(n) : br'[n].stack[t] = br[n].stack[t]
        /\ br'[n].stack[Depth(n) + 1] = f
    BY <1>3, <1>7 DEF Becomes, Turns, Depth
  <2>2. len \in Nat
    BY <1>1, Fields
  <2>3. \A t \in 1 .. Depth(n) : br[n].stack[t].mark <= len
    BY <1>1 DEF MarksOf
  <2>4. ASSUME NEW t \in 1 .. Depth(n) + 1
        PROVE  /\ br'[n].stack[t].mark <= len
               /\ \A s \in 1 .. t : br'[n].stack[s].mark <= br'[n].stack[t].mark
               /\ br'[n].stack[t].kind = "idem" => br'[n].stack[t].key \in Keys
    <3>1. CASE t \in 1 .. Depth(n)
      <4>1. \A s \in 1 .. t : s \in 1 .. Depth(n)
        BY <1>7, <3>1
      <4> QED
        BY <1>1, <2>1, <3>1, <4>1 DEF MarksOf
    <3>2. CASE t = Depth(n) + 1
      <4>1. \A s \in 1 .. t : s \in 1 .. Depth(n) \/ s = t
        BY <1>7, <3>2
      <4> QED
        BY <1>4, <1>6, <2>1, <2>2, <2>3, <3>2, <4>1
    <3> QED
      BY SMTT(60), <1>7, <3>1, <3>2
  <2> QED
    BY <2>1, <2>4 DEF MarksOf
<1>10. ShapeOf(n)'
  BY <1>1, <1>2, <1>3 DEF ShapeOf, Becomes, Turns, Live, Pending
<1> QED
  BY <1>2, <1>3, <1>8, <1>9, <1>10, Alone DEF Becomes, Turns

LEMMA ReturnTree ==
    ASSUME StructInv, NEW n \in Nodes, Return(n)
    PROVE  BranchInv' /\ TreeInv'
<1> DEFINE len == Len(br[n].undo)
           r == Revert(Top(n).key)
<1>1. TypeOK /\ ShapeOf(n) /\ UndosOf(n) /\ MarksOf(n)
  BY DEF StructInv, BranchInv
<1>2. /\ Live(n) /\ br[n].mode = "run" /\ UNCHANGED <<status, forks>>
  BY DEF Return, Ready
<1>3. /\ Depth(n) > 0 /\ Returned(n) \in Seq(Undos)
      /\ Becomes(n, Cut(n, Depth(n) - 1), br[n].mode, Returned(n), br[n].call,
                 br[n].popped, br[n].fork)
  BY <1>1, ReturnShape
<1>4. /\ br' \in [Nodes -> Branches] /\ br'[n].stack = Cut(n, Depth(n) - 1)
      /\ br'[n].undo = Returned(n) /\ br'[n].names = br[n].names
  BY <1>3 DEF Becomes, Turns
<1>5. /\ Depth(n) \in Nat /\ Len(br'[n].stack) = Depth(n) - 1
      /\ \A t \in 1 .. Depth(n) - 1 : br'[n].stack[t] = br[n].stack[t]
  BY <1>1, <1>3, <1>4, TopTypes, CutTypes
<1>6. Top(n).kind = "idem" => Top(n).key \in Keys
  BY <1>1, <1>3, <1>5 DEF MarksOf, Top
<1>7. r \in Undos /\ r.obj = NoObject /\ r.key = Top(n).key /\ len \in Nat
  BY <1>1, <1>3, TopTypes, RevertTypes, Fields
<1> HIDE DEF r
<1>8. /\ \A i \in 1 .. len : Returned(n)[i] = br[n].undo[i]
      /\ \/ Len(Returned(n)) = len
         \/ /\ Len(Returned(n)) = len + 1 /\ Returned(n)[len + 1] = r
            /\ Top(n).kind = "idem"
  <2>1. CASE Returned(n) = br[n].undo
    BY <2>1
  <2>2. CASE Returned(n) = Append(br[n].undo, r) /\ Top(n).kind = "idem"
    <3>1. /\ Len(Append(br[n].undo, r)) = len + 1
          /\ \A i \in 1 .. len : Append(br[n].undo, r)[i] = br[n].undo[i]
          /\ Append(br[n].undo, r)[len + 1] = r
      BY <1>1, <1>7, Fields, PushProperties
    <3> QED
      BY <2>2, <3>1
  <2> QED
    BY <2>1, <2>2 DEF Returned, r
<1>9. UndosOf(n)'
  <2>1. \A i \in 1 .. Len(Returned(n)) : i \in 1 .. len \/
          (i = len + 1 /\ Returned(n)[i] = r /\ Top(n).kind = "idem")
    BY <1>7, <1>8
  <2>2. Top(n).kind = "idem" => r.key # NoKey
    BY <1>6, <1>7, SentinelAssumption
  <2> QED
    BY <1>1, <1>4, <1>7, <1>8, <2>1, <2>2 DEF UndosOf
<1>10. MarksOf(n)'
  <2>1. \A t \in 1 .. Depth(n) - 1 : br[n].stack[t].mark <= Len(br'[n].undo)
    <3>1. TAKE t \in 1 .. Depth(n) - 1
    <3>2. br[n].stack[t].mark <= len /\ br[n].stack[t].mark \in Nat
      BY SMTT(60), <1>1, <1>5, Fields DEF MarksOf, Frames
    <3> QED
      BY SMTT(60), <1>4, <1>7, <1>8, <3>2
  <2>2. Len(br'[n].stack) <= Depth(n)
    BY <1>5
  <2> QED
    BY <1>1, <1>4, <1>5, <2>1, <2>2, MarksBelow
<1>11. ShapeOf(n)'
  BY <1>1, <1>2, <1>3 DEF ShapeOf, Becomes, Turns, Live, Pending
<1> QED
  BY <1>2, <1>3, <1>9, <1>10, <1>11, Alone DEF Becomes, Turns

LEMMA StashTree ==
    ASSUME StructInv, NEW n \in Nodes, Stash(n)
    PROVE  BranchInv' /\ TreeInv'
<1>1. Live(n) /\ br[n].mode = "forked" /\ status[Right(n)] = "finished"
      /\ UNCHANGED <<br, forks>>
      /\ status' = [status EXCEPT ![Right(n)] = "stashed"]
  BY DEF Stash, Joining
<1>2. br[n].fork # 0
  BY <1>1 DEF StructInv, BranchInv, ShapeOf
<1>3. Right(n) \in Nodes /\ Right(n) # Root
  <2>1. br[n].fork \in 1 .. MaxForks
    BY <1>2, KidFacts
  <2> QED
    BY <2>1, NodeFacts DEF Right
<1>4. \A m \in Nodes : br[m].fork # 0 => Left(m) # Right(n)
  BY DEF Left, Right, LeftOf, RightOf
<1>5. /\ status' \in [Nodes -> Statuses] /\ status'[Root] = status[Root]
      /\ \A m \in Nodes : \/ status'[m] = status[m]
                          \/ m = Right(n) /\ status'[m] = "stashed"
  BY <1>1, <1>3, NodeFacts DEF StructInv, TypeOK, Statuses
<1> QED
  BY <1>1, <1>4, <1>5, StillTree

LEMMA FinishTree ==
    ASSUME StructInv, NEW n \in Nodes, Finish(n)
    PROVE  BranchInv' /\ TreeInv'
<1>1. TypeOK /\ ShapeOf(n)
  BY DEF StructInv, BranchInv
<1>2. /\ n # Root /\ Live(n) /\ br[n].stack = << >> /\ br[n].fork = 0
      /\ br[n].mode \in {"run", "err"} /\ UNCHANGED forks
  BY FinishShape DEF Finish
<1>3. CASE /\ status[n] = "orphan" /\ status' = [status EXCEPT ![n] = "dead"]
           /\ br' = [br EXCEPT ![n] = Nobody]
  <2>1. /\ br'[n] = Nobody /\ br' \in [Nodes -> Branches]
        /\ \A m \in Nodes \ {n} : br'[m] = br[m] /\ status'[m] = status[m]
        /\ status'[n] = "dead"
    BY <1>1, <1>3, NobodyTypes DEF TypeOK
  <2>2. ShapeOf(n)'
    <3>1. 0 <= forks'
      BY <1>1, <1>2, NodeFacts DEF TypeOK
    <3> QED
      BY <2>1, <3>1, NobodyTypes DEF ShapeOf, Pending
  <2>3. UndosOf(n)' /\ MarksOf(n)'
    BY <2>1, NobodyTypes DEF UndosOf, MarksOf, Depth
  <2>4. BranchInv'
    <3>1. ASSUME NEW m \in Nodes \ {n} PROVE (ShapeOf(m) /\ UndosOf(m) /\ MarksOf(m))'
      <4>1. forks' >= forks /\ forks' \in Nat
        BY <1>1, <1>2, NodeFacts DEF TypeOK
      <4> QED
        BY <2>1, <4>1, BranchSame
    <3> QED
      BY <2>2, <2>3, <3>1 DEF BranchInv
  <2>5. TreeInv'
    <3>1. \A m \in Nodes : br'[m].fork = br[m].fork
      BY <1>2, <2>1, NobodyTypes
    <3>2. \A m \in Nodes : Left(m)' = Left(m) /\ Right(m)' = Right(m)
      BY <3>1 DEF Left, Right
    <3>3. \A m \in Nodes : br[m].fork # 0 =>
            /\ Left(m) \in Nodes /\ Right(m) \in Nodes
            /\ Left(m) # n /\ Right(m) # n /\ m # n
      BY <1>2, <1>3, KidFacts DEF StructInv, TreeInv
    <3>4. status'[Root] = "running"
      BY <1>2, <2>1, NodeFacts DEF StructInv, TreeInv
    <3>5. \A m \in Nodes : m[1] > forks' => status'[m] = "unborn"
      BY <1>2, <1>3, <2>1 DEF StructInv, TreeInv
    <3>6. \A a, b \in Nodes : br'[a].fork # 0 /\ br'[a].fork = br'[b].fork => a = b
      BY <3>1 DEF StructInv, TreeInv
    <3>7. \A m \in Nodes : br'[m].fork # 0 =>
            /\ br'[Left(m)'].names \cup br'[Right(m)'].names \subseteq br'[m].names
            /\ br'[Left(m)'].names \cap br'[Right(m)'].names = {}
            /\ status'[Left(m)'] \in {"running", "finished", "joined"}
            /\ status'[Right(m)'] \in {"running", "finished", "stashed"}
      BY <2>1, <3>1, <3>2, <3>3 DEF StructInv, TreeInv
    <3> QED
      BY <3>4, <3>5, <3>6, <3>7 DEF TreeInv
  <2> QED
    BY <2>4, <2>5
<1>4. CASE /\ status[n] = "running" /\ status' = [status EXCEPT ![n] = "finished"]
           /\ br' = br
  <2>1. /\ \A m \in Nodes \ {n} : status'[m] = status[m]
        /\ status'[n] = "finished"
    BY <1>1, <1>4 DEF TypeOK
  <2>2. ShapeOf(n)'
    BY <1>1, <1>2, <1>4, <2>1 DEF ShapeOf, Pending, Depth, Top
  <2>3. ASSUME NEW m \in Nodes \ {n} PROVE ShapeOf(m)'
    <3>1. forks' >= forks /\ forks' \in Nat
      BY <1>1, <1>2, NodeFacts DEF TypeOK
    <3> QED
      BY <1>4, <2>1, <3>1, BranchSame
  <2>4. ASSUME NEW m \in Nodes PROVE UndosOf(m)' /\ MarksOf(m)'
    BY <1>4 DEF UndosOf, MarksOf, Depth, StructInv, BranchInv
  <2>5. BranchInv'
    BY <2>2, <2>3, <2>4 DEF BranchInv
  <2>6. TreeInv'
    <3>1. \A m \in Nodes : Left(m)' = Left(m) /\ Right(m)' = Right(m)
      BY <1>4 DEF Left, Right
    <3>2. \A m \in Nodes : br[m].fork # 0 => Left(m) \in Nodes /\ Right(m) \in Nodes
      BY KidFacts
    <3>3. n[1] <= forks
      BY <1>1, <1>4, NodeFacts DEF StructInv, TreeInv, TypeOK
    <3>4. \A m \in Nodes : m[1] > forks' => status'[m] = "unborn"
      <4>1. n[1] \in Nat /\ forks \in Nat
        BY <1>1, NodeFacts DEF TypeOK
      <4> QED
        BY <1>2, <2>1, <3>3, <4>1 DEF StructInv, TreeInv
    <3>5. \A m \in Nodes : br[m].fork # 0 =>
            /\ status'[Left(m)] \in {"running", "finished", "joined"}
            /\ status'[Right(m)] \in {"running", "finished", "stashed"}
      BY <2>1, <3>2 DEF StructInv, TreeInv
    <3>6. status'[Root] = "running"
      BY <1>2, <2>1, NodeFacts DEF StructInv, TreeInv
    <3> QED
      BY <1>4, <3>1, <3>4, <3>5, <3>6 DEF StructInv, TreeInv
  <2> QED
    BY <2>5, <2>6
<1> QED
  BY <1>3, <1>4, FinishShape

LEMMA KidsApart ==
    ASSUME StructInv, NEW a \in Nodes, NEW b \in Nodes, a # b,
           br[a].fork # 0, br[b].fork # 0
    PROVE  {Left(a), Right(a)} \cap {Left(b), Right(b)} = {}
<1>1. br[a].fork # br[b].fork
  BY DEF StructInv, TreeInv
<1>2. /\ Left(a)[1] = br[a].fork /\ Right(a)[1] = br[a].fork
      /\ Left(b)[1] = br[b].fork /\ Right(b)[1] = br[b].fork
  BY DEF Left, Right, LeftOf, RightOf
<1> QED
  BY <1>1, <1>2

LEMMA ForkTree ==
    ASSUME StructInv, NEW n \in Nodes, NEW split, Fork(n, split)
    PROVE  BranchInv' /\ TreeInv'
<1> DEFINE l == LeftOf(forks + 1)
           r == RightOf(forks + 1)
           lnames == split[1]
           rnames == split[2]
           token == Token(n, Depth(n) + 1)
           lb == Branch(lnames, token, world)
           rb == Branch(rnames, token, world)
<1>0. TypeOK
  BY DEF StructInv
<1>1. /\ l \in Nodes /\ r \in Nodes /\ l # r /\ l # n /\ r # n
      /\ l[1] = forks + 1 /\ r[1] = forks + 1
      /\ forks + 1 \in 1 .. MaxForks /\ n[1] <= forks
      /\ status[l] = "unborn" /\ status[r] = "unborn" /\ Live(n)
      /\ br[n].mode = "run" /\ br[n].fork = 0
      /\ lnames \cup rnames \subseteq br[n].names /\ lnames \cap rnames = {}
      /\ br' \in [Nodes -> Branches]
      /\ \A m \in Nodes \ {n, l, r} : br'[m] = br[m]
      /\ Turns(n, br[n].stack, "forked", br[n].undo, br[n].call, br[n].popped, forks + 1)
      /\ br'[l] = lb /\ br'[r] = rb
      /\ status' = [status EXCEPT ![l] = "running", ![r] = "running"]
  BY ForkShape
<1>2. /\ forks' = forks + 1 /\ forks \in Nat /\ forks' \in Nat
      /\ \A m \in Nodes : m[1] \in Nat /\ br[m].fork \in Nat
  BY <1>0, NodeFacts, Fields DEF Fork, ForkInto, TypeOK
<1>3. /\ \A b \in {lb, rb} : /\ b.stack = << >> /\ b.mode = "run" /\ b.undo = << >>
                             /\ b.call = NoCall /\ b.popped = {} /\ b.fork = 0
      /\ lb.names = lnames /\ rb.names = rnames
  BY DEF Branch
<1>4. /\ status' \in [Nodes -> Statuses] /\ status'[l] = "running" /\ status'[r] = "running"
      /\ \A m \in Nodes \ {l, r} : status'[m] = status[m]
  BY <1>0, <1>1 DEF TypeOK, Statuses
<1> HIDE DEF l, r, lnames, rnames, token, lb, rb
<1>5. BranchInv'
  <2>1. ASSUME NEW m \in Nodes \ {n, l, r} PROVE (ShapeOf(m) /\ UndosOf(m) /\ MarksOf(m))'
    BY <1>1, <1>2, <1>4, BranchSame
  <2>2. ASSUME NEW m \in {l, r} PROVE (ShapeOf(m) /\ UndosOf(m) /\ MarksOf(m))'
    <3>1. /\ br'[m].stack = << >> /\ br'[m].mode = "run" /\ br'[m].undo = << >>
          /\ br'[m].call = NoCall /\ br'[m].popped = {} /\ br'[m].fork = 0
          /\ status'[m] = "running"
      BY <1>1, <1>3, <1>4
    <3>2. ShapeOf(m)'
      BY <1>2, <3>1 DEF ShapeOf, Pending
    <3> QED
      BY <3>1, <3>2 DEF UndosOf, MarksOf, Depth
  <2>3. ShapeOf(n) /\ UndosOf(n) /\ MarksOf(n)
    BY DEF StructInv, BranchInv
  <2>4. UndosOf(n)' /\ MarksOf(n)'
    BY <1>1, <2>3 DEF UndosOf, MarksOf, Depth, Turns
  <2>5. ShapeOf(n)'
    <3>1. /\ status'[n] = status[n] /\ br'[n].mode = "forked" /\ br'[n].fork = forks + 1
          /\ br'[n].popped = br[n].popped /\ br'[n].call = br[n].call
      BY <1>1, <1>4 DEF Turns
    <3>2. n[1] < forks + 1 /\ forks + 1 # 0 /\ forks + 1 <= forks'
      BY <1>1, <1>2
    <3> QED
      BY <1>1, <2>3, <3>1, <3>2 DEF ShapeOf, Pending, Live
  <2> QED
    BY <2>1, <2>2, <2>3, <2>4, <2>5 DEF BranchInv
<1>6. \A m \in Nodes : /\ br'[m].fork = IF m = n THEN forks + 1 ELSE IF m \in {l, r} THEN 0
                                      ELSE br[m].fork
                       /\ m \notin {l, r} => br'[m].names = br[m].names
  BY <1>1, <1>3 DEF Turns
<1>7. \A m \in Nodes : br[m].fork <= forks
  BY DEF StructInv, BranchInv, ShapeOf
<1>8. br[l].fork = 0 /\ br[r].fork = 0
  <2>1. ~Pending(l) /\ ~Pending(r)
    BY <1>1 DEF Pending
  <2> QED
    BY <1>1, <2>1 DEF StructInv, BranchInv, ShapeOf
<1>9. \A m \in Nodes \ {n} : br'[m].fork = br[m].fork
  BY <1>6, <1>8
<1>10. Left(n)' = l /\ Right(n)' = r
  BY <1>6 DEF Left, Right, l, r
<1>11. \A m \in Nodes \ {n} : Left(m)' = Left(m) /\ Right(m)' = Right(m)
  BY <1>9 DEF Left, Right
<1>12. \A m \in Nodes : br[m].fork # 0 =>
          /\ Left(m) \in Nodes \ {l, r} /\ Right(m) \in Nodes \ {l, r}
  <2>1. TAKE m \in Nodes
  <2>2. HAVE br[m].fork # 0
  <2>3. Left(m)[1] = br[m].fork /\ Right(m)[1] = br[m].fork
    BY DEF Left, Right, LeftOf, RightOf
  <2>4. br[m].fork # forks + 1
    BY <1>2, <1>7
  <2> QED
    BY <1>1, <2>2, <2>3, <2>4, KidFacts
<1>13. TreeInv'
  <2>1. status'[Root] = "running"
    BY <1>4, NodeFacts DEF StructInv, TreeInv
  <2>2. \A m \in Nodes : m[1] > forks' => status'[m] = "unborn"
    BY <1>1, <1>2, <1>4 DEF StructInv, TreeInv
  <2>3. \A a, b \in Nodes : br'[a].fork # 0 /\ br'[a].fork = br'[b].fork => a = b
    <3>1. \A a \in Nodes : br[a].fork # forks + 1
      BY <1>2, <1>7
    <3> QED
      BY <1>6, <1>9, <3>1 DEF StructInv, TreeInv
  <2>4. ASSUME NEW m \in Nodes, br'[m].fork # 0
        PROVE  /\ br'[Left(m)'].names \cup br'[Right(m)'].names \subseteq br'[m].names
               /\ br'[Left(m)'].names \cap br'[Right(m)'].names = {}
               /\ status'[Left(m)'] \in {"running", "finished", "joined"}
               /\ status'[Right(m)'] \in {"running", "finished", "stashed"}
    <3>1. CASE m = n
      BY <1>1, <1>3, <1>4, <1>10, <3>1 DEF Turns
    <3>2. CASE m # n
      <4>1. br[m].fork # 0 /\ m \notin {l, r}
        BY <1>6, <1>9, <2>4, <3>2
      <4>2. /\ Left(m)' \in Nodes \ {l, r} /\ Right(m)' \in Nodes \ {l, r}
            /\ Left(m)' = Left(m) /\ Right(m)' = Right(m)
        BY <1>11, <1>12, <3>2, <4>1
      <4> QED
        BY <1>4, <1>6, <4>1, <4>2 DEF StructInv, TreeInv
    <3> QED
      BY <3>1, <3>2
  <2> QED
    BY <2>1, <2>2, <2>3, <2>4 DEF TreeInv
<1> QED
  BY <1>5, <1>13

\* Frames stay, and the undo stack grows.
LEMMA MarksAbove ==
    ASSUME TypeOK, br' \in [Nodes -> Branches], NEW n \in Nodes, MarksOf(n),
           br'[n].stack = br[n].stack, Len(br'[n].undo) >= Len(br[n].undo)
    PROVE  MarksOf(n)'
<1>1. /\ Depth(n)' = Depth(n) /\ Len(br[n].undo) \in Nat /\ Len(br'[n].undo) \in Nat
      /\ \A t \in 1 .. Depth(n) : br[n].stack[t].mark \in Nat
  BY Fields, NextFields DEF Depth, Frames
<1> QED
  BY <1>1 DEF MarksOf

\* Undos of c on top of those of n.
LEMMA UndosJoin ==
    ASSUME StructInv, NEW n \in Nodes, NEW c \in Nodes, NEW s \in Seq(Undos),
           br[c].names \subseteq br[n].names,
           \A i \in 1 .. Len(s) :
                IF s[i].key = NoKey THEN s[i].obj \in Objects /\ s[i].obj \in br[n].names
                ELSE s[i].obj = NoObject
    PROVE  LET j == s \o br[c].undo IN
           \A i \in 1 .. Len(j) :
                IF j[i].key = NoKey THEN j[i].obj \in Objects /\ j[i].obj \in br[n].names
                ELSE j[i].obj = NoObject
<1> DEFINE j == s \o br[c].undo
<1>1. TypeOK /\ UndosOf(c)
  BY DEF StructInv, BranchInv
<1>2. br[c].undo \in Seq(Undos) /\ Len(br[c].undo) \in Nat /\ Len(s) \in Nat
  BY <1>1, Fields
<1>3. /\ Len(j) = Len(s) + Len(br[c].undo)
      /\ \A i \in 1 .. Len(s) : j[i] = s[i]
      /\ \A i \in 1 .. Len(br[c].undo) : j[Len(s) + i] = br[c].undo[i]
  BY <1>2, JoinProperties
<1> HIDE DEF j
<1>4. ASSUME NEW i \in 1 .. Len(j)
      PROVE  IF j[i].key = NoKey THEN j[i].obj \in Objects /\ j[i].obj \in br[n].names
             ELSE j[i].obj = NoObject
  <2>1. CASE i <= Len(s)
    BY <1>2, <1>3, <2>1
  <2>2. CASE i > Len(s)
    <3>1. i - Len(s) \in 1 .. Len(br[c].undo) /\ Len(s) + (i - Len(s)) = i
      BY <1>2, <1>3, <2>2
    <3>2. j[i] = br[c].undo[i - Len(s)]
      BY <1>3, <3>1
    <3> QED
      BY <1>1, <3>1, <3>2 DEF UndosOf
  <2> QED
    BY <1>2, <1>3, <2>1, <2>2
<1> QED
  BY <1>4 DEF j

\* The undos of the branches of n are undos of what n names.
LEMMA UndosMerged ==
    ASSUME StructInv, NEW n \in Nodes, br[n].fork # 0,
           NEW s \in {br[n].undo \o br[Left(n)].undo, br[n].undo \o br[Right(n)].undo,
                      (br[n].undo \o br[Left(n)].undo) \o br[Right(n)].undo},
           br' \in [Nodes -> Branches], br'[n].undo = s, br'[n].names = br[n].names
    PROVE  UndosOf(n)' /\ Len(br'[n].undo) >= Len(br[n].undo)
<1> DEFINE l == Left(n)
           r == Right(n)
           Good(q) == \A i \in 1 .. Len(q) :
                IF q[i].key = NoKey THEN q[i].obj \in Objects /\ q[i].obj \in br[n].names
                ELSE q[i].obj = NoObject
<1>0. TypeOK /\ UndosOf(n)
  BY DEF StructInv, BranchInv
<1>1. /\ l \in Nodes /\ r \in Nodes
      /\ br[l].names \subseteq br[n].names /\ br[r].names \subseteq br[n].names
  BY KidFacts DEF StructInv, TreeInv
<1> HIDE DEF l, r
<1>2. br[n].undo \in Seq(Undos) /\ br[l].undo \in Seq(Undos) /\ br[r].undo \in Seq(Undos)
  BY <1>0, <1>1, Fields
<1>3. Good(br[n].undo)
  BY <1>0 DEF UndosOf
<1>4. Good(br[n].undo \o br[l].undo) /\ Good(br[n].undo \o br[r].undo)
  BY <1>1, <1>2, <1>3, UndosJoin
<1>5. br[n].undo \o br[l].undo \in Seq(Undos) /\ br[n].undo \o br[r].undo \in Seq(Undos)
  BY <1>2, JoinProperties
<1>6. Good((br[n].undo \o br[l].undo) \o br[r].undo)
  BY <1>1, <1>4, <1>5, UndosJoin
<1>7. Good(s)
  BY <1>4, <1>6 DEF l, r
<1>8. Len(s) >= Len(br[n].undo)
  BY <1>2, JoinGrows DEF l, r
<1> QED
  BY <1>7, <1>8 DEF UndosOf

\* The Fork of n is as it was, or over; its branches may have changed.
LEMMA TreeStep ==
    ASSUME StructInv, NEW n \in Nodes, br[n].fork # 0, UNCHANGED forks,
           br' \in [Nodes -> Branches], status' \in [Nodes -> Statuses],
           LET l == Left(n)
               r == Right(n)
           IN  /\ \A m \in Nodes \ {n, l, r} : br'[m] = br[m]
               /\ br'[n].names = br[n].names /\ br'[n].fork \in {0, br[n].fork}
               /\ \A m \in Nodes \ {l, r} : status'[m] = status[m]
               /\ \A c \in {l, r} : /\ br'[c].fork = br[c].fork
                                    /\ br'[c].fork # 0 => br'[c] = br[c]
               /\ br'[n].fork # 0 =>
                    /\ br'[l].names = br[l].names /\ br'[r].names = br[r].names
                    /\ status'[l] \in {"running", "finished", "joined"}
                    /\ status'[r] \in {"running", "finished", "stashed"}
    PROVE  TreeInv'
<1> DEFINE l == Left(n)
           r == Right(n)
<1>1. /\ l \in Nodes /\ r \in Nodes /\ l # n /\ r # n /\ l[1] = br[n].fork /\ r[1] = br[n].fork
      /\ br[n].fork \in 1 .. MaxForks
  BY KidFacts DEF Left, Right, LeftOf, RightOf
<1>2. br[n].fork <= forks /\ forks \in Nat
  BY NodeFacts DEF StructInv, BranchInv, ShapeOf, TypeOK
<1>3. l # Root /\ r # Root
  BY <1>1, NodeFacts
<1>4. \A m \in Nodes : br'[m].fork \in {0, br[m].fork} /\ (m # n => br'[m].fork = br[m].fork)
  OBVIOUS
<1>5. \A m \in Nodes : br'[m].fork # 0 =>
        /\ Left(m)' = Left(m) /\ Right(m)' = Right(m)
        /\ Left(m) \in Nodes /\ Right(m) \in Nodes
  BY <1>4, KidFacts DEF Left, Right
<1>6. ASSUME NEW m \in Nodes \ {n}, br'[m].fork # 0
      PROVE  {Left(m), Right(m)} \cap {l, r} = {}
  BY <1>4, <1>6, KidsApart
<1> HIDE DEF l, r
<1>7. status'[Root] = "running"
  BY <1>3, NodeFacts DEF StructInv, TreeInv, l, r
<1>8. \A m \in Nodes : m[1] > forks' => status'[m] = "unborn"
  BY <1>1, <1>2 DEF StructInv, TreeInv, l, r
<1>9. \A a, b \in Nodes : br'[a].fork # 0 /\ br'[a].fork = br'[b].fork => a = b
  <2>1. \A a \in Nodes : br'[a].fork # 0 => br'[a].fork = br[a].fork /\ br[a].fork # 0
    BY <1>4
  <2> QED
    BY <2>1 DEF StructInv, TreeInv
<1>10. ASSUME NEW m \in Nodes, br'[m].fork # 0
       PROVE  /\ br'[Left(m)'].names \cup br'[Right(m)'].names \subseteq br'[m].names
              /\ br'[Left(m)'].names \cap br'[Right(m)'].names = {}
              /\ status'[Left(m)'] \in {"running", "finished", "joined"}
              /\ status'[Right(m)'] \in {"running", "finished", "stashed"}
  <2>0. br[m].fork # 0
    BY <1>4, <1>10
  <2>1. CASE m = n
    <3>1. /\ br'[l].names = br[l].names /\ br'[r].names = br[r].names
          /\ br'[m].names = br[m].names /\ Left(m)' = l /\ Right(m)' = r
          /\ status'[l] \in {"running", "finished", "joined"}
          /\ status'[r] \in {"running", "finished", "stashed"}
      BY <1>5, <1>10, <2>1 DEF l, r
    <3> QED
      BY <2>0, <2>1, <3>1 DEF StructInv, TreeInv, l, r
  <2>2. CASE m # n
    <3>1. \A c \in {Left(m), Right(m)} :
            c \in Nodes /\ br'[c].names = br[c].names /\ status'[c] = status[c]
      BY <1>5, <1>6, <1>10, <2>2 DEF l, r
    <3>2. br'[m].names = br[m].names
      BY <1>10, <2>2 DEF l, r
    <3> QED
      BY <1>5, <1>10, <2>0, <3>1, <3>2 DEF StructInv, TreeInv
  <2> QED
    BY <2>1, <2>2
<1> QED
  BY <1>7, <1>8, <1>9, <1>10 DEF TreeInv

\* A branch that is over and has nothing.
LEMMA NobodyShape ==
    ASSUME StructInv, NEW c \in Nodes, br'[c] = Nobody, UNCHANGED forks
    PROVE  ShapeOf(c)' /\ UndosOf(c)' /\ MarksOf(c)'
<1>1. 0 <= forks'
  BY NodeFacts DEF StructInv, TypeOK
<1>2. ShapeOf(c)'
  BY <1>1, NobodyTypes DEF ShapeOf
<1> QED
  BY <1>2, NobodyTypes DEF UndosOf, MarksOf, Depth

LEMMA MergeLeftTree ==
    ASSUME StructInv, NEW n \in Nodes, JoinLeft(n), status[Right(n)] # "stashed"
    PROVE  BranchInv' /\ TreeInv'
<1> DEFINE l == Left(n)
           r == Right(n)
<1>0. TypeOK /\ UNCHANGED forks /\ forks \in Nat
  BY NodeFacts DEF JoinLeft, StructInv, TypeOK
<1>1. /\ br[n].fork # 0 /\ Live(n) /\ br[n].mode = "forked" /\ status[l] = "finished"
      /\ br' \in [Nodes -> Branches]
      /\ \A m \in Nodes \ {n, l} : br'[m] = br[m]
      /\ Turns(n, br[n].stack, br[n].mode, br[n].undo \o br[l].undo, br[n].call,
               br[n].popped, br[n].fork)
      /\ Turns(l, br[l].stack, br[l].mode, << >>, br[l].call, br[l].popped, br[l].fork)
      /\ status' = [status EXCEPT ![l] = "joined"]
  BY MergeLeftShape
<1>2. /\ l \in Nodes /\ r \in Nodes /\ l # r /\ l # n /\ r # n
  BY <1>1, KidFacts
<1>3. /\ \A m \in Nodes \ {l} : status'[m] = status[m]
      /\ status'[l] = "joined" /\ status' \in [Nodes -> Statuses]
  BY <1>0, <1>1, <1>2 DEF TypeOK, Statuses
<1>4. ShapeOf(l) /\ ShapeOf(n) /\ MarksOf(n)
  BY <1>2 DEF StructInv, BranchInv
<1>5. br[l].stack = << >> /\ br[l].mode \in {"run", "err"} /\ br[l].fork = 0
  BY <1>1, <1>4 DEF ShapeOf
<1>6. UndosOf(n)' /\ Len(br'[n].undo) >= Len(br[n].undo)
  BY <1>1, UndosMerged DEF Turns
<1>7. TreeInv'
  <2>1. status[r] \in {"running", "finished", "stashed"}
    BY <1>1 DEF StructInv, TreeInv
  <2> QED
    BY <1>0, <1>1, <1>2, <1>3, <1>5, <2>1, TreeStep DEF Turns
<1> HIDE DEF l, r
<1>8. ShapeOf(n)' /\ MarksOf(n)'
  <2>1. MarksOf(n)'
    BY <1>0, <1>1, <1>4, <1>6, MarksAbove DEF Turns
  <2>2. ShapeOf(n)'
    <3>1. Depth(n)' = Depth(n)
      BY <1>1 DEF Turns, Depth
    <3> QED
      BY <1>0, <1>1, <1>2, <1>3, <1>4, <3>1 DEF ShapeOf, Pending, Live, Turns, Top
  <2> QED
    BY <2>1, <2>2
<1>9. ASSUME NEW m \in {l} PROVE (ShapeOf(m) /\ UndosOf(m) /\ MarksOf(m))'
  <2>1. ShapeOf(m)'
    BY <1>0, <1>1, <1>3, <1>4, <1>5 DEF ShapeOf, Pending, Turns, Depth, Top
  <2> QED
    BY <1>1, <1>5, <2>1 DEF UndosOf, MarksOf, Turns, Depth
<1>10. ASSUME NEW m \in Nodes \ {n, l} PROVE (ShapeOf(m) /\ UndosOf(m) /\ MarksOf(m))'
  <2>1. forks' >= forks /\ forks' \in Nat
    BY <1>0
  <2> QED
    BY <1>1, <1>3, <2>1, BranchSame
<1>11. BranchInv'
  BY <1>2, <1>6, <1>8, <1>9, <1>10 DEF BranchInv
<1> QED
  BY <1>7, <1>11

LEMMA CompleteTree ==
    ASSUME StructInv, NEW n \in Nodes, Completes(n)
    PROVE  BranchInv' /\ TreeInv'
<1> DEFINE l == Left(n)
           r == Right(n)
           undo == (br[n].undo \o br[l].undo) \o br[r].undo
<1>0. TypeOK /\ UNCHANGED forks /\ forks \in Nat
  <2>1. UNCHANGED forks
    BY DEF Completes, JoinLeft, JoinRight
  <2> QED
    BY <2>1, NodeFacts DEF StructInv, TypeOK
<1>1. /\ br[n].fork # 0 /\ Live(n) /\ br[n].mode = "forked"
      /\ status[l] \in {"finished", "joined"}
      /\ status[r] \in {"finished", "stashed"}
      /\ br' \in [Nodes -> Branches]
      /\ \A m \in Nodes \ {n, l, r} : br'[m] = br[m]
      /\ \E mode \in {"run", "err"} :
           Turns(n, br[n].stack, mode, undo, br[n].call, br[n].popped, 0)
      /\ br'[l] = Nobody /\ br'[r] = Nobody
      /\ status' \in [Nodes -> Statuses]
      /\ \A m \in Nodes \ {l, r} : status'[m] = status[m]
      /\ status'[l] = "joined" /\ status'[r] = "joined"
  BY CompleteShape
<1>2. /\ l \in Nodes /\ r \in Nodes /\ l # r /\ l # n /\ r # n
  BY <1>1, KidFacts
<1>3. /\ br'[n].stack = br[n].stack /\ br'[n].mode \in {"run", "err"}
      /\ br'[n].undo = undo /\ br'[n].call = br[n].call /\ br'[n].popped = br[n].popped
      /\ br'[n].fork = 0 /\ br'[n].names = br[n].names
  BY <1>1 DEF Turns
<1>4. br[l].fork = 0 /\ br[r].fork = 0
  BY <1>1, <1>2 DEF StructInv, BranchInv, ShapeOf, Pending
<1>5. UndosOf(n)' /\ Len(br'[n].undo) >= Len(br[n].undo)
  BY <1>1, <1>3, UndosMerged
<1>6. TreeInv'
  <2>1. br'[l].fork = 0 /\ br'[r].fork = 0
    BY <1>1, NobodyTypes
  <2> QED
    BY <1>0, <1>1, <1>3, <1>4, <2>1, TreeStep
<1> HIDE DEF l, r, undo
<1>7. ShapeOf(n) /\ MarksOf(n)
  BY DEF StructInv, BranchInv
<1>8. MarksOf(n)'
  BY <1>0, <1>1, <1>3, <1>5, <1>7, MarksAbove
<1>9. ShapeOf(n)'
  <2>1. br[n].call = NoCall /\ br[n].popped = {}
    BY <1>1, <1>7 DEF ShapeOf
  <2>2. Live(n)' /\ 0 <= forks'
    BY <1>0, <1>1, <1>2 DEF Live
  <2> QED
    BY <1>3, <2>1, <2>2 DEF ShapeOf, Live, Pending
<1>10. ASSUME NEW m \in {l, r} PROVE (ShapeOf(m) /\ UndosOf(m) /\ MarksOf(m))'
  BY <1>0, <1>1, <1>2, NobodyShape
<1>11. ASSUME NEW m \in Nodes \ {n, l, r} PROVE (ShapeOf(m) /\ UndosOf(m) /\ MarksOf(m))'
  <2>1. forks' >= forks /\ forks' \in Nat
    BY <1>0
  <2> QED
    BY <1>1, <2>1, BranchSame
<1> QED
  BY <1>5, <1>6, <1>8, <1>9, <1>10, <1>11 DEF BranchInv

LEMMA GraceTree ==
    ASSUME StructInv, NEW n \in Nodes, NEW t \in DOMAIN br[n].stack, GraceEnds(n, t)
    PROVE  BranchInv' /\ TreeInv'
<1>0. TypeOK /\ UNCHANGED forks /\ forks \in Nat
  BY NodeFacts DEF GraceEnds, StructInv, TypeOK
<1>1. /\ Live(n) /\ t \in 1 .. Depth(n) /\ br[n].stack[t].kind = "timeout"
      /\ br[n].mode \in {"io", "forked", "rollback"}
      /\ br[n].mode = "rollback" => t < Depth(n)
      /\ Children(n) \subseteq Nodes \ {n}
      /\ br' \in [Nodes -> Branches]
      /\ \A m \in Nodes \ (Children(n) \cup {n}) : br'[m] = br[m]
      /\ Turns(n, Cut(n, t), "rollback", Kept(n), NoCall, {}, 0)
      /\ status' \in [Nodes -> Statuses]
      /\ \A m \in Nodes \ Children(n) : status'[m] = status[m]
      /\ \A c \in Children(n) :
           IF status[c] = "running"
           THEN br'[c] = br[c] /\ status'[c] = "orphan"
           ELSE br'[c] = Nobody /\ status'[c] \in {"dead", "joined"}
  BY GraceShape
<1>2. ShapeOf(n) /\ UndosOf(n) /\ MarksOf(n)
  BY DEF StructInv, BranchInv
<1>3. /\ br'[n].stack = Cut(n, t) /\ br'[n].mode = "rollback" /\ br'[n].undo = Kept(n)
      /\ br'[n].call = NoCall /\ br'[n].popped = {} /\ br'[n].fork = 0
      /\ br'[n].names = br[n].names
  BY <1>1 DEF Turns
<1>4. UndosOf(n)' /\ Len(br'[n].undo) >= Len(br[n].undo)
  <2>1. CASE Kept(n) = br[n].undo
    <3>1. Len(br[n].undo) \in Nat
      BY <1>0, Fields
    <3> QED
      BY <1>2, <1>3, <2>1, <3>1 DEF UndosOf
  <2>2. CASE Kept(n) = br[n].undo \o br[Right(n)].undo /\ br[n].fork # 0
    BY <1>1, <1>3, <2>2, UndosMerged
  <2> QED
    BY <2>1, <2>2, NoKids DEF Kept
<1>5. MarksOf(n)'
  <2>1. /\ t \in 0 .. Depth(n) /\ Depth(n) \in Nat /\ Len(br[n].undo) \in Nat
        /\ Len(br'[n].undo) \in Nat
    BY <1>0, <1>1, Fields, NextFields
  <2>2. Len(br'[n].stack) = t /\ \A s \in 1 .. t : br'[n].stack[s] = br[n].stack[s]
    BY <1>0, <1>3, <2>1, CutTypes
  <2>3. \A s \in 1 .. t : br[n].stack[s].mark <= Len(br'[n].undo)
    <3>1. TAKE s \in 1 .. t
    <3>2. s \in 1 .. Depth(n)
      BY <1>1, <2>1
    <3>3. br[n].stack[s].mark <= Len(br[n].undo) /\ br[n].stack[s].mark \in Nat
      BY <1>0, <1>2, <3>2, Fields DEF MarksOf, Frames
    <3> QED
      BY <1>4, <2>1, <3>3
  <2> QED
    BY <1>0, <1>1, <1>2, <2>1, <2>2, <2>3, MarksBelow
<1>6. ShapeOf(n)'
  <2>1. Depth(n)' > 0 /\ Top(n)'.kind = "timeout"
    <3>1. t \in 0 .. Depth(n) /\ t > 0
      BY <1>0, <1>1, Fields
    <3>2. Len(Cut(n, t)) = t /\ Cut(n, t)[t] = br[n].stack[t]
      BY <1>0, <3>1, CutTypes
    <3> QED
      BY <1>1, <1>3, <3>1, <3>2 DEF Depth, Top
  <2>2. Live(n)' /\ 0 <= forks'
    BY <1>0, <1>1 DEF Live
  <2> QED
    BY <1>3, <2>1, <2>2 DEF ShapeOf, Live, Pending
<1>7. ASSUME NEW m \in Nodes \ {n} PROVE (ShapeOf(m) /\ UndosOf(m) /\ MarksOf(m))'
  <2>0. forks' >= forks /\ forks' \in Nat
    BY <1>0
  <2>1. CASE m \notin Children(n)
    BY <1>1, <2>0, <2>1, BranchSame
  <2>2. CASE m \in Children(n) /\ status[m] # "running"
    BY <1>0, <1>1, <2>2, NobodyShape
  <2>3. CASE m \in Children(n) /\ status[m] = "running"
    <3>1. br'[m] = br[m] /\ status'[m] = "orphan" /\ ShapeOf(m) /\ UndosOf(m) /\ MarksOf(m)
      BY <1>1, <2>3 DEF StructInv, BranchInv
    <3>2. UndosOf(m)' /\ MarksOf(m)'
      BY <3>1 DEF UndosOf, MarksOf, Depth
    <3>3. ShapeOf(m)'
      BY <1>0, <2>3, <3>1 DEF ShapeOf, Pending, Depth, Top
    <3> QED
      BY <3>2, <3>3
  <2> QED
    BY <2>1, <2>2, <2>3
<1>8. BranchInv'
  BY <1>2, <1>4, <1>5, <1>6, <1>7 DEF BranchInv
<1>9. TreeInv'
  <2>1. CASE br[n].fork # 0
    <3>1. Children(n) = {Left(n), Right(n)} /\ Left(n) \in Nodes /\ Right(n) \in Nodes
      BY <2>1, KidFacts
    <3>2. \A c \in {Left(n), Right(n)} : /\ br'[c].fork = br[c].fork
                                         /\ br'[c].fork # 0 => br'[c] = br[c]
      <4>1. TAKE c \in {Left(n), Right(n)}
      <4>2. CASE status[c] = "running"
        BY <1>1, <3>1, <4>2
      <4>3. CASE status[c] # "running"
        <5>1. status[c] \in {"finished", "stashed", "joined"}
          BY <2>1, <4>3 DEF StructInv, TreeInv
        <5>2. br[c].fork = 0
          BY <3>1, <5>1 DEF StructInv, BranchInv, ShapeOf, Pending
        <5> QED
          BY <1>1, <3>1, <4>3, <5>2, NobodyTypes
      <4> QED
        BY <4>2, <4>3
    <3> QED
      BY <1>0, <1>1, <1>3, <2>1, <3>1, <3>2, TreeStep
  <2>2. CASE br[n].fork = 0
    <3>1. Children(n) = {}
      BY <2>2, NoKids
    <3>2. /\ \A m \in Nodes : br'[m].fork = br[m].fork /\ br'[m].names = br[m].names
          /\ \A m \in Nodes : status'[m] = status[m]
      BY <1>1, <1>3, <2>2, <3>1
    <3>3. \A m \in Nodes : Left(m)' = Left(m) /\ Right(m)' = Right(m)
      BY <3>2 DEF Left, Right
    <3>4. \A m \in Nodes : br[m].fork # 0 => Left(m) \in Nodes /\ Right(m) \in Nodes
      BY KidFacts
    <3> QED
      BY <1>0, <3>2, <3>3, <3>4, NodeFacts DEF StructInv, TreeInv
  <2> QED
    BY <2>1, <2>2
<1> QED
  BY <1>8, <1>9

-----------------------------------------------------------------------------
(* Types *)

\* What TypeOK says of the other variables.
Outer ==
    /\ status \in [Nodes -> Statuses] /\ forks \in 0 .. MaxForks
    /\ timers \in Nat /\ sent \in SUBSET Nat
    /\ idem \in [Keys -> {"none", "committed", "reverted"}]
    /\ world \in Worlds /\ ops \in Nat /\ undone \in SUBSET Nat
    /\ stray \in SUBSET Objects /\ done \in [Keys -> SUBSET SUBSET (Objects \X Nat)]

LEMMA TypesFrom ==
    ASSUME br' \in [Nodes -> Branches], BranchInv', TreeInv', Outer'
    PROVE  StructInv'
<1>1. \A n \in Nodes : (Undoing(n) => Depth(n) > 0)'
  BY DEF BranchInv, ShapeOf, Undoing
<1> QED
  BY <1>1 DEF TypeOK, Outer, StructInv

LEMMA InitStruct == Init => StructInv
<1> SUFFICES ASSUME Init PROVE StructInv
  OBVIOUS
<1>1. Blank \in Worlds /\ Objects \cup Keys \in SUBSET (Objects \cup Keys)
  BY DEF Blank, Worlds
<1> DEFINE top == Branch(Objects \cup Keys, 0, Blank)
<1>2. \A b \in {top, Nobody} :
        /\ b \in Branches /\ b.stack = << >> /\ b.mode = "run" /\ b.undo = << >>
        /\ b.call = NoCall /\ b.popped = {} /\ b.fork = 0
  <2>1. /\ top \in Branches /\ top.stack = << >> /\ top.mode = "run" /\ top.undo = << >>
        /\ top.call = NoCall /\ top.popped = {} /\ top.fork = 0
    BY RootTypes
  <2> HIDE DEF top
  <2> QED
    BY <2>1, NobodyTypes
<1>3. br = [n \in Nodes |-> IF n = Root THEN top ELSE Nobody]
  BY DEF Init
<1> HIDE DEF top
<1>4. br \in [Nodes -> Branches] /\ \A n \in Nodes : br[n] \in {top, Nobody}
  BY <1>2, <1>3
<1>5. Outer
  BY <1>1, NodeFacts DEF Outer, Init, Statuses
<1>6. BranchInv
  <2>1. forks = 0
    BY DEF Init
  <2>2. ASSUME NEW n \in Nodes PROVE ShapeOf(n) /\ UndosOf(n) /\ MarksOf(n)
    <3>1. /\ br[n].stack = << >> /\ br[n].mode = "run" /\ br[n].undo = << >>
          /\ br[n].call = NoCall /\ br[n].popped = {} /\ br[n].fork = 0
      BY <1>2, <1>4
    <3>2. ShapeOf(n)
      BY <2>1, <3>1 DEF ShapeOf
    <3> QED
      BY <3>1, <3>2 DEF UndosOf, MarksOf, Depth
  <2> QED
    BY <2>2 DEF BranchInv
<1>7. TreeInv
  <2>1. \A n \in Nodes : br[n].fork = 0 /\ n[1] \in Nat
    BY <1>2, <1>4, NodeFacts
  <2>2. \A n \in Nodes : n[1] > 0 => n # Root
    BY NodeFacts
  <2> QED
    BY <2>1, <2>2, NodeFacts DEF TreeInv, Init
<1>8. TypeOK
  BY <1>2, <1>4, <1>5 DEF TypeOK, Outer, Undoing
<1> QED
  BY <1>6, <1>7, <1>8 DEF StructInv

\* A step of n alone that leaves the registry and the histories.
LEMMA InnerTypes ==
    ASSUME StructInv, NEW n \in Nodes,
           \/ Cancel(n) \/ Unwind(n) \/ Stash(n) \/ RollbackDone(n) \/ Fail(n)
           \/ Report
           \/ \E o \in Objects : Call(n, o)
           \/ \E kind \in Kinds, key \in Keys \cup {NoKey} : Enter(n, kind, key)
    PROVE  StructInv'
<1>1. TypeOK /\ Outer
  BY DEF StructInv, TypeOK, Outer
<1>2. CASE Cancel(n)
  <2>1. br' \in [Nodes -> Branches]
    BY <1>1, <1>2, ModeShape DEF Cancel, Modes, Becomes
  <2>2. Outer'
    BY <1>1, <1>2 DEF Cancel, history, Outer
  <2> QED
    BY <1>2, <2>1, <2>2, CancelTree, TypesFrom
<1>3. CASE Unwind(n)
  <2>1. br' \in [Nodes -> Branches]
    BY <1>1, <1>3, UnwindShape DEF Becomes
  <2>2. Outer'
    BY <1>1, <1>3 DEF Unwind, history, Outer
  <2> QED
    BY <1>3, <2>1, <2>2, UnwindTree, TypesFrom
<1>4. CASE Stash(n)
  <2>1. br' \in [Nodes -> Branches] /\ Outer'
    BY <1>1, <1>4 DEF Stash, history, Outer, TypeOK, Statuses
  <2> QED
    BY <1>4, <2>1, StashTree, TypesFrom
<1>5. CASE RollbackDone(n)
  <2>1. br' \in [Nodes -> Branches]
    BY <1>1, <1>5, RollbackDoneShape DEF Becomes
  <2>2. Outer'
    BY <1>1, <1>5 DEF RollbackDone, history, Outer
  <2> QED
    BY <1>5, <2>1, <2>2, RollbackDoneTree, TypesFrom
<1>6. CASE Fail(n)
  <2>1. br' \in [Nodes -> Branches]
    BY <1>1, <1>6, FailShape DEF Becomes
  <2>2. Outer'
    BY <1>1, <1>6 DEF Fail, history, Outer
  <2> QED
    BY <1>6, <2>1, <2>2, FailTree, TypesFrom
<1>7. CASE Report
  <2>1. br' \in [Nodes -> Branches]
    BY <1>1, <1>7, ModeShape, NodeFacts DEF Report, Modes, Becomes
  <2>2. Outer'
    BY <1>1, <1>7 DEF Report, history, Outer
  <2> QED
    BY <1>7, <2>1, <2>2, ReportTree, TypesFrom
<1>8. ASSUME NEW o \in Objects, Call(n, o) PROVE StructInv'
  <2>1. br' \in [Nodes -> Branches]
    BY <1>1, <1>8, CallShape DEF Becomes
  <2>2. Outer'
    BY <1>1, <1>8 DEF Call, history, Outer
  <2> QED
    BY <1>8, <2>1, <2>2, CallTree, TypesFrom
<1>9. ASSUME NEW kind \in Kinds, NEW key \in Keys \cup {NoKey}, Enter(n, kind, key)
      PROVE  StructInv'
  <2>1. br' \in [Nodes -> Branches]
    BY <1>1, <1>9, EnterShape DEF Becomes
  <2>2. Outer'
    BY <1>1, <1>9 DEF Enter, history, Outer
  <2> QED
    BY <1>9, <2>1, <2>2, EnterTree, TypesFrom
<1> QED
  BY <1>2, <1>3, <1>4, <1>5, <1>6, <1>7, <1>8, <1>9

LEMMA UndoTypes ==
    ASSUME TypeOK, NEW n \in Nodes, NEW u \in br[n].popped, u.obj \in Objects
    PROVE  /\ [world EXCEPT ![u.obj] = u.old] \in Worlds
           /\ undone \cup {u.op} \in SUBSET Nat /\ stray \cup {u.obj} \in SUBSET Objects
<1>1. u \in Undos
  BY Fields
<1>2. u.old \in Nat /\ u.op \in Nat
  BY <1>1 DEF Undos
<1> QED
  BY <1>2 DEF TypeOK, Worlds

LEMMA SegmentTypes ==
    ASSUME TypeOK, NEW n \in Nodes
    PROVE  Segment(n) \in SUBSET (Objects \X Nat)
  BY DEF Segment

\* The steps that change the world, the registry or a history.
LEMMA EffectTypes ==
    ASSUME StructInv, NEW n \in Nodes,
           Succeed(n) \/ Return(n) \/ PopUndo(n) \/ UndoOk(n) \/ UndoFails(n)
    PROVE  StructInv'
<1>1. TypeOK /\ Outer /\ ShapeOf(n) /\ MarksOf(n) /\ UndosOf(n)
  BY DEF StructInv, BranchInv, TypeOK, Outer
<1>2. CASE Succeed(n)
  <2>1. br[n].call.obj \in Objects /\ br[n].call.op \in Nat
    BY <1>1, <1>2, Fields DEF ShapeOf, Succeed, Awaits
  <2>2. br' \in [Nodes -> Branches]
    BY <1>1, <1>2, <2>1, SucceedShape DEF Becomes
  <2>3. world' \in Worlds
    BY <1>1, <1>2, <2>1 DEF Succeed, Effect, Worlds, TypeOK
  <2>4. Outer'
    BY <1>1, <1>2, <2>3 DEF Succeed, history, Outer
  <2> QED
    BY <1>2, <2>2, <2>4, SucceedTree, TypesFrom
<1>3. CASE Return(n)
  <2>1. br' \in [Nodes -> Branches] /\ Depth(n) > 0
    BY <1>1, <1>3, ReturnShape DEF Becomes
  <2>2. Top(n).kind = "idem" => Top(n).key \in Keys
    BY <1>1, <2>1, TopTypes DEF MarksOf, Top
  <2>3. Segment(n) \in SUBSET (Objects \X Nat)
    BY <1>1, SegmentTypes
  <2>4. /\ idem' \in [Keys -> {"none", "committed", "reverted"}]
        /\ done' \in [Keys -> SUBSET SUBSET (Objects \X Nat)]
    <3> HIDE DEF Segment
    <3>1. CASE UNCHANGED <<idem, done>>
      BY <1>1, <3>1 DEF TypeOK
    <3>2. CASE /\ Top(n).kind = "idem"
               /\ idem' = [idem EXCEPT ![Top(n).key] = "committed"]
               /\ done' = [done EXCEPT ![Top(n).key] = @ \cup {Segment(n)}]
      BY <1>1, <2>2, <2>3, <3>2 DEF TypeOK
    <3> QED
      BY <1>3, <3>1, <3>2 DEF Return
  <2>5. Outer'
    BY <1>1, <1>3, <2>4 DEF Return, Outer
  <2> QED
    BY <1>3, <2>1, <2>5, ReturnTree, TypesFrom
<1>4. CASE PopUndo(n)
  <2>1. br' \in [Nodes -> Branches]
    BY <1>1, <1>4, PopUndoShape DEF Becomes
  <2>2. idem' \in [Keys -> {"none", "committed", "reverted"}]
    BY <1>1, <1>4 DEF PopUndo, TypeOK
  <2>3. Outer'
    BY <1>1, <1>4, <2>2 DEF PopUndo, history, Outer
  <2> QED
    BY <1>4, <2>1, <2>3, PopUndoTree, TypesFrom
<1>5. CASE UndoOk(n) \/ UndoFails(n)
  <2>1. br' \in [Nodes -> Branches]
    BY <1>1, <1>5, UndoOkShape DEF Becomes
  <2>2. \A u \in br[n].popped : u.obj \in Objects
    BY <1>1 DEF ShapeOf
  <2>3. world' \in Worlds /\ undone' \in SUBSET Nat /\ stray' \in SUBSET Objects
    <3>1. CASE UndoOk(n)
      BY ZenonT(60), <1>1, <2>2, <3>1, UndoTypes DEF UndoOk, TypeOK
    <3>2. CASE UndoFails(n)
      BY <1>1, <2>2, <3>2, UndoTypes DEF UndoFails, TypeOK
    <3> QED
      BY <1>5, <3>1, <3>2
  <2>4. Outer'
    BY <1>1, <1>5, <2>3 DEF UndoOk, UndoFails, Outer
  <2> QED
    BY <1>5, <2>1, <2>4, UndoTree, TypesFrom
<1> QED
  BY <1>2, <1>3, <1>4, <1>5

\* The steps of Forks.
LEMMA ForkTypes ==
    ASSUME StructInv, NEW n \in Nodes, AnyFork(n) \/ Finish(n) \/ JoinLeft(n) \/ JoinRight(n)
    PROVE  StructInv'
<1>1. TypeOK /\ Outer
  BY DEF StructInv, TypeOK, Outer
<1>2. ASSUME NEW split, Fork(n, split) PROVE StructInv'
  <2>1. br' \in [Nodes -> Branches] /\ status' \in [Nodes -> Statuses]
        /\ forks + 1 \in 1 .. MaxForks
    BY <1>1, <1>2, ForkShape DEF TypeOK, Statuses
  <2>2. Outer'
    BY <1>1, <1>2, <2>1, NodeFacts DEF Fork, ForkInto, history, Outer
  <2> QED
    BY <1>2, <2>1, <2>2, ForkTree, TypesFrom
<1>3. CASE Finish(n)
  <2>1. br' \in [Nodes -> Branches] /\ status' \in [Nodes -> Statuses]
    BY <1>1, <1>3, FinishShape, NobodyTypes DEF TypeOK, Statuses
  <2>2. Outer'
    BY <1>1, <1>3, <2>1 DEF Finish, history, Outer
  <2> QED
    BY <1>3, <2>1, <2>2, FinishTree, TypesFrom
<1>4. CASE JoinLeft(n) /\ status[Right(n)] # "stashed"
  <2>1. br' \in [Nodes -> Branches] /\ status' \in [Nodes -> Statuses]
    BY <1>1, <1>4, MergeLeftShape DEF TypeOK, Statuses
  <2>2. Outer'
    BY <1>1, <1>4, <2>1 DEF JoinLeft, history, Outer
  <2> QED
    BY <1>4, <2>1, <2>2, MergeLeftTree, TypesFrom
<1>5. CASE Completes(n)
  <2>1. br' \in [Nodes -> Branches] /\ status' \in [Nodes -> Statuses]
    BY <1>5, CompleteShape
  <2>2. Outer'
    BY <1>1, <1>5, <2>1 DEF Completes, JoinLeft, JoinRight, history, Outer
  <2> QED
    BY <1>5, <2>1, <2>2, CompleteTree, TypesFrom
<1> QED
  BY <1>2, <1>3, <1>4, <1>5 DEF Completes, AnyFork

LEMMA TimeoutTypes ==
    ASSUME StructInv, NEW n \in Nodes, NEW t \in DOMAIN br[n].stack,
           Fire(n, t) \/ GraceEnds(n, t)
    PROVE  StructInv'
<1>1. TypeOK /\ Outer /\ ShapeOf(n)
  BY DEF StructInv, BranchInv, TypeOK, Outer
<1>2. CASE Fire(n, t)
  <2>1. UNCHANGED <<status, br, forks>> /\ sent' = sent \cup {br[n].stack[t].token}
    BY <1>2 DEF Fire
  <2>2. br[n].stack[t].token \in Nat
    BY <1>1, Fields DEF Frames
  <2>3. Outer'
    BY <1>1, <1>2, <2>1, <2>2 DEF Fire, history, Outer
  <2>4. br' \in [Nodes -> Branches] /\ status' \in [Nodes -> Statuses]
        /\ \A m \in Nodes : status'[m] = status[m] /\ status'[Root] = status[Root]
    BY <1>1, <2>1 DEF TypeOK
  <2>5. BranchInv' /\ TreeInv'
    BY <2>1, <2>4, StillTree
  <2> QED
    BY <2>3, <2>4, <2>5, TypesFrom
<1>3. CASE GraceEnds(n, t)
  <2>1. br' \in [Nodes -> Branches] /\ status' \in [Nodes -> Statuses]
    BY <1>3, GraceShape
  <2>2. br[n].mode = "io" => br[n].call.obj \in Objects /\ br[n].call.op \in Nat
    BY <1>1, Fields DEF ShapeOf
  <2>3. \A u \in br[n].popped : u.obj \in Objects
    BY <1>1 DEF ShapeOf
  <2>4. world' \in Worlds /\ undone' \in SUBSET Nat
    <3>1. CASE UNCHANGED <<world, undone>>
      BY <1>1, <3>1 DEF TypeOK
    <3>2. CASE br[n].mode = "io" /\ Effect(br[n].call) /\ UNCHANGED undone
      BY <1>1, <2>2, <3>2 DEF Effect, TypeOK, Worlds
    <3>3. ASSUME NEW u \in br[n].popped, world' = [world EXCEPT ![u.obj] = u.old],
                 undone' = undone \cup {u.op}
          PROVE  world' \in Worlds /\ undone' \in SUBSET Nat
      BY <1>1, <2>3, <3>3, UndoTypes
    <3> QED
      BY <1>3, <3>1, <3>2, <3>3 DEF GraceEnds
  <2>5. stray' \in SUBSET Objects
    <3>1. br[n].call.obj \in Objects \cup {NoObject}
      BY <1>1, Fields
    <3> QED
      BY <1>1, <1>3, <2>3, <3>1 DEF GraceEnds, TypeOK
  <2>6. Outer'
    BY <1>1, <1>3, <2>1, <2>4, <2>5 DEF GraceEnds, Outer
  <2> QED
    BY <1>3, <2>1, <2>6, GraceTree, TypesFrom
<1> QED
  BY <1>2, <1>3

\* The steps of Next, one by one.
LEMMA Steps ==
    ASSUME Next
    PROVE  \/ Report
           \/ \E n \in Nodes :
                \/ Cancel(n) \/ Unwind(n) \/ Stash(n) \/ RollbackDone(n) \/ Fail(n)
                \/ \E o \in Objects : Call(n, o)
                \/ \E kind \in Kinds, key \in Keys \cup {NoKey} : Enter(n, kind, key)
                \/ Succeed(n) \/ Return(n) \/ PopUndo(n) \/ UndoOk(n) \/ UndoFails(n)
                \/ AnyFork(n) \/ Finish(n) \/ JoinLeft(n) \/ JoinRight(n)
                \/ \E t \in DOMAIN br[n].stack : Fire(n, t) \/ GraceEnds(n, t)
  BY DEF Next, Progress, Propagate, AnyFork

LEMMA StructStep == StructInv /\ [Next]_vars => StructInv'
<1> SUFFICES ASSUME StructInv, [Next]_vars PROVE StructInv'
  OBVIOUS
<1>1. CASE UNCHANGED vars
  <2>1. UNCHANGED <<status, br, forks, timers, sent, idem, world, ops, undone, stray, done>>
    BY <1>1 DEF vars
  <2>2. TypeOK'
    BY <2>1 DEF StructInv, TypeOK, Undoing, Live, Depth
  <2>3. BranchInv'
    BY <2>1 DEF StructInv, BranchInv, ShapeOf, UndosOf, MarksOf, Depth, Top, Pending
  <2>4. TreeInv'
    BY <2>1 DEF StructInv, TreeInv, Left, Right
  <2> QED
    BY <2>2, <2>3, <2>4 DEF StructInv
<1>2. CASE Next
  BY <1>2, Steps, InnerTypes, EffectTypes, ForkTypes, TimeoutTypes, NodeFacts
<1> QED
  BY <1>1, <1>2

\* Every step of the tasks, of their Forks and of their Timeouts keeps TypeOK,
\* and the shape of the tree of tasks.
THEOREM TypesKept == Spec => []TypeOK
<1>1. StructInv => TypeOK
  BY DEF StructInv
<1> QED
  BY <1>1, InitStruct, StructStep, PTL DEF Spec

-----------------------------------------------------------------------------
(* Every object has one task that may change it *)

\* n names o, and none of the branches it waits for does.
Holds(n, o) ==
    /\ Pending(n)
    /\ o \in br[n].names
    /\ \A c \in Children(n) : Pending(c) => o \notin br[c].names

OwnerInv ==
    \A o \in Objects \ stray : \A a, b \in Nodes : Holds(a, o) /\ Holds(b, o) => a = b

\* An object goes from a task in G to a task in G; the others keep theirs.
LEMMA OwnerFrom ==
    ASSUME OwnerInv, stray \subseteq stray', NEW G \in SUBSET Nodes,
           \A o \in Objects \ stray' : \A m \in Nodes \ G : Holds(m, o)' => Holds(m, o),
           \A o \in Objects \ stray' : \A m \in G :
                Holds(m, o)' => \E g \in G : Holds(g, o),
           \A o \in Objects \ stray' : \A a, b \in G : Holds(a, o)' /\ Holds(b, o)' => a = b
    PROVE  OwnerInv'
<1>1. ASSUME NEW o \in Objects \ stray', NEW a \in Nodes, NEW b \in Nodes,
             Holds(a, o)', Holds(b, o)'
      PROVE  a = b
  <2>1. \E c \in Nodes : Holds(c, o) /\ (IF a \in G THEN c \in G ELSE c = a)
    BY <1>1
  <2>2. \E c \in Nodes : Holds(c, o) /\ (IF b \in G THEN c \in G ELSE c = b)
    BY <1>1
  <2>3. \A c, d \in Nodes : Holds(c, o) /\ Holds(d, o) => c = d
    BY DEF OwnerInv
  <2> HIDE DEF Holds
  <2>4. CASE a \in G /\ b \in G
    BY <1>1, <2>4
  <2> QED
    BY <2>1, <2>2, <2>3, <2>4
<1> QED
  BY <1>1 DEF OwnerInv

LEMMA NoChildren ==
    ASSUME StructInv, NEW n \in Nodes
    PROVE  /\ br[n].mode # "forked" => Children(n) = {} /\ br[n].fork = 0
           /\ br[n].mode = "forked" <=> br[n].fork # 0
  BY DEF StructInv, BranchInv, ShapeOf, Children

\* No task is forked, joined or lost.
Still ==
    /\ stray \subseteq stray'
    /\ \A m \in Nodes : /\ Pending(m)' = Pending(m)
                        /\ br'[m].names = br[m].names /\ br'[m].fork = br[m].fork
                        /\ br'[m].base = br[m].base

LEMMA StillChildren ==
    ASSUME StructInv, StructInv', Still, NEW m \in Nodes
    PROVE  Children(m)' = Children(m)
<1>1. (br'[m].mode = "forked") <=> (br[m].mode = "forked")
  <2>1. ShapeOf(m) /\ ShapeOf(m)'
    BY DEF StructInv, BranchInv
  <2> QED
    BY <2>1 DEF ShapeOf, Still
<1>2. Left(m)' = Left(m) /\ Right(m)' = Right(m)
  BY DEF Left, Right, Still
<1> QED
  BY <1>1, <1>2 DEF Children

LEMMA StillHolds ==
    ASSUME StructInv, StructInv', Still, NEW m \in Nodes, NEW o
    PROVE  Holds(m, o)' = Holds(m, o)
<1>1. Children(m)' = Children(m) /\ Children(m) \subseteq Nodes
  BY StillChildren, KidFacts, NoKids
<1> QED
  BY <1>1 DEF Holds, Still

LEMMA StillOwner ==
    ASSUME StructInv, StructInv', Still, OwnerInv
    PROVE  OwnerInv'
  BY StillHolds DEF OwnerInv, Still

\* A branch that is over holds what it names.
LEMMA OverHolds ==
    ASSUME StructInv, NEW c \in Nodes, status[c] \in {"finished", "stashed"}
    PROVE  /\ Children(c) = {} /\ br[c].popped = {} /\ br[c].fork = 0
           /\ \A o : Holds(c, o) <=> o \in br[c].names
<1>1. br[c].mode \in {"run", "err"}
  BY DEF StructInv, BranchInv, ShapeOf
<1>2. Children(c) = {} /\ br[c].popped = {} /\ br[c].fork = 0
  BY <1>1 DEF Children, StructInv, BranchInv, ShapeOf
<1> QED
  BY <1>2 DEF Holds, Pending

\* What a Fork makes of n and its branches.
LEMMA ForkFacts ==
    ASSUME StructInv, NEW n \in Nodes, NEW split, Fork(n, split)
    PROVE  LET l == LeftOf(forks + 1)
               r == RightOf(forks + 1)
               lnames == split[1]
               rnames == split[2]
           IN  /\ br'[n].mode = "forked" /\ br'[n].fork = forks + 1
               /\ br'[n].names = br[n].names /\ br'[n].stack = br[n].stack
               /\ br'[n].undo = br[n].undo /\ br'[n].popped = br[n].popped
               /\ br'[n].base = br[n].base /\ br'[n].call = br[n].call
               /\ br'[l].names = lnames /\ br'[r].names = rnames
               /\ \A c \in {l, r} :
                    /\ br'[c].mode = "run" /\ br'[c].stack = << >> /\ br'[c].undo = << >>
                    /\ br'[c].popped = {} /\ br'[c].base = world /\ br'[c].fork = 0
<1> DEFINE l == LeftOf(forks + 1)
           r == RightOf(forks + 1)
           lnames == split[1]
           rnames == split[2]
           token == Token(n, Depth(n) + 1)
<1>1. /\ Turns(n, br[n].stack, "forked", br[n].undo, br[n].call, br[n].popped, forks + 1)
      /\ br'[l] = Branch(lnames, token, world) /\ br'[r] = Branch(rnames, token, world)
  BY ForkShape
<1> HIDE DEF l, r, lnames, rnames, token
<1>2. \A names : LET b == Branch(names, token, world) IN
        /\ b.mode = "run" /\ b.stack = << >> /\ b.undo = << >> /\ b.popped = {}
        /\ b.base = world /\ b.fork = 0 /\ b.names = names
  BY DEF Branch
<1>3. /\ br'[l].names = lnames /\ br'[r].names = rnames
      /\ \A c \in {l, r} :
            /\ br'[c].mode = "run" /\ br'[c].stack = << >> /\ br'[c].undo = << >>
            /\ br'[c].popped = {} /\ br'[c].base = world /\ br'[c].fork = 0
  BY <1>1, <1>2
<1> QED
  BY <1>1, <1>3 DEF l, r, lnames, rnames, Turns

LEMMA ForkOwner ==
    ASSUME StructInv, OwnerInv, NEW n \in Nodes, NEW split, Fork(n, split)
    PROVE  OwnerInv'
<1> DEFINE l == LeftOf(forks + 1)
           r == RightOf(forks + 1)
           lnames == split[1]
           rnames == split[2]
<1>0. stray' = stray /\ forks' = forks + 1 /\ forks \in Nat
  BY NodeFacts DEF Fork, ForkInto, history, StructInv, TypeOK
<1>1. /\ l \in Nodes /\ r \in Nodes /\ l # r /\ l # n /\ r # n
      /\ l[1] = forks + 1 /\ r[1] = forks + 1
      /\ status[l] = "unborn" /\ status[r] = "unborn" /\ Live(n)
      /\ br[n].mode = "run" /\ br[n].fork = 0
      /\ lnames \cup rnames \subseteq br[n].names /\ lnames \cap rnames = {}
      /\ \A m \in Nodes \ {n, l, r} : br'[m] = br[m]
      /\ status' = [status EXCEPT ![l] = "running", ![r] = "running"]
  BY ForkShape
<1>a. /\ br'[n].mode = "forked" /\ br'[n].fork = forks + 1 /\ br'[n].names = br[n].names
      /\ br'[l].names = lnames /\ br'[r].names = rnames
  BY ForkFacts
<1>2. /\ status'[l] = "running" /\ status'[r] = "running"
      /\ \A m \in Nodes \ {l, r} : status'[m] = status[m]
  BY <1>1 DEF StructInv, TypeOK
<1>3. Left(n)' = l /\ Right(n)' = r
  BY <1>a DEF Left, Right
<1> HIDE DEF l, r, lnames, rnames
<1>4. Children(n)' = {l, r} /\ Children(n) = {}
  BY <1>1, <1>a, <1>3 DEF Children
<1>5. ASSUME NEW m \in {l, r}, NEW o
      PROVE  /\ Holds(m, o)' => o \in IF m = l THEN lnames ELSE rnames
  BY <1>5, <1>1, <1>a DEF Holds
<1>6. \A o : Holds(n, o) <=> o \in br[n].names
  BY <1>1, <1>4 DEF Holds, Pending, Live
<1>7. \A o : Holds(n, o)' => o \in br[n].names \ (lnames \cup rnames)
  BY <1>1, <1>a, <1>2, <1>4 DEF Holds, Pending
<1>8. ASSUME NEW m \in Nodes \ {n, l, r}, NEW o, Holds(m, o)'
      PROVE  Holds(m, o)
  <2>1. Children(m)' = Children(m)
    BY <1>1 DEF Children, Left, Right
  <2>2. Children(m) \subseteq Nodes \ {l, r}
    <3>1. CASE br[m].fork = 0
      BY <3>1, NoKids
    <3>2. CASE br[m].fork # 0
      <4>1. br[m].fork <= forks /\ br[m].fork \in Nat
        BY Fields DEF StructInv, BranchInv, ShapeOf
      <4>2. Left(m)[1] = br[m].fork /\ Right(m)[1] = br[m].fork
        BY DEF Left, Right, LeftOf, RightOf
      <4>3. br[m].fork # forks + 1
        BY <1>0, <4>1
      <4> QED
        BY <1>1, <3>2, <4>2, <4>3, KidFacts
    <3> QED
      BY <3>1, <3>2
  <2>3. \A c \in Children(m) : br'[c].names = br[c].names /\ Pending(c)' = Pending(c)
    BY <1>1, <1>a, <1>2, <2>2 DEF Pending
  <2> QED
    BY <1>1, <1>2, <1>8, <2>1, <2>3 DEF Holds, Pending
<1> DEFINE G == {n, l, r}
<1>9. G \in SUBSET Nodes
  BY <1>1
<1>10. \A o \in Objects \ stray' : \A m \in Nodes \ G : Holds(m, o)' => Holds(m, o)
  BY <1>8
<1>11. \A o \in Objects \ stray' : \A m \in G : Holds(m, o)' => \E g \in G : Holds(g, o)
  BY <1>1, <1>5, <1>6, <1>7
<1>12. \A o \in Objects \ stray' : \A a, b \in G : Holds(a, o)' /\ Holds(b, o)' => a = b
  <2>1. ASSUME NEW o, NEW a \in G
        PROVE  /\ a = n => (Holds(a, o)' => o \notin lnames \cup rnames)
               /\ a = l => (Holds(a, o)' => o \in lnames)
               /\ a = r => (Holds(a, o)' => o \in rnames)
    BY <1>1, <1>5, <1>7
  <2> QED
    BY <1>1, <2>1
<1> QED
  BY <1>0, <1>9, <1>10, <1>11, <1>12, OwnerFrom

\* Branches of n are merged or lost; the others go on as they are.
Joins(n) ==
    /\ br[n].fork # 0 /\ br'[n].fork \in {0, br[n].fork}
    /\ stray \subseteq stray' /\ Pending(n) /\ Pending(n)'
    /\ br'[n].names = br[n].names /\ br'[n].base = br[n].base
    /\ \A m \in Nodes \ (Children(n) \cup {n}) :
            br'[m] = br[m] /\ Pending(m)' = Pending(m)
    /\ \A c \in Children(n) :
            \/ ~Pending(c)' /\ (Pending(c) => status[c] \in {"finished", "stashed"})
            \/ /\ br'[n].fork = br[n].fork /\ Pending(c) /\ Pending(c)'
               /\ br'[c] = br[c]
            \/ Objects \cap br[c].names \subseteq stray' /\ br'[c].names = br[c].names

LEMMA JoinBelow ==
    ASSUME StructInv, NEW n \in Nodes, Joins(n), NEW m \in Nodes \ {n},
           br'[m] = br[m], Pending(m)' = Pending(m)
    PROVE  /\ Children(m)' = Children(m) /\ Children(m) \subseteq Nodes
           /\ \A d \in Children(m) : /\ Pending(d)' = Pending(d)
                                      /\ br'[d].names = br[d].names
                                      /\ br'[d].base = br[d].base
           /\ \A o : Holds(m, o)' <=> Holds(m, o)
<1>1. Children(m)' = Children(m)
  BY DEF Children, Left, Right
<1>2. Children(m) \subseteq Nodes /\ Children(m) \cap Children(n) = {}
  <2>1. CASE br[m].fork = 0
    BY <2>1, NoKids
  <2>2. CASE br[m].fork # 0
    <3>1. /\ Children(m) = {Left(m), Right(m)} /\ Children(m) \subseteq Nodes
          /\ Children(n) = {Left(n), Right(n)} /\ br[n].fork # 0
      BY <2>2, KidFacts DEF Joins
    <3>2. {Left(m), Right(m)} \cap {Left(n), Right(n)} = {}
      BY <2>2, <3>1, KidsApart
    <3> QED
      BY <3>1, <3>2
  <2> QED
    BY <2>1, <2>2
<1>3. \A d \in Children(m) : /\ Pending(d)' = Pending(d)
                             /\ br'[d].names = br[d].names
                             /\ br'[d].base = br[d].base
  <2>1. TAKE d \in Children(m)
  <2>2. CASE d = n
    BY <2>2 DEF Joins
  <2>3. CASE d # n
    BY <1>2, <2>3 DEF Joins
  <2> QED
    BY <2>2, <2>3
<1>4. \A o : Holds(m, o)' <=> Holds(m, o)
  BY <1>1, <1>3 DEF Holds
<1> QED
  BY <1>1, <1>2, <1>3, <1>4

\* What the branches that are merged hold becomes what n holds.
LEMMA JoinOwner ==
    ASSUME StructInv, StructInv', OwnerInv, NEW n \in Nodes, Joins(n)
    PROVE  OwnerInv'
<1> DEFINE G == Children(n) \cup {n}
<1>0. br[n].fork # 0
  BY DEF Joins
<1>1. Children(n) \in SUBSET Nodes /\ Children(n) = {Left(n), Right(n)} /\ n \notin Children(n)
  BY <1>0, KidFacts
<1>3. ASSUME NEW m \in Nodes \ G, NEW o, Holds(m, o)' PROVE Holds(m, o)
  BY <1>3, JoinBelow DEF Joins
<1>4. ASSUME NEW o \in Objects \ stray', NEW c \in Children(n), Holds(c, o)'
      PROVE  /\ br'[n].fork = br[n].fork /\ Pending(c) /\ Pending(c)'
             /\ br'[c] = br[c] /\ o \in br[c].names
  <2>1. \/ ~Pending(c)' /\ (Pending(c) => status[c] \in {"finished", "stashed"})
        \/ /\ br'[n].fork = br[n].fork /\ Pending(c) /\ Pending(c)' /\ br'[c] = br[c]
        \/ Objects \cap br[c].names \subseteq stray' /\ br'[c].names = br[c].names
    BY DEF Joins
  <2>2. Pending(c)' /\ o \in br'[c].names /\ o \in Objects /\ o \notin stray'
    BY <1>4 DEF Holds
  <2> QED
    BY <2>1, <2>2
<1>5. ASSUME NEW o \in Objects \ stray', NEW c \in Children(n), Holds(c, o)'
      PROVE  Holds(c, o)
  <2>1. c \in Nodes \ {n} /\ br'[c] = br[c] /\ Pending(c) /\ Pending(c)'
    BY <1>1, <1>4, <1>5
  <2>2. Pending(c)' = Pending(c)
    BY <2>1 DEF Pending
  <2> QED
    BY <1>5, <2>1, <2>2, JoinBelow
<1>6. ASSUME NEW o \in Objects \ stray', Holds(n, o)'
      PROVE  \E g \in G : Holds(g, o)
  <2>1. CASE \E c \in Children(n) : Pending(c) /\ o \in br[c].names
    <3>1. PICK c \in Children(n) : Pending(c) /\ o \in br[c].names
      BY <2>1
    <3>2. status[c] \in {"finished", "stashed"}
      <4>1. CASE /\ br'[n].fork = br[n].fork /\ Pending(c) /\ Pending(c)'
                 /\ br'[c] = br[c]
        <5>1. c \in Children(n)'
          <6>1. br'[n].fork # 0
            BY <1>0, <4>1
          <6>2. Children(n)' = {Left(n)', Right(n)'}
            BY <6>1 DEF Children, StructInv, BranchInv, ShapeOf
          <6>3. Left(n)' = Left(n) /\ Right(n)' = Right(n)
            BY <4>1 DEF Left, Right
          <6> QED
            BY <1>1, <3>1, <6>2, <6>3
        <5> QED
          BY <1>6, <3>1, <4>1, <5>1 DEF Holds
      <4>2. CASE Objects \cap br[c].names \subseteq stray'
        BY <3>1, <4>2
      <4> QED
        BY <3>1, <4>1, <4>2 DEF Joins
    <3>3. Holds(c, o)
      BY <1>1, <3>1, <3>2, OverHolds
    <3> QED
      BY <3>1, <3>3
  <2>2. CASE ~ \E c \in Children(n) : Pending(c) /\ o \in br[c].names
    <3>1. Holds(n, o)
      BY <1>6, <2>2 DEF Holds, Joins
    <3> QED
      BY <3>1
  <2> QED
    BY <2>1, <2>2
<1>7. ASSUME NEW o \in Objects \ stray', NEW a \in G, NEW b \in G,
             Holds(a, o)', Holds(b, o)'
      PROVE  a = b
  <2>1. ASSUME NEW c \in Children(n), Holds(c, o)' PROVE ~Holds(n, o)'
    <3>1. /\ br'[n].fork = br[n].fork /\ Pending(c)' /\ o \in br'[c].names
      BY <1>4, <2>1
    <3>2. Children(n)' = {Left(n)', Right(n)'}
      BY <1>0, <3>1 DEF Children, StructInv, BranchInv, ShapeOf
    <3>3. Left(n)' = Left(n) /\ Right(n)' = Right(n)
      BY <3>1 DEF Left, Right
    <3> QED
      BY <1>1, <3>1, <3>2, <3>3 DEF Holds
  <2>2. CASE a \in Children(n) /\ b \in Children(n)
    <3>1. Holds(a, o) /\ Holds(b, o)
      BY <1>5, <1>7, <2>2
    <3>2. a \in Nodes /\ b \in Nodes /\ o \in Objects \ stray
      BY <1>1, <2>2 DEF Joins
    <3> QED
      BY <3>1, <3>2 DEF OwnerInv
  <2> QED
    BY <1>7, <2>1, <2>2
<1>8. stray \subseteq stray' /\ G \in SUBSET Nodes
  BY <1>1 DEF Joins
<1>9. \A o \in Objects \ stray' : \A m \in Nodes \ G : Holds(m, o)' => Holds(m, o)
  BY <1>3
<1>10. \A o \in Objects \ stray' : \A m \in G : Holds(m, o)' => \E g \in G : Holds(g, o)
  BY <1>5, <1>6
<1>11. \A o \in Objects \ stray' : \A a, b \in G : Holds(a, o)' /\ Holds(b, o)' => a = b
  BY <1>7
<1> HIDE DEF G
<1> QED
  BY <1>8, <1>9, <1>10, <1>11, OwnerFrom

-----------------------------------------------------------------------------
(* What the undo stacks lead back to *)

\* No undo of o in s above m; the oldest one there takes o back to v.
Free(s, o, m) == \A i \in m + 1 .. Len(s) : s[i].obj # o

Gives(s, o, m, v) ==
    \A i \in m + 1 .. Len(s) :
        s[i].obj = o /\ (\A j \in m + 1 .. i - 1 : s[j].obj # o) => s[i].old = v

LEMMA GivesJoin ==
    ASSUME NEW s \in Seq(Undos), NEW t \in Seq(Undos), NEW m \in 0 .. Len(s),
           NEW o, NEW v, Gives(s, o, m, v), Free(s, o, m) => Gives(t, o, 0, v)
    PROVE  Gives(s \o t, o, m, v)
<1> DEFINE j == s \o t
<1>1. /\ Len(s) \in Nat /\ Len(t) \in Nat /\ m \in Nat /\ m <= Len(s)
      /\ Len(j) = Len(s) + Len(t)
      /\ \A i \in 1 .. Len(s) : j[i] = s[i]
      /\ \A i \in 1 .. Len(t) : j[Len(s) + i] = t[i]
  BY JoinProperties
<1> HIDE DEF j
<1>2. ASSUME NEW i \in m + 1 .. Len(j), j[i].obj = o,
             \A k \in m + 1 .. i - 1 : j[k].obj # o
      PROVE  j[i].old = v
  <2>1. CASE i <= Len(s)
    <3>1. i \in m + 1 .. Len(s) /\ i \in 1 .. Len(s)
      BY <1>1, <2>1
    <3>2. j[i] = s[i] /\ \A k \in m + 1 .. i - 1 : k \in 1 .. Len(s) /\ j[k] = s[k]
      BY <1>1, <3>1
    <3> QED
      BY <1>2, <3>1, <3>2 DEF Gives
  <2>2. CASE i > Len(s)
    <3>1. Free(s, o, m)
      <4>1. \A k \in m + 1 .. Len(s) :
              k \in 1 .. Len(s) /\ k \in m + 1 .. i - 1 /\ j[k] = s[k]
        BY <1>1, <2>2
      <4> QED
        BY <1>2, <4>1 DEF Free
    <3>2. /\ i - Len(s) \in 0 + 1 .. Len(t) /\ i - Len(s) \in 1 .. Len(t)
          /\ Len(s) + (i - Len(s)) = i
      BY <1>1, <2>2
    <3>3. j[i] = t[i - Len(s)]
      BY <1>1, <3>2
    <3>4. \A k \in 0 + 1 .. i - Len(s) - 1 :
            /\ k \in 1 .. Len(t) /\ Len(s) + k \in m + 1 .. i - 1 /\ j[Len(s) + k] = t[k]
      BY <1>1, <3>2
    <3>5. \A k \in 0 + 1 .. (i - Len(s)) - 1 : t[k].obj # o
      BY <1>2, <3>4
    <3> QED
      BY <1>2, <3>1, <3>2, <3>3, <3>5 DEF Gives
  <2> QED
    BY <1>1, <2>1, <2>2
<1> QED
  BY <1>2 DEF Gives, j

LEMMA FreeJoin ==
    ASSUME NEW s \in Seq(Undos), NEW t \in Seq(Undos), NEW m \in 0 .. Len(s),
           NEW o, Free(s \o t, o, m)
    PROVE  Free(s, o, m) /\ Free(t, o, 0)
<1> DEFINE j == s \o t
<1>1. /\ Len(s) \in Nat /\ Len(t) \in Nat /\ m \in Nat /\ m <= Len(s)
      /\ Len(j) = Len(s) + Len(t)
      /\ \A i \in 1 .. Len(s) : j[i] = s[i]
      /\ \A i \in 1 .. Len(t) : j[Len(s) + i] = t[i]
  BY JoinProperties
<1>2. \A i \in m + 1 .. Len(j) : j[i].obj # o
  BY DEF Free
<1> HIDE DEF j
<1>3. ASSUME NEW i \in m + 1 .. Len(s) PROVE s[i].obj # o
  <2>1. i \in m + 1 .. Len(j) /\ i \in 1 .. Len(s)
    BY <1>1
  <2> QED
    BY <1>1, <1>2, <2>1
<1>4. ASSUME NEW i \in 0 + 1 .. Len(t) PROVE t[i].obj # o
  <2>1. Len(s) + i \in m + 1 .. Len(j) /\ i \in 1 .. Len(t)
    BY <1>1
  <2> QED
    BY <1>1, <1>2, <2>1
<1> QED
  BY <1>3, <1>4 DEF Free

\* One more undo.
LEMMA GivesPush ==
    ASSUME NEW s \in Seq(Undos), NEW u \in Undos, NEW m \in 0 .. Len(s), NEW o, NEW v,
           Gives(s, o, m, v), u.obj = o /\ Free(s, o, m) => u.old = v
    PROVE  /\ Gives(Append(s, u), o, m, v)
           /\ Free(Append(s, u), o, m) => Free(s, o, m) /\ u.obj # o
<1> DEFINE p == Append(s, u)
<1>1. /\ Len(s) \in Nat /\ m \in Nat /\ m <= Len(s) /\ Len(p) = Len(s) + 1
      /\ \A i \in 1 .. Len(s) : p[i] = s[i]
      /\ p[Len(s) + 1] = u
  BY PushProperties
<1> HIDE DEF p
<1>2. ASSUME NEW i \in m + 1 .. Len(p), p[i].obj = o,
             \A k \in m + 1 .. i - 1 : p[k].obj # o
      PROVE  p[i].old = v
  <2>1. CASE i <= Len(s)
    <3>1. i \in m + 1 .. Len(s) /\ i \in 1 .. Len(s)
      BY <1>1, <2>1
    <3>2. p[i] = s[i] /\ \A k \in m + 1 .. i - 1 : k \in 1 .. Len(s) /\ p[k] = s[k]
      BY <1>1, <3>1
    <3> QED
      BY <1>2, <3>1, <3>2 DEF Gives
  <2>2. CASE i = Len(s) + 1
    <3>1. \A k \in m + 1 .. Len(s) : k \in 1 .. Len(s) /\ k \in m + 1 .. i - 1 /\ p[k] = s[k]
      BY <1>1, <2>2
    <3>2. Free(s, o, m)
      BY <1>2, <3>1 DEF Free
    <3> QED
      BY <1>1, <1>2, <2>2, <3>2
  <2> QED
    BY <1>1, <2>1, <2>2
<1>3. ASSUME \A i \in m + 1 .. Len(p) : p[i].obj # o
      PROVE  Free(s, o, m) /\ u.obj # o
  <2>1. \A k \in m + 1 .. Len(s) : k \in 1 .. Len(s) /\ k \in m + 1 .. Len(p) /\ p[k] = s[k]
    BY <1>1
  <2>2. Len(s) + 1 \in m + 1 .. Len(p)
    BY <1>1
  <2> QED
    BY <1>1, <1>3, <2>1, <2>2 DEF Free
<1> QED
  BY <1>2, <1>3 DEF Gives, Free, p

\* One less.
LEMMA GivesPop ==
    ASSUME NEW s \in Seq(Undos), NEW m \in Nat, NEW o, NEW v, Len(s) > m,
           Gives(s, o, m, v)
    PROVE  LET p == SubSeq(s, 1, Len(s) - 1) IN
           /\ Gives(p, o, m, v)
           /\ Free(p, o, m) => IF s[Len(s)].obj = o THEN s[Len(s)].old = v
                               ELSE Free(s, o, m)
<1> DEFINE p == SubSeq(s, 1, Len(s) - 1)
<1>1. Len(s) \in Nat /\ Len(s) - 1 \in 0 .. Len(s)
  OBVIOUS
<1>2. Len(p) = Len(s) - 1 /\ \A i \in 1 .. Len(s) - 1 : p[i] = s[i]
  BY <1>1, CutProperties
<1> HIDE DEF p
<1>3. Gives(p, o, m, v)
  <2>1. ASSUME NEW i \in m + 1 .. Len(p), p[i].obj = o,
               \A k \in m + 1 .. i - 1 : p[k].obj # o
        PROVE  p[i].old = v
    <3>1. /\ i \in m + 1 .. Len(s) /\ p[i] = s[i]
          /\ \A k \in m + 1 .. i - 1 : p[k] = s[k]
      BY <1>1, <1>2
    <3> QED
      BY <2>1, <3>1 DEF Gives
  <2> QED
    BY <2>1 DEF Gives
<1>4. ASSUME Free(p, o, m)
      PROVE  IF s[Len(s)].obj = o THEN s[Len(s)].old = v ELSE Free(s, o, m)
  <2>1. \A k \in m + 1 .. Len(s) - 1 : s[k].obj # o
    <3>1. \A k \in m + 1 .. Len(s) - 1 : k \in m + 1 .. Len(p) /\ p[k] = s[k]
      BY <1>1, <1>2
    <3> QED
      BY <1>4, <3>1 DEF Free
  <2>2. Len(s) \in m + 1 .. Len(s)
    BY <1>1
  <2>3. \A k \in m + 1 .. Len(s) : k \in m + 1 .. Len(s) - 1 \/ k = Len(s)
    BY <1>1
  <2>4. CASE s[Len(s)].obj = o
    BY <2>1, <2>2, <2>4 DEF Gives
  <2>5. CASE s[Len(s)].obj # o
    BY <2>1, <2>3, <2>5 DEF Free
  <2> QED
    BY <2>4, <2>5
<1> QED
  BY <1>3, <1>4 DEF p

\* The task that changes o finds it at v; so does the branch it goes to next.
Now(n, o, v) ==
    /\ \A u \in br[n].popped : u.obj = o => u.old = v
    /\ (\A u \in br[n].popped : u.obj # o) =>
         /\ Holds(n, o) => world[o] = v
         /\ \A c \in Children(n) :
                Pending(c) /\ o \in br[c].names => br[c].base[o] = v

Leads(n, o, m, v) ==
    /\ Gives(br[n].undo, o, m, v)
    /\ Free(br[n].undo, o, m) => Now(n, o, v)

\* The marks of n, each with the world that was found there.
Claims(n) ==
    {<<0, br[n].base>>} \cup
    {<<br[n].stack[t].mark, br[n].stack[t].world>> : t \in Timeouts(n)}

LeadsInv ==
    \A n \in Nodes : Pending(n) =>
        \A o \in (Objects \cap br[n].names) \ stray : \A c \in Claims(n) :
            Leads(n, o, c[1], c[2][o])

LEMMA LeadsSame ==
    ASSUME NEW m \in Nodes, NEW o, NEW k, NEW v, Leads(m, o, k, v),
           br'[m].undo = br[m].undo, br'[m].popped = br[m].popped,
           Holds(m, o)' => Holds(m, o) /\ world'[o] = world[o],
           \A c \in Children(m)' : Pending(c)' /\ o \in br'[c].names =>
                /\ c \in Children(m) /\ Pending(c)
                /\ o \in br[c].names /\ br'[c].base = br[c].base
    PROVE  Leads(m, o, k, v)'
<1>1. Now(m, o, v) => Now(m, o, v)'
  BY DEF Now
<1> QED
  BY <1>1 DEF Leads

LEMMA ClaimsBelow ==
    ASSUME StructInv, NEW n \in Nodes, NEW c \in Claims(n)
    PROVE  c[1] \in 0 .. Len(br[n].undo) /\ c[1] \in Nat
<1>1. TypeOK /\ MarksOf(n)
  BY DEF StructInv, BranchInv
<1>2. \A t \in Timeouts(n) : t \in 1 .. Depth(n)
  BY <1>1, Fields DEF Timeouts
<1>3. \A t \in Timeouts(n) : br[n].stack[t].mark \in 0 .. Len(br[n].undo)
  <2>1. TAKE t \in Timeouts(n)
  <2>2. br[n].stack[t].mark \in Nat /\ br[n].stack[t].mark <= Len(br[n].undo)
    BY <1>1, <1>2, Fields DEF MarksOf, Frames
  <2> QED
    BY <1>1, <2>2, Fields
<1>4. Len(br[n].undo) \in Nat
  BY <1>1, Fields
<1> QED
  BY <1>3, <1>4 DEF Claims

\* No frame is opened.
LEMMA ClaimsCut ==
    ASSUME StructInv, br' \in [Nodes -> Branches], NEW n \in Nodes,
           br'[n].base = br[n].base,
           br'[n].stack = br[n].stack
             \/ \E d \in 0 .. Depth(n) : br'[n].stack = Cut(n, d)
    PROVE  Claims(n)' \subseteq Claims(n)
<1>1. TypeOK
  BY DEF StructInv
<1>2. CASE br'[n].stack = br[n].stack
  BY <1>2 DEF Claims, Timeouts
<1>3. ASSUME NEW d \in 0 .. Depth(n), br'[n].stack = Cut(n, d)
      PROVE  Claims(n)' \subseteq Claims(n)
  <2>1. /\ DOMAIN br'[n].stack = 1 .. d /\ DOMAIN br[n].stack = 1 .. Depth(n)
        /\ \A t \in 1 .. d : t \in 1 .. Depth(n) /\ br'[n].stack[t] = br[n].stack[t]
    BY <1>1, <1>3, CutTypes, Fields
  <2>2. \A t \in Timeouts(n)' :
          t \in Timeouts(n) /\ br'[n].stack[t] = br[n].stack[t]
    BY <2>1 DEF Timeouts
  <2> QED
    BY <2>2 DEF Claims
<1> QED
  BY <1>2, <1>3

\* A step of n alone.
LEMMA StillLeads ==
    ASSUME StructInv, StructInv', Still, OwnerInv, LeadsInv, NEW n \in Nodes,
           \A m \in Nodes \ {n} : br'[m] = br[m],
           \A o \in Objects \ stray' : world'[o] # world[o] => Holds(n, o),
           Pending(n) => \A o \in (Objects \cap br[n].names) \ stray' :
                \A c \in Claims(n)' : Leads(n, o, c[1], c[2][o])'
    PROVE  LeadsInv'
<1>1. ASSUME NEW m \in Nodes \ {n}, Pending(m)', NEW o \in (Objects \cap br'[m].names) \ stray',
             NEW c \in Claims(m)'
      PROVE  Leads(m, o, c[1], c[2][o])'
  <2>1. Claims(m)' = Claims(m)
    BY DEF Claims, Timeouts
  <2>2. Leads(m, o, c[1], c[2][o])
    BY <1>1, <2>1 DEF LeadsInv, Still
  <2>3. Holds(m, o)' => Holds(m, o) /\ world'[o] = world[o]
    <3>1. Holds(m, o)' = Holds(m, o)
      BY StillHolds
    <3>2. o \in Objects \ stray /\ o \in Objects \ stray'
      BY DEF Still
    <3> QED
      BY <3>1, <3>2 DEF OwnerInv
  <2>4. /\ Children(m)' = Children(m) /\ Children(m) \subseteq Nodes
        /\ \A d \in Nodes : /\ Pending(d)' = Pending(d) /\ br'[d].names = br[d].names
                            /\ br'[d].base = br[d].base
    BY StillChildren, KidFacts, NoKids DEF Still
  <2>5. br'[m].undo = br[m].undo /\ br'[m].popped = br[m].popped
    BY <1>1
  <2>6. \A d \in Children(m)' : Pending(d)' /\ o \in br'[d].names =>
            /\ d \in Children(m) /\ Pending(d)
            /\ o \in br[d].names /\ br'[d].base = br[d].base
    BY <2>4
  <2> DEFINE k == c[1]
             v == c[2][o]
  <2> HIDE DEF k, v
  <2>7. ASSUME NEW kk, NEW vv, Leads(m, o, kk, vv) PROVE Leads(m, o, kk, vv)'
    BY <2>3, <2>5, <2>6, <2>7, LeadsSame
  <2> QED
    BY <2>2, <2>7
<1>2. ASSUME Pending(n)', NEW o \in (Objects \cap br'[n].names) \ stray', NEW c \in Claims(n)'
      PROVE  Leads(n, o, c[1], c[2][o])'
  BY <1>2 DEF Still
<1> QED
  BY <1>1, <1>2 DEF LeadsInv

\* A step that changes neither the undo stacks nor what the tasks see.
LEMMA QuietLeads ==
    ASSUME StructInv, StructInv', Still, OwnerInv, LeadsInv, NEW n \in Nodes,
           UNCHANGED world, \A m \in Nodes \ {n} : br'[m] = br[m],
           br'[n].undo = br[n].undo, br'[n].popped = br[n].popped,
           br'[n].stack = br[n].stack
             \/ \E d \in 0 .. Depth(n) : br'[n].stack = Cut(n, d)
    PROVE  LeadsInv'
<1>1. Claims(n)' \subseteq Claims(n)
  BY ClaimsCut DEF Still, StructInv, TypeOK
<1>2. ASSUME Pending(n), NEW o \in (Objects \cap br[n].names) \ stray', NEW c \in Claims(n)'
      PROVE  Leads(n, o, c[1], c[2][o])'
  <2>1. Leads(n, o, c[1], c[2][o])
    BY <1>1, <1>2 DEF LeadsInv, Still
  <2>2. Holds(n, o)' => Holds(n, o) /\ world'[o] = world[o]
    BY StillHolds
  <2>3. /\ Children(n)' = Children(n) /\ Children(n) \subseteq Nodes
        /\ \A d \in Nodes : /\ Pending(d)' = Pending(d) /\ br'[d].names = br[d].names
                            /\ br'[d].base = br[d].base
    BY StillChildren, KidFacts, NoKids DEF Still
  <2>4. \A d \in Children(n)' : Pending(d)' /\ o \in br'[d].names =>
            /\ d \in Children(n) /\ Pending(d)
            /\ o \in br[d].names /\ br'[d].base = br[d].base
    BY <2>3
  <2>5. ASSUME NEW kk, NEW vv, Leads(n, o, kk, vv) PROVE Leads(n, o, kk, vv)'
    BY <2>2, <2>4, <2>5, LeadsSame
  <2> QED
    BY <2>1, <2>5
<1> QED
  BY <1>2, StillLeads

-----------------------------------------------------------------------------
(* Every step keeps both *)

LEMMA StillFrom ==
    ASSUME NEW n \in Nodes, UNCHANGED status, stray \subseteq stray',
           NEW stack, NEW mode, NEW undo, NEW call, NEW popped,
           Becomes(n, stack, mode, undo, call, popped, br[n].fork)
    PROVE  Still /\ \A m \in Nodes \ {n} : br'[m] = br[m]
  BY DEF Still, Pending, Becomes, Turns

LEMMA QuietStep ==
    ASSUME StructInv, StructInv', OwnerInv, LeadsInv, NEW n \in Nodes,
           UNCHANGED <<status, stray, world>>, NEW stack, NEW mode, NEW call,
           stack = br[n].stack \/ \E d \in 0 .. Depth(n) : stack = Cut(n, d),
           Becomes(n, stack, mode, br[n].undo, call, br[n].popped, br[n].fork)
    PROVE  OwnerInv' /\ LeadsInv'
<1>1. Still /\ \A m \in Nodes \ {n} : br'[m] = br[m]
  BY StillFrom
<1>2. br'[n].stack = stack /\ br'[n].undo = br[n].undo /\ br'[n].popped = br[n].popped
  BY DEF Becomes, Turns
<1> QED
  BY <1>1, <1>2, StillOwner, QuietLeads

LEMMA QuietSteps ==
    ASSUME StructInv, StructInv', OwnerInv, LeadsInv, NEW n \in Nodes,
           \/ Cancel(n) \/ Unwind(n) \/ RollbackDone(n) \/ Fail(n)
           \/ (n = Root /\ Report)
           \/ \E o \in Objects : Call(n, o)
    PROVE  OwnerInv' /\ LeadsInv'
<1>0. TypeOK
  BY DEF StructInv
<1>1. UNCHANGED <<status, stray, world>>
  BY DEF Cancel, Unwind, RollbackDone, Fail, Report, Call, history
<1>2. CASE Cancel(n) \/ (n = Root /\ Report)
  <2>1. \E mode \in Modes :
          Becomes(n, br[n].stack, mode, br[n].undo, br[n].call, br[n].popped, br[n].fork)
    BY <1>0, <1>2, ModeShape DEF Cancel, Report, Modes
  <2> QED
    BY <1>1, <2>1, QuietStep
<1>3. CASE Fail(n)
  BY <1>0, <1>1, <1>3, FailShape, QuietStep
<1>4. CASE \E o \in Objects : Call(n, o)
  BY <1>0, <1>1, <1>4, CallShape, QuietStep
<1>5. CASE Unwind(n)
  <2>1. Depth(n) - 1 \in 0 .. Depth(n)
    BY <1>0, <1>5, UnwindShape, TopTypes
  <2> QED
    BY <1>0, <1>1, <1>5, <2>1, UnwindShape, QuietStep
<1>6. CASE RollbackDone(n)
  <2>1. Depth(n) - 1 \in 0 .. Depth(n)
    BY <1>0, <1>6, RollbackDoneShape, TopTypes
  <2> QED
    BY <1>0, <1>1, <1>6, <2>1, RollbackDoneShape, QuietStep
<1> QED
  BY <1>2, <1>3, <1>4, <1>5, <1>6

\* Stash, Fire, and a branch that is done: nothing of any task changes.
LEMMA SameSteps ==
    ASSUME StructInv, StructInv', OwnerInv, LeadsInv, UNCHANGED <<br, stray, world>>,
           \A m \in Nodes : Pending(m)' = Pending(m)
    PROVE  OwnerInv' /\ LeadsInv'
<1>1. Still
  BY DEF Still
<1>2. Root \in Nodes
  BY NodeFacts
<1> QED
  BY <1>1, <1>2, StillOwner, QuietLeads

LEMMA EnterLeads ==
    ASSUME StructInv, StructInv', OwnerInv, LeadsInv, NEW n \in Nodes,
           NEW kind \in Kinds, NEW key \in Keys \cup {NoKey}, Enter(n, kind, key)
    PROVE  OwnerInv' /\ LeadsInv'
<1> DEFINE f == Frame(n, kind, key)
           len == Len(br[n].undo)
<1>0. TypeOK
  BY DEF StructInv
<1>1. /\ f \in Frames
      /\ Becomes(n, Append(br[n].stack, f), br[n].mode, br[n].undo, br[n].call,
                 br[n].popped, br[n].fork)
  BY <1>0, EnterShape
<1>2. UNCHANGED <<status, stray, world>> /\ br[n].mode = "run"
  BY DEF Enter, history, Ready
<1>3. Still /\ \A m \in Nodes \ {n} : br'[m] = br[m]
  BY <1>1, <1>2, StillFrom
<1>4. f.mark = len /\ (f.kind = "timeout" => f.world = world)
  BY DEF Frame
<1> HIDE DEF f
<1>5. Claims(n)' \subseteq Claims(n) \cup {<<len, world>>}
  <2>1. /\ br'[n].stack = Append(br[n].stack, f) /\ br'[n].base = br[n].base
        /\ DOMAIN br'[n].stack = 1 .. Depth(n) + 1
        /\ \A t \in 1 .. Depth(n) : br'[n].stack[t] = br[n].stack[t]
        /\ br'[n].stack[Depth(n) + 1] = f /\ Depth(n) \in Nat
        /\ DOMAIN br[n].stack = 1 .. Depth(n)
    BY <1>0, <1>1, Fields, PushProperties DEF Becomes, Turns, Depth
  <2>2. ASSUME NEW t \in Timeouts(n)'
        PROVE  \/ t \in Timeouts(n) /\ br'[n].stack[t] = br[n].stack[t]
               \/ br'[n].stack[t] = f /\ f.kind = "timeout"
    <3>1. t \in 1 .. Depth(n) + 1 /\ br'[n].stack[t].kind = "timeout"
      BY <2>1 DEF Timeouts
    <3>2. t \in 1 .. Depth(n) \/ t = Depth(n) + 1
      BY <2>1, <3>1
    <3> QED
      BY <2>1, <3>1, <3>2 DEF Timeouts
  <2> QED
    BY <1>4, <2>1, <2>2 DEF Claims
<1>6. br'[n].undo = br[n].undo /\ br'[n].popped = br[n].popped /\ br[n].popped = {}
      /\ Children(n) = {} /\ Children(n)' = {}
  <2>1. br'[n].undo = br[n].undo /\ br'[n].popped = br[n].popped /\ br'[n].mode = "run"
    BY <1>1, <1>2 DEF Becomes, Turns
  <2> QED
    BY <1>2, <2>1 DEF StructInv, BranchInv, ShapeOf, Children
<1>7. ASSUME Pending(n), NEW o \in (Objects \cap br[n].names) \ stray', NEW c \in Claims(n)'
      PROVE  Leads(n, o, c[1], c[2][o])'
  <2>1. CASE c \in Claims(n)
    <3>1. Leads(n, o, c[1], c[2][o])
      BY <1>2, <1>7, <2>1 DEF LeadsInv
    <3>2. Holds(n, o)' => Holds(n, o) /\ world'[o] = world[o]
      BY <1>2, <1>3, StillHolds
    <3>3. ASSUME NEW kk, NEW vv, Leads(n, o, kk, vv) PROVE Leads(n, o, kk, vv)'
      BY <1>6, <3>2, <3>3, LeadsSame
    <3> QED
      BY <3>1, <3>3
  <2>2. CASE c = <<len, world>>
    <3>1. c[1] = len /\ c[2][o] = world[o]
      BY <2>2
    <3>2. len \in Nat /\ \A i \in len + 1 .. len : FALSE
      BY <1>0, Fields
    <3>3. Gives(br'[n].undo, o, c[1], c[2][o])
      BY <1>6, <3>1, <3>2 DEF Gives
    <3>4. Now(n, o, c[2][o])'
      BY <1>2, <1>6, <3>1 DEF Now
    <3> QED
      BY <3>3, <3>4 DEF Leads
  <2> QED
    BY <1>5, <2>1, <2>2
<1>8. LeadsInv'
  BY <1>2, <1>3, <1>7, StillLeads
<1> QED
  BY <1>3, <1>8, StillOwner

\* A segment is committed: its undo is of no object.
LEMMA ReturnLeads ==
    ASSUME StructInv, StructInv', OwnerInv, LeadsInv, NEW n \in Nodes, Return(n)
    PROVE  OwnerInv' /\ LeadsInv'
<1>0. TypeOK
  BY DEF StructInv
<1>1. /\ Depth(n) > 0
      /\ Becomes(n, Cut(n, Depth(n) - 1), br[n].mode, Returned(n), br[n].call,
                 br[n].popped, br[n].fork)
  BY <1>0, ReturnShape
<1>2. UNCHANGED <<status, stray, world>> /\ br[n].mode = "run"
  BY DEF Return, Ready
<1>3. Still /\ \A m \in Nodes \ {n} : br'[m] = br[m]
  BY <1>1, <1>2, StillFrom
<1>4. Claims(n)' \subseteq Claims(n)
  <2>1. Depth(n) - 1 \in 0 .. Depth(n)
    BY <1>0, <1>1, TopTypes
  <2> QED
    BY <1>1, <2>1, ClaimsCut DEF Becomes, Turns
<1>5. br'[n].undo = Returned(n) /\ br'[n].popped = br[n].popped
      /\ Children(n) = {} /\ Children(n)' = {}
  <2>1. br'[n].undo = Returned(n) /\ br'[n].popped = br[n].popped /\ br'[n].mode = "run"
    BY <1>1, <1>2 DEF Becomes, Turns
  <2> QED
    BY <1>2, <2>1 DEF Children
<1>6. ASSUME Pending(n), NEW o \in (Objects \cap br[n].names) \ stray', NEW c \in Claims(n)'
      PROVE  Leads(n, o, c[1], c[2][o])'
  <2>1. Leads(n, o, c[1], c[2][o])
    BY <1>2, <1>4, <1>6 DEF LeadsInv
  <2>2. Holds(n, o)' => Holds(n, o) /\ world'[o] = world[o]
    BY <1>2, <1>3, StillHolds
  <2>3. Now(n, o, c[2][o]) => Now(n, o, c[2][o])'
    <3>1. ASSUME NEW vv, Now(n, o, vv) PROVE Now(n, o, vv)'
      BY <1>5, <2>2, <3>1 DEF Now
    <3> QED
      BY <3>1
  <2>4. CASE Returned(n) = br[n].undo
    BY <1>5, <2>1, <2>3, <2>4 DEF Leads
  <2>5. CASE Returned(n) = Append(br[n].undo, Revert(Top(n).key))
    <3>1. /\ Revert(Top(n).key) \in Undos /\ Revert(Top(n).key).obj # o
      <4>1. Top(n).key \in Keys \cup {NoKey}
        BY <1>0, <1>1, TopTypes
      <4>2. Revert(Top(n).key) \in Undos /\ Revert(Top(n).key).obj = NoObject
        BY <4>1, RevertTypes
      <4> QED
        BY <4>2, SentinelAssumption
    <3>2. c[1] \in 0 .. Len(br[n].undo) /\ br[n].undo \in Seq(Undos)
      BY <1>0, <1>4, ClaimsBelow, Fields
    <3>3. /\ Gives(Append(br[n].undo, Revert(Top(n).key)), o, c[1], c[2][o])
          /\ Free(Append(br[n].undo, Revert(Top(n).key)), o, c[1])
               => Free(br[n].undo, o, c[1])
      <4>1. Gives(br[n].undo, o, c[1], c[2][o])
        BY <2>1 DEF Leads
      <4> QED
        BY <3>1, <3>2, <4>1, GivesPush
    <3> QED
      BY <1>5, <2>1, <2>3, <2>5, <3>3 DEF Leads
  <2> QED
    BY <2>4, <2>5 DEF Returned
<1>7. LeadsInv'
  BY <1>2, <1>3, <1>6, StillLeads
<1> QED
  BY <1>3, <1>7, StillOwner

LEMMA SucceedLeads ==
    ASSUME StructInv, StructInv', OwnerInv, LeadsInv, NEW n \in Nodes, Succeed(n)
    PROVE  OwnerInv' /\ LeadsInv'
<1> DEFINE p == br[n].call.obj
           u == Inverse(br[n].call)
<1>0. TypeOK /\ ShapeOf(n)
  BY DEF StructInv, BranchInv
<1>1. /\ br[n].mode = "io" /\ Live(n) /\ UNCHANGED <<status, stray>>
      /\ world' = [world EXCEPT ![p] = br[n].call.op]
  BY DEF Succeed, Awaits, Effect, history
<1>2. p \in Objects /\ p \in br[n].names /\ br[n].popped = {}
  BY <1>0, <1>1 DEF ShapeOf
<1>3. /\ u \in Undos
      /\ Becomes(n, br[n].stack, "run", Append(br[n].undo, u), NoCall, br[n].popped,
                 br[n].fork)
  BY <1>0, <1>2, SucceedShape
<1>4. Still /\ \A m \in Nodes \ {n} : br'[m] = br[m]
  BY <1>1, <1>3, StillFrom
<1>5. Claims(n)' \subseteq Claims(n)
  BY <1>3, ClaimsCut DEF Becomes, Turns
<1>6. /\ br'[n].undo = Append(br[n].undo, u) /\ br'[n].popped = {}
      /\ Children(n) = {} /\ Children(n)' = {}
  <2>1. br'[n].undo = Append(br[n].undo, u) /\ br'[n].popped = {} /\ br'[n].mode = "run"
    BY <1>2, <1>3 DEF Becomes, Turns
  <2> QED
    BY <1>1, <2>1 DEF Children
<1>7. u.obj = p /\ u.old = world[p]
  BY DEF Inverse
<1>8. Holds(n, p)
  BY <1>1, <1>2, <1>6 DEF Holds, Pending, Live
<1>9. \A o \in Objects : world'[o] # world[o] => o = p
  BY <1>0, <1>1 DEF TypeOK, Worlds
<1> HIDE DEF u, p
<1>10. ASSUME Pending(n), NEW o \in (Objects \cap br[n].names) \ stray', NEW c \in Claims(n)'
       PROVE  Leads(n, o, c[1], c[2][o])'
  <2> DEFINE v == c[2][o]
  <2>1. Leads(n, o, c[1], v)
    BY <1>1, <1>5, <1>10 DEF LeadsInv
  <2>2. c[1] \in 0 .. Len(br[n].undo) /\ br[n].undo \in Seq(Undos)
    BY <1>0, <1>5, ClaimsBelow, Fields
  <2>3. Free(br[n].undo, o, c[1]) => (Holds(n, o) => world[o] = v)
    BY <1>2, <2>1 DEF Leads, Now
  <2>4. /\ Gives(Append(br[n].undo, u), o, c[1], v)
        /\ Free(Append(br[n].undo, u), o, c[1]) => Free(br[n].undo, o, c[1]) /\ u.obj # o
    <3>1. Gives(br[n].undo, o, c[1], v)
      BY <2>1 DEF Leads
    <3>2. u.obj = o /\ Free(br[n].undo, o, c[1]) => u.old = v
      BY <1>7, <1>8, <2>3
    <3> HIDE DEF v
    <3> QED
      BY <1>3, <2>2, <3>1, <3>2, GivesPush
  <2>5. Free(Append(br[n].undo, u), o, c[1]) => (Holds(n, o)' => world'[o] = v)
    BY <1>4, <1>7, <1>9, <2>3, <2>4, StillHolds
  <2> HIDE DEF v
  <2>6. Free(Append(br[n].undo, u), o, c[1]) => Now(n, o, v)'
    BY <1>6, <2>5 DEF Now
  <2>7. Leads(n, o, c[1], v)'
    BY <1>6, <2>4, <2>6 DEF Leads
  <2> QED
    BY <2>7 DEF v
<1>11. LeadsInv'
  <2>1. \A o \in Objects \ stray' : world'[o] # world[o] => Holds(n, o)
    BY <1>8, <1>9
  <2> QED
    BY <1>4, <1>10, <2>1, StillLeads
<1> QED
  BY <1>4, <1>11, StillOwner

LEMMA PopUndoLeads ==
    ASSUME StructInv, StructInv', OwnerInv, LeadsInv, NEW n \in Nodes, PopUndo(n)
    PROVE  OwnerInv' /\ LeadsInv'
<1> DEFINE last == Len(br[n].undo)
           u == br[n].undo[last]
           left == SubSeq(br[n].undo, 1, last - 1)
           popped == IF u.key = NoKey THEN {u} ELSE {}
<1>0. TypeOK /\ ShapeOf(n) /\ UndosOf(n)
  BY DEF StructInv, BranchInv
<1>1. /\ br[n].mode = "rollback" /\ br[n].popped = {}
      /\ UNCHANGED <<status, stray, world>>
  BY DEF PopUndo, Undoing, history
<1>2. /\ last \in Nat \ {0} /\ u \in Undos
      /\ Becomes(n, br[n].stack, br[n].mode, left, br[n].call, popped, br[n].fork)
  BY <1>0, PopUndoShape
<1>3. Still /\ \A m \in Nodes \ {n} : br'[m] = br[m]
  BY <1>1, <1>2, StillFrom
<1>4. Claims(n)' \subseteq Claims(n)
  BY <1>2, ClaimsCut DEF Becomes, Turns
<1>5. /\ br'[n].undo = left /\ br'[n].popped = popped
      /\ Children(n) = {} /\ Children(n)' = {}
  BY <1>1, <1>2 DEF Children, Becomes, Turns
<1>6. u.obj \in Objects => u.key = NoKey
  <2>1. last \in 1 .. Len(br[n].undo)
    BY <1>2
  <2> QED
    BY <1>0, <2>1, SentinelAssumption DEF UndosOf
<1>7. Len(left) = last - 1 /\ last - 1 \in Nat
  <2>1. last - 1 \in 0 .. Len(br[n].undo) /\ br[n].undo \in Seq(Undos)
    BY <1>0, <1>2, Fields
  <2> QED
    BY <2>1, CutProperties
<1> HIDE DEF u, popped
<1>8. ASSUME Pending(n), NEW o \in (Objects \cap br[n].names) \ stray', NEW c \in Claims(n)'
      PROVE  Leads(n, o, c[1], c[2][o])'
  <2> DEFINE v == c[2][o]
  <2>1. Leads(n, o, c[1], v)
    BY <1>1, <1>4, <1>8 DEF LeadsInv
  <2>2. c[1] \in Nat /\ c[1] < last /\ br[n].undo \in Seq(Undos)
    <3>1. c[1] \in Nat
      BY <1>4, ClaimsBelow
    <3>2. c[1] <= Top(n).mark \/ c[1] = 0
      <4>1. Depth(n) > 0 /\ MarksOf(n)
        BY <1>0, <1>1 DEF ShapeOf, StructInv, BranchInv
      <4>2. \A t \in Timeouts(n) : t \in 1 .. Depth(n)
        BY <1>0, Fields DEF Timeouts
      <4>3. \A t \in Timeouts(n) : br[n].stack[t].mark <= Top(n).mark
        BY <1>0, <4>1, <4>2, TopTypes DEF MarksOf, Top
      <4> QED
        BY <1>4, <4>3 DEF Claims
    <3>3. last > Top(n).mark /\ Top(n).mark \in Nat
      BY <1>0, <1>1, TopTypes DEF PopUndo, ShapeOf
    <3> QED
      BY <1>0, <1>2, <3>1, <3>2, <3>3, Fields
  <2> HIDE DEF v
  <2>3. Gives(br[n].undo, o, c[1], v)
    BY <2>1 DEF Leads
  <2>4. /\ Gives(left, o, c[1], v)
        /\ Free(left, o, c[1]) => IF u.obj = o THEN u.old = v
                                  ELSE Free(br[n].undo, o, c[1])
    BY <2>2, <2>3, GivesPop DEF u
  <2> HIDE DEF left, last
  <2>5. Free(left, o, c[1]) => Now(n, o, v)'
    <3>1. CASE u.obj = o /\ u.old = v
      <4>1. popped = {u}
        BY <1>6, <3>1 DEF popped
      <4> QED
        BY <1>5, <3>1, <4>1 DEF Now
    <3>2. CASE u.obj # o /\ Free(br[n].undo, o, c[1])
      <4>1. Holds(n, o) => world[o] = v
        BY <1>1, <2>1, <3>2 DEF Leads, Now
      <4>2. Holds(n, o)' => world'[o] = v
        BY <1>1, <1>3, <4>1, StillHolds
      <4>3. \A w \in popped : w.obj # o
        BY <3>2 DEF popped
      <4> QED
        BY <1>5, <4>2, <4>3 DEF Now
    <3> QED
      BY <2>4, <3>1, <3>2
  <2>6. Leads(n, o, c[1], v)'
    BY <1>5, <2>4, <2>5 DEF Leads
  <2> QED
    BY <2>6 DEF v
<1>9. LeadsInv'
  BY <1>1, <1>3, <1>8, StillLeads
<1> QED
  BY <1>3, <1>9, StillOwner

LEMMA UndoLeads ==
    ASSUME StructInv, StructInv', OwnerInv, LeadsInv, NEW n \in Nodes,
           UndoOk(n) \/ UndoFails(n)
    PROVE  OwnerInv' /\ LeadsInv'
<1>0. TypeOK /\ ShapeOf(n)
  BY DEF StructInv, BranchInv
<1>1. Becomes(n, br[n].stack, br[n].mode, br[n].undo, br[n].call, {}, br[n].fork)
  BY <1>0, UndoOkShape
<1>2. /\ br[n].mode = "rollback" /\ Live(n) /\ UNCHANGED status /\ stray \subseteq stray'
  BY DEF UndoOk, UndoFails, Undoing
<1>3. Still /\ \A m \in Nodes \ {n} : br'[m] = br[m]
  BY <1>1, <1>2, StillFrom
<1>4. Claims(n)' \subseteq Claims(n)
  BY <1>1, ClaimsCut DEF Becomes, Turns
<1>5. /\ br'[n].undo = br[n].undo /\ br'[n].popped = {}
      /\ Children(n) = {} /\ Children(n)' = {}
  BY <1>1, <1>2 DEF Children, Becomes, Turns
<1>6. PICK u \in br[n].popped :
        \/ world' = [world EXCEPT ![u.obj] = u.old] /\ UNCHANGED stray
        \/ UNCHANGED world /\ stray' = stray \cup {u.obj}
  BY DEF UndoOk, UndoFails
<1>7. u.obj \in Objects /\ u.obj \in br[n].names /\ \A w \in br[n].popped : w = u
  BY <1>0, <1>6 DEF ShapeOf
<1>8. Holds(n, u.obj)
  BY <1>2, <1>5, <1>7 DEF Holds, Pending, Live
<1>9. \A o \in Objects \ stray' : /\ o # u.obj => world'[o] = world[o]
                                  /\ o = u.obj => world'[o] = u.old
  BY <1>0, <1>6 DEF TypeOK, Worlds
<1>10. ASSUME Pending(n), NEW o \in (Objects \cap br[n].names) \ stray', NEW c \in Claims(n)'
       PROVE  Leads(n, o, c[1], c[2][o])'
  <2> DEFINE v == c[2][o]
  <2>1. Leads(n, o, c[1], v)
    BY <1>2, <1>4, <1>10 DEF LeadsInv
  <2> HIDE DEF v
  <2>2. Free(br[n].undo, o, c[1]) => (Holds(n, o)' => world'[o] = v)
    <3>1. ASSUME Now(n, o, v) PROVE Holds(n, o)' => world'[o] = v
      <4>1. CASE o = u.obj
        BY <1>9, <3>1, <4>1 DEF Now
      <4>2. CASE o # u.obj
        <5>1. Holds(n, o) => world[o] = v
          BY <1>7, <3>1, <4>2 DEF Now
        <5> QED
          BY <1>3, <1>9, <4>2, <5>1, StillHolds
      <4> QED
        BY <4>1, <4>2
    <3> QED
      BY <2>1, <3>1 DEF Leads
  <2>3. Free(br[n].undo, o, c[1]) => Now(n, o, v)'
    BY <1>5, <2>2 DEF Now
  <2>4. Leads(n, o, c[1], v)'
    BY <1>5, <2>1, <2>3 DEF Leads
  <2> QED
    BY <2>4 DEF v
<1>11. LeadsInv'
  <2>1. \A o \in Objects \ stray' : world'[o] # world[o] => Holds(n, o)
    BY <1>8, <1>9
  <2> QED
    BY <1>3, <1>10, <2>1, StillLeads
<1> QED
  BY <1>3, <1>11, StillOwner

LEMMA ForkLeads ==
    ASSUME StructInv, StructInv', OwnerInv, LeadsInv, NEW n \in Nodes, NEW split, Fork(n, split)
    PROVE  LeadsInv'
<1> DEFINE l == LeftOf(forks + 1)
           r == RightOf(forks + 1)
<1>0. TypeOK /\ UNCHANGED <<stray, world>> /\ forks \in Nat
  BY NodeFacts DEF Fork, ForkInto, history, StructInv, TypeOK
<1>1. /\ l \in Nodes /\ r \in Nodes /\ l # r /\ l # n /\ r # n
      /\ l[1] = forks + 1 /\ r[1] = forks + 1
      /\ status[l] = "unborn" /\ status[r] = "unborn" /\ Live(n)
      /\ br[n].mode = "run" /\ br[n].fork = 0
      /\ \A m \in Nodes \ {n, l, r} : br'[m] = br[m]
      /\ status' = [status EXCEPT ![l] = "running", ![r] = "running"]
  BY ForkShape
<1>2. /\ br'[n].fork = forks + 1 /\ br'[n].mode = "forked"
      /\ br'[n].names = br[n].names /\ br'[n].stack = br[n].stack
      /\ br'[n].undo = br[n].undo /\ br'[n].popped = br[n].popped
      /\ br'[n].base = br[n].base
      /\ \A c \in {l, r} :
           /\ br'[c].mode = "run" /\ br'[c].stack = << >> /\ br'[c].undo = << >>
           /\ br'[c].popped = {} /\ br'[c].base = world /\ br'[c].fork = 0
  BY ForkFacts
<1>3. /\ \A m \in Nodes \ {l, r} : status'[m] = status[m]
  BY <1>0, <1>1 DEF TypeOK
<1>4. Left(n)' = l /\ Right(n)' = r
  BY <1>2 DEF Left, Right
<1> HIDE DEF l, r
<1>5. Children(n) = {} /\ Children(n)' = {l, r}
  BY <1>1, <1>2, <1>4 DEF Children
<1>6. br[n].popped = {}
  BY <1>1 DEF StructInv, BranchInv, ShapeOf
<1>7. ASSUME NEW o \in (Objects \cap br'[n].names) \ stray', NEW c \in Claims(n)'
      PROVE  Leads(n, o, c[1], c[2][o])'
  <2> DEFINE v == c[2][o]
  <2>1. Claims(n)' = Claims(n)
    BY <1>2 DEF Claims, Timeouts
  <2>2. Leads(n, o, c[1], v)
    BY <1>0, <1>1, <1>2, <1>7, <2>1 DEF LeadsInv, Pending, Live
  <2> HIDE DEF v
  <2>3. Holds(n, o)
    BY <1>1, <1>2, <1>5, <1>7 DEF Holds, Pending, Live
  <2>4. ASSUME Now(n, o, v) PROVE Now(n, o, v)'
    <3>1. world[o] = v
      BY <1>6, <2>3, <2>4 DEF Now
    <3>2. \A d \in Children(n)' : br'[d].base[o] = v
      BY <1>2, <1>5, <3>1
    <3> QED
      BY <1>0, <1>2, <1>6, <3>1, <3>2 DEF Now
  <2>5. Leads(n, o, c[1], v)'
    BY <1>2, <2>2, <2>4 DEF Leads
  <2> QED
    BY <2>5 DEF v
<1>8. ASSUME NEW m \in {l, r}, NEW o, NEW c \in Claims(m)'
      PROVE  Leads(m, o, c[1], c[2][o])'
  <2>1. br'[m].undo = << >> /\ br'[m].popped = {} /\ br'[m].stack = << >>
        /\ br'[m].mode = "run" /\ br'[m].base = world
    BY <1>2
  <2>2. Claims(m)' = {<<0, world>>} /\ Children(m)' = {}
    BY <2>1 DEF Claims, Timeouts, Children
  <2>3. c[1] = 0 /\ c[2][o] = world'[o]
    BY <1>0, <2>2
  <2>4. Gives(br'[m].undo, o, c[1], c[2][o])
    BY <2>1, <2>3 DEF Gives
  <2>5. Now(m, o, c[2][o])'
    BY <2>1, <2>2, <2>3 DEF Now
  <2> QED
    BY <2>4, <2>5 DEF Leads
<1>9. ASSUME NEW m \in Nodes \ {n, l, r}, Pending(m)',
             NEW o \in (Objects \cap br'[m].names) \ stray', NEW c \in Claims(m)'
      PROVE  Leads(m, o, c[1], c[2][o])'
  <2>1. /\ Claims(m)' = Claims(m) /\ Children(m)' = Children(m)
        /\ br'[m].undo = br[m].undo /\ br'[m].popped = br[m].popped
    BY SMTT(60), <1>1 DEF Claims, Timeouts, Children, Left, Right
  <2>2. Leads(m, o, c[1], c[2][o])
    BY <1>0, <1>1, <1>3, <1>9, <2>1 DEF LeadsInv, Pending
  <2>3. Children(m) \subseteq Nodes \ {l, r}
    <3>1. CASE br[m].fork # 0
      <4>1. br[m].fork <= forks /\ br[m].fork \in Nat
        BY <1>0, Fields DEF StructInv, BranchInv, ShapeOf
      <4>2. Left(m)[1] = br[m].fork /\ Right(m)[1] = br[m].fork
        BY DEF Left, Right, LeftOf, RightOf
      <4>3. br[m].fork # forks + 1
        BY <1>0, <4>1
      <4> QED
        BY <1>1, <3>1, <4>2, <4>3, KidFacts
    <3> QED
      BY <3>1, NoKids
  <2>4. \A d \in Children(m) : /\ br'[d].names = br[d].names /\ br'[d].base = br[d].base
                               /\ Pending(d)' = Pending(d)
    BY <1>1, <1>2, <1>3, <2>3 DEF Pending
  <2>5. Holds(m, o)' => Holds(m, o)
    BY <1>1, <1>3, <2>1, <2>4 DEF Holds, Pending
  <2>6. ASSUME NEW kk, NEW vv, Leads(m, o, kk, vv) PROVE Leads(m, o, kk, vv)'
    BY <1>0, <2>1, <2>4, <2>5, <2>6, LeadsSame
  <2> QED
    BY <2>2, <2>6
<1> QED
  BY <1>7, <1>8, <1>9 DEF LeadsInv

\* What a branch of n can give back, when n itself has no undo of o.
LEMMA KidGives ==
    ASSUME StructInv, LeadsInv, NEW n \in Nodes, br[n].fork # 0, Pending(n),
           NEW o \in (Objects \cap br[n].names) \ stray, NEW k, NEW v,
           Leads(n, o, k, v), Free(br[n].undo, o, k), NEW c \in {Left(n), Right(n)}
    PROVE  /\ Gives(br[c].undo, o, 0, v)
           /\ Pending(c) /\ o \in br[c].names => br[c].base[o] = v
           /\ /\ status[c] \in {"finished", "stashed"} /\ o \in br[c].names
              /\ Free(br[c].undo, o, 0)
              => world[o] = v
<1>0. TypeOK /\ c \in Nodes /\ c \in Children(n)
  BY KidFacts DEF StructInv
<1>1. br[n].popped = {}
  BY DEF StructInv, BranchInv, ShapeOf
<1>2. Pending(c) /\ o \in br[c].names => br[c].base[o] = v
  BY <1>0, <1>1 DEF Leads, Now
<1>3. Pending(c) /\ o \in br[c].names => Leads(c, o, 0, v)
  <2>1. <<0, br[c].base>> \in Claims(c)
    BY DEF Claims
  <2>2. Pending(c) /\ o \in br[c].names => Leads(c, o, 0, br[c].base[o])
    BY <1>0, <2>1 DEF LeadsInv
  <2> QED
    BY <1>2, <2>2
<1>4. Gives(br[c].undo, o, 0, v)
  <2>1. CASE Pending(c) /\ o \in br[c].names
    BY <1>3, <2>1 DEF Leads
  <2>2. CASE ~Pending(c)
    <3>1. br[c].undo = << >>
      BY <1>0, <2>2 DEF StructInv, BranchInv, ShapeOf
    <3> QED
      BY <3>1 DEF Gives
  <2>3. CASE o \notin br[c].names
    <3>1. \A i \in 1 .. Len(br[c].undo) : br[c].undo[i].obj # o
      BY <1>0, <2>3, SentinelAssumption DEF StructInv, BranchInv, UndosOf
    <3> QED
      BY <3>1 DEF Gives
  <2> QED
    BY <2>1, <2>2, <2>3
<1>5. ASSUME status[c] \in {"finished", "stashed"}, o \in br[c].names,
             Free(br[c].undo, o, 0)
      PROVE  world[o] = v
  <2>1. br[c].popped = {} /\ Holds(c, o)
    BY <1>0, <1>5, OverHolds
  <2>2. Now(c, o, v)
    BY <1>3, <1>5 DEF Leads, Pending
  <2> QED
    BY <2>1, <2>2 DEF Now
<1> QED
  BY <1>2, <1>4, <1>5

\* The tasks but n, when branches of n are merged or lost.
LEMMA JoinOthers ==
    ASSUME StructInv, StructInv', LeadsInv, NEW n \in Nodes, Joins(n),
           \A o \in Objects \ stray' : world'[o] = world[o],
           NEW m \in Nodes \ {n}, Pending(m)',
           NEW o \in (Objects \cap br'[m].names) \ stray', NEW c \in Claims(m)'
    PROVE  Leads(m, o, c[1], c[2][o])'
<1>1. br'[m] = br[m] /\ Pending(m)' = Pending(m)
  <2>1. CASE m \in Children(n)
    BY <2>1 DEF Joins
  <2>2. CASE m \notin Children(n)
    BY <2>2 DEF Joins
  <2> QED
    BY <2>1, <2>2
<1>2. Claims(m)' = Claims(m)
  BY <1>1 DEF Claims, Timeouts
<1>3. Leads(m, o, c[1], c[2][o])
  BY <1>1, <1>2 DEF LeadsInv, Joins
<1>4. Holds(m, o)' => Holds(m, o) /\ world'[o] = world[o]
  BY <1>1, JoinBelow
<1>5. \A d \in Children(m)' : Pending(d)' /\ o \in br'[d].names =>
            /\ d \in Children(m) /\ Pending(d)
            /\ o \in br[d].names /\ br'[d].base = br[d].base
  BY <1>1, JoinBelow
<1>6. ASSUME NEW kk, NEW vv, Leads(m, o, kk, vv) PROVE Leads(m, o, kk, vv)'
  BY <1>1, <1>4, <1>5, <1>6, LeadsSame
<1> QED
  BY <1>3, <1>6

LEMMA MergeLeftLeads ==
    ASSUME StructInv, StructInv', OwnerInv, LeadsInv, NEW n \in Nodes, JoinLeft(n),
           status[Right(n)] # "stashed"
    PROVE  OwnerInv' /\ LeadsInv'
<1> DEFINE l == Left(n)
           r == Right(n)
<1>0. TypeOK /\ UNCHANGED <<stray, world>>
  BY DEF JoinLeft, history, StructInv
<1>1. /\ br[n].fork # 0 /\ Live(n) /\ br[n].mode = "forked" /\ status[l] = "finished"
      /\ \A m \in Nodes \ {n, l} : br'[m] = br[m]
      /\ br'[n].stack = br[n].stack /\ br'[n].mode = br[n].mode
      /\ br'[n].undo = br[n].undo \o br[l].undo /\ br'[n].popped = br[n].popped
      /\ br'[n].fork = br[n].fork /\ br'[n].names = br[n].names
      /\ br'[n].base = br[n].base
      /\ status' = [status EXCEPT ![l] = "joined"]
  BY MergeLeftShape DEF Turns
<1>2. /\ l \in Nodes /\ r \in Nodes /\ l # r /\ l # n /\ r # n /\ Children(n) = {l, r}
  BY <1>1, KidFacts
<1>3. /\ \A m \in Nodes \ {l} : status'[m] = status[m]
      /\ status'[l] = "joined"
  BY <1>0, <1>1, <1>2 DEF TypeOK
<1>4. /\ Left(n)' = l /\ Right(n)' = r /\ Children(n)' = {l, r}
      /\ br[l].names \cap br[r].names = {}
      /\ br[n].popped = {}
  BY ZenonT(60), <1>1, <1>2 DEF Left, Right, Children, StructInv, TreeInv, BranchInv, ShapeOf
<1>5. status[r] \in {"running", "finished"}
  BY <1>1 DEF StructInv, TreeInv
<1> HIDE DEF l, r
<1>6. \A m \in Nodes \ {l} : Pending(m)' = Pending(m)
  BY <1>3 DEF Pending
<1>7. ASSUME NEW m \in {l} PROVE ~Pending(m)' /\ Pending(m)
  BY <1>1, <1>3 DEF Pending
<1>8. Joins(n)
  <2>1. Pending(n) /\ Pending(n)' /\ \A m \in {r} : Pending(m) /\ Pending(m)'
    BY <1>1, <1>2, <1>5, <1>6 DEF Pending, Live
  <2>2. \A m \in Nodes \ {n, l, r} : br'[m] = br[m] /\ Pending(m)' = Pending(m)
    BY <1>1, <1>6
  <2>3. ASSUME NEW c \in {l, r}
        PROVE  \/ ~Pending(c)' /\ (Pending(c) => status[c] \in {"finished", "stashed"})
               \/ /\ br'[n].fork = br[n].fork /\ Pending(c) /\ Pending(c)'
                  /\ br'[c] = br[c]
    BY <1>1, <1>2, <1>7, <2>1
  <2>4. stray \subseteq stray' /\ br'[n].fork \in {0, br[n].fork}
    BY <1>0, <1>1
  <2> QED
    BY <1>1, <1>2, <2>1, <2>2, <2>3, <2>4 DEF Joins
<1>9. ASSUME NEW o \in (Objects \cap br'[n].names) \ stray', NEW c \in Claims(n)'
      PROVE  Leads(n, o, c[1], c[2][o])'
  <2> DEFINE v == c[2][o]
             k == c[1]
  <2>1. c \in Claims(n)
    BY <1>1 DEF Claims, Timeouts
  <2>2. Leads(n, o, k, v) /\ Pending(n) /\ o \in (Objects \cap br[n].names) \ stray
    BY <1>0, <1>1, <2>1 DEF LeadsInv, Pending, Live
  <2>3. k \in 0 .. Len(br[n].undo) /\ br[n].undo \in Seq(Undos) /\ br[l].undo \in Seq(Undos)
    BY <1>0, <1>2, <2>1, ClaimsBelow, Fields
  <2> HIDE DEF k, v
  <2>4. Free(br[n].undo, o, k) =>
          /\ Gives(br[l].undo, o, 0, v)
          /\ Pending(r) /\ o \in br[r].names => br[r].base[o] = v
          /\ o \in br[l].names /\ Free(br[l].undo, o, 0) => world[o] = v
    BY <1>1, <2>2, KidGives DEF l, r
  <2>5. Gives(br[n].undo \o br[l].undo, o, k, v)
    BY <2>2, <2>3, <2>4, GivesJoin DEF Leads
  <2>6. ASSUME Free(br[n].undo \o br[l].undo, o, k) PROVE Now(n, o, v)'
    <3>1. Free(br[n].undo, o, k) /\ Free(br[l].undo, o, 0)
      BY <2>3, <2>6, FreeJoin
    <3>2. Holds(n, o) => world[o] = v
      BY <1>4, <2>2, <3>1 DEF Leads, Now
    <3>3. Holds(n, o)' => world'[o] = v
      <4>1. ASSUME Holds(n, o)', o \notin br[l].names PROVE Holds(n, o)
        <5>1. \A d \in {r} : Pending(d) => o \notin br[d].names
          BY <1>1, <1>2, <1>4, <1>6, <4>1 DEF Holds
        <5> QED
          BY <1>2, <2>2, <4>1, <5>1 DEF Holds
      <4> QED
        BY <1>0, <2>4, <3>1, <3>2, <4>1
    <3>4. \A d \in Children(n)' : Pending(d)' /\ o \in br'[d].names => br'[d].base[o] = v
      <4>1. \A d \in {r} : Pending(d)' = Pending(d) /\ br'[d] = br[d]
        BY <1>1, <1>2, <1>6
      <4>2. \A d \in {l} : ~Pending(d)'
        BY <1>7
      <4> QED
        BY <1>4, <2>4, <3>1, <4>1, <4>2
    <3> QED
      BY <1>1, <1>4, <3>3, <3>4 DEF Now
  <2>7. Leads(n, o, k, v)'
    BY <1>1, <2>5, <2>6 DEF Leads
  <2> QED
    BY <2>7 DEF k, v
<1>10. LeadsInv'
  <2>1. \A o \in Objects \ stray' : world'[o] = world[o]
    BY <1>0
  <2>2. ASSUME NEW m \in Nodes \ {n}, Pending(m)',
               NEW o \in (Objects \cap br'[m].names) \ stray', NEW c \in Claims(m)'
        PROVE  Leads(m, o, c[1], c[2][o])'
    BY <1>8, <2>1, <2>2, JoinOthers
  <2> QED
    BY <1>9, <2>2 DEF LeadsInv
<1> QED
  BY <1>8, <1>10, JoinOwner

LEMMA CompleteLeads ==
    ASSUME StructInv, StructInv', OwnerInv, LeadsInv, NEW n \in Nodes, Completes(n)
    PROVE  OwnerInv' /\ LeadsInv'
<1> DEFINE l == Left(n)
           r == Right(n)
           s == br[n].undo \o br[l].undo
<1>0. TypeOK /\ UNCHANGED <<stray, world>>
  BY DEF Completes, JoinLeft, JoinRight, history, StructInv
<1>1. /\ br[n].fork # 0 /\ Live(n) /\ br[n].mode = "forked"
      /\ status[l] \in {"finished", "joined"} /\ status[r] \in {"finished", "stashed"}
      /\ \A m \in Nodes \ {n, l, r} : br'[m] = br[m]
      /\ br'[n].stack = br[n].stack /\ br'[n].undo = s \o br[r].undo
      /\ br'[n].popped = br[n].popped /\ br'[n].fork = 0
      /\ br'[n].names = br[n].names /\ br'[n].base = br[n].base
      /\ br'[n].mode \in {"run", "err"}
      /\ \A m \in Nodes \ {l, r} : status'[m] = status[m]
      /\ status'[l] = "joined" /\ status'[r] = "joined"
  BY CompleteShape DEF Turns
<1>2. /\ l \in Nodes /\ r \in Nodes /\ l # r /\ l # n /\ r # n /\ Children(n) = {l, r}
  BY <1>1, KidFacts
<1>3. br[n].popped = {} /\ Children(n)' = {}
  BY <1>1 DEF Children, StructInv, BranchInv, ShapeOf
<1> HIDE DEF l, r
<1>4. \A m \in Nodes \ {l, r} : Pending(m)' = Pending(m)
  BY <1>1 DEF Pending
<1>5. ASSUME NEW m \in {l, r}
      PROVE  ~Pending(m)' /\ (Pending(m) => status[m] \in {"finished", "stashed"})
  BY <1>1, <1>2 DEF Pending
<1>6. Joins(n)
  <2>1. Pending(n) /\ Pending(n)'
    BY <1>1, <1>2, <1>4 DEF Pending, Live
  <2>2. \A m \in Nodes \ {n, l, r} : br'[m] = br[m] /\ Pending(m)' = Pending(m)
    BY <1>1, <1>4
  <2>3. stray \subseteq stray' /\ br'[n].fork \in {0, br[n].fork}
    BY <1>0, <1>1
  <2> QED
    BY <1>1, <1>2, <1>5, <2>1, <2>2, <2>3 DEF Joins
<1>7. ASSUME NEW o \in (Objects \cap br'[n].names) \ stray', NEW c \in Claims(n)'
      PROVE  Leads(n, o, c[1], c[2][o])'
  <2> DEFINE v == c[2][o]
             k == c[1]
  <2>1. c \in Claims(n)
    BY SMTT(60), <1>1 DEF Claims, Timeouts
  <2>2. Leads(n, o, k, v) /\ Pending(n) /\ o \in (Objects \cap br[n].names) \ stray
    BY <1>0, <1>1, <2>1 DEF LeadsInv, Pending, Live
  <2>3. /\ k \in 0 .. Len(br[n].undo) /\ br[n].undo \in Seq(Undos)
        /\ br[l].undo \in Seq(Undos) /\ br[r].undo \in Seq(Undos)
    BY <1>0, <1>2, <2>1, ClaimsBelow, Fields
  <2>4. /\ s \in Seq(Undos) /\ k \in 0 .. Len(s)
    BY <2>3, JoinProperties, JoinGrows
  <2> HIDE DEF k, v
  <2>5. Free(br[n].undo, o, k) => \A d \in {l, r} :
          /\ Gives(br[d].undo, o, 0, v)
          /\ /\ status[d] \in {"finished", "stashed"} /\ o \in br[d].names
             /\ Free(br[d].undo, o, 0)
             => world[o] = v
    BY <1>1, <2>2, KidGives DEF l, r
  <2>6. Gives(s, o, k, v) /\ (Free(s, o, k) => Free(br[n].undo, o, k) /\ Free(br[l].undo, o, 0))
    BY <2>2, <2>3, <2>5, GivesJoin, FreeJoin DEF Leads
  <2> HIDE DEF s
  <2>7. Gives(s \o br[r].undo, o, k, v)
    BY <2>3, <2>4, <2>5, <2>6, GivesJoin
  <2>8. ASSUME Free(s \o br[r].undo, o, k) PROVE Now(n, o, v)'
    <3>1. Free(s, o, k) /\ Free(br[r].undo, o, 0)
      BY <2>3, <2>4, <2>8, FreeJoin
    <3>2. Free(br[n].undo, o, k) /\ Free(br[l].undo, o, 0)
      BY <2>6, <3>1
    <3>3. Holds(n, o) => world[o] = v
      BY <1>3, <2>2, <3>2 DEF Leads, Now
    <3>4. world[o] = v
      <4>1. CASE \E d \in {l, r} : status[d] \in {"finished", "stashed"} /\ o \in br[d].names
        BY <2>5, <3>1, <3>2, <4>1
      <4>2. CASE ~ \E d \in {l, r} : status[d] \in {"finished", "stashed"} /\ o \in br[d].names
        <5>1. Holds(n, o)
          BY <1>2, <1>5, <2>2, <4>2 DEF Holds
        <5> QED
          BY <3>3, <5>1
      <4> QED
        BY <4>1, <4>2
    <3> QED
      BY <1>0, <1>1, <1>3, <3>4 DEF Now
  <2>9. Leads(n, o, k, v)'
    BY <1>1, <2>7, <2>8 DEF Leads
  <2> QED
    BY <2>9 DEF k, v
<1>8. LeadsInv'
  <2>1. \A o \in Objects \ stray' : world'[o] = world[o]
    BY <1>0
  <2>2. ASSUME NEW m \in Nodes \ {n}, Pending(m)',
               NEW o \in (Objects \cap br'[m].names) \ stray', NEW c \in Claims(m)'
        PROVE  Leads(m, o, c[1], c[2][o])'
    BY <1>6, <2>1, <2>2, JoinOthers
  <2> QED
    BY <1>7, <2>2 DEF LeadsInv
<1> QED
  BY <1>6, <1>8, JoinOwner

LEMMA GraceLeads ==
    ASSUME StructInv, StructInv', OwnerInv, LeadsInv, NEW n \in Nodes,
           NEW t \in DOMAIN br[n].stack, GraceEnds(n, t)
    PROVE  OwnerInv' /\ LeadsInv'
<1> DEFINE dropped == {u.obj : u \in br[n].popped} \cup ({br[n].call.obj} \ {NoObject})
<1>0. TypeOK /\ ShapeOf(n) /\ UndosOf(n)
  BY DEF StructInv, BranchInv
<1>1. /\ Live(n) /\ t \in 1 .. Depth(n)
      /\ br[n].mode \in {"io", "forked", "rollback"}
      /\ Children(n) \subseteq Nodes \ {n}
      /\ br' \in [Nodes -> Branches]
      /\ \A m \in Nodes \ (Children(n) \cup {n}) : br'[m] = br[m]
      /\ br'[n].stack = Cut(n, t) /\ br'[n].mode = "rollback" /\ br'[n].undo = Kept(n)
      /\ br'[n].popped = {} /\ br'[n].fork = 0
      /\ br'[n].names = br[n].names /\ br'[n].base = br[n].base
      /\ \A m \in Nodes \ Children(n) : status'[m] = status[m]
      /\ \A c \in Children(n) :
           IF status[c] = "running"
           THEN br'[c] = br[c] /\ status'[c] = "orphan"
           ELSE br'[c] = Nobody /\ status'[c] \in {"dead", "joined"}
  BY GraceShape DEF Turns
<1>2. Claims(n)' \subseteq Claims(n)
  <2>1. t \in 0 .. Depth(n)
    BY <1>0, <1>1, Fields
  <2> QED
    BY <1>1, <2>1, ClaimsCut
<1>3. /\ stray' = stray \cup dropped
                   \cup (Objects \cap UNION {br[c].names : c \in Lost(n)})
      /\ stray \subseteq stray'
  BY DEF GraceEnds
<1>4. \A o \in Objects \ stray' : world'[o] = world[o]
  <2>1. TAKE o \in Objects \ stray'
  <2>2. o \notin dropped
    BY <1>3
  <2>3. CASE UNCHANGED world
    BY <2>3
  <2>4. CASE br[n].mode = "io" /\ Effect(br[n].call)
    <3>1. o # br[n].call.obj
      BY <1>0, <2>2, <2>4, SentinelAssumption DEF ShapeOf
    <3> QED
      BY <1>0, <2>4, <3>1 DEF Effect, TypeOK, Worlds
  <2>5. ASSUME NEW u \in br[n].popped, world' = [world EXCEPT ![u.obj] = u.old]
        PROVE  world'[o] = world[o]
    BY <1>0, <2>2, <2>5 DEF TypeOK, Worlds
  <2> QED
    BY <2>3, <2>4, <2>5 DEF GraceEnds
<1>5. \A u \in br[n].popped : u.obj \in stray'
  BY <1>3
<1>6. /\ \A c \in Lost(n) : Objects \cap br[c].names \subseteq stray'
      /\ Lost(n) = {c \in Children(n) : status[c] \in {"running", "finished"}}
  BY <1>3 DEF Lost
<1> HIDE DEF dropped
<1>7. Children(n)' = {}
  BY <1>1 DEF Children
<1>8. ASSUME NEW o \in (Objects \cap br[n].names) \ stray', NEW c \in Claims(n)',
             br[n].fork = 0
      PROVE  Leads(n, o, c[1], c[2][o])'
  <2> DEFINE v == c[2][o]
  <2>1. Leads(n, o, c[1], v) /\ Children(n) = {}
    BY <1>1, <1>2, <1>3, <1>8, NoKids DEF LeadsInv, Pending, Live
  <2>2. Kept(n) = br[n].undo
    BY <2>1 DEF Kept
  <2> HIDE DEF v
  <2>3. ASSUME Now(n, o, v) PROVE Now(n, o, v)'
    <3>1. Holds(n, o) => world[o] = v
      BY <1>5, <1>8, <2>3 DEF Now
    <3>2. Holds(n, o)
      BY <1>1, <1>8, <2>1 DEF Holds, Pending, Live
    <3> QED
      BY <1>1, <1>4, <1>7, <1>8, <3>1, <3>2 DEF Now
  <2>4. Leads(n, o, c[1], v)'
    BY <1>1, <2>1, <2>2, <2>3 DEF Leads
  <2> QED
    BY <2>4 DEF v
<1>9. ASSUME NEW o \in (Objects \cap br[n].names) \ stray', NEW c \in Claims(n)',
             br[n].fork # 0
      PROVE  Leads(n, o, c[1], c[2][o])'
  <2> DEFINE v == c[2][o]
             k == c[1]
             l == Left(n)
             r == Right(n)
  <2>1. Leads(n, o, k, v) /\ Pending(n) /\ o \in (Objects \cap br[n].names) \ stray
    BY <1>1, <1>2, <1>3, <1>9 DEF LeadsInv, Pending, Live
  <2>2. /\ l \in Nodes /\ r \in Nodes /\ Children(n) = {l, r}
        /\ status[l] \in {"running", "finished", "joined"}
        /\ status[r] \in {"running", "finished", "stashed"}
    BY <1>9, KidFacts DEF StructInv, TreeInv
  <2>3. /\ k \in 0 .. Len(br[n].undo) /\ br[n].undo \in Seq(Undos) /\ br[r].undo \in Seq(Undos)
    BY <1>0, <1>2, <2>2, ClaimsBelow, Fields
  <2>4. br[n].popped = {}
    BY <1>0, <1>9 DEF ShapeOf
  <2> HIDE DEF k, v
  <2>5. Free(br[n].undo, o, k) =>
          /\ Gives(br[r].undo, o, 0, v)
          /\ /\ status[r] \in {"finished", "stashed"} /\ o \in br[r].names
             /\ Free(br[r].undo, o, 0)
             => world[o] = v
    BY <1>9, <2>1, KidGives
  <2> HIDE DEF l, r
  <2>6. Free(br[n].undo, o, k) /\ Holds(n, o) => world[o] = v
    BY <2>1, <2>4 DEF Leads, Now
  <2>7. \A d \in {l, r} : o \in br[d].names /\ Pending(d) => d = r /\ status[r] = "stashed"
    BY <1>6, <1>9, <2>2 DEF Pending
  <2>8. CASE status[r] = "stashed"
    <3>1. Kept(n) = br[n].undo \o br[r].undo
      BY <2>2, <2>8 DEF Kept, r
    <3>2. Gives(br[n].undo \o br[r].undo, o, k, v)
      BY <2>1, <2>3, <2>5, GivesJoin DEF Leads
    <3>3. ASSUME Free(br[n].undo \o br[r].undo, o, k) PROVE world[o] = v
      <4>1. Free(br[n].undo, o, k) /\ Free(br[r].undo, o, 0)
        BY <2>3, <3>3, FreeJoin
      <4>2. CASE o \in br[r].names
        BY <2>5, <2>8, <4>1, <4>2
      <4>3. CASE o \notin br[r].names
        <5>1. Holds(n, o)
          BY <2>1, <2>2, <2>7, <4>3 DEF Holds
        <5> QED
          BY <2>6, <4>1, <5>1
      <4> QED
        BY <4>2, <4>3
    <3>4. ASSUME Free(br[n].undo \o br[r].undo, o, k) PROVE Now(n, o, v)'
      BY <1>1, <1>4, <1>7, <1>9, <3>3, <3>4 DEF Now
    <3>5. Leads(n, o, k, v)'
      BY <1>1, <3>1, <3>2, <3>4 DEF Leads
    <3> QED
      BY <3>5 DEF k, v
  <2>9. CASE status[r] # "stashed"
    <3>1. Kept(n) = br[n].undo
      BY <2>2, <2>9 DEF Kept
    <3>2. Holds(n, o)
      BY <2>1, <2>2, <2>7, <2>9 DEF Holds
    <3>3. ASSUME Free(br[n].undo, o, k) PROVE Now(n, o, v)'
      BY <1>1, <1>4, <1>7, <1>9, <2>6, <3>2, <3>3 DEF Now
    <3>4. Leads(n, o, k, v)'
      BY <1>1, <2>1, <3>1, <3>3 DEF Leads
    <3> QED
      BY <3>4 DEF k, v
  <2> QED
    BY <2>8, <2>9
<1>10. CASE br[n].fork # 0
  <2>1. Children(n) = {Left(n), Right(n)}
    BY <1>10, KidFacts
  <2>2. ASSUME NEW c \in Children(n)
        PROVE  \/ ~Pending(c)' /\ (Pending(c) => status[c] \in {"finished", "stashed"})
               \/ Objects \cap br[c].names \subseteq stray' /\ br'[c].names = br[c].names
    <3>1. CASE status[c] = "running"
      BY <1>1, <1>6, <3>1
    <3>2. CASE status[c] # "running"
      <4>1. status[c] \in {"finished", "stashed", "joined"}
        BY <1>10, <2>1, <3>2 DEF StructInv, TreeInv
      <4> QED
        BY <1>1, <3>2, <4>1 DEF Pending
    <3> QED
      BY <3>1, <3>2
  <2>3. Joins(n)
    <3>1. Pending(n) /\ Pending(n)'
      BY <1>1 DEF Pending, Live
    <3>2. \A m \in Nodes \ (Children(n) \cup {n}) : br'[m] = br[m] /\ Pending(m)' = Pending(m)
      BY <1>1 DEF Pending
    <3> QED
      BY <1>1, <1>3, <1>10, <2>2, <3>1, <3>2 DEF Joins
  <2>4. ASSUME NEW m \in Nodes \ {n}, Pending(m)',
               NEW o \in (Objects \cap br'[m].names) \ stray', NEW c \in Claims(m)'
        PROVE  Leads(m, o, c[1], c[2][o])'
    BY <1>4, <2>3, <2>4, JoinOthers
  <2>5. LeadsInv'
    BY <1>1, <1>9, <1>10, <2>4 DEF LeadsInv
  <2> QED
    BY <2>3, <2>5, JoinOwner
<1>11. CASE br[n].fork = 0
  <2>1. Children(n) = {}
    BY <1>11, NoKids
  <2>2. /\ \A m \in Nodes \ {n} : br'[m] = br[m]
        /\ \A m \in Nodes : Pending(m)' = Pending(m)
    BY <1>1, <2>1 DEF Pending
  <2>3. Still
    BY <1>1, <1>3, <1>11, <2>2 DEF Still
  <2>4. LeadsInv'
    BY <1>4, <1>8, <1>11, <2>2, <2>3, StillLeads
  <2> QED
    BY <2>3, <2>4, StillOwner
<1> QED
  BY <1>10, <1>11

\* An orphan's task is over; it is nobody's branch.
LEMMA FinishLeads ==
    ASSUME StructInv, StructInv', OwnerInv, LeadsInv, NEW n \in Nodes, Finish(n)
    PROVE  OwnerInv' /\ LeadsInv'
<1>0. TypeOK /\ UNCHANGED <<stray, world>> /\ Live(n) /\ br[n].fork = 0
  BY FinishShape DEF Finish, history, StructInv
<1>1. CASE status[n] = "running" /\ status' = [status EXCEPT ![n] = "finished"] /\ br' = br
  <2>1. \A m \in Nodes : Pending(m)' = Pending(m)
    BY <1>0, <1>1 DEF Pending, TypeOK
  <2> QED
    BY <1>0, <1>1, <2>1, SameSteps
<1>2. CASE /\ status[n] = "orphan" /\ status' = [status EXCEPT ![n] = "dead"]
           /\ br' = [br EXCEPT ![n] = Nobody]
  <2>1. /\ \A m \in Nodes \ {n} : br'[m] = br[m] /\ Pending(m)' = Pending(m)
        /\ ~Pending(n)'
    BY <1>0, <1>2 DEF Pending, TypeOK
  <2>2. ASSUME NEW m \in Nodes \ {n}
        PROVE  /\ Children(m)' = Children(m) /\ Children(m) \subseteq Nodes \ {n}
               /\ \A o : Holds(m, o)' <=> Holds(m, o)
    <3>1. Children(m)' = Children(m)
      BY <2>1 DEF Children, Left, Right
    <3>2. Children(m) \subseteq Nodes \ {n}
      <4>1. CASE br[m].fork = 0
        BY <4>1, NoKids
      <4>2. CASE br[m].fork # 0
        BY <1>2, <4>2, KidFacts DEF StructInv, TreeInv
      <4> QED
        BY <4>1, <4>2
    <3>3. \A d \in Children(m) : br'[d] = br[d] /\ Pending(d)' = Pending(d)
      BY <2>1, <3>2
    <3>4. \A o : Holds(m, o)' <=> Holds(m, o)
      BY <2>1, <3>1, <3>3 DEF Holds
    <3> QED
      BY <3>1, <3>2, <3>4
  <2>3. \A o : ~Holds(n, o)'
    BY <2>1 DEF Holds
  <2>4. OwnerInv'
    BY <1>0, <2>2, <2>3 DEF OwnerInv
  <2>5. ASSUME NEW m \in Nodes \ {n}, Pending(m)',
               NEW o \in (Objects \cap br'[m].names) \ stray', NEW c \in Claims(m)'
        PROVE  Leads(m, o, c[1], c[2][o])'
    <3>1. Claims(m)' = Claims(m)
      BY <2>1 DEF Claims, Timeouts
    <3>2. Leads(m, o, c[1], c[2][o])
      BY <1>0, <2>1, <2>5, <3>1 DEF LeadsInv
    <3>3. Holds(m, o)' => Holds(m, o) /\ world'[o] = world[o]
      BY <1>0, <2>2
    <3>4. \A d \in Children(m)' : Pending(d)' /\ o \in br'[d].names =>
            /\ d \in Children(m) /\ Pending(d)
            /\ o \in br[d].names /\ br'[d].base = br[d].base
      BY <2>1, <2>2
    <3>5. ASSUME NEW kk, NEW vv, Leads(m, o, kk, vv) PROVE Leads(m, o, kk, vv)'
      BY <2>1, <3>3, <3>4, <3>5, LeadsSame
    <3> QED
      BY <3>2, <3>5
  <2>6. LeadsInv'
    BY <2>1, <2>5 DEF LeadsInv
  <2> QED
    BY <2>4, <2>6
<1> QED
  BY <1>1, <1>2, FinishShape

LEMMA StashLeads ==
    ASSUME StructInv, StructInv', OwnerInv, LeadsInv, NEW n \in Nodes, Stash(n)
    PROVE  OwnerInv' /\ LeadsInv'
<1>1. UNCHANGED <<br, stray, world>>
  BY DEF Stash, history
<1>2. \A m \in Nodes : Pending(m)' = Pending(m)
  BY DEF Stash, Pending, StructInv, TypeOK
<1> QED
  BY <1>1, <1>2, SameSteps

LEMMA FireLeads ==
    ASSUME StructInv, StructInv', OwnerInv, LeadsInv, NEW n \in Nodes, NEW t, Fire(n, t)
    PROVE  OwnerInv' /\ LeadsInv'
<1>1. UNCHANGED <<br, stray, world, status>>
  BY DEF Fire, history
<1>2. \A m \in Nodes : Pending(m)' = Pending(m)
  BY <1>1 DEF Pending
<1> QED
  BY <1>1, <1>2, SameSteps

RestoreInv == StructInv /\ OwnerInv /\ LeadsInv

LEMMA InitRestore == Init => RestoreInv
<1> SUFFICES ASSUME Init PROVE RestoreInv
  OBVIOUS
<1>1. StructInv
  BY InitStruct
<1> DEFINE top == Branch(Objects \cup Keys, 0, Blank)
<1>2. \A n \in Nodes : Pending(n) <=> n = Root
  BY DEF Init, Pending
<1>3. br[Root] = top /\ world = Blank
  BY NodeFacts DEF Init
<1>4. top.stack = << >> /\ top.undo = << >> /\ top.popped = {} /\ top.mode = "run"
      /\ top.base = Blank
  BY DEF Branch
<1> HIDE DEF top
<1>5. OwnerInv
  BY <1>2 DEF OwnerInv, Holds
<1>6. Claims(Root) = {<<0, Blank>>} /\ Children(Root) = {}
  BY <1>3, <1>4 DEF Claims, Timeouts, Children
<1>7. ASSUME NEW o, NEW c \in Claims(Root) PROVE Leads(Root, o, c[1], c[2][o])
  <2>1. c[1] = 0 /\ c[2][o] = world[o]
    BY <1>3, <1>6
  <2>2. Gives(br[Root].undo, o, c[1], c[2][o])
    BY <1>3, <1>4, <2>1 DEF Gives
  <2>3. Now(Root, o, c[2][o])
    BY <1>3, <1>4, <1>6, <2>1 DEF Now
  <2> QED
    BY <2>2, <2>3 DEF Leads
<1>8. LeadsInv
  BY <1>2, <1>7 DEF LeadsInv
<1> QED
  BY <1>1, <1>5, <1>8 DEF RestoreInv

LEMMA RestoreStep == RestoreInv /\ [Next]_vars => RestoreInv'
<1> SUFFICES ASSUME RestoreInv, [Next]_vars PROVE RestoreInv'
  OBVIOUS
<1>1. StructInv /\ OwnerInv /\ LeadsInv /\ StructInv'
  BY StructStep DEF RestoreInv
<1>2. CASE UNCHANGED vars
  <2>1. UNCHANGED <<br, stray, world, status>>
    BY <1>2 DEF vars
  <2>2. \A m \in Nodes : Pending(m)' = Pending(m)
    BY <2>1 DEF Pending
  <2> QED
    BY <1>1, <2>1, <2>2, SameSteps DEF RestoreInv
<1>3. CASE Report
  BY <1>1, <1>3, QuietSteps, NodeFacts DEF RestoreInv
<1>4. ASSUME NEW n \in Nodes,
             \/ Cancel(n) \/ Unwind(n) \/ Stash(n) \/ RollbackDone(n) \/ Fail(n)
             \/ \E o \in Objects : Call(n, o)
             \/ \E kind \in Kinds, key \in Keys \cup {NoKey} : Enter(n, kind, key)
             \/ Succeed(n) \/ Return(n) \/ PopUndo(n) \/ UndoOk(n) \/ UndoFails(n)
             \/ AnyFork(n) \/ Finish(n) \/ JoinLeft(n) \/ JoinRight(n)
             \/ \E t \in DOMAIN br[n].stack : Fire(n, t) \/ GraceEnds(n, t)
      PROVE  RestoreInv'
  <2>1. CASE \/ Cancel(n) \/ Unwind(n) \/ RollbackDone(n) \/ Fail(n)
             \/ \E o \in Objects : Call(n, o)
    BY <1>1, <2>1, QuietSteps DEF RestoreInv
  <2>2. CASE \/ Stash(n) \/ Finish(n)
             \/ \E t \in DOMAIN br[n].stack : Fire(n, t) \/ GraceEnds(n, t)
    BY <1>1, <2>2, StashLeads, FinishLeads, FireLeads, GraceLeads DEF RestoreInv
  <2>3. CASE \/ \E kind \in Kinds, key \in Keys \cup {NoKey} : Enter(n, kind, key)
             \/ Succeed(n) \/ Return(n)
    BY <1>1, <2>3, EnterLeads, SucceedLeads, ReturnLeads DEF RestoreInv
  <2>4. CASE PopUndo(n) \/ UndoOk(n) \/ UndoFails(n)
    BY <1>1, <2>4, PopUndoLeads, UndoLeads DEF RestoreInv
  <2>5. CASE AnyFork(n)
    BY <1>1, <2>5, ForkOwner, ForkLeads DEF RestoreInv, AnyFork
  <2>6. CASE JoinLeft(n) \/ JoinRight(n)
    BY <1>1, <2>6, MergeLeftLeads, CompleteLeads DEF RestoreInv, Completes
  <2> QED
    BY <1>4, <2>1, <2>2, <2>3, <2>4, <2>5, <2>6
<1> QED
  BY <1>2, <1>3, <1>4, Steps

LEMMA RestoreInvRestores == RestoreInv => TimeoutRestores
<1> SUFFICES ASSUME RestoreInv, NEW n \in Nodes, Undoing(n), Marked(n),
                    NEW o \in br[n].names \cap Objects, o \notin stray
             PROVE  world[o] = Top(n).world[o]
  BY DEF TimeoutRestores
<1>1. TypeOK /\ ShapeOf(n) /\ StructInv /\ LeadsInv
  BY DEF RestoreInv, StructInv, BranchInv
<1>2. /\ Depth(n) > 0 /\ Top(n).kind = "timeout" /\ Children(n) = {}
      /\ Live(n) /\ br[n].popped = {} /\ Len(br[n].undo) <= Top(n).mark
  BY <1>1 DEF Undoing, Marked, ShapeOf, Children
<1>3. <<Top(n).mark, Top(n).world>> \in Claims(n)
  BY <1>1, <1>2, TopTypes DEF Claims, Timeouts, Top
<1>4. Leads(n, o, Top(n).mark, Top(n).world[o])
  <2>1. ASSUME NEW c \in Claims(n) PROVE Leads(n, o, c[1], c[2][o])
    BY <1>1, <1>2 DEF LeadsInv, Pending, Live
  <2> QED
    BY <1>3, <2>1
<1>5. Free(br[n].undo, o, Top(n).mark)
  <2>1. Len(br[n].undo) \in Nat /\ Top(n).mark \in Nat
    BY <1>1, <1>2, TopTypes, Fields
  <2> QED
    BY <1>2, <2>1 DEF Free
<1>6. Holds(n, o)
  BY <1>2 DEF Holds, Pending, Live
<1> QED
  BY <1>2, <1>4, <1>5, <1>6 DEF Leads, Now

\* A Timeout that is rolled back leaves every object its branch names as it
\* found it, whatever the branches below it have done, in whatever order they
\* were joined, stashed or dropped, but for what is stray.
THEOREM TimeoutRestoresHolds == Spec => []TimeoutRestores
  BY InitRestore, RestoreStep, RestoreInvRestores, PTL DEF Spec

=============================================================================
