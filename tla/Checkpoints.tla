---------------------------- MODULE Checkpoints ----------------------------
(***************************************************************************)
(* What Replace and Timeout promise a program about the world its syscalls *)
(* change: the state at the start of the execution segment, and the state  *)
(* at the start of every Timeout still open, are checkpoints.  A Timeout   *)
(* that fires puts the world back to its own checkpoint, Replace and       *)
(* recover put it back to the first one, each in one step, or fail and say *)
(* so.  The runtime does it one inverse operation at a time (Interpreter). *)
(***************************************************************************)
EXTENDS Naturals

CONSTANTS
    Objects,    \* what invertible syscalls overwrite
    Value,      \* the contents an object can have
    Levels      \* how deep Timeouts can be nested

VARIABLES
    world,          \* the contents of every object
    checkpoints,    \* each open Timeout's, at its level; the segment's at 0
    failed          \* going back has failed, and the program is told

vars == <<world, checkpoints, failed>>

Worlds == [Objects -> Value]

Open == DOMAIN checkpoints
Latest == CHOOSE l \in Open : \A m \in Open : m <= l
Outside == Open = {0}

Init ==
    /\ world \in Worlds
    /\ checkpoints = [l \in {0} |-> world]
    /\ failed = FALSE

Write(o) ==
    /\ world' \in Worlds
    /\ \A p \in Objects \ {o} : world'[p] = world[p]
    /\ UNCHANGED <<checkpoints, failed>>

\* A Timeout starts ...
Start(l) ==
    /\ \A m \in Open : m < l
    /\ checkpoints' = [m \in Open \cup {l} |-> IF m = l THEN world ELSE checkpoints[m]]
    /\ UNCHANGED <<world, failed>>

\* ... is over, whatever its outcome ...
Finish ==
    /\ Latest # 0
    /\ checkpoints' = [m \in Open \ {Latest} |-> checkpoints[m]]
    /\ UNCHANGED <<world, failed>>

\* ... but not before undoing everything done in it, if it fired.
Rollback ==
    /\ world' = checkpoints[Latest]
    /\ UNCHANGED <<checkpoints, failed>>

\* Replace and recover, outside every Timeout.
Regress ==
    /\ Outside
    /\ world' = checkpoints[0]
    /\ UNCHANGED <<checkpoints, failed>>

\* If it cannot be done, the world is what it is, and a new segment starts
\* from there.
Fail ==
    /\ Outside
    /\ world' \in Worlds
    /\ checkpoints' = [l \in {0} |-> world']
    /\ failed' = TRUE

Report ==
    /\ failed
    /\ failed' = FALSE
    /\ UNCHANGED <<world, checkpoints>>

Next ==
    \/ \E o \in Objects : Write(o)
    \/ \E l \in Levels : Start(l)
    \/ Finish \/ Rollback \/ Regress \/ Fail \/ Report

Spec == Init /\ [][Next]_vars

=============================================================================
