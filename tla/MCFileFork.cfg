\* The branches of a Fork on files of their own, with Replace in any of them.
CONSTANTS
    Paths = {p, q}
    Ops = {"open", "write", "rename", "close", "replace"}
    Access <- ForkAccess
    Inherited <- ForkInherited
    Offsets = {1}
    Lengths = {2}
    FULL_UNDO_MAX_BYTES = 4
    MaxCalls = 3
    Forks = TRUE
    Sharing = FALSE
SYMMETRY Symmetry
SPECIFICATION Spec
INVARIANTS LiveFdUsable
PROPERTIES UndoExact
