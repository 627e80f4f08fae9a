\* One branch and every file operation.
CONSTANTS
    Paths = {p, q}
    Ops = {"open", "read", "seek", "write", "send", "truncate", "unlink",
           "rename", "dup", "dup2", "close", "replace"}
    Access <- MCAccess
    Inherited <- MCInherited
    Offsets = {1, 3}
    Lengths = {2}
    FULL_UNDO_MAX_BYTES = 4
    MaxCalls = 3
    Forks = FALSE
    Sharing = FALSE
SYMMETRY Symmetry
SPECIFICATION Spec
INVARIANTS TypeOK 
PROPERTIES UndoExact
