\* Scopes, Catches and Timeouts nested in each other, with Replace and recover.
CONSTANTS
    Objects = {x, y}
    NoObject = NoObject
    Keys = {k}
    NoKey = NoKey
    Dirs = {home, tmp}
    HomeDir = home
    Kinds = {"scope", "catch", "timeout", "idem"}
    ReplaceIn = {"scope", "catch"}
    MaxDepth = 2
    MaxOps = 3
    Sends = TRUE
    FailIn = {"replacing", "recovering"}
    Drops = FALSE
SPECIFICATION Spec
INVARIANTS TypeOK GateSound TimeoutRestores TimeoutUndoesInner ScopeCwd
PROPERTIES ImplementsCheckpoints
SYMMETRY MCSymmetry
