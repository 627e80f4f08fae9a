\* An undo left behind by MutexUnlock runs later.
SPECIFICATION Spec
CONSTANTS
    a = a
    p = p
    c = c
    Branches = {a, c}
    Locks = {l1}
    NoBranch = NoBranch
    Parent <- MCParent
    RetryLimit = 2
    MaxUndo = 2
    Disciplined = FALSE
INVARIANT
    ClaimIffHeld
CHECK_DEADLOCK FALSE
