\* A branch, its parent and a concurrent branch over two locks.
SPECIFICATION FairSpec
CONSTANTS
    a = a
    p = p
    c = c
    Branches = {a, p, c}
    Locks = {l1, l2}
    NoBranch = NoBranch
    Parent <- MCParent
    RetryLimit = 2
    MaxUndo = 2
    Disciplined = TRUE
INVARIANTS
    MutualExclusion
    ClaimIffHeld
    NeverBlocks
PROPERTIES
    ImplementsLockService
    LockAnswers
    ClaimsDrain
CHECK_DEADLOCK FALSE
