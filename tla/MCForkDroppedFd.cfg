\* A dropped Fork gives its left branch's fds out again.
CONSTANTS
    MaxForks = 1
    Width = 4
    MaxRegions = 5
    AllocLimit = 2
    Resources = {}
    Parallel = TRUE
    Replaces = FALSE
    Drops = TRUE
SPECIFICATION Spec
INVARIANT FdUnique
CHECK_DEADLOCK FALSE
