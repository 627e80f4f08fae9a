\* Parallel and sequential Forks of branches that name a resource, joined or
\* dropped by a timeout.
CONSTANTS
    MaxForks = 2
    Width = 4
    MaxRegions = 5
    AllocLimit = 3
    Resources = {x}
    Parallel = TRUE
    Replaces = FALSE
    Drops = TRUE
SPECIFICATION Spec
INVARIANTS Compact EndedIsRefused HandlesIntact
CHECK_DEADLOCK FALSE
