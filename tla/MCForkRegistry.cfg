\* Forks nested and repeated, with Replace, until the regions run out.
CONSTANTS
    MaxForks = 3
    Width = 4
    MaxRegions = 3
    AllocLimit = 3
    Resources = {}
    Parallel = TRUE
    Replaces = TRUE
    Drops = FALSE
SPECIFICATION Spec
INVARIANTS TypeOK FdUnique NoHandleLost NoOverflow
CHECK_DEADLOCK FALSE
