\* Syscalls hang, grace runs out, undos fail; Replace runs outside Timeouts.
CONSTANTS
    Objects = {x}
    NoObject = NoObject
    Keys = {k}
    NoKey = NoKey
    Dirs = {home}
    HomeDir = home
    Kinds = {"idem", "catch", "timeout"}
    ReplaceIn = {"catch"}
    MaxDepth = 3
    MaxOps = 2
    Sends = FALSE
    FailIn = {"replacing", "recovering", "rollback"}
    Drops = TRUE
SPECIFICATION FairSpec
INVARIANTS ExactlyOnce CommittedRevertible OwnHolds
PROPERTIES TimeoutAnswers
