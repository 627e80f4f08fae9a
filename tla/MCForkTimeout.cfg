\* A Fork in or around Timeouts; its right branch may commit a segment.
CONSTANTS
    Objects = {x, y}
    NoObject = NoObject
    Keys = {k}
    NoKey = NoKey
    x = x
    y = y
    k = k
    Splits <- MCSplits
    Kinds = {"timeout", "idem"}
    MaxForks = 1
    MaxDepth = 2
    MaxOps = 2
    MaxTimers = 2
    Hangs = TRUE
    Fails = TRUE
SPECIFICATION FairSpec
CHECK_DEADLOCK FALSE
INVARIANTS TimeoutRestores CommittedStands ExactlyOnce
PROPERTIES TimeoutAnswers OrphansStop
