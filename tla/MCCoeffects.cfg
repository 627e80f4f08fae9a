CONSTANTS
    k1 = k1
    k2 = k2
    v1 = v1
    v2 = v2
    Keys <- MCKeys
    Values <- MCValues
    Unbound = Unbound
    Deps <- MCDeps
    MaxSets = 4
SYMMETRY ValueSymmetry
SPECIFICATION Spec
INVARIANTS RecoverRestores TornDown
PROPERTIES SyncIsNotify
