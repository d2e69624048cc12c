CONSTANTS
    InitialCapacity = 2
    Uninit = Uninit
    Null = Null
    Values = {va, vb}
    Keys <- CollidingKeys
    MaxCalls = 6
SPECIFICATION Spec
INVARIANTS
    TypeOK
    ExactWithoutDeletes
    KeysNotLost
    CountCoversSlots
    InsertSpinsOnlyAfterPhantom
\* The thread stops when a call hangs, and calls are bounded.
CHECK_DEADLOCK FALSE
