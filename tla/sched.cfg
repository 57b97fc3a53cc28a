SPECIFICATION Spec
CONSTANTS
    NumSlots = 4
    QueueLength = 3
    MaxId = 3
    SinLength = 1
    SoutLength = 1
    Addrs = {a}
    Words = {0}
    Counts = {1}
    MaxWaits = 2
    States <- ReadyStates
    Mixes = {{"spawn", "set_state", "wait", "wake", "reap"}}
    ReadyIds = {2, 3}
    Names = {}
    GinLength = 0
    ReapIds = {0}
    a = a
INVARIANTS
    TypeOK
    NoBlockedRuns
    QueueMatchesMap
    NobodySkipped
    RepliesReachRequester
PROPERTIES
    ListenDrains
