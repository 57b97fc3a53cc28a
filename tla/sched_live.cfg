SPECIFICATION FairSpec
CONSTANTS
    NumSlots = 3
    QueueLength = 2
    MaxId = 3
    SinLength = 2
    SoutLength = 0
    Addrs = {a}
    Words = {0, 1}
    Counts = {}
    MaxWaits = 1
    States <- ReadyStates
    Mixes = {{"spawn", "set_state", "wait", "reap"}, {"spawn", "reap", "forward"}, {"spawn", "set_name", "get_named"}}
    ReadyIds = {2}
    Names = {n}
    GinLength = 1
    ReapIds = {2}
    a = a
    n = n
PROPERTIES
    KernelReturns
