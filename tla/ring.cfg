SPECIFICATION Spec
CONSTANTS
    DataLength = 15
    HeaderLength = 2
    Sizes = {2, 4}
    BufSizes = {2, 4}
    Tags = {t1, t2}
    ShortReadsMayWrap = FALSE
    t1 = t1
    t2 = t2
INVARIANTS
    TypeOK
    UnreadIntact
    BeginAtOldest
    SpaceAccounting
PROPERTIES
    PutNeverFills
    ImplementsChannel
