SPECIFICATION Spec
CONSTANTS
    DataLength = 8
    HeaderLength = 2
    Sizes = {2}
    BufSizes = {2}
    Tags = {t1, t2}
    ShortReadsMayWrap = FALSE
    t1 = t1
    t2 = t2
INVARIANTS
    UnreadIntact
