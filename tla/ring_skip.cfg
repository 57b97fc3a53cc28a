SPECIFICATION Spec
CONSTANTS
    DataLength = 11
    HeaderLength = 2
    Sizes = {2, 4}
    BufSizes = {2, 4}
    Tags = {t1}
    ShortReadsMayWrap = TRUE
    t1 = t1
INVARIANTS
    BeginAtOldest
