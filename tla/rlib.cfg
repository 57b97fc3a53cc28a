SPECIFICATION FairSpec
CHECK_DEADLOCK FALSE
CONSTANTS
    SinLength = 4
    SoutLength = 4
    SeqMod = 16
INVARIANTS
    TypeOK
    RequestsFit
PROPERTIES
    DrainedOnReturn
    CallReturns
