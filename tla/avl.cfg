SPECIFICATION Spec
CONSTANTS
    Keys = {1, 2, 3, 4, 5}
    Datas = {d, NULL}
    NULL = NULL
    d = d
INVARIANTS
    TypeOK
    DepthsTrue
PROPERTIES
    ImplementsMap
