SPECIFICATION InsertSpec
CONSTANTS
    Keys = {1, 2, 3, 4, 5, 6}
    Datas = {d}
    NULL = NULL
    d = d
INVARIANTS
    Balanced
