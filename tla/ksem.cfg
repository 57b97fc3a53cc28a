SPECIFICATION Spec
CONSTANTS
    Procs = {p1, p2}
    Amounts = {1, 2}
    InitialUnits = 1
    MaxGiven = 2
    Word = 5
    p1 = p1
    p2 = p2
PROPERTIES
    DecTakesItsUnits
