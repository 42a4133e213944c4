SPECIFICATION Spec
CONSTANTS
    v1 = v1
    v2 = v2
    Absent = Absent
    NLists = 3
    IntBits = 8
    Keys <- MCKeys
    Values <- MCValues
INVARIANTS
    TypeOK
    ListsWellFormed
    CopiesComplete
PROPERTIES
    OperationsCorrect
