SPECIFICATION Spec
CONSTANTS
    c1 = c1
    c2 = c2
    k1 = k1
    k2 = k2
    v1 = v1
    v2 = v2
    absent = absent
    Absent = absent
    Threads <- MCThreads
    Keys <- MCKeys
    Values <- MCValues
    Inputs <- MCTableInputs
    ElapsedTimes <- MCElapsed
    RacedTimes <- MCRaced
    MaxEvents = 3
INVARIANT NoInvalidRead
