SPECIFICATION FairSpec
CONSTANTS
    t1 = t1
    t2 = t2
    t3 = t3
    none = none
    NoThread = none
    Threads <- MCThreads
    INT_MIN <- MCIntMin
    INT_MAX = 7
    MaxCalls = 2
INVARIANTS TypeOK MutualExclusion CountersExact NoLostWakeup
PROPERTIES Exclusion EveryCallReturns
