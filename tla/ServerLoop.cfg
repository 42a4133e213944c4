SPECIFICATION FairSpec
CONSTANTS
    NThreads = 2
    NConns = 3
    MaxRequests = 1
    MaxFailures = 1
INVARIANTS
    TypeOK
    OneSlotPerThread
    NoThreadOutlivesTable
    DescriptorsGivenBack
PROPERTIES
    EveryClientAccepted
    ShutdownCompletes
