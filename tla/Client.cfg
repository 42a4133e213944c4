SPECIFICATION FairSpec
CONSTANTS
    N = 3
    Started = 2
    MaxWrites = 1
    MaxFaults = 1
    MaxFd = 4
INVARIANTS
    TypeOK
    CommandsUseLiveTable
    DescriptorsHeld
PROPERTIES
    OwnWritesRead
    FollowsChain
    EveryCommandReturns
