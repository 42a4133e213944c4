SPECIFICATION FairSpec
CONSTANTS
    s1 = s1
    s2 = s2
    s3 = s3
    k1 = k1
    k2 = k2
    v1 = v1
    v2 = v2
    Absent = Absent
    Client = Client
    Servers <- MCTwoServers
    Keys <- MCOneKey
    Values <- MCOneValue
    MaxWrites = 1
    MaxCrashes = 0
    MaxEvents = 1
    Rank <- MCTwoRanks
    SortedListing = TRUE
    PathRecorded = FALSE
PROPERTIES
    EveryWriteFinishes
CHECK_DEADLOCK FALSE
