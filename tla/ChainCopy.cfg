SPECIFICATION Spec
CONSTANTS
    s1 = s1
    s2 = s2
    s3 = s3
    k1 = k1
    k2 = k2
    v1 = v1
    v2 = v2
    Absent = Absent
    Client = Client
    Servers <- MCTwoServers
    Keys <- MCTwoKeys
    Values <- MCOneValue
    MaxWrites = 3
    MaxCrashes = 0
    MaxEvents = 3
    Rank <- MCTwoRanks
    SortedListing = TRUE
    PathRecorded = TRUE
PROPERTIES
    CopyIsPut
