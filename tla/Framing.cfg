SPECIFICATION FairSpec
CONSTANTS
    garbled = garbled
    Garbled = garbled
    Sizes <- MCSizes
    MAX_MSG = 2
    SHRT_MAX = 7
    MaxMessages = 2
    MaxSignals = 1
INVARIANTS
    TypeOK
    InStep
PROPERTIES
    Channels
    EveryCallReturns
