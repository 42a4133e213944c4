SPECIFICATION Spec
CONSTANTS
    garbled = garbled
    Garbled = garbled
    Sizes <- MCLongSizes
    MAX_MSG = 2
    SHRT_MAX = 7
    MaxMessages = 2
    MaxSignals = 0
INVARIANT
    ReceivedAsSent
