CONSTANTS
    HeaderLen = 2
    Sizes <- MCSizes
    Short = 1
    MaxSize = 4
    Room = 3
    Timeout = 2
    Loads <- MCLoads
SPECIFICATION FairSpec
INVARIANTS TypeOK DecodedAsEncoded FailsForAReason
PROPERTIES SilentClientIsDropped AllSentIsReceived
CHECK_DEADLOCK FALSE
