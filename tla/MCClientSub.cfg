CONSTANTS
    Topics <- MCTopics
    Concrete <- MCConcrete
    Match <- MCMatch
    MaxCalls = 2
    MaxRequests = 0
    MaxQueue = 1
    Inputs <- MCSubscribing
SPECIFICATION FairSpec
INVARIANTS TypeOK NeverPanics HeldUntilAnotherIsDropped
PROPERTY DroppedTopicsAreGivenUp
CHECK_DEADLOCK FALSE
