CONSTANTS
    Topics <- MCTopics
    Concrete <- MCConcrete
    Match <- MCMatch
    MaxCalls = 3
    MaxRequests = 1
    MaxQueue = 1
    Inputs <- MCServing
SPECIFICATION Spec
INVARIANTS NeverPanics ServingMeansOwner
PROPERTY OnlyLiveServesConflict
CHECK_DEADLOCK FALSE
