CONSTANTS
    Topics <- MCTopics
    Concrete <- MCConcrete
    Match <- MCMatch
    MaxCalls = 2
    MaxRequests = 2
    MaxQueue = 1
    Inputs <- MCServing
SPECIFICATION Spec
INVARIANT DroppingOnlyStopsServing
CHECK_DEADLOCK FALSE
