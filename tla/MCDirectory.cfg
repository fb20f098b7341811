CONSTANTS
    MaxPath = 3
    Topics <- MCTopics
    Concrete <- MCConcrete
    Match <- MCMatch
    Words <- MCWords
    Clients = {1, 2}
SPECIFICATION Spec
INVARIANTS SubscribersAreTheMatching OwnerIsTheClaimant EveryPatternMatches
PROPERTY ImplementsRouting
CHECK_DEADLOCK FALSE
