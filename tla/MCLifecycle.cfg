CONSTANTS
    Serves <- MCServes
    Conns <- MCConns
    Scenarios <- MCScenarios
SPECIFICATION FairSpec
INVARIANTS ReturnedMeansStopped ListensWhileServing PathIsOfTheLatest
PROPERTIES NothingKeepsRunning ConnectionsAreServedOrClosed
CHECK_DEADLOCK FALSE
