CONSTANTS
    Topics <- MCTopics
    Concrete <- MCConcrete
    Match <- MCMatch
    Kill <- KillTopic
    MaxClients = 2
    MaxMsgs <- ServiceMsgs
    MaxTasks = 2
    Contents <- Service
SPECIFICATION Spec
INVARIANT ServerOnlyStopsWhenTold
CHECK_DEADLOCK FALSE
