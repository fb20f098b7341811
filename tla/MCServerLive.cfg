CONSTANTS
    Topics <- MCTopics
    Concrete <- MCConcrete
    Match <- MCMatch
    Kill <- KillTopic
    MaxClients = 2
    MaxMsgs <- ServiceMsgs
    MaxTasks = 2
    Contents <- Service
SPECIFICATION FairSpec
PROPERTIES AcceptedRequestIsAnswered DepartedIsForgotten
CHECK_DEADLOCK FALSE
