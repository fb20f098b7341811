CONSTANTS
    Topics <- MCTopics
    Concrete <- MCConcrete
    Match <- MCMatch
    Kill <- KillTopic
    MaxClients = 3
    MaxMsgs <- CompanyMsgs
    MaxTasks = 2
    Contents <- Company
SPECIFICATION Spec
INVARIANTS AckCountsDeliveries PublisherOrder
PROPERTIES LiveClientsKeepRoutes IncompleteIsReported ImplementsBus
CHECK_DEADLOCK FALSE
