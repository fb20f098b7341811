CONSTANTS
    Topics <- MCTopics
    Concrete <- MCConcrete
    Match <- MCMatch
    Kill <- KillTopic
    MaxClients = 2
    MaxMsgs <- ReqRspMsgs
    MaxTasks = 2
    Contents <- ReqRsp
SPECIFICATION Spec
INVARIANTS TypeOK NoDanglingReference LiveClientsRegistered PendingHasTimer ResponseOnce AckBeforeResponse ResponseFromResponder
PROPERTY LiveClientsKeepRoutes
CHECK_DEADLOCK FALSE
