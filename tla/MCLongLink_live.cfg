CONSTANTS
    Addresses = {}
    DefaultAddress = d
    Ports = {}
    DefaultPorts <- OwnPortOnly
    NoServer = none
    Uins = {1}
    RetriesWithData = 1
    RetriesNoData = 1
    Calls <- LifeCalls
    EpollFails = FALSE
    MaxTasks = 1
    MaxInbox = 0
    MaxTokens = 1
SPECIFICATION FairSpec
CHECK_DEADLOCK FALSE
PROPERTY KeepsReconnecting
