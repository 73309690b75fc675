CONSTANTS
    Addresses = {}
    DefaultAddress = d
    Ports = {}
    DefaultPorts <- OwnPortOnly
    NoServer = none
    Uins = {1}
    RetriesWithData = 1
    RetriesNoData = 1
    Calls <- NoCalls
    EpollFails = FALSE
    MaxTasks = 1
    MaxInbox = 2
    MaxTokens = 2
SPECIFICATION Spec
INVARIANT NoBytesOfPreviousConnection
CHECK_DEADLOCK FALSE
