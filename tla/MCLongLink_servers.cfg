CONSTANTS
    Addresses = {a1, a2}
    DefaultAddress = d
    Ports = {1}
    DefaultPorts <- OwnPortThen80
    NoServer = none
    Uins = {1}
    RetriesWithData = 1
    RetriesNoData = 1
    Calls <- ServerCalls
    EpollFails = FALSE
    MaxTasks = 1
    MaxInbox = 0
    MaxTokens = 1
SPECIFICATION Spec
INVARIANTS ForcedServerIsUsed AddressInBounds
CHECK_DEADLOCK FALSE
