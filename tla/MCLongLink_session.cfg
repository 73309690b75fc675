CONSTANTS
    Addresses = {}
    DefaultAddress = d
    Ports = {}
    DefaultPorts <- OwnPortOnly
    NoServer = none
    Uins = {1}
    RetriesWithData = 1
    RetriesNoData = 1
    Calls <- LifeCalls
    EpollFails = TRUE
    MaxTasks = 1
    MaxInbox = 2
    MaxTokens = 2
SPECIFICATION Spec
INVARIANTS StatusMatchesSocket LoggedOutIsSilent NeverStranded SessionIsOfThisSocket SessionIsShown
PROPERTY TokensAreFresh LeftByLateLogout ImplementsLink
CHECK_DEADLOCK FALSE
