SPECIFICATION FairSpec
CONSTANTS
    r1 = r1
    r2 = r2
    Requests <- MCOne
    Uins <- MCUins
    Calls <- MCLifeAndNetwork
    MaxRetry = 1
    MaxTasks = 1
    MaxTokens = 2
INVARIANT RunningHasConnection
PROPERTY CompletedOnce RequestsComplete
CHECK_DEADLOCK FALSE
