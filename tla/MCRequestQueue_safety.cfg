SPECIFICATION Spec
CONSTANTS
    r1 = r1
    r2 = r2
    Requests <- MCTwo
    Uins <- MCUins
    Calls <- MCNetwork
    MaxRetry = 1
    MaxTasks = 1
    MaxTokens = 2
SYMMETRY MCSymmetry
INVARIANT WaitingMeansSent OwnReply
PROPERTY UnacknowledgedAlone DrivesLink
CHECK_DEADLOCK FALSE
