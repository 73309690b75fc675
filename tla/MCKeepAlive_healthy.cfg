SPECIFICATION FairSpec
CONSTANTS
    RetryTimeout = 2
    ConnectTimeout = 3
    HeardTimeout = 6
    PausedTimeout = 14
    NormalPing = 4
    PushPing = 12
    KeepTime = 12
    Rewind = 10
    Jumps <- BackAndForth
    MaxTasks = 1
INVARIANT HealthyStaysUp NeverOversleeps LoggedInHasConnection
PROPERTY PauseTakesHold LoginConnects
CHECK_DEADLOCK FALSE
