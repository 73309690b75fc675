SPECIFICATION RoundSpec
CONSTANTS
    Threads <- MCThreads
    Does <- MCDoes
    MaxCalls = 2
    MaxPosts <- MCMaxPosts
INVARIANT NoLostWakeup
PROPERTY InOrder EveryTaskRuns CallbacksInOrder CallbacksArrive
CHECK_DEADLOCK FALSE
