SPECIFICATION Spec
CONSTANTS
    Header = 2
    HeadLens <- MCHeadLens
    Bodies <- MCBodies
    Count = 3
    ReadSize = 8
    RestSize = 3
    Pools <- MCPools
INVARIANT PacketsDelivered RestIsTail UnreadIsReported OnlyFullReadsClose
CHECK_DEADLOCK FALSE
