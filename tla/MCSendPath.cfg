SPECIFICATION FairSpec
CONSTANTS
    m1 = m1
    m2 = m2
    ping = ping
    Messages <- MCMessages
    Acked <- MCAcked
    Ping = ping
    MaxBuffers = 6
    MaxPool <- MCMaxPool
    FirstPool <- MCFirstPool
    Lengths <- MCLengths
    HeadLength = 1
    Limit = 4
    ReadSize = 3
    Window = 2
INVARIANT OneOwner NoLeak RoomAsked AckedIsIntact OverlongStaysInStep StreamIsKept
PROPERTY EverythingIsSent
CHECK_DEADLOCK FALSE
