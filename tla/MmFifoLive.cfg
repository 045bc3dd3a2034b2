\* Two senders compete for the elements; the tail is released in batches of two.
SPECIFICATION FairSpec
CONSTANTS
    s1 = s1
    s2 = s2
    d0 = d0
    d1 = d1
    d2 = d2
    d3 = d3
    d4 = d4
    Senders = {s1, s2}
    FifoSize = 4
    ReleaseBatch = 2
    MaxPoll = 1
    Descs = {d0, d1, d2, d3, d4}
    NoDesc = NoDesc
    InitDesc <- MCInitDesc4
    InitLast = d2
    NoMsg = NoMsg
    Lost = Lost
    ArbElem = ArbElem
    Inlines = {TRUE}
    UsesEvents = FALSE
    AttachMayFail = FALSE
    SockCap = 1
    MaxMsgs = 3
PROPERTIES
    EverythingRead
    PendingDrains
CHECK_DEADLOCK FALSE
