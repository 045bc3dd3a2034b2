\* Two senders of messages in descriptors, which the user may keep; the FIFO is full most
\* of the time, the receiver sleeps, the pool can run empty and an attach can fail.
SPECIFICATION Spec
CONSTANTS
    s1 = s1
    s2 = s2
    d0 = d0
    d1 = d1
    d2 = d2
    d3 = d3
    d4 = d4
    Senders = {s1, s2}
    FifoSize = 2
    ReleaseBatch = 1
    MaxPoll = 2
    Descs = {d0, d1, d2}
    NoDesc = NoDesc
    InitDesc <- MCInitDesc2
    InitLast = d2
    NoMsg = NoMsg
    Lost = Lost
    ArbElem = ArbElem
    Inlines = {FALSE}
    UsesEvents = TRUE
    AttachMayFail = TRUE
    SockCap = 1
    MaxMsgs = 2
CONSTRAINT ThreeTaken
SYMMETRY SenderSymmetry
INVARIANTS
    ReadsWhatWasTaken
    EndpointOrder
    NoLostWakeup
    KeptMessageStable
PROPERTIES
    ImplementsQueue
CHECK_DEADLOCK FALSE
