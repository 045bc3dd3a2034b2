\* The queue pair of a healthy device gives up on the failed peer.
SPECIFICATION RetrySpec
CONSTANTS
    A = a
    B = b
    NumLanes = 3
    LinkOf <- MCLinkOf
    Guid <- MCGuid
    NoCtx = NoCtx
    SnMod = 65536
    FirstSn = 65535
    CqLen = 8
    RxMaxPoll = 4
    Loads <- PeerFault
INVARIANTS
    CreditsExact
CHECK_DEADLOCK FALSE
