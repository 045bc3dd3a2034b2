\* Failover of one or two devices under messages and one-sided operations.
SPECIFICATION Spec
CONSTANTS
    A = a
    B = b
    NumLanes = 3
    LinkOf <- MCLinkOf
    Guid <- MCGuid
    NoCtx = NoCtx
    SnMod = 65536
    FirstSn = 65535
    CqLen = 8
    RxMaxPoll = 4
    Loads <- FailoverLoads
INVARIANTS
    InOrderOnce
    CreditsExact
    
    RkeyFits
    
    SameLane
CHECK_DEADLOCK FALSE
