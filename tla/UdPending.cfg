SPECIFICATION FairSpec
CONSTANTS
    a = a
    b = b
    Ep <- TwoEps
    CanAddTo <- AddToOther
    StartsConnected <- OnlyA
    Loads <- MixedLoads
    Window = 1
    TxLen = 2
    Skbs = 5
INVARIANTS
    SentInOrder
    ReadyIsScheduled
PROPERTIES
    DispatchEnds
    RequestsDrain
