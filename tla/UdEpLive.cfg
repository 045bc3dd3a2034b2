\* A lossy network that is fair to each kind of useful packet.
SPECIFICATION FairSpec
CONSTANTS
    a = a
    b = b
    Ep <- TwoEps
    SnMod = 65536
    FirstPsn = 1
    MinWindow = 2
    MaxWindow = 3
    MaxMsg <- Msg20
    TxLen = 1
    MaxFlush <- None
    SendKinds <- SmallBig
    Modes <- Sync
    CloseKinds = {}
    MaxNet = 1
    Lossy = TRUE
PROPERTIES
    AllReceived
CHECK_DEADLOCK FALSE
