\* Completions and flushes while the endpoint is cancelled, disconnected or times out.
SPECIFICATION Spec
CONSTANTS
    a = a
    b = b
    Ep <- TwoEps
    SnMod = 65536
    FirstPsn = 1
    MinWindow = 2
    MaxWindow = 3
    MaxMsg <- Msg20
    TxLen = 2
    MaxFlush <- One0
    SendKinds <- WithComp
    Modes <- Both
    CloseKinds = {"cancel", "disconnect", "timeout"}
    MaxNet = 1
    Lossy = TRUE
INVARIANTS
    CompletionOrder
    SuccessMeansReceived
    FlushDoneMeansReceived
    CancelNeedsNoPeer
CHECK_DEADLOCK FALSE
