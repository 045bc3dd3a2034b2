\* Two messages over a network that keeps every packet; the numbers wrap after the first.
SPECIFICATION Spec
CONSTANTS
    a = a
    b = b
    Ep <- TwoEps
    SnMod = 65536
    FirstPsn = 65535
    MinWindow = 2
    MaxWindow = 3
    MaxMsg <- Msg20
    TxLen = 2
    MaxFlush <- None
    SendKinds <- SmallBig
    Modes <- Both
    CloseKinds = {}
    MaxNet = 100
    Lossy = FALSE
INVARIANTS
    InOrderDelivery
    AckedWasReceived
    ResendsTracked
CHECK_DEADLOCK FALSE
