SPECIFICATION FairSpec
CONSTANTS
    A = A
    B = B
    MaxConn = 2
    Loads <- TwoOrBusy
    SendsFromCallbacks = FALSE
INVARIANTS
    SameConnSn
    ConnPacketsExpected
    AckedWasDelivered
PROPERTIES
    Connects
CHECK_DEADLOCK FALSE
