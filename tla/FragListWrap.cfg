\* The counter wraps (at 16) while elements are out of order.
SPECIFICATION Spec
CONSTANTS
    SnMod = 16
    CountMod = 64
    MaxHoles <- NoHoleLimit
    InitialSn = 11
    MaxElems = 7
    Ahead = 6
    Behind = 3
    PullAll = TRUE
INVARIANTS
    HeldOnce
CHECK_DEADLOCK FALSE
