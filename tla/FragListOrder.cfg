\* The user pulls until NULL after every FIRST; the counter does not wrap.
SPECIFICATION Spec
CONSTANTS
    SnMod = 16
    CountMod = 64
    MaxHoles <- NoHoleLimit
    InitialSn = 3
    MaxElems = 7
    Ahead = 6
    Behind = 3
    PullAll = TRUE
INVARIANTS
    InSerialOrder
    HeldOnce
    RunsExact
    NothingLeftBehind
CHECK_DEADLOCK FALSE
