SPECIFICATION FairSpec
CONSTANTS
    Thread = {t1, t2}
    Async = async
    Pages = 2
    MaxRegions = 1
    MaxUnreleased = 0
    Loads <- Mixed
    NoRegion = none
INVARIANTS
    CountsExact
    OneDestroyer
    NoDanglingRegion
    FreshRegistration
    PgtDisjoint
PROPERTIES
    OperationsReturn
    InvalidationCompletes
CHECK_DEADLOCK FALSE
