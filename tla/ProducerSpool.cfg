CONSTANTS
    Producers = {p1, p2, p3}
    Daemon = Daemon
    NoOne = NoOne
SPECIFICATION LiveSpec
CHECK_DEADLOCK FALSE
INVARIANTS
    NothingLost
    NoGap
    AckedIsDurableOnce
    ReuseOnlyAfterTear
PROPERTIES
    SpoolDrains
