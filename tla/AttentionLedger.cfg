CONSTANTS
    Writers = {w1, w2, w3}
    Reasons = {blocked, failed}
    Nonces = {1, 2}
    MaxClock = 2
    Limit = 1
    NoOne = NoOne
    NoId = NoId
SPECIFICATION Spec
CHECK_DEADLOCK FALSE
SYMMETRY LedgerSymmetry
INVARIANTS
    SuccessorCarriesOn
    OneActivePerReason
    WalkShowsUntouched
PROPERTIES
    HistoryKept
