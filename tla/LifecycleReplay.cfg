CONSTANTS
    Jobs = {j1, j2}
    NoJob = NoJob
    MaxEvents = 4
    MaxDisconnects = 1
SPECIFICATION Spec
SYMMETRY JobSymmetry
CHECK_DEADLOCK FALSE
INVARIANTS
    QuiescentIsTrue
    CountNeverShort
    ArrivalOrderIrrelevant
