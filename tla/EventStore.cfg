CONSTANTS
    Jobs = {}
    NoJob = NoJob
    Sessions = {s1}
    NoSession = NoSession
    MaxSeq = 3
    MaxAccepted = 5
    Verdicts = {"done", "waiting", "blocked"}
    MaxBlocks = 2
    MaxGenerations = 4
SPECIFICATION StoreSpec
CHECK_DEADLOCK FALSE
INVARIANTS
    ReportTuplesLegal
    ActionableIsTold
    ProjectionIsCurrent
PROPERTIES
    SettledBumpsNothing
