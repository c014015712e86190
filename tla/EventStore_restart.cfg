CONSTANTS
    Jobs = {}
    NoJob = NoJob
    Sessions = {s1, s2}
    NoSession = NoSession
    MaxSeq = 2
    MaxAccepted = 4
    Verdicts = {"done"}
    MaxBlocks = 1
    MaxGenerations = 3
SPECIFICATION StoreSpec
CHECK_DEADLOCK FALSE
PROPERTIES
    SettledBumpsNothing
