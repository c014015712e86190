CONSTANTS
    Tasks = {t1}
    Watchers = {w1}
    Driver = Driver
    MaxChanges = 3
    MaxTurns = 1
    MaxFaults = 2
SPECIFICATION LiveSpec
CHECK_DEADLOCK FALSE
INVARIANT LedgerSound
PROPERTY EveryGenerationRead
