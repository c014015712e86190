CONSTANTS
    Tasks = {t1}
    MaxSends = 2
    NoTask = NoTask
SPECIFICATION Spec
CHECK_DEADLOCK FALSE
INVARIANTS
    OlderTextNeverLands
