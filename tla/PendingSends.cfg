CONSTANTS
    Tasks = {t1, t2}
    MaxSends = 2
    NoTask = NoTask
SPECIFICATION LiveSpec
CHECK_DEADLOCK FALSE
INVARIANTS
    OneOpenPerTask
    SubmittedAtMostOnce
    OutcomeHonest
PROPERTIES
    EveryFollowUpResolves
