CONSTANTS
    Drivers = {d1}
    Pi = d1
    MaxGeneration = 2
    MaxEpoch = 4
    Urgent = {2}
    MaxConns = 4
    MaxDrops = 1
    MaxEvents = 2
SPECIFICATION AdapterSpec
CHECK_DEADLOCK FALSE
PROPERTIES
    DeliveredByItsOwnWake
    DischargesLedger
    EventsArrive
