CONSTANTS
    Drivers = {d1}
    MaxGeneration = 4
    MaxEpoch = 3
SPECIFICATION LiveSpec
CHECK_DEADLOCK FALSE
INVARIANTS
    DeliveredHasConfirmedOffer
    OneOutstandingOffer
    OfferNeverCollides
    CursorOrder
PROPERTIES
    DeliveredByCurrentEpochOnly
    CliAcksOnlyReported
    EveryGenerationAcked
    ImplementsWakeCursor
