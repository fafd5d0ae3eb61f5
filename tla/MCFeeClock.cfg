SPECIFICATION FairSpec
CONSTANTS
    SecondsPerMinute = 3
    MinutesPerHour = 4
    MaxTime = 20
INVARIANTS
    FreeLabelHasCause
    FreeCancelHasCause
PROPERTIES
    ButtonKeepsPromise
    FeeIsAnnounced
CHECK_DEADLOCK FALSE
