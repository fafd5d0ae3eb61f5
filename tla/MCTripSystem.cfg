SPECIFICATION FairSpec
CONSTANTS
    MaxTrips = 2
    MaxNet = 2
    MaxRestarts = 1
INVARIANTS
    StartedTripWasShown
    DisagreementHasCause
PROPERTIES
    RefinesTripLife
    PhonesCatchUp
