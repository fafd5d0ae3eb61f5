SPECIFICATION Spec
CONSTANTS
    Providers = {1, 2}
    MaxPings = 2
    MaxScreens = 1
INVARIANTS
    MarkersFollowProviders
    NoProviderTwice
    RosterErrorHasCause
    CancelReachesAsked
