SPECIFICATION FairSpec
CONSTANTS
    MaxDepth = 6
    MaxCalls = 2
INVARIANTS
    SpinnerHasCall
    DashboardIsRemembered
    ScreensHaveData
PROPERTIES
    ScreenIsFreed
