SPECIFICATION FairSpec
CONSTANT
    MaxCalls = 2
INVARIANTS
    SpinnerHasWaiter
    DashboardHears
PROPERTY
    SpinnerEnds
