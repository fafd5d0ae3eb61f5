SPECIFICATION FairSpec
CONSTANTS
    MaxTrips = 2
    MaxNet = 2
    MaxKills = 1
    AcceptHasStartTime = FALSE
INVARIANTS
    OverlayHasTimer
    VisibleScreenListens
    SocketBeforeWrite
    SheetAfterAcceptance
    ClockStopsAtEnd
PROPERTIES
    RefinesScreenFlow
    OverlayCleared
