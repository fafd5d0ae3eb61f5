SPECIFICATION Spec
CONSTANTS
    MaxTrips = 2
    MaxNet = 2
    MaxKills = 0
    AcceptHasStartTime = FALSE
INVARIANT WaitingDashboardListens
