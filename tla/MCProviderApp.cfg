SPECIFICATION Spec
CONSTANTS
    MaxRequests = 2
    MaxNet = 1
    MaxKills = 0
    AcceptHasStartTime = FALSE
INVARIANTS
    RequestViewBacked
    OneLocationTimer
    PromptsHaveLocation
    SheetListens
    SheetOfAcceptedTrip
    TripScreenFollowsServer
PROPERTIES
    RefinesProviderFlow
