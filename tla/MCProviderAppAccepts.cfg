SPECIFICATION Spec
CONSTANTS
    MaxRequests = 2
    MaxNet = 1
    MaxKills = 0
    AcceptHasStartTime = FALSE
PROPERTIES
    AcceptsWhoWasAsked
