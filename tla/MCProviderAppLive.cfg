SPECIFICATION FairSpec
CONSTANTS
    MaxRequests = 1
    MaxNet = 1
    MaxKills = 1
    AcceptHasStartTime = FALSE
PROPERTIES
    RequestViewExpires
