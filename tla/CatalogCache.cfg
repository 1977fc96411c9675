SPECIFICATION FairSpec
CONSTANTS
    Clients = {1, 2, 3}
    NoClient = 0
    Public = {"models"}
    Private = {"keys"}
    Accepts = {"gzip", "refused"}
    TTL = 1
    MaxEntries = 1
    MaxTime = 1
INVARIANTS
     ReplaySound

    
CHECK_DEADLOCK FALSE
