SPECIFICATION Spec
CONSTANTS
    Addrs = {p1}
    NoAddr = NoAddr
    ServiceTypes = {"chat", "image"}
    Catalog <- MCCatalog
    Requests = {r1}
    Enforce = TRUE
    ProviderEnforce = TRUE
    Interval = 1
    MaxAge = 1
    IdTTL = 2
    MaxRecords = 1
    MaxTime = 3
INVARIANTS
    ReadyIsEarned  
CHECK_DEADLOCK FALSE
