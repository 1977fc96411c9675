SPECIFICATION Spec
CONSTANTS
    TTL = 1
    VerifyWindow = 2
    MaxTime = 3
    MaxRuns = 2
    MaxDeaths = 1
    MaxFlaps = 1
    MaxRenewals = 1
INVARIANTS
     CachesOutlasted EndsWhole
CHECK_DEADLOCK FALSE
