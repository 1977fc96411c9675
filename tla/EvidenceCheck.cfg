SPECIFICATION EvidenceSpec
CHECK_DEADLOCK FALSE
CONSTANTS
    Replicas = {"r1", "r2"}
    Interceptor = "mitm"
    Deployments <- mcDeployments
    Commands <- mcCommands
    Releases = {"v1"}
    OSImages = {"os1"}
    MaxDials = 2
    MaxRenewals = 1
    NotFetched = NotFetched
    None = None
INVARIANTS
    PassIsEarned
    
