SPECIFICATION EnforcementSpec
CHECK_DEADLOCK FALSE
CONSTANTS
    Builds = {"v1", "wip", "fork"}
    Uploads <- mcUploads
    Revoked = {}
    Foreign = {"fork"}
    Manifests <- mcManifests
    Baseline <- mcBaseline
    Decoy = "pinned"
    Repository = "zg"
    Reports <- mcReports
    MaxRuntimeRecords = 2
    maxReleaseChecks = 1
    maxJudgedReleases = 1
INVARIANTS
    VouchedIsReleased
    
