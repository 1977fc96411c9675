SPECIFICATION Spec
CONSTANTS
    Requests = {r1, r2}
    Enforce = TRUE
    QuoteTTL = 2
    SignerTTL = 1
    SignerGrace = 1
    Window = 1
    Backoff = 1
    MaxGen = 2
    MaxTime = 2
SYMMETRY RequestSymmetry
INVARIANTS
    SealedToOneEnclave EnforcedIsAcknowledged 
CHECK_DEADLOCK FALSE
