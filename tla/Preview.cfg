SPECIFICATION Spec
CONSTANTS
    Calls = {c1, c2, c3}
    Attempts = 3
    FirstBackoff = 1
    AttemptTimeout = 1
    RetryBudget = 4
    TripAfter = 2
    Cooldown = 2
    MaxTime = 6
SYMMETRY CallSymmetry
INVARIANTS
    PreviewCeiling GateFair FiledTruly
CHECK_DEADLOCK FALSE
