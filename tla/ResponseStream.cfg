SPECIFICATION Spec
CONSTANTS
    Attempts = 3
    Frames = 3
INVARIANTS
    DeliversOnlySealed VerifiedIsExact
PROPERTIES
    KeepsPromise
CHECK_DEADLOCK FALSE
