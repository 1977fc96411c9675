SPECIFICATION Spec
CONSTANTS
    Callers = {c1, c2}
    Providers = {p1, p2}
    TTL = 1
    Grace = 1
    Cooldown = 1
    ReadMax = 1
    MaxTracked = 1
    MaxCalls = 1
    MaxTime = 4
SYMMETRY BothSymmetry
INVARIANTS
    ReadingsInDate 
PROPERTIES
    CapKept
CHECK_DEADLOCK FALSE
