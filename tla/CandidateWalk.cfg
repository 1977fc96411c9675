SPECIFICATION FairSpec
CONSTANTS
    MaxCandidates = 2
    Budget = 2
    AttemptMax = 2
    Overrun = 1
    Kinds = {"buffered", "stream", "async"}
    Keys = {k1, k2}
INVARIANTS
    TypeOK BudgetKept AttemptsJustified CallReport
PROPERTIES
    NoWalkAfterCancel 
CHECK_DEADLOCK FALSE
