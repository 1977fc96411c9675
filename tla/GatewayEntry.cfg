SPECIFICATION LiveSpec
CONSTANTS
    Reqs = {r1, r2}
    Traffic <- Everything
    Concurrent <- Mixed
    Policies <- AllPolicies
    Wildcards = {"image"}
    MaxInFlight = 1
    MaxFrames = 2
INVARIANTS
    RouterReadsNoSecret AdmittedOnly AnswerTruthful

    
