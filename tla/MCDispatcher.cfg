CONSTANTS
    Keys = {a, b}
    Workers = 1
    Limit = 2
    MaxBatch = 2
    MaxJobs = 4
SPECIFICATION FairSpec
CHECK_DEADLOCK FALSE
INVARIANTS
    DepthBounded
PROPERTIES
    ImplementsLanes
    AcceptedFinishes
    CloseReturns
