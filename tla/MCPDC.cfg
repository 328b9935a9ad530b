SPECIFICATION FairSpec
CONSTANTS
    Desks = {d1}
    Requests = {r1}
    Overlap = FALSE
    Leaves = FALSE
    HangsUp = TRUE
    Outages = FALSE
    MaxSeq = 2
    MaxCrash = 1
INVARIANTS ConfirmedWasAcknowledged RemovedSessionQuiet OutstandingTimed WithdrawnNotCleared
PROPERTY DatalinkResolved
CHECK_DEADLOCK FALSE
