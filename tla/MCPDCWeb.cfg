SPECIFICATION FairSpec
CONSTANTS
    Desks = {}
    Requests = {r1}
    Overlap = FALSE
    Leaves = FALSE
    HangsUp = FALSE
    Outages = FALSE
    MaxSeq = 1
    MaxCrash = 0
PROPERTY EveryClearanceResolved
CHECK_DEADLOCK FALSE
