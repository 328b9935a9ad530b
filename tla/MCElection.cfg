CONSTANTS
    Clients = {a, b}
    Observers = {}
    Prios = {0, 1}
    Preempt = TRUE
    NoClient = NoClient
    Kinds = {"sync", "tracked"}
    Reporters = {a, b}
    MaxLeaving = 1
    MaxUpdates = 1
SPECIFICATION FairSpec
CHECK_DEADLOCK FALSE
INVARIANTS
    ApplicationFenced
    SyncedIsCurrent
    ReportOfThisElection
    MasterConnected
PROPERTIES
    MasterEventually
