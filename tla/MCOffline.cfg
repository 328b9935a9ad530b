SPECIFICATION OfflineFairSpec
CONSTANTS
    Controllers = {a, b}
    Positions = {p, q}
    Configured = {p, q}
    None = None
    Overlap = FALSE
    Failing = {"classify", "others", "delete"}
    MaxMessages = 3
    MaxTimers = 2
    MaxMasters = 1
    MaxBatches = 2
INVARIANTS LiveWorkerRegistered WindowAlive OnlineKeepsRow
PROPERTY SectorsCatchUp
CHECK_DEADLOCK FALSE
