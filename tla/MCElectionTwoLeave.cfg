CONSTANTS
    Clients = {a, b, c}
    Observers = {}
    Prios = {0, 1}
    Preempt = TRUE
    NoClient = NoClient
    Kinds = {}
    Reporters = {}
    MaxLeaving = 2
    MaxUpdates = 0
SPECIFICATION Spec
SYMMETRY Symmetry
CHECK_DEADLOCK FALSE
INVARIANTS
    MasterConnected
