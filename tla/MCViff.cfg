CONSTANTS
    Vals = {1, 2}
    First = 1
    Workers = {w1, w2}
    Callers = {c1}
    Kinds = {"recalc", "direct"}
    MaxChanges = 1
    MaxReady = 1
    MaxFaults = 1
    MaxTokens = 2
SPECIFICATION Spec
CHECK_DEADLOCK FALSE
INVARIANTS
    ReservationAlive
    OneExporter
    ConfirmedIsLast
    ReadyOrdered
    RemovedForgotten
