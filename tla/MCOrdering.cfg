\* Moves one at a time, appends by two goroutines.
CONSTANTS
    Flights = {f1, f2}
    Tacticals = {s1}
    Bays = {b1, b2}
    Threads = {t1, t2}
    Spacing = 4
    MinGap = 1
    MaxSeq = 16
    Ops = {"move", "append"}
    Overlap = FALSE
    Failing = {"next", "flights", "tacticals"}
    None = None
SPECIFICATION Spec
INVARIANTS DistinctSequences
PROPERTIES MidpointPlaces OthersKeepOrder AppendsLast
