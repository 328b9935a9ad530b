SPECIFICATION Spec

CONSTANTS
    Handlers = {reader, tracker}
    Trackers = {tracker}
    MaxWorkers = 3
    MaxElections = 2
    MaxExtends = 1
    reader = reader
    tracker = tracker

INVARIANTS
    CancelJoined
    SourceCurrent
