SPECIFICATION FairSpec

CONSTANTS
    Handlers = {reader}
    Trackers = {}
    MaxWorkers = 3
    MaxElections = 2
    MaxExtends = 0
    reader = reader

INVARIANTS
    AbsenceKept
    ActsOnAbsence
PROPERTIES
    HandlersReturn
    AbsenceActs
