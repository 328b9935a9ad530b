SPECIFICATION Spec
CONSTANTS
    Positions = {a, b}
    Plugins = {es}
    None = None
    MaxCalls = 2
    MaxVersion = 3
    MaxRows = 2
SYMMETRY PositionSymmetry
INVARIANTS OfferSpentOnce
PROPERTY HandoverKnowsOwner
CHECK_DEADLOCK FALSE
