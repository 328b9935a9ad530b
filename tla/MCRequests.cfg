CONSTANTS
    Flights = {f}
    Kinds = {route, speed}
    Controllers = {a}
    FlowManagers = {m}
    None = None
    Commands = {c1, c2, c3}
    Clearances = {x}
    MaxCalls = 2
    MaxFacts = 2
    MaxCommits = 1
SPECIFICATION Spec
SYMMETRY Symmetry
CHECK_DEADLOCK FALSE
INVARIANTS OnePending CommandOnce
PROPERTIES RevisionAdvances ResolutionFinal
