CONSTANTS
    Controllers = {p1, p2}
    None = None
    NArms = 2
    NTurns = 2
    MaxFaults = 1
SPECIFICATION Spec
INVARIANTS MeasuredClean BlockedOnlyBy
PROPERTIES ChildOnce RoundEnds
CHECK_DEADLOCK FALSE
