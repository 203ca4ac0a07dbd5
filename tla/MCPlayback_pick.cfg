SPECIFICATION Spec
CONSTANTS
    Modes = {"Interactive"}
    MaxRuns = 1
    MaxStatements = 2
    MaxPicks = 1
    MaxStops = 0
INVARIANT PickedByUser
CHECK_DEADLOCK FALSE
