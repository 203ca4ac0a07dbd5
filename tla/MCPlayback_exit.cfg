SPECIFICATION FairSpec
CONSTANTS
    Modes = {"Headless"}
    MaxRuns = 1
    MaxStatements = 2
    MaxPicks = 0
    MaxStops = 0
PROPERTY ExitIsNoticed
CHECK_DEADLOCK FALSE
