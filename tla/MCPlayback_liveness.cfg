SPECIFICATION FairSpec
CONSTANTS
    Modes = {"Headless"}
    MaxRuns = 1
    MaxStatements = 3
    MaxPicks = 0
    MaxStops = 0
PROPERTIES
    StatementReturns
    CloseCompletes
CHECK_DEADLOCK FALSE
