SPECIFICATION Spec
CONSTANTS
    Modes = {"Interactive", "Headless"}
    MaxRuns = 2
    MaxStatements = 3
    MaxPicks = 1
    MaxStops = 1
INVARIANTS
    TypeOK
    NoSurplusAck
    NoReplyWithoutDevice
    NotFoundWhileAtStatement
    PlayerKeepsDevice
    SuspendedExclusively
    SleepAcksItself
PROPERTY ImplementsRemoteCommands
CHECK_DEADLOCK FALSE
