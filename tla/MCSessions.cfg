SPECIFICATION Spec
CONSTANTS
    Tests = {t1}
    NoName = NoName
    MaxApps = 3
    MaxLog = 2
    MaxRuns = 2
    MaxOdd = 1
INVARIANTS
    TypeOK
    NullSocketOnlyInRunOverRecording
    NullUseOnlyInOverlap
    ToldItsPurpose
    PlaysTheStarted
    ScriptIsPrefixOfItsLog
PROPERTY RecordingIsStored
CHECK_DEADLOCK FALSE
