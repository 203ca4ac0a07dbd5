SPECIFICATION Spec
CONSTANTS
    Tests = {1, 2}
    MaxChanges = 2
    MaxCalls = 3
    MaxResults = 1
INVARIANTS
    AllTypeOK
    NoScriptInForeignFile
    NoEditLostUnasked
    WaitsOnlyForOuterRun
PROPERTIES
    
    ResultOfItsTest
    AllTestsReported
CHECK_DEADLOCK FALSE
