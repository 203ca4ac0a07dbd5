SPECIFICATION StoreSpec
CONSTANTS
    Tests = {1, 2}
    MaxChanges = 3
INVARIANT ArchiveRestorable
CHECK_DEADLOCK FALSE
