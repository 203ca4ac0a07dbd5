SPECIFICATION Spec
CONSTANTS
    Targets <- MCTargets
    Internal <- MCInternal
    Keywords <- MCKeywords
    NoTarget = "none"
    StringNames <- MCStringNames
    Alphabets <- MCAlphabets
    OptionSets <- MCOptionSets
    MaxEvents = 4
INVARIANTS
    TypeOK
    FailsOnlyAtEnd
    EventsKept
    MouseWhereItWas
    TypedTextKept
    DeclaredOnceBeforeUse
CHECK_DEADLOCK FALSE
