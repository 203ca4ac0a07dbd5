SPECIFICATION Spec
CONSTANT MaxEvents = 6
INVARIANTS
    TypeOK
    CanaryExact
    NoStaleBuffer
    RecordedInOrder
    EndDocumentLast
    OneDragPerPress
    ClickLostOnlyToDrop
CHECK_DEADLOCK FALSE
