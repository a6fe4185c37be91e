SPECIFICATION Spec
CONSTANTS
    Uninit = Uninit
    Token = {a, b}
    Capacities <- MCCapacities
    MaxSize = 4
    PushOnlyWhenEmpty = TRUE
INVARIANTS
    TypeOK
    RoomToSpare
    NoWildAccess
    LiveCellsWritten
PROPERTY
    ImplementsDeque
\* A call that writes to a NULL buffer does not return.
CHECK_DEADLOCK FALSE
