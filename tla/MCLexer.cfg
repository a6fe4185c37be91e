SPECIFICATION TapedSpec
CONSTANTS
    Uninit = Uninit
    Files <- AllFiles
    Beyond <- AnyBytes
    InitialCapacity = 2
    MaxTaken <- FewTokens
INVARIANTS
    TypeOK
    NoWildAccess
    NothingSkipped
    LocationsExact
    LongestMatch
PROPERTIES
    ImplementsCursor
    ReaderEnds
\* The reader's loop ends, and a failed assertion stops the process.
CHECK_DEADLOCK FALSE
