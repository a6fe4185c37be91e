SPECIFICATION StatementSpec
CONSTANTS
    Operators <- Plus
    Level <- PlusLevel
    Files <- BothKinds
INVARIANTS
    TypeOK
    WholeFile
    LossesExplained
    Balanced
    ChildrenPresent
    NearestElse
PROPERTIES
    Terminates
