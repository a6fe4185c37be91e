SPECIFICATION Spec
CONSTANTS
    Operators <- Comparison
    Level <- Levels
    Files <- BothKinds
INVARIANTS
    TypeOK
    DepthBounded
    NoSilentLoss
    TwoLevelPrecedence
    ParensPreserved
    EqualsGroupRight
PROPERTIES
    LookaheadExact
    Terminates
