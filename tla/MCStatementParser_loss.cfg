SPECIFICATION StatementSpec
CONSTANTS
    Operators <- Plus
    Level <- PlusLevel
    Files <- OnlyShort
INVARIANT AcceptedIsRepresented
