SPECIFICATION Spec
CONSTANTS
    Unwritten = Unwritten
    Operators <- Plus
    Statements <- MCStatements
    MaxStatements = 3
    Depth = 6
INVARIANTS
    TypeOK
    NamesMeanOneThing
    ConstantsKept
    WellTyped
    CrashesExplained
PROPERTY
    Terminates
