SPECIFICATION Spec
CONSTANTS
    Unwritten = Unwritten
    Operators <- Plus
    Statements <- MCStatements
    MaxStatements = 3
    Depth = 6
INVARIANT
    AcceptedIsTyped
