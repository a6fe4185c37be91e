SPECIFICATION Spec
CONSTANTS
    Operators <- Comparison
    Level <- Levels
    Files <- OnlyNesting
INVARIANT PrecedenceObeyed
