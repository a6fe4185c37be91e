SPECIFICATION Spec
CONSTANTS
    Texts <- MCTexts
    Edits <- MCEdits
INVARIANT
    CreationFailureSeen
