SPECIFICATION Spec
CONSTANTS
    Texts <- MCTexts
    Edits <- MCEdits
INVARIANTS
    TypeOK
    WildExplained
    LeaksExplained
    ReportAligned
