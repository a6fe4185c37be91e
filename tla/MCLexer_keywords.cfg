SPECIFICATION TapedSpec
CONSTANTS
    Uninit = Uninit
    Files <- ReaderFiles
    Beyond <- HarmlessBytes
    InitialCapacity = 2
    MaxTaken <- FewTokens
INVARIANT KeywordsExact
CHECK_DEADLOCK FALSE
