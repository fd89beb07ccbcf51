SPECIFICATION ArchiveSpec
CONSTANTS
    c1 = c1
    c2 = c2
    k1 = k1
    k2 = k2
    Credential <- MCCredential
    Rolls <- MCRolls
    Layouts <- MCLayouts
    Windows <- MCWindows
    Selections <- MCSelections
    MaxIndex = 2
    U32Max = 2
    MaxClock = 2
    NoAccount = NoAccount
    Task <- OneTask
    Roll <- MCRoll
    Layout <- MCLayout
    ChainWindow <- MCChainWindow
    DbEnds <- AtChainEnd
    MaxRetries = 1
    MaxIncidents = 0
    AllowAsyncUnsafe = TRUE
    NoArchive = NoArchive
INVARIANT
    ArchiveIsPermanentRecord
CHECK_DEADLOCK FALSE
