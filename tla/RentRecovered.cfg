SPECIFICATION ArchiveSpec
CONSTANTS
    c1 = c1
    c2 = c2
    k1 = k1
    k2 = k2
    Credential <- MCCredential
    Rolls <- MCRolls
    Layouts <- MCLayouts
    Windows <- MCWindows
    Selections <- MCSelections
    MaxIndex = 2
    U32Max = 2
    MaxClock = 3
    NoAccount = NoAccount
    Task <- MCTask
    Roll <- MCRoll
    Layout <- MCLayout
    ChainWindow <- MCChainWindow
    DbEnds <- MCDbEnds
    MaxRetries = 1
    MaxIncidents = 0
    AllowAsyncUnsafe = FALSE
    NoArchive = NoArchive
PROPERTY
    RentRecovered
CHECK_DEADLOCK FALSE
