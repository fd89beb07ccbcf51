SPECIFICATION FairSubmissionSpec
CONSTANTS
    v1 = v1
    v2 = v2
    late = late
    Credential <- WebVoters
    Rolls <- MCRolls
    Layouts <- MCLayouts
    Windows <- MCWindows
    Selections <- OneChoice
    MaxIndex = 2
    U32Max = 2
    MaxClock = 0
    NoAccount = NoAccount
    Roll <- MCRoll
    ApiVoters <- Nobody
    Revoked <- Nobody
    Layout <- MCLayout
    ChainWindow <- MCChainWindow
    DbWindow <- MCChainWindow
    Incidents <- Timeouts
    SyncRuns = FALSE
    MaxRetries = 1
    BatchSize = 1
    MaxCasts = 1
    NoBallot = NoBallot
    NoTx = NoTx
PROPERTY
    BallotGetsSignature
CHECK_DEADLOCK FALSE
