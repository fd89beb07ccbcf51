SPECIFICATION TallySpec
CONSTANTS
    c1 = c1
    c2 = c2
    c3 = c3
    v1 = v1
    v2 = v2
    v3 = v3
    v4 = v4
    ann = ann
    bob = bob
    cyd = cyd
    dan = dan
    mayor = mayor
    clerk = clerk
    Credential <- MCCredential
    Rolls <- MCRolls
    Layouts <- MCLayouts
    Windows <- MCWindows
    Selections <- MCSelections
    MaxIndex = 3
    U32Max = 3
    MaxClock = 4
    NoAccount = NoAccount
    Elector <- MCElector
    Nominee <- MCNominee
    Nobody = Nobody
    PostOf <- MCPostOf
    PostOrder <- MCPostOrder
    Created <- MCCreated
    Named <- MCNamed
    Listed <- MCListed
    Electorates <- MCElectorates
    ByApi <- MCByApi
    NotArchived = NotArchived
    LastHour = 1
    MaxBallots = 2
    MaxAudits = 1
INVARIANTS
    ProgramTypeOK
    TurnoutAgrees
    TallyExact
    OneBallotPerCredential
    ReportsAgree
    MatchMeansCounted
PROPERTY
    FinalizedIsFinal
SYMMETRY ElectorSymmetry
