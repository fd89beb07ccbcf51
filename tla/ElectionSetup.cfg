SPECIFICATION SetupSpec
CONSTANTS
    president = president
    secretary = secretary
    treasurer = treasurer
    r1 = r1
    r2 = r2
    board = board
    senate = senate
    Request <- MCRequest
    ElectionName <- MCElectionName
    PostName <- MCPostName
    CandName <- MCCandName
    NewWindows <- MCNewWindows
    NewTimes <- MCNewTimes
    MaxPosts = 2
    MaxCandidates = 2
    MaxVoters = 2
    Drafts <- MCDrafts
    MaxRequests = 3
    MaxIncidents = 2
    MaxClock = 2
    NoElection = NoElection
    NoSignature = NoSignature
    PdaAlreadyExisted = PdaAlreadyExisted
INVARIANTS
    SetupTypeOK
    LaunchedIsDeployed
    RollAsDeployed
    BallotAsDeployed
    OneLaunchAtATime
PROPERTIES
    OnlyRacesBreakLimits
    LockIsReleased
CHECK_DEADLOCK FALSE
