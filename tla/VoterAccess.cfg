SPECIFICATION AccessSpec
CONSTANTS
    ann = ann
    paper = paper
    r1 = r1
    r2 = r2
    Voter <- MCVoter
    Offline <- MCOffline
    AtStart <- Nobody
    Request <- MCRequest
    Senders = 2
    BrevoLimit = 1
    MaxRequests = 3
    MaxIncidents = 2
INVARIANTS
    InvitedCanLogin
    ApprovedHasCredential
    QuotaOvershootIsBounded
PROPERTIES
    DecisionsSurvive
SYMMETRY RequestSymmetry
CHECK_DEADLOCK FALSE
