CONSTANTS
    Node = {n1, n2}
    Report <- MCReport
    Place = {}
    Distance <- NoDistance
    NearestCount = 1
    NoList = NoList
    NoTree = NoTree
    NoReport = NoReport
    GeoIpEnabled = TRUE
    IgnoreHeartbeat = FALSE
    Fd = {0, 1}
    MaxAddresses = 2
    Pieces = 2
    n1 = n1
    n2 = n2
SPECIFICATION FairGatewaySpec
INVARIANTS
    GatewayTypeOK
    OpenDescriptorsAccountedFor
PROPERTIES
    OnlySecondCloseHitsOthers
    PollsAreWholeReports
    GetEndsUnlessGatewaySilent
    ListFollowsGateway
