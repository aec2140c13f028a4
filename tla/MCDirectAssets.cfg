CONSTANTS
    Response <- MCResponse
    Handler = {h1, h2}
    Url = {u1, u2}
    MaxRoutes = 2
    WriteToDisk = TRUE
    Node = {n1}
    Report <- AllLive
    Place = {}
    Distance <- NoDistance
    NearestCount = 2
    GeoIpEnabled = FALSE
    IgnoreHeartbeat = FALSE
    Direct = {d1, d2}
    NoResponse = NoResponse
    NoRoute = NoRoute
    NoHash = NoHash
    NoList = NoList
    NoTree = NoTree
    NoReport = NoReport
    n1 = n1
    n2 = n2
    n3 = n3
    p1 = p1
    p2 = p2
SPECIFICATION DirectSpec
INVARIANT
    GivenHashesReachDisk
