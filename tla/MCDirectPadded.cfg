CONSTANTS
    Response = {}
    Handler = {}
    Url = {}
    MaxRoutes = 1
    WriteToDisk = TRUE
    Node = {n1, n2, n3}
    Report <- StaleReport
    Place = {p1, p2}
    Distance <- MCDistance
    NearestCount = 2
    GeoIpEnabled = TRUE
    IgnoreHeartbeat = FALSE
    Direct = {d1}
    NoResponse = NoResponse
    NoRoute = NoRoute
    NoHash = NoHash
    NoList = NoList
    NoTree = NoTree
    NoReport = NoReport
    n1 = n1
    n2 = n2
    n3 = n3
    p1 = p1
    p2 = p2
SPECIFICATION DirectSpec
INVARIANT
    UpToNearestCount
