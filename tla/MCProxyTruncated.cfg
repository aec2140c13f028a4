CONSTANTS
    Response <- PageOnly
    NoResponse = NoResponse
    Handler = {h1, h2}
    Url = {u1}
    NoRoute = NoRoute
    NoHash = NoHash
    MaxRoutes = 1
    WriteToDisk = FALSE
    NoRequest = NoRequest
    EnableServiceWorker = FALSE
    DetachInAbort = FALSE
    MaxUpload = 0
SPECIFICATION ProxySpec
INVARIANT
    CachedRoutesAreWhole
CHECK_DEADLOCK FALSE
