CONSTANTS
    Response <- PageAndEmpty
    NoResponse = NoResponse
    Handler = {h1}
    Url = {u1}
    NoRoute = NoRoute
    NoHash = NoHash
    MaxRoutes = 1
    WriteToDisk = FALSE
    NoRequest = NoRequest
    EnableServiceWorker = FALSE
    DetachInAbort = FALSE
    MaxUpload = 0
SPECIFICATION FairProxySpec
PROPERTY
    EveryRequestAnswered
CHECK_DEADLOCK FALSE
