CONSTANTS
    Response <- AnyBody
    NoResponse = NoResponse
    Handler = {h1}
    Url = {u1}
    NoRoute = NoRoute
    NoHash = NoHash
    MaxRoutes = 1
    WriteToDisk = TRUE
    NoRequest = NoRequest
    EnableServiceWorker = TRUE
    DetachInAbort = TRUE
    MaxUpload = 1
SPECIFICATION FairProxySpec
INVARIANTS
    NoDanglingCallback
    NoLeakedHandler
PROPERTIES
    CacheImplemented
    AnsweredUnlessEmptyOrPaused
    EventuallyDestroyed
CHECK_DEADLOCK FALSE
