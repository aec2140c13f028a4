CONSTANTS
    Response <- PageOnly
    NoResponse = NoResponse
    Handler = {h1, h2}
    Url = {u1, u2}
    NoRoute = NoRoute
    NoHash = NoHash
    MaxRoutes = 1
    WriteToDisk = FALSE
    NoRequest = NoRequest
    EnableServiceWorker = TRUE
    DetachInAbort = FALSE
    MaxUpload = 1
SPECIFICATION ProxySpec
SYMMETRY Symmetry
INVARIANTS
    ProxyTypeOK
    OriginTxnNotDangling
    NoDanglingCallback
    NoLeakedHandler
    NoStrayWrite
    UploadIntact
    BodiesWholeUnlessOriginFailed
    AnsweredGetIsCached
PROPERTY
    ExchangeImplemented
CHECK_DEADLOCK FALSE
