CONSTANTS
    Response <- MCResponse
    NoResponse = NoResponse
    Handler = {h1, h2, h3}
    Url = {u1, u2, u3}
    NoRoute = NoRoute
    NoHash = NoHash
    MaxRoutes = 2
    WriteToDisk = TRUE
SPECIFICATION FairCacheSpec
INVARIANTS
    CacheTypeOK
    CachedRoutesReachDisk
PROPERTIES
    WriteOnceCacheImplemented
    CachedRoutesEventuallyOnDisk
