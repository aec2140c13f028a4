---------------------------- MODULE ContentCache ----------------------------
(***************************************************************************)
(* The content cache (Cache.h, Cache.cpp): a concurrent map from URLs to   *)
(* immutable routes, shared by all I/O threads, and the files that         *)
(* addCachedRoute writes for the seed node, named by the SHA-256 of their  *)
(* content.                                                                *)
(*                                                                         *)
(* An insertion into the map is one step.  Writing the file takes two more *)
(* on the same thread, with the other threads running in between: opening  *)
(* it with O_TRUNC, which empties it for every reader, and filling it.     *)
(***************************************************************************)
EXTENDS Content, FiniteSets

CONSTANTS
    Handler,      \* the request handlers whose callbacks call the cache
    Url,          \* the keys of the cache
    NoRoute,      \* the null route: the URL is not cached
    NoHash,       \* no file is being written
    MaxRoutes,    \* config: maxRoutesToCache; the map takes 0 for no maximum
    WriteToDisk   \* config: enableP2P, given to the constructor as writeToDisk

ASSUME CacheAssumption ==
    /\ MaxRoutes \in Nat \ {0}
    /\ WriteToDisk \in BOOLEAN

VARIABLES
    map_,    \* map_[u]: the route cached for u, or NoRoute
    stage,   \* stage[h]: how far h's addCachedRoute has got with its file
    target,  \* target[h]: the name (hash) of that file
    files,   \* the names of the files in the cache directory
    torn,    \* those whose content is not what their name says
    up       \* the process is running

cacheVars == <<map_, stage, target, files, torn, up>>

-----------------------------------------------------------------------------
CachedRoute == [content : IOBuf, headers : Response]

ASSUME NoRouteAssumption == NoRoute \notin CachedRoute

\* SHA-256 of the bytes: equal bytes have equal hashes and, collisions
\* aside, different bytes have different ones.
getHash(route) == [sha256 |-> route.content.bytes]
Hash == [sha256 : Seq(Chunk)]

\* "open": inserted, the file is not opened yet.  "write": opened and emptied,
\* to be filled.  "overtaken": another thread has emptied the file since.
Stage == {"idle", "open", "write", "overtaken"}

Cached == {u \in Url : map_[u] # NoRoute}
size == Cardinality(Cached)

getCachedRoute(u) == map_[u]

CacheInit ==
    /\ map_ = [u \in Url |-> NoRoute]
    /\ stage = [h \in Handler |-> "idle"]
    /\ target = [h \in Handler |-> NoHash]
    /\ files = {}
    /\ torn = {}
    /\ up = TRUE

-----------------------------------------------------------------------------
(***************************************************************************)
(* ContentCache::addCachedRoute, up to its disk write.                     *)
(***************************************************************************)

\* map_.insert gave TRUE: the route is visible to every thread from here on.
\* insertOrAssign in the place of insert.
Insert_Overwriting(h, u, route) ==
    /\ map_' = [map_ EXCEPT ![u] = route]
    /\ stage' = [stage EXCEPT ![h] = IF WriteToDisk THEN "open" ELSE "idle"]
    /\ target' = [target EXCEPT ![h] = IF WriteToDisk THEN getHash(route) ELSE NoHash]
    /\ UNCHANGED <<files, torn, up>>

Insert(h, u, route) ==
    /\ map_[u] = NoRoute
    /\ size < MaxRoutes
    /\ map_' = [map_ EXCEPT ![u] = route]
    /\ stage' = [stage EXCEPT ![h] = IF WriteToDisk THEN "open" ELSE "idle"]
    /\ target' = [target EXCEPT ![h] = IF WriteToDisk THEN getHash(route) ELSE NoHash]
    /\ UNCHANGED <<files, torn, up>>

\* map_.insert gave FALSE: "Could not add route into cache".
InsertRefused(u) ==
    /\ map_[u] # NoRoute \/ size >= MaxRoutes
    /\ UNCHANGED cacheVars

\* map_ is built with a maximum size.  What folly does beyond it is not part
\* of this repository: it may refuse the insertion (above) or throw, and then
\* the exception leaves a noexcept callback and ends the process.
InsertThrows(u) ==
    /\ map_[u] = NoRoute
    /\ size >= MaxRoutes
    /\ up' = FALSE
    /\ UNCHANGED <<map_, stage, target, files, torn>>

\* folly::File with O_CREAT | O_TRUNC.
\* The file is taken to be good because a file of that name exists.
OpenFile_SkipExisting(h) ==
    /\ stage[h] = "open"
    /\ IF target[h] \in files
       THEN /\ stage' = [stage EXCEPT ![h] = "idle"]
            /\ target' = [target EXCEPT ![h] = NoHash]
            /\ UNCHANGED <<files, torn>>
       ELSE /\ files' = files \cup {target[h]}
            /\ torn' = torn \cup {target[h]}
            /\ stage' = [stage EXCEPT ![h] = "write"]
            /\ UNCHANGED target
    /\ UNCHANGED <<map_, up>>

\* O_CREAT is left out.
OpenFile_NoCreate(h) ==
    /\ stage[h] = "open"
    /\ torn' = torn \cup {target[h]}
    /\ stage' = [stage EXCEPT ![h] = "write"]
    /\ UNCHANGED <<map_, target, files, up>>

OpenFile(h) ==
    /\ stage[h] = "open"
    /\ files' = files \cup {target[h]}
    /\ torn' = torn \cup {target[h]}
    /\ stage' = [g \in Handler |->
                   IF g = h THEN "write"
                   ELSE IF stage[g] = "write" /\ target[g] = target[h]
                        THEN "overtaken" ELSE stage[g]]
    /\ UNCHANGED <<map_, target, up>>

\* folly::gen::toFile: the whole content is in the file, unless another thread
\* emptied the file in the middle of the write.
WriteFile(h) ==
    /\ stage[h] \in {"write", "overtaken"}
    /\ \/ torn' = torn \ {target[h]}
       \/ stage[h] = "overtaken" /\ torn' = torn
    /\ stage' = [stage EXCEPT ![h] = "idle"]
    /\ target' = [target EXCEPT ![h] = NoHash]
    /\ UNCHANGED <<map_, files, up>>

\* Opening or writing the file throws: nothing catches it, the process ends.
DiskError(h) ==
    /\ stage[h] # "idle"
    /\ up' = FALSE
    /\ UNCHANGED <<map_, stage, target, files, torn>>

\* ContentCache::addCachedRoute up to its disk write.
addCachedRoute(h, u, route) ==
    Insert(h, u, route) \/ InsertRefused(u) \/ InsertThrows(u)

\* A new process: the map is empty, the files are those the old one left.
Restart ==
    /\ ~up
    /\ up' = TRUE
    /\ map_' = [u \in Url |-> NoRoute]
    /\ stage' = [h \in Handler |-> "idle"]
    /\ target' = [h \in Handler |-> NoHash]
    /\ UNCHANGED <<files, torn>>

-----------------------------------------------------------------------------
(***************************************************************************)
(* The cache on its own, called with any prefix of any response: what it   *)
(* promises does not rest on what its callers store.                       *)
(***************************************************************************)
NewRoute(r, n) == [content |-> cloneCoalesced(Body(r, n)), headers |-> r]

AddCachedRoute(h, u, r, n) ==
    /\ up
    /\ stage[h] = "idle"
    /\ addCachedRoute(h, u, NewRoute(r, n))

CacheNext ==
    \/ \E h \in Handler, u \in Url, r \in Response :
          \E n \in 1..r.len : AddCachedRoute(h, u, r, n)
    \/ \E h \in Handler : up /\ (OpenFile(h) \/ WriteFile(h) \/ DiskError(h))
    \/ Restart

\* A thread that is inside addCachedRoute keeps running; nothing makes a
\* client ask, or an operator restart the process.
CacheFairness ==
    \A h \in Handler : WF_cacheVars(up /\ (OpenFile(h) \/ WriteFile(h)))

CacheSpec == CacheInit /\ [][CacheNext]_cacheVars
FairCacheSpec == CacheSpec /\ CacheFairness

-----------------------------------------------------------------------------
\* The state of the cache is well formed.
CacheTypeOK ==
    /\ map_ \in [Url -> CachedRoute \cup {NoRoute}]
    /\ stage \in [Handler -> Stage]
    /\ target \in [Handler -> Hash \cup {NoHash}]
    /\ \A h \in Handler : stage[h] # "idle" => target[h] \in Hash
    /\ files \subseteq Hash
    /\ torn \subseteq files
    /\ up \in BOOLEAN

OnDisk(u) == getHash(map_[u]) \in files \ torn

\* A thread that will still empty and fill the file of name f.
WillWrite(f) ==
    \E h \in Handler : target[h] = f /\ stage[h] \in {"open", "write"}

\* Every URL that DirectHandler may advertise with its hash has its file, with
\* the right content, in the cache directory, or a thread is on its way to
\* write it: also when several routes share a file and their writers overtake
\* each other, and when an earlier process died over the file.
CachedRoutesReachDisk ==
    WriteToDisk => \A u \in Cached : OnDisk(u) \/ WillWrite(getHash(map_[u]))

\* An advertised file is eventually complete, unless the process ends.
CachedRoutesEventuallyOnDisk ==
    \A u \in Url :
        (WriteToDisk /\ map_[u] # NoRoute) ~> (~up \/ map_[u] = NoRoute \/ OnDisk(u))

\* The map implements the write-once cache: the first response stored for a
\* URL is the one served until the process ends (insert, not insertOrAssign).
WriteOnce == INSTANCE WriteOnceCache WITH published <- map_, running <- up
WriteOnceCacheImplemented == WriteOnce!Spec
=============================================================================
