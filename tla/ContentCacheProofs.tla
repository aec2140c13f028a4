------------------------- MODULE ContentCacheProofs -------------------------
(***************************************************************************)
(* Proofs about the content cache on its own: its state is well formed,    *)
(* every cached route reaches the disk, and it implements the write-once   *)
(* cache, for any set of threads, URLs and responses.                      *)
(***************************************************************************)
EXTENDS ContentCache, TLAPS

\* The body of a response is a sequence of chunks.
LEMMA BodyType ==
    ASSUME NEW r \in Response, NEW n \in Nat
    PROVE  Body(r, n) \in Seq(Chunk)
  BY DEF Body, Chunk

\* What the cache is given to store is a route.
LEMMA NewRouteType ==
    ASSUME NEW r \in Response, NEW n \in Nat
    PROVE  NewRoute(r, n) \in CachedRoute
  BY BodyType DEF NewRoute, CachedRoute, IOBuf, cloneCoalesced

\* A call of addCachedRoute by an idle thread, with any route.
LEMMA AddKeepsTypes ==
    ASSUME CacheTypeOK, NEW h \in Handler, NEW u \in Url,
           NEW route \in CachedRoute, addCachedRoute(h, u, route)
    PROVE  CacheTypeOK'
  <1>. USE DEF CacheTypeOK
  <1>1. CASE Insert(h, u, route)
    <2>1. getHash(route) \in Hash
      BY DEF getHash, Hash, CachedRoute, IOBuf
    <2>. QED  BY <1>1, <2>1 DEF Insert, Stage
  <1>2. CASE InsertRefused(u)
    BY <1>2 DEF InsertRefused, cacheVars
  <1>3. CASE InsertThrows(u)
    BY <1>3 DEF InsertThrows
  <1>. QED  BY <1>1, <1>2, <1>3 DEF addCachedRoute

\* A step of the disk write, or its failure.
LEMMA DiskKeepsTypes ==
    ASSUME CacheTypeOK, NEW h \in Handler,
           OpenFile(h) \/ WriteFile(h) \/ DiskError(h)
    PROVE  CacheTypeOK'
  <1>. USE DEF CacheTypeOK
  <1>1. CASE OpenFile(h)
    BY <1>1 DEF OpenFile, Stage
  <1>2. CASE WriteFile(h)
    BY <1>2 DEF WriteFile, Stage
  <1>3. CASE DiskError(h)
    BY <1>3 DEF DiskError
  <1>. QED  BY <1>1, <1>2, <1>3

-----------------------------------------------------------------------------
LEMMA ResponseLen ==
    ASSUME NEW r \in Response
    PROVE  r.len \in Nat
  BY ResponseAssumption

LEMMA InitTypes == CacheInit => CacheTypeOK
  BY DEF CacheInit, CacheTypeOK, Stage

LEMMA NextKeepsTypes ==
    ASSUME CacheTypeOK, [CacheNext]_cacheVars
    PROVE  CacheTypeOK'
  <1>1. ASSUME NEW h \in Handler, NEW u \in Url, NEW r \in Response,
               NEW n \in 1..r.len, AddCachedRoute(h, u, r, n)
        PROVE  CacheTypeOK'
    <2>1. NewRoute(r, n) \in CachedRoute
      BY ResponseLen, NewRouteType
    <2>2. addCachedRoute(h, u, NewRoute(r, n))
      BY <1>1 DEF AddCachedRoute
    <2>. QED  BY <2>1, <2>2, AddKeepsTypes
  <1>2. ASSUME NEW h \in Handler, OpenFile(h) \/ WriteFile(h) \/ DiskError(h)
        PROVE  CacheTypeOK'
    BY <1>2, DiskKeepsTypes
  <1>3. CASE Restart
    BY <1>3 DEF Restart, CacheTypeOK, Stage
  <1>4. CASE UNCHANGED cacheVars
    BY <1>4 DEF cacheVars, CacheTypeOK
  <1>. QED  BY <1>1, <1>2, <1>3, <1>4 DEF CacheNext

\* The state of the cache stays well formed.
THEOREM CacheTypeCorrect == CacheSpec => []CacheTypeOK
  BY InitTypes, NextKeepsTypes, PTL DEF CacheSpec

-----------------------------------------------------------------------------
(***************************************************************************)
(* CachedRoutesReachDisk is not inductive: a thread that has opened its    *)
(* file must have created it, or filling it would not put it on the disk.  *)
(***************************************************************************)
OpenedFilesExist ==
    \A h \in Handler : stage[h] \in {"write", "overtaken"} => target[h] \in files

DiskInv == CacheTypeOK /\ OpenedFilesExist /\ CachedRoutesReachDisk

LEMMA AddKeepsOpened ==
    ASSUME CacheTypeOK, OpenedFilesExist, NEW h \in Handler, NEW u \in Url,
           NEW route, addCachedRoute(h, u, route)
    PROVE  OpenedFilesExist'
  <1>. USE DEF OpenedFilesExist
  <1>1. CASE Insert(h, u, route)
    BY <1>1 DEF Insert, CacheTypeOK
  <1>2. CASE InsertRefused(u)
    BY <1>2 DEF InsertRefused, cacheVars
  <1>3. CASE InsertThrows(u)
    BY <1>3 DEF InsertThrows
  <1>. QED  BY <1>1, <1>2, <1>3 DEF addCachedRoute

LEMMA DiskKeepsOpened ==
    ASSUME CacheTypeOK, OpenedFilesExist, NEW h \in Handler,
           OpenFile(h) \/ WriteFile(h) \/ DiskError(h)
    PROVE  OpenedFilesExist'
  <1>. USE DEF OpenedFilesExist, CacheTypeOK
  <1>1. CASE OpenFile(h)
    BY <1>1 DEF OpenFile
  <1>2. CASE WriteFile(h)
    BY <1>2 DEF WriteFile
  <1>3. CASE DiskError(h)
    BY <1>3 DEF DiskError
  <1>. QED  BY <1>1, <1>2, <1>3

\* The file of name f is complete, or a thread is on its way to write it.
ReachesDisk(f) == f \in files \ torn \/ WillWrite(f)

\* Inserting a route, by a thread that has no file to write, costs no file.
LEMMA AddKeepsFile ==
    ASSUME CacheTypeOK, NEW h \in Handler, NEW u \in Url, NEW route,
           stage[h] = "idle", addCachedRoute(h, u, route),
           NEW f, ReachesDisk(f)
    PROVE  ReachesDisk(f)'
  <1>. USE DEF ReachesDisk, WillWrite
  <1>1. CASE Insert(h, u, route)
    <2>1. ASSUME NEW g \in Handler, target[g] = f, stage[g] \in {"open", "write"}
          PROVE  target'[g] = f /\ stage'[g] \in {"open", "write"}
      BY <1>1, <2>1 DEF Insert, CacheTypeOK
    <2>2. UNCHANGED <<files, torn>>
      BY <1>1 DEF Insert
    <2>. QED  BY <2>1, <2>2
  <1>2. CASE InsertRefused(u) \/ InsertThrows(u)
    BY <1>2 DEF InsertRefused, InsertThrows, cacheVars
  <1>. QED  BY <1>1, <1>2 DEF addCachedRoute

\* A route inserted by an idle thread is left to that thread to write; the
\* other routes keep their file or their writer.
LEMMA AddKeepsReachDisk ==
    ASSUME CacheTypeOK, CachedRoutesReachDisk, NEW h \in Handler, NEW u \in Url,
           NEW route, stage[h] = "idle", addCachedRoute(h, u, route)
    PROVE  CachedRoutesReachDisk'
  <1>1. CASE Insert(h, u, route)
    <2>. SUFFICES ASSUME WriteToDisk, NEW v \in Cached'
                  PROVE  OnDisk(v)' \/ WillWrite(getHash(map_[v]))'
      BY DEF CachedRoutesReachDisk
    <2>1. /\ stage' = [stage EXCEPT ![h] = "open"]
          /\ target' = [target EXCEPT ![h] = getHash(route)]
          /\ map_' = [map_ EXCEPT ![u] = route]
          /\ UNCHANGED <<files, torn>>
      BY <1>1 DEF Insert
    <2>2. CASE v = u
      <3>1. getHash(map_'[v]) = target'[h] /\ stage'[h] = "open"
        BY <2>1, <2>2 DEF CacheTypeOK
      <3>. QED  BY <3>1 DEF WillWrite, getHash
    <2>3. CASE v # u
      <3>1. v \in Cached /\ map_'[v] = map_[v]
        BY <2>1, <2>3 DEF Cached, CacheTypeOK
      <3>2. ReachesDisk(getHash(map_[v]))
        BY <3>1 DEF CachedRoutesReachDisk, ReachesDisk, OnDisk
      <3>3. ReachesDisk(getHash(map_[v]))'
        BY <3>1, <3>2, AddKeepsFile DEF getHash
      <3>. QED  BY <3>3 DEF ReachesDisk, OnDisk
    <2>. QED  BY <2>2, <2>3
  <1>2. CASE InsertRefused(u) \/ InsertThrows(u)
    BY <1>2 DEF InsertRefused, InsertThrows, cacheVars, CachedRoutesReachDisk,
                OnDisk, WillWrite, Cached, getHash
  <1>. QED  BY <1>1, <1>2 DEF addCachedRoute

\* Emptying a file makes its writer the one to fill it; the write of a thread
\* that was not overtaken completes it.
LEMMA DiskKeepsFile ==
    ASSUME CacheTypeOK, OpenedFilesExist, NEW h \in Handler,
           OpenFile(h) \/ WriteFile(h) \/ DiskError(h),
           NEW f, ReachesDisk(f)
    PROVE  ReachesDisk(f)'
  <1>. USE DEF ReachesDisk, WillWrite
  <1>1. CASE OpenFile(h)
    <2>1. CASE target[h] = f
      BY <1>1, <2>1 DEF OpenFile, CacheTypeOK
    <2>2. CASE target[h] # f
      <3>1. ASSUME NEW g \in Handler, target[g] = f, stage[g] \in {"open", "write"}
            PROVE  target'[g] = f /\ stage'[g] \in {"open", "write"}
        BY <1>1, <2>2, <3>1 DEF OpenFile, CacheTypeOK
      <3>2. f \in files \ torn => f \in files' \ torn'
        BY <1>1, <2>2 DEF OpenFile
      <3>. QED  BY <3>1, <3>2
    <2>. QED  BY <2>1, <2>2
  <1>2. CASE WriteFile(h)
    <2>1. f \in files \ torn => f \in files' \ torn'
      BY <1>2 DEF WriteFile
    <2>2. CASE target[h] = f /\ stage[h] = "write"
      BY <1>2, <2>2 DEF WriteFile, OpenedFilesExist
    <2>3. CASE ~(target[h] = f /\ stage[h] = "write")
      <3>1. ASSUME NEW g \in Handler, target[g] = f, stage[g] \in {"open", "write"}
            PROVE  target'[g] = f /\ stage'[g] \in {"open", "write"}
        BY <1>2, <2>3, <3>1 DEF WriteFile, CacheTypeOK
      <3>. QED  BY <2>1, <3>1
    <2>. QED  BY <2>2, <2>3
  <1>3. CASE DiskError(h)
    BY <1>3 DEF DiskError
  <1>. QED  BY <1>1, <1>2, <1>3

\* The disk write leaves the map alone, and no route loses its file by it.
LEMMA DiskKeepsReachDisk ==
    ASSUME DiskInv, NEW h \in Handler,
           OpenFile(h) \/ WriteFile(h) \/ DiskError(h)
    PROVE  CachedRoutesReachDisk'
  <1>1. SUFFICES ASSUME WriteToDisk, NEW v \in Cached'
                 PROVE  OnDisk(v)' \/ WillWrite(getHash(map_[v]))'
    BY DEF CachedRoutesReachDisk
  <1>2. v \in Cached /\ map_' = map_
    BY DEF OpenFile, WriteFile, DiskError, Cached
  <1>3. ReachesDisk(getHash(map_[v]))
    BY <1>1, <1>2 DEF CachedRoutesReachDisk, DiskInv, ReachesDisk, OnDisk
  <1>4. ReachesDisk(getHash(map_[v]))'
    BY <1>2, <1>3, DiskKeepsFile DEF DiskInv, getHash
  <1>. QED  BY <1>4 DEF ReachesDisk, OnDisk

LEMMA DiskInvInductive ==
    ASSUME DiskInv, [CacheNext]_cacheVars
    PROVE  DiskInv'
  <1>. CacheTypeOK'
    BY NextKeepsTypes DEF DiskInv
  <1>1. ASSUME NEW h \in Handler, NEW u \in Url, NEW r \in Response,
               NEW n \in 1..r.len, AddCachedRoute(h, u, r, n)
        PROVE  OpenedFilesExist' /\ CachedRoutesReachDisk'
    BY <1>1, AddKeepsOpened, AddKeepsReachDisk DEF DiskInv, AddCachedRoute
  <1>2. ASSUME NEW h \in Handler, OpenFile(h) \/ WriteFile(h) \/ DiskError(h)
        PROVE  OpenedFilesExist' /\ CachedRoutesReachDisk'
    BY <1>2, DiskKeepsOpened, DiskKeepsReachDisk DEF DiskInv
  <1>3. CASE Restart
    BY <1>3 DEF Restart, DiskInv, OpenedFilesExist, CachedRoutesReachDisk, Cached
  <1>4. CASE UNCHANGED cacheVars
    BY <1>4 DEF cacheVars, DiskInv, OpenedFilesExist, CachedRoutesReachDisk,
                OnDisk, WillWrite, Cached, getHash
  <1>. QED  BY <1>1, <1>2, <1>3, <1>4 DEF CacheNext, DiskInv

\* Every cached route has its file, or a thread that is on its way to write it.
THEOREM CachedRoutesReachDiskCorrect == CacheSpec => []CachedRoutesReachDisk
  <1>1. CacheInit => DiskInv
    BY InitTypes DEF CacheInit, DiskInv, OpenedFilesExist, CachedRoutesReachDisk,
                     Cached
  <1>2. DiskInv => CachedRoutesReachDisk
    BY DEF DiskInv
  <1>. QED  BY <1>1, <1>2, DiskInvInductive, PTL DEF CacheSpec

-----------------------------------------------------------------------------
\* The map is a write-once cache: addCachedRoute publishes, the end of the
\* process stops, a new process starts empty, and the disk is not visible.
THEOREM WriteOnceRefinement == CacheSpec => WriteOnceCacheImplemented
  <1>. USE DEF WriteOnce!Publish, WriteOnce!Stop, WriteOnce!Start,
               WriteOnce!Next, WriteOnce!Empty
  <1>1. CacheInit => WriteOnce!Init
    BY DEF CacheInit, WriteOnce!Init
  <1>2. ASSUME CacheTypeOK, [CacheNext]_cacheVars
        PROVE  [WriteOnce!Next]_<<map_, up>>
    <2>1. ASSUME NEW h \in Handler, NEW u \in Url, NEW r \in Response,
                 NEW n \in 1..r.len, AddCachedRoute(h, u, r, n)
          PROVE  [WriteOnce!Next]_<<map_, up>>
      <3>1. CASE Insert(h, u, NewRoute(r, n))
        <4>1. map_' = [map_ EXCEPT ![u] = map_'[u]]
          BY <3>1 DEF Insert, CacheTypeOK
        <4>. QED  BY <2>1, <3>1, <4>1 DEF Insert, AddCachedRoute
      <3>2. CASE InsertRefused(u)
        BY <3>2 DEF InsertRefused, cacheVars
      <3>3. CASE InsertThrows(u)
        BY <2>1, <3>3 DEF InsertThrows, AddCachedRoute
      <3>. QED  BY <2>1, <3>1, <3>2, <3>3 DEF AddCachedRoute, addCachedRoute
    <2>2. ASSUME NEW h \in Handler, up, OpenFile(h) \/ WriteFile(h) \/ DiskError(h)
          PROVE  [WriteOnce!Next]_<<map_, up>>
      BY <2>2 DEF OpenFile, WriteFile, DiskError
    <2>3. CASE Restart
      BY <2>3 DEF Restart
    <2>4. CASE UNCHANGED cacheVars
      BY <2>4 DEF cacheVars
    <2>. QED  BY <1>2, <2>1, <2>2, <2>3, <2>4 DEF CacheNext
  <1>. QED  BY <1>1, <1>2, CacheTypeCorrect, PTL
            DEF CacheSpec, WriteOnceCacheImplemented, WriteOnce!Spec
=============================================================================
