# Specification of the Gladius masternode

The masternode is a reverse proxy: it serves a web site in the place of its
origin server, keeps what the origin answers in a cache, and, as a part of a
peer-to-peer network, tells browsers which edge nodes hold copies of the cached
content. It is a C++ server on proxygen and folly. This directory holds its
TLA+ specification, the TLC configurations that check it, and TLAPS proofs.

Paths below are those of the repository; `PROJECT.json` maps every definition
that models code to the lines it stands for.

## 1. Inventory

| component | state | operations | works with |
|---|---|---|---|
| **ContentCache** (`src/src/Cache.*`) | concurrent map from URL to immutable route (bytes, response headers, SHA-256); files in the cache directory | `getCachedRoute`, `addCachedRoute` (insert, then write the file), `getAssetHashMap` | called by ProxyHandler and DirectHandler from every I/O thread |
| **ProxyHandler** (`ProxyHandler.*`) | the request, pointers to the client's and the origin's transaction, collected headers and body, `clientTerminated_` | callbacks of the client's transaction, of the connector and of the origin's transaction | the cache; proxygen |
| **ServiceWorker** (`ServiceWorker.*`) | the script, read at start | `injectServiceWorker`, `getPayload` | called by ProxyHandler, ServiceWorkerHandler |
| **NetworkState** (`NetworkState.*`, `EdgeNode.*`) | the list of edge nodes, the poller's thread | `beginPollingGateway`, `parseStateUpdate` by the poller; `getEdgeNodes`, `getNearestEdgeNodes` by requests; a destructor that waits for the poller | the network gateway over HTTP; Geo; DirectHandler |
| **HTTP client** (`libs/httplib.h`, `Client::Get`) | a socket and the response so far, for one Get | name lookup, connect, request, status line, header fields, body | called by the poller; shares the process's descriptors with all threads |
| **Geo** (`Geo.*`, `Location.h`) | the KD-tree of the nodes' places, the GeoLite database | `buildTreeData`, `setTreeData`, `getNearestNodes`, `lookupCoordinates` | NetworkState |
| **KD-tree** (`libs/nanoflann.hpp`) | the tree and the order of the points in its leaves | `buildIndex`, `findNeighbors` | called by Geo |
| **DirectHandler** (`DirectHandler.*`) | the locals of one request | `onRequest` | NetworkState, the cache |
| **Router** (`Router.*`) | a timer for each I/O thread | `onServerStart`, `onServerStop`, `onRequest` | creates all handlers |
| **Redirect-, Reject-, ServiceWorkerHandler** | none | `onRequest` answers at once | Router, proxygen |
| **Masternode** (`Masternode.*`, `MasternodeServer.cpp`, `MasternodeConfig.h`) | the configuration and the parts above | construction, `start`, `stop`, destruction | all |

*Threads.* proxygen runs an I/O thread per processor. A handler belongs to one
of them, so that its callbacks never overlap; those of different handlers do,
in the cache. One more thread polls the gateway, from before the ports are bound
until the destructor of the network state has waited for it. Nothing blocks but
the disk write of `addCachedRoute`, which runs inside `requestComplete`, and the
poller's reads.

*What is hard.* The lifetime of a ProxyHandler: two transactions and a
connector, each of which may end first, end with an error, or not come to exist,
and a `delete this` that must come after the last callback and no later. The
two directions of a proxied exchange, which run independently. Origins that fail
half way. The cache's file, written after the route is visible, perhaps by two
threads at once, perhaps not to the end. The tree and the list of the network
state, published one after the other and read one after the other. A Get that
may fail at a dozen places, each with its own way to the end, on a descriptor
number that another thread may be given as soon as it is closed. Parts that are
shared by all threads and made and destroyed by one. Errors that throw through
`noexcept` functions and end the process.

*What makes each component correct.*
- Cache: what is served for a URL does not change; a hash that is handed out
  names a complete file, or one about to be written.
- ProxyHandler: no callback reaches a deleted handler and none is leaked; one
  answer per client, nothing after it has gone; the origin gets the whole upload
  and the client the whole response; what is cached is the response.
- NetworkState, Geo, DirectHandler: the nodes given are those that were found to
  be nearest; the list follows the gateway; a request does not end the process.
- HTTP client: every Get ends and gives back its descriptor, and no other.
- KD-tree: the search finds what a search of the whole list would.
- Router and simple handlers: content only over the connection and for the host
  it is meant for; a redirected client arrives; one response per request.
- Masternode: whoever runs finds the parts it uses; the process ends when it is
  told to, and for no reason but a few.

`PROJECT.json` lists 40 hazards, each at its line, with the properties that
would catch it, or the reason why none does or why they only bound it.

## 2. Modules

```
 Content ---- ContentCache ---- ProxyHandler ---- MCProxyHandler
                 |      |            |
 WriteOnceCache -+      |            +- ProxyHandlerProofs (also on ContentCacheProofs)
   Exchange -----)------)------------+    +- ProxyBodiesProofs
                 |      +- MCContentCache
                 |      +- ContentCacheProofs
                 |
 NetworkState ---+-- DirectHandler ---- MCDirectHandler
    |   |  |                |
    |   |  |                +- DirectHandlerProofs (also on ContentCacheProofs
    |   |  |                                        and NetworkStateProofs)
    |   |  +- NetworkStateProofs
    |   |
    |   +- GatewayClient ---- MCGatewayClient
    |             |
    |             +- GatewayClientProofs (also on NetworkStateProofs)
    |
    +- KDTree (INSTANCE, as what its search is to return) ---- MCKDTree
          |
          +- KDTreeProofs

 Router ---- Masternode ---- MCMasternode
                 |
                 +- MasternodeProofs
```

**Content**: responses and buffer chains. A body is the sequence of its chunks,
a chunk is its response and its position, so that a whole body differs from a
truncated, reordered or mixed one. A folly `IOBuf` chain is circular:
`a->prependChain(b)` puts `b` before the head `a`, which is at the end. The
number of buffers of a chain matters, because the service worker injection
reads the head buffer only; `cloneCoalesced` makes one buffer of them.

**ContentCache**: `map_` from URLs to routes, and for each thread how far its
`addCachedRoute` is: the insertion (atomic in folly's map), `OpenFile` (with
`O_TRUNC`, which empties the file for everybody) and `WriteFile`. A writer whose
file is emptied by another thread has been `"overtaken"`: it writes on at its own
offset, and what is left is anything, until the other writer, which started
from an empty file later, is done. `files` and `torn` survive a restart, the map
does not. At the maximum size folly's map may refuse the insertion or throw;
both are allowed. (folly takes a maximum of 0 for none, which the model leaves out:
`MaxRoutes` is at least 1, and a map that is never full is one with room for every
URL. It splits the maximum over the shards of the map, so that a
single shard may be full before the map is; the model has one shard.)

**WriteOnceCache**: the abstract specification the cache is shown to implement.
A URL is published at most once, then never changes, until the process ends.

**ProxyHandler**: one action per callback of the handler, with all that the
callback does. `proxy[h]` holds its members. `client[h]` and `origin[h]`
stand for proxygen's transactions and say which callback may still come: a
client's transaction ends with `requestComplete` or `onError`, an origin's with
`originDetachTransaction`, also after the handler aborted it; errors may come at
any time before that; what was queued before an abort may still be delivered
after it. `requestComplete` stays on its thread until the file is written, hence
`Running`. The answer of a cache hit and of the origin is always a 200 in the
code, whatever the origin's status was; so it is in the model. The
`DetachInAbort` constant is TRUE if proxygen may detach a transaction within the
call of `sendAbort`. `onError` then runs on after `delete this`, and what it
reads is chosen freely. Whether it can happen depends on the egress that proxygen
has pending. Everything that does not assume it away is checked and proved
for both values.

**Exchange**: the abstract specification of what the proxy promises the clients
that share it, without connections, buffers or files. A GET of a published page
is answered with that page at once; any other request with a 503 or with the
whole of one response of its origin. When the origin fails, the client is cut
off. A request that has run its course publishes what its own origin sent, but
only a GET of a URL that has no page yet, when there is room; one that was answered
with content must publish it, one that was cut while it waited may publish the
part that came before.
ProxyHandler is mapped to it (`Promise`): `request`, `reply` and `failed` are read
off the members and the transactions; `phase` is what proxygen's state of the
client's transaction means to the client; `published` has the headers and the
bytes of the cached routes, not the buffers they are in. The callbacks that move
the upload, receive and collect, detach, pause and write files are stutters.

**NetworkState**: the poller, which fetches a report (`fetch`) and publishes what it
has fetched (`parseStateUpdate` with the tree, `swapEdgeNodes` for the list) or
nothing (`pollFails`), and the search. A report says of each
node in which of the ways the parser tells apart its entry is: absent, malformed
(that entry throws and is skipped), with an old heartbeat, without content, or
usable. `getNearestNodes` is the set of index vectors that the KD-tree search may
return: sorted by distance, with ties in any order, and zero (one, in TLA+'s
sequences) beyond the nodes there are, since the vector has the length asked for.

**KDTree**: the tree itself, as nanoflann builds it for Geo (`divideTree`,
`middleSplit_`, `planeSplit`) and searches it (`searchLevel` with its bound,
`KNNResultSet::addPoint`). It is what justifies the set of vectors above:
`NearestFound` says that what the search returns is a member of it. Where the
code recurses, the model has a state. A node of the tree is the part of `vind` it
was made for, with a `pc` that says how far its `divideTree` has come, down to
the single moves of `planeSplit`'s indices; `todo` is the stack of the calls of
`searchLevel` to come, each with its own copy of the bound and of the vector of
distances, which the code shares between levels and restores. The worst distance
is read once for a leaf (`scan`) and again before what is behind a cut. Coordinates
are integers, chosen so that halving an interval is exact.

**DirectHandler**: `onRequest` read by read: the tree, each index in the list
under a lock of its own, the iteration over the cache's map (which sees at least
what was there when it began and perhaps what comes meanwhile), then the answer.
The poller and all other users of the cache run in between. The latter are the
cache alone (`CacheNext`), which is justified by the theorem `CacheRefinement`:
the proxy does nothing to the cache but `CacheNext`. The poller here fetches in one
step and parses in another.

**GatewayClient**: the poller step by step. One action per stage of
`Client::Get`, with every way the stage may fail: the name does not resolve,
there is no descriptor, the connect fails (and the socket is closed twice), the
stream ends, a line does not match, a number does not convert (and the socket is
not closed at all), a body is delimited by its length, by chunks, or by the end
of the stream, and is cut short. What the gateway reports (`gateway`) may change at any
time, also while it is being read: an answer is the report of the moment its
status line was sent (`fetched`), and each piece that comes is put into the body
as a piece of that report. `parse` goes by the body alone: `parseStateUpdate` and
`swapEdgeNodes` of NetworkState if it is a whole report, or the exception that
anything else makes. The rest of the
process opens and closes descriptors meanwhile; the system gives out the lowest
number that is free.

**Router**: which handler a request gets, from the configuration, the host it
names, the security of its connection, the direct header and its URL; and the
handlers that answer at once. Where the Host field is missing or empty, proxygen's
`ensureHostHeader` may put in any host. What a URL in absolute form says of its host and
path matters, because the redirect handler uses them. DirectHandler and
ProxyHandler are reduced to the parts they use (`uses`), to an answer or none, and
to the places where they may end the process: the search and the lookups of a
direct request with geo IP on, and the caching in a proxy's `requestComplete`.

**Masternode**: the main thread from the construction of the parts (each of which
may fail in its own way) through `start` and a signal to the destructors; the I/O
threads, which make and drop their timers; the poller; and the Router's requests
in between. A part is null, there, or freed.

## 3. Runs

Every run explores all states of its instance.

| run | instance | states | what it shows |
|---|---|---|---|
| `cache` | 3 threads, 3 URLs, room for 2, 2 responses | 20 628 | the cache is well formed, implements WriteOnceCache, and every route reaches its file, now or eventually, through overtaking writers, disk errors, crashes and restarts |
| `proxy` | 2 handlers, 2 URLs, room for 1, a page of 2 chunks, 1 upload chunk, service worker on, no disk | 848 000 | handler lifetime, no write to a client that has gone, uploads and bodies intact, answered GETs are cached, what the clients see implements Exchange |
| `proxy_live` | 1 handler, a page of 2 chunks, a body of 3, an empty one, disk, detaching inside `sendAbort` | 82 272 | every request is answered but those of findings 2 and of a paused origin; every handler is deleted, none too early; the cache is used as its own specification allows |
| `proxy_truncated` | 2 handlers | violation | finding 1 |
| `proxy_unanswered` | 1 handler | violation | finding 2 |
| `direct_geo` | 3 nodes, 2 given, 2 places, 1 request | 343 782 | nodes given are nodes found, unless a list is published meanwhile; what can end the process |
| `direct_assets` | 2 requests, 2 caching threads, 2 URLs | 4 044 402 | hashes given name complete files or files about to be written |
| `geo_stale_index`, `geo_padded` | as `direct_geo` | violation | findings 3 and 4 |
| `gateway` | 2 descriptors, 2 addresses, reports of 2 pieces on 2 nodes | 1 516 578 | no descriptor is lost but through an exception, none is taken from another thread but by the second close, every Get ends unless the gateway is silent, only whole reports of one answer are published, the list converges to what the gateway reports |
| `masternode` | 1 I/O thread, 48 configurations | 80 904 | which requests get content, redirects that lead somewhere, one response; every thread finds its parts; what ends the process, and that a stop does |
| `kdtree` | lists of up to 5 of 5 points in 3 dimensions, leaves of 2, 2 asked for, 6 clients | 323 684 | the tree divides the points, the search finds the nearest, and both come to an end |

*Why the bounds are enough.* Handlers share nothing but the cache, so that two
show every interaction at one URL, and one more shows in `cache` what a third
thread does to two that race for a file. Two chunks are needed to cut a body
short, three to tell whether chains are put together in order (added after the
head, the second chunk is still in its place). Room for one route of two makes
the cache full and lets a URL be cached, refused or raced for. One upload chunk
is enough to be lost or sent twice. Three nodes of which two are given leave room
for lists that are longer than, as long as, and shorter than what is asked for
(the code asks for 5), and for ties. In `gateway`, two descriptors let the number
of a failed connect be given out again, or none be left; two addresses let one
fail and the other be used; two pieces let a report be cut short, and the gateway
change between them; the three reports have both, one and none of two nodes
usable, and between them an entry of each kind the parser skips.
`masternode` has one I/O thread because threads share nothing but the parts, and
a thread handles one request at a time; its configurations are all those that
`main` may make, with and without an empty domain, and its requests name the
site, another host or none, with every port, over both kinds of connection, in
both forms of a URL. `kdtree` has more points than two leaves hold, so that the
tree has inner nodes below its root; its lists may repeat points, so that a cut
may find all of them on one side; its clients are at, between and outside of
the points, so that the search does and does not visit the other side of a cut.
That it ends is checked under weak fairness of the one thread that builds or
searches.

*Symmetry* is used in the run `proxy` only, in its handlers and URLs, which no
configuration or property singles out. *Deadlock* is checked in all runs but those
of the proxy and of Masternode: when all handlers are gone and no request comes,
or the process has ended, these rest.

*Fairness.* Steps of a thread inside `addCachedRoute` are weakly fair: it runs
on. A connection attempt succeeds, fails, or times out (60 s,
`ProxyHandler.cpp:98`). An origin that is read sends its response or fails, if
need be by the transaction's timer (`Router.cpp:26`); this is strongly fair
because `originOnEgressPaused` may stop and restart the reading for ever. Nothing
makes an origin that does not read the upload read on, and so nothing is said of
one that stays paused. proxygen detaches what is over. The poller's own steps are
weakly fair: folly's FunctionScheduler catches what its function throws and runs
it again when it is due, and a connect ends in time. Its reads are not: the
timeout the constructor passes (`NetworkState.cpp:14`) is one for connecting, and
`recv` waits for as long as the gateway neither answers nor hangs up. A server
that was told to stop drops its connections, its threads and then main run on.
Nothing makes a client send, finish or stay, a gateway answer or change, a signal
come, or an operator restart the process. `ListFollowsGateway` assumes that
reports keep being parsed and that the gateway reports the same nodes from some
time on.

## 4. Findings

1. **A truncated response is cached** (`CachedRoutesAreWhole`).
   `originOnError` aborts the client; the `requestComplete` that follows finds
   headers and part of a body and caches them. Every later GET of the URL gets
   the part as a complete 200, until the process ends, because nothing replaces a
   cached route. `BodiesWholeUnlessOriginFailed`, which holds, says that this is
   the only way.
2. **A response without a body is never passed on** (`EveryRequestAnswered`).
   `originOnEOM` answers only if there is a body. `AnsweredUnlessEmptyOrPaused`,
   which holds, says that besides an exchange whose origin stays paused it is the
   only request left without an answer.
3. **Indices of one list are looked up in another** (`IndicesNameTheirNodes`).
   Tree and list are published and read under separate locks. An index that the
   search found may then name another node, or none, which throws through a
   `noexcept` function and ends the process. TLC's trace is a request that searches
   the new tree before the new list is published. `FoundUnlessOvertaken`, which
   holds, says that only a publication during the lookups does it.
4. **With fewer nodes than five, the first one is given for the missing ones**
   (`UpToNearestCount`). The indices for which there is no node stay 0.

The properties that hold also mark what the code leaves open, without a doc that
says otherwise: a direct request before the first report follows a null pointer,
and one after a report without a usable node looks the zeros of finding 4 up in an
empty list, which throws; either ends the process (`SurvivesUnlessEmptyOrOvertaken`
says that besides these two and finding 3 nothing does). The second close of a
failed connect may take a descriptor from another thread
(`OnlySecondCloseHitsOthers`), an exception in a Get loses its
descriptor (`OpenDescriptorsAccountedFor`), a gateway that is silent after it has
accepted stops the polling and the shutdown (`GetEndsUnlessGatewaySilent`,
`StopsUnlessGatewaySilent`), a redirected request without a path ends the process,
and so does a cache that is full or a disk that fails (`EndsForAReason`), and the
empty domain gets two responses (`OneResponse`). These properties say how far such
a thing may go; they do not object to it. What detaches inside `sendAbort` is left
open altogether: the model deletes the handler and lets `onError` run on, a second
deletion included, and nothing is said against it, because it depends on proxygen
alone whether it can happen.

## 5. Proofs

All for any number of handlers, URLs and responses, edge nodes, descriptors and
threads, any maximum size from one, and both values of every option. The assumptions are
those the modules state of their constants: `ResponseAssumption`,
`CacheAssumption`, `NoRouteAssumption` and `ProxyAssumption` (null pointers are
neither routes nor requests), `NetworkAssumption` (finitely many nodes, at least
one to be given, and null pointers that are not lists),
`GatewayAssumption` (descriptors are natural numbers, finitely many, so that
there is a lowest free one) and `RouterAssumption` (the upgrade is configured
only together with SSL, a URL without a path has a host).

**ContentCacheProofs.**
- `CacheTypeCorrect`: `CacheTypeOK` is inductive.
- `CachedRoutesReachDiskCorrect`. Not inductive alone: a thread that has opened
  its file must have created it (`OpenedFilesExist`), or filling it would not put
  it on the disk. The argument is that whoever empties a file will fill it, and
  that only a thread that opens the file can overtake one that writes it; so that
  a torn file that is wanted always has a thread that comes last
  (`AddKeepsFile`, `DiskKeepsFile`).
- `WriteOnceRefinement`: each action is a `Publish`, a `Stop`, a `Start` or a
  stutter of WriteOnceCache.

**ProxyHandlerProofs.**
- `ProxyTypeCorrect`. That the origin never gets more than `MaxUpload` chunks is
  a part of the type, and needs that it never gets more than the client sent.
- The lifetime (`OriginTxnNotDanglingCorrect`, `NoDanglingCallbackCorrect`,
  `NoLeakedHandlerCorrect`, `NoStrayWriteCorrect`, `UploadIntactCorrect`).
  `LifeInv` relates what the handler knows to what
  proxygen knows: `originTxn_` to the state of the origin's transaction,
  `clientTerminated_` to the client's, the pause of the client's ingress to the
  connector, and `deletes` to both. None of the properties is inductive without
  the first two: `checkForShutdown` decides on the handler's members alone.
- `CacheRefinement`: every step of the proxy is a step of the cache alone or
  leaves the cache as it is. This needs `BodyInv`: what a handler has collected is a
  prefix of one response, in order.
- `ProxyCacheCorrect`: with it, the theorems on the cache hold in the proxy.

**ProxyBodiesProofs.**
- `BodiesWholeCorrect`. `WholeInv` ties the states of the two transactions to how
  much the origin has sent: nothing before it is connected, all of it when the
  client has its answer, and a client is aborted only after the origin has
  failed. With `BodyInv` this says that what `requestComplete` finds collected is
  whole, or that the origin failed; and a failure, once there, stays
  (`FailuresKept`), as long as the process runs and what it cached is served. A
  cached body is in one buffer, so that the injection cannot cut it (`Stored`).
- `AnsweredGetIsCachedCorrect`. `CachingInv` says where an answered GET's body is
  at each moment: in the map, or still with the handler, or nowhere because the
  map is full. The map only grows, and stays finite, so that full stays full.
- `ExchangeRefinement`: every callback is a step of Exchange or a stutter. It needs
  all the invariants above and `MatchingInv`: as long as a client that was answered
  from the origin may still complete, the handler holds exactly what it was sent,
  so that `requestComplete` cannot publish anything else; and an origin that has
  failed has left no client waiting. `AskStep`, `RespondStep`, `FailStep`,
  `FinishStep` and `LeaveStep` map the callbacks one by one; in `FinishStep`,
  `CachingInv` shows that what had to be published was.


**NetworkStateProofs.** Lemmas only: what the poller publishes and what the
search returns has its type, and the steps of the poller keep the types.

**DirectHandlerProofs.**
- `DirectTypeCorrect`: `DirectTypeOK` is inductive.
- `FoundUnlessOvertakenCorrect`, `SurvivalCorrect`. Neither is inductive.
  `LookupInv` adds that tree and list are of one generation while the poller
  rests (`OneGeneration`), that a lookup that was not overtaken goes on in the
  list of the tree it searched, and that what is still to be looked up are
  indices of that tree, or zero.
- `GivenHashesCorrect`, from the cache's `DiskInv` and the two lemmas above: no
  step takes a file back that reaches the disk, until the process ends, and the
  requests with it.

**GatewayClientProofs.**
- `PollsAreWholeReportsCorrect`: each step of the client is a step of the poller
  of NetworkState (`NetworkSpec`), or changes nothing the poller has. `parse` takes
  what is in the body and nothing else, so that this needs an invariant: every
  piece of the body is of the report that the gateway gave in this Get
  (`BodyInv`), and while one is read, nothing of an earlier Get waits to be
  published. It follows that a body that is whole is the report fetched
  (`ParsedIsFetched`), whatever the gateway has come to report since. The theorem is
  about safety; that polls go on at all is `ListFollowsGateway`'s subject.
- `GatewayTypeCorrect`. `GatewayInv` adds `ClientInv`: `BodyInv`, without which a
  piece might be of no report, and that a Get that holds a socket has one.
- `OpenDescriptorsAccountedForCorrect`: inductive on top of `GatewayInv`, with the
  number a thrown Get held in `leaked`.
- `OnlySecondCloseHitsOthersCorrect`. `NobodyHit` is the invariant: as long as
  nobody has lost a descriptor, those of the other threads are open and the one
  the Get holds is open and not among them. The number that is closed again after
  a failed connect is not held any more, which is why that close alone may hit.

**KDTreeProofs.** For any points, queries, lengths of the list, sizes of leaves
and numbers of points asked for; `KDTreeAssumption` says that points are triples
of integers and that the two numbers are at least one. Induction over the
tree is not needed, as the recursion is in the state, and its invariant speaks of
all nodes that are there.
- `TreeDividesPointsCorrect`. In `BuildInv`, `vind` is a permutation; two nodes are
  apart or one is under the other (`Laminar`); a position is in a node that is not
  cut, or will be in a second child (`Covered`); what `planeSplit` has passed is on
  its side of the cut, and some point is at or below the cut, and some at or above
  it (`Splits`), which is why the index it returns leaves no side empty
  (`SplitPoint`). A swap moves points within the part of the one node that is being
  split, and nothing under it is there yet, so that it disturbs no other
  (`SameSide`).
- `NearestFoundCorrect`. In `SearchInv`, each position is in a call to come, or to
  be scanned, or settled: found, or beaten by a full result set (`WaitOK`). A
  call's `mindistsq` is the sum of a vector with a lower bound in each dimension
  (`CallOK`), also behind a cut, where the distance to the cut takes the place of
  the one before (`BeyondCut`, `TotalExcept`); what is left out by it is beaten, and
  a result set only gets better (`AddPoint`). At the end nothing waits, and the
  set has as many points as were asked for or as there are, because a set that is
  not full has beaten nothing (`CountFound`, by counting).
- `LeastExists`, that a finite set of integers has a least element, is proved from
  well-founded induction in its set form (`WFMin`).

**MasternodeProofs.**
- `MasternodeTypeCorrect`.
- `RequestsFindTheirPartsCorrect`, `PollerFindsItsPartsCorrect`. Where the main
  thread is says which parts there are (`PartsInv`), when the poller runs
  (`PollerInv`) and when requests are under way (`RequestsInv`); the three are
  inductive together, as the destructor's wait for the poller, and the server's
  for its threads, come before any part is freed.
- `EndsForAReasonCorrect`: a handler ends the process also when it follows a
  pointer to a part that is not there; that none does is `RequestsFindTheirParts`,
  so that the invariants above are needed.
- `OneResponseCorrect`, `RedirectsLeadToContentCorrect`,
  `ContentOnlyWhereConfiguredCorrect`. `ChoiceInv` says of each request under way
  why it was given its handler, which the configuration then no longer changes,
  and that redirects name the port of SSL.

*Only model-checked:* liveness, which is out of the prover's reach:
`CachedRoutesEventuallyOnDisk`, `AnsweredUnlessEmptyOrPaused`, `EventuallyDestroyed`,
`ListFollowsGateway`, `GetEndsUnlessGatewaySilent`, `StopsUnlessGatewaySilent`,
`CallsReturn`. Every other property of a passing run is a theorem.

## 6. Not modelled

- The buffers between the two directions of an exchange: `originOnEgressPaused`
  stops reading the *origin* when the origin is slow to read; the client, whose
  data it is, is not stopped. That an origin may then wait for the handler as the
  handler waits for it is in the model as a pause that need not end; how much
  fits into the buffers before is not.
- Header fields (those the code copies into an answer), the parsing of URLs, HTML,
  JSON and flags, the formatting of answers, logging.
- The lookup of an address in the GeoLite database and the conversion of degrees
  to Cartesian coordinates, which are floating-point functions without state;
  the rounding of distances; the cutting of ports to 16 and of heartbeats to 32
  bits. A node's address stands for it.
- `FD_SET` with a descriptor beyond its size, which writes to memory that depends
  on the build; the allocation of the tree's nodes.
- Time: that a timeout comes is fairness; how long it takes (`Router.cpp:26` has
  seconds for milliseconds) is not said, nor the age of heartbeats between reports.
- SHA-256: equal content has equal hashes and different content different ones.
- proxygen and folly beyond what the code relies on; what `libs/httplib.h` and
  `libs/nanoflann.hpp` have beyond what the masternode calls; the tests; build and
  deployment.

## 7. Order of the work

Everything that was planned is done but for the buffers named above: (1) Content,
WriteOnceCache, ContentCache and its proofs, (2) ProxyHandler on the cache, its
lifetime and refinement proofs, (3) NetworkState and DirectHandler on the cache,
and their proofs, (4) Router and Masternode, which compose the parts, and their
proofs, (5) GatewayClient, which refines the poller's fetch, and its proofs, (6)
KDTree, which justifies the search NetworkState assumes, (7) the proofs that tie what a
handler has collected to what its origin has sent, (8) the KD-tree as a state
machine, and its proofs, and the proof that GatewayClient implements the poller, (9)
Exchange, which says what the proxy promises as a whole, and the proof that
ProxyHandler implements it. What is left for the
prover is what is out of its reach: liveness.
