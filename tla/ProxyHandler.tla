---------------------------- MODULE ProxyHandler ----------------------------
(***************************************************************************)
(* The proxy's request handler (ProxyHandler.h, ProxyHandler.cpp) on top   *)
(* of the content cache.  Each handler lives on one I/O thread and is      *)
(* driven by the callbacks of two proxygen transactions, the client's and  *)
(* the origin's, and of the connector to the origin; it deletes itself     *)
(* when the last of them is done with it.  Every callback is one action,   *)
(* whole, except that requestComplete stays on its thread while the cache  *)
(* writes a file: it ends with that write, and no other callback of the    *)
(* handler runs meanwhile.                                                 *)
(*                                                                         *)
(* proxygen is not part of the repository: client and origin hold what the *)
(* handler relies on, namely which callback may come when.                 *)
(***************************************************************************)
EXTENDS ContentCache

CONSTANTS
    NoRequest,            \* request_ before onRequest
    EnableServiceWorker,  \* config: enableServiceWorker
    DetachInAbort,        \* a transaction may detach from inside sendAbort
    MaxUpload             \* bound: body chunks a client sends

ASSUME ProxyAssumption ==
    /\ EnableServiceWorker \in BOOLEAN
    /\ DetachInAbort \in BOOLEAN
    /\ MaxUpload \in Nat
    /\ NoRequest \notin [url : Url, get : BOOLEAN]

VARIABLES
    proxy,   \* proxy[h]: the members of the handler
    client,  \* client[h]: its downstream transaction, as proxygen keeps it
    origin   \* origin[h]: its connector and origin transaction, likewise

vars == <<cacheVars, proxy, client, origin>>

-----------------------------------------------------------------------------
Request == [url : Url, get : BOOLEAN]
Reply == [status : Nat, from : Response \cup {NoResponse}, body : Seq(Chunk)]

\* originTxn_ is a pointer: TRUE when it is not null.  contentBody_ is null
\* when empty.  deletes counts the calls of the destructor.
Proxy == [request_ : Request \cup {NoRequest}, originTxn_ : BOOLEAN,
          contentHeaders_ : Response \cup {NoResponse},
          contentBody_ : Seq(Chunk), clientTerminated_ : BOOLEAN, deletes : Nat]

\* open: awaiting an answer.  complete, errored: requestComplete or onError was
\* delivered, no callback follows.  strays counts writes to a client that is
\* not waiting for one.
Client == [state : {"idle", "open", "replied", "aborted", "complete", "errored"},
           paused : BOOLEAN, sent : 0..MaxUpload, eom : BOOLEAN,
           reply : Reply, strays : Nat]

\* failed, aborted: it ended with an error, the handler gave it up.
Origin == [state : {"none", "connecting", "open", "eom", "failed", "detached"},
           failed : BOOLEAN, aborted : BOOLEAN, paused : BOOLEAN,
           resp : Response \cup {NoResponse}, sent : Nat,
           got : 0..MaxUpload, gotEom : BOOLEAN]

NoReply == [status |-> 0, from |-> NoResponse, body |-> <<>>]
NewProxy == [request_ |-> NoRequest, originTxn_ |-> FALSE,
             contentHeaders_ |-> NoResponse, contentBody_ |-> <<>>,
             clientTerminated_ |-> FALSE, deletes |-> 0]
NewClient == [state |-> "idle", paused |-> FALSE, sent |-> 0, eom |-> FALSE,
              reply |-> NoReply, strays |-> 0]
NewOrigin == [state |-> "none", failed |-> FALSE, aborted |-> FALSE,
              paused |-> FALSE, resp |-> NoResponse, sent |-> 0,
              got |-> 0, gotEom |-> FALSE]

ProxyInit ==
    /\ CacheInit
    /\ proxy = [h \in Handler |-> NewProxy]
    /\ client = [h \in Handler |-> NewClient]
    /\ origin = [h \in Handler |-> NewOrigin]

-----------------------------------------------------------------------------
(***************************************************************************)
(* What the handler calls on its two transactions.                         *)
(***************************************************************************)

\* ResponseBuilder.sendWithEOM: the one answer of a client transaction.
sendWithEOM(c, reply) ==
    IF c.state = "open" THEN [c EXCEPT !.state = "replied", !.reply = reply]
                        ELSE [c EXCEPT !.strays = @ + 1]

\* downstream_->sendAbort, which also cuts short an answer being sent.
sendAbort(c) ==
    IF c.state \in {"open", "replied"} THEN [c EXCEPT !.state = "aborted"]
                                       ELSE [c EXCEPT !.strays = @ + 1]

pauseIngress(c) == [c EXCEPT !.paused = TRUE]
resumeIngress(c) == [c EXCEPT !.paused = FALSE]

Reply503 == [status |-> 503, from |-> NoResponse, body |-> <<>>]
Reply200(headers, body) == [status |-> 200, from |-> headers, body |-> body]

(***************************************************************************)
(* The handler's own helpers.                                              *)
(***************************************************************************)
checkForShutdown_EitherSide(p) ==
    [p EXCEPT !.deletes = IF p.clientTerminated_ \/ ~p.originTxn_ THEN @ + 1 ELSE @]

checkForShutdown(p) ==
    [p EXCEPT !.deletes = IF p.clientTerminated_ /\ ~p.originTxn_ THEN @ + 1 ELSE @]

abortDownstream_Always(h) == sendAbort(client[h])

abortDownstream(h) ==
    IF proxy[h].clientTerminated_ THEN client[h] ELSE sendAbort(client[h])

terminated(p) == [p EXCEPT !.clientTerminated_ = TRUE]
originUnset(p) == [p EXCEPT !.originTxn_ = FALSE]

\* The thread of h is free to run a callback.
Running(h) == up /\ stage[h] = "idle"

-----------------------------------------------------------------------------
(***************************************************************************)
(* RequestHandler: callbacks of the client's transaction.                  *)
(***************************************************************************)

\* The bodies a cached route may be answered with: as cached, also when the
\* page does not parse or has no head, or parsed, injected and serialized.
pages(route) ==
    {route.content.bytes} \cup
    IF EnableServiceWorker /\ route.headers.html
    THEN {headBuffer(route.content)} ELSE {}

\* connector_.connect, without stopping the client.
connectOrigin_Unpaused(h, c) ==
    /\ client' = [client EXCEPT ![h] = c]
    /\ origin' = [origin EXCEPT ![h].state = "connecting"]

\* Stop reading from the client until the origin is there to receive it.
connectOrigin(h, c) ==
    /\ client' = [client EXCEPT ![h] = pauseIngress(c)]
    /\ origin' = [origin EXCEPT ![h].state = "connecting"]

onRequest(h, request) ==
    /\ Running(h)
    /\ client[h].state = "idle"
    /\ proxy' = [proxy EXCEPT ![h].request_ = request]
    /\ LET opened == [client[h] EXCEPT !.state = "open"]
           hit == request.get /\ getCachedRoute(request.url) # NoRoute
       IN \/ \* in the cache
             /\ hit
             /\ \E page \in pages(getCachedRoute(request.url)) :
                   client' = [client EXCEPT ![h] =
                       sendWithEOM(opened,
                           Reply200(getCachedRoute(request.url).headers, page))]
             /\ UNCHANGED origin
          \/ \* the origin's address does not resolve
             /\ ~hit
             /\ client' = [client EXCEPT ![h] = sendWithEOM(opened, Reply503)]
             /\ UNCHANGED origin
          \/ \* connect to the origin
             /\ ~hit /\ connectOrigin(h, opened)
    /\ UNCHANGED cacheVars

ClientSends(h) ==
    /\ Running(h)
    /\ client[h].state \in {"open", "replied"}
    /\ ~client[h].paused /\ ~client[h].eom

forwardTwice(o) == [o EXCEPT !.got = @ + 2]
forward(o) == [o EXCEPT !.got = @ + 1]

\* Forwarded to the origin transaction, or dropped when there is none.
onBody(h) ==
    /\ ClientSends(h)
    /\ client[h].sent < MaxUpload
    /\ client' = [client EXCEPT ![h].sent = @ + 1]
    /\ origin' = IF proxy[h].originTxn_
                 THEN [origin EXCEPT ![h] = forward(@)] ELSE origin
    /\ UNCHANGED <<cacheVars, proxy>>

onEOM(h) ==
    /\ ClientSends(h)
    /\ client' = [client EXCEPT ![h].eom = TRUE]
    /\ origin' = [origin EXCEPT ![h].gotEom = proxy[h].originTxn_]
    /\ UNCHANGED <<cacheVars, proxy>>

\* The collected body, as it is given to the cache: one buffer.
bodyToCache_Chained(p) == clone(p.contentBody_)
bodyToCache(p) == cloneCoalesced(p.contentBody_)

\* What is collected is cached whatever the request's method.
requestComplete_AnyMethod(h) ==
    /\ Running(h)
    /\ \/ client[h].state = "aborted"
       \/ client[h].state = "replied" /\ (client[h].eom \/ client[h].paused)
    /\ client' = [client EXCEPT ![h].state = "complete"]
    /\ LET p == proxy[h] IN
       IF p.contentBody_ # <<>> /\ p.contentHeaders_ # NoResponse
       THEN addCachedRoute(h, p.request_.url,
                [content |-> bodyToCache(p), headers |-> p.contentHeaders_])
       ELSE UNCHANGED cacheVars
    /\ proxy' = IF Running(h)' THEN [proxy EXCEPT ![h] = checkForShutdown(terminated(@))]
                               ELSE proxy
    /\ UNCHANGED origin

\* The client's transaction is over: aborted, or answered and the request read
\* to its end (or not to be read any more, after a failed connect).
requestComplete(h) ==
    /\ Running(h)
    /\ \/ client[h].state = "aborted"
       \/ client[h].state = "replied" /\ (client[h].eom \/ client[h].paused)
    /\ client' = [client EXCEPT ![h].state = "complete"]
    /\ LET p == proxy[h] IN
       IF /\ p.request_.get
          /\ p.contentBody_ # <<>> /\ p.contentHeaders_ # NoResponse
       THEN addCachedRoute(h, p.request_.url,
                [content |-> bodyToCache(p), headers |-> p.contentHeaders_])
       ELSE UNCHANGED cacheVars
    /\ proxy' = IF Running(h)' THEN [proxy EXCEPT ![h] = checkForShutdown(terminated(@))]
                               ELSE proxy
    /\ UNCHANGED origin

\* The last write of addCachedRoute, and the rest of requestComplete.
finishWrite(h) ==
    /\ WriteFile(h)
    /\ proxy' = [proxy EXCEPT ![h] = checkForShutdown(terminated(@))]
    /\ UNCHANGED <<client, origin>>

\* The client went away or timed out.  Giving up the origin transaction may
\* detach it at once, and with it delete the handler, which then reads its own
\* freed members: what they still hold decides whether it is deleted again.
onError(h) ==
    /\ Running(h)
    /\ client[h].state \in {"open", "replied"}
    /\ client' = [client EXCEPT ![h].state = "errored"]
    /\ LET p == terminated(proxy[h]) IN
       \/ /\ proxy' = [proxy EXCEPT ![h] = checkForShutdown(p)]
          /\ origin' = [origin EXCEPT ![h] =
                IF p.originTxn_ THEN [@ EXCEPT !.aborted = TRUE]
                ELSE IF @.state = "connecting"
                     THEN [@ EXCEPT !.state = "none"]  \* ~HTTPConnector
                     ELSE @]
       \/ /\ DetachInAbort /\ p.originTxn_
          /\ origin' = [origin EXCEPT ![h].aborted = TRUE, ![h].state = "detached"]
          /\ LET q == checkForShutdown(originUnset(p))
             IN \E after \in {q, checkForShutdown(q)} :
                   proxy' = [proxy EXCEPT ![h] = after]
    /\ UNCHANGED cacheVars

-----------------------------------------------------------------------------
(***************************************************************************)
(* HTTPConnector::Callback.                                                *)
(***************************************************************************)

originSetTransaction(p) == [p EXCEPT !.originTxn_ = TRUE]

\* session->newTransaction sets the handler's transaction.
connectSuccess(h) ==
    /\ Running(h)
    /\ origin[h].state = "connecting"
    /\ origin' = [origin EXCEPT ![h].state = "open"]
    /\ proxy' = [proxy EXCEPT ![h] = originSetTransaction(@)]
    /\ client' = [client EXCEPT ![h] = resumeIngress(@)]
    /\ UNCHANGED cacheVars

connectError_Silent(h) ==
    /\ Running(h)
    /\ origin[h].state = "connecting"
    /\ origin' = [origin EXCEPT ![h].state = "none"]
    /\ UNCHANGED <<cacheVars, proxy, client>>

connectError(h) ==
    /\ Running(h)
    /\ origin[h].state = "connecting"
    /\ origin' = [origin EXCEPT ![h].state = "none"]
    /\ IF ~proxy[h].clientTerminated_
       THEN /\ client' = [client EXCEPT ![h] = sendWithEOM(@, Reply503)]
            /\ UNCHANGED proxy
       ELSE /\ client' = [client EXCEPT ![h] = abortDownstream(h)]
            /\ proxy' = [proxy EXCEPT ![h] = checkForShutdown(@)]
    /\ UNCHANGED cacheVars

-----------------------------------------------------------------------------
(***************************************************************************)
(* HTTPTransactionHandler: callbacks of the origin's transaction.  What    *)
(* proxygen had queued may still come after the handler aborted it.        *)
(***************************************************************************)
OriginSends(h) ==
    /\ Running(h)
    /\ origin[h].state = "open" /\ ~origin[h].paused

originOnHeadersComplete(h, r) ==
    /\ OriginSends(h)
    /\ origin[h].resp = NoResponse
    /\ origin' = [origin EXCEPT ![h].resp = r]
    /\ proxy' = IF proxy[h].clientTerminated_ THEN proxy
                ELSE [proxy EXCEPT ![h].contentHeaders_ = r]
    /\ UNCHANGED <<cacheVars, client>>

\* Each buffer comes before the head of the circular chain, which is its end.
collect_AfterHead(body, chain) ==
    IF body # <<>> THEN appendChain(body, chain) ELSE <<chain>>

collect(body, chain) ==
    IF body # <<>> THEN prependChain(body, chain) ELSE <<chain>>

originOnBody(h) ==
    /\ OriginSends(h)
    /\ origin[h].resp # NoResponse
    /\ origin[h].sent < origin[h].resp.len
    /\ origin' = [origin EXCEPT ![h].sent = @ + 1]
    /\ LET chain == <<origin[h].resp, origin[h].sent + 1>> IN
       proxy' = IF proxy[h].clientTerminated_ THEN proxy
                ELSE [proxy EXCEPT ![h].contentBody_ = collect(@, chain)]
    /\ UNCHANGED <<cacheVars, client>>

\* The body is moved into the answer, where the code clones it.
originOnEOM_MovesBody(h) ==
    /\ OriginSends(h)
    /\ origin[h].resp # NoResponse
    /\ origin[h].sent = origin[h].resp.len
    /\ origin' = [origin EXCEPT ![h].state = "eom"]
    /\ LET p == proxy[h] IN
       client' = IF /\ ~p.clientTerminated_
                    /\ p.contentHeaders_ # NoResponse /\ p.contentBody_ # <<>>
                 THEN [client EXCEPT ![h] =
                        sendWithEOM(@, Reply200(p.contentHeaders_, p.contentBody_))]
                 ELSE client
    /\ proxy' = [proxy EXCEPT ![h].contentBody_ = <<>>]
    /\ UNCHANGED cacheVars

originOnEOM(h) ==
    /\ OriginSends(h)
    /\ origin[h].resp # NoResponse
    /\ origin[h].sent = origin[h].resp.len
    /\ origin' = [origin EXCEPT ![h].state = "eom"]
    /\ LET p == proxy[h] IN
       client' = IF /\ ~p.clientTerminated_
                    /\ p.contentHeaders_ # NoResponse /\ p.contentBody_ # <<>>
                 THEN [client EXCEPT ![h] =
                        sendWithEOM(@, Reply200(p.contentHeaders_, p.contentBody_))]
                 ELSE client
    /\ UNCHANGED <<cacheVars, proxy>>

\* The origin's connection fails or times out, perhaps after its response when
\* the request is still being sent.
originOnError(h) ==
    /\ Running(h)
    /\ origin[h].state \in {"open", "eom"}
    /\ origin' = [origin EXCEPT ![h].state = "failed", ![h].failed = TRUE]
    /\ client' = [client EXCEPT ![h] = abortDownstream(h)]
    /\ UNCHANGED <<cacheVars, proxy>>

\* The origin transaction is over: failed, given up, or complete both ways.
OriginOver(h) ==
    /\ Running(h)
    /\ \/ origin[h].state = "failed"
       \/ origin[h].state = "open" /\ origin[h].aborted
       \/ origin[h].state = "eom" /\ (origin[h].aborted \/ origin[h].gotEom)

originDetachTransaction_Stale(h) ==
    /\ OriginOver(h)
    /\ origin' = [origin EXCEPT ![h].state = "detached"]
    /\ proxy' = [proxy EXCEPT ![h] = checkForShutdown(@)]
    /\ UNCHANGED <<cacheVars, client>>

originDetachTransaction_NoShutdown(h) ==
    /\ OriginOver(h)
    /\ origin' = [origin EXCEPT ![h].state = "detached"]
    /\ proxy' = [proxy EXCEPT ![h] = originUnset(@)]
    /\ UNCHANGED <<cacheVars, client>>

originDetachTransaction(h) ==
    /\ OriginOver(h)
    /\ origin' = [origin EXCEPT ![h].state = "detached"]
    /\ proxy' = [proxy EXCEPT ![h] = checkForShutdown(originUnset(@))]
    /\ UNCHANGED <<cacheVars, client>>

\* The origin reads the request too slowly, and again fast enough: the handler
\* stops and restarts reading the origin's response.
originOnEgressPaused(h) ==
    /\ Running(h)
    /\ origin[h].state = "open" /\ ~origin[h].paused
    /\ ~proxy[h].clientTerminated_ /\ proxy[h].originTxn_
    /\ origin' = [origin EXCEPT ![h].paused = TRUE]
    /\ UNCHANGED <<cacheVars, proxy, client>>

originOnEgressResumed(h) ==
    /\ Running(h)
    /\ origin[h].state = "open" /\ origin[h].paused
    /\ ~proxy[h].clientTerminated_ /\ proxy[h].originTxn_
    /\ origin' = [origin EXCEPT ![h].paused = FALSE]
    /\ UNCHANGED <<cacheVars, proxy, client>>

-----------------------------------------------------------------------------
\* The part of addCachedRoute that leaves the handler where it is.
diskStep(h) ==
    /\ OpenFile(h) \/ DiskError(h)
    /\ UNCHANGED <<proxy, client, origin>>

\* The end of the process is the end of its handlers.
restartProxy ==
    /\ Restart
    /\ proxy' = [h \in Handler |-> NewProxy]
    /\ client' = [h \in Handler |-> NewClient]
    /\ origin' = [h \in Handler |-> NewOrigin]

Callback(h) ==
    \/ \E request \in Request : onRequest(h, request)
    \/ onBody(h) \/ onEOM(h) \/ requestComplete(h) \/ onError(h)
    \/ up /\ (diskStep(h) \/ finishWrite(h))
    \/ connectSuccess(h) \/ connectError(h)
    \/ \E r \in Response : originOnHeadersComplete(h, r)
    \/ originOnBody(h) \/ originOnEOM(h) \/ originOnError(h)
    \/ originDetachTransaction(h)
    \/ originOnEgressPaused(h) \/ originOnEgressResumed(h)

ProxyNext == (\E h \in Handler : Callback(h)) \/ restartProxy

ProxySpec == ProxyInit /\ [][ProxyNext]_vars

(***************************************************************************)
(* Fairness.  A connection attempt succeeds, fails or times out, an origin *)
(* that is read sends its response or its transaction times out, and       *)
(* proxygen detaches a transaction that is over.  The handler may stop and *)
(* restart reading the origin over and over again, hence the strong        *)
(* fairness.  Nothing makes an origin whose socket is full read on, which  *)
(* may wait for the handler to read, and nothing a client send, or end.    *)
(***************************************************************************)
OriginProgress(h) ==
    /\ origin[h].state = "open" /\ ~origin[h].paused
    /\ \/ \E r \in Response : originOnHeadersComplete(h, r)
       \/ originOnBody(h) \/ originOnEOM(h) \/ originOnError(h)

ProxyFairness ==
    \A h \in Handler :
        /\ WF_vars(connectSuccess(h) \/ connectError(h))
        /\ SF_vars(OriginProgress(h))
        /\ WF_vars(originDetachTransaction(h))
        /\ WF_vars(up /\ (diskStep(h) \/ finishWrite(h)))

FairProxySpec == ProxySpec /\ ProxyFairness

-----------------------------------------------------------------------------
\* The handlers and their transactions are well formed.
ProxyTypeOK ==
    /\ CacheTypeOK
    /\ proxy \in [Handler -> Proxy]
    /\ client \in [Handler -> Client]
    /\ origin \in [Handler -> Origin]

\* originTxn_ is set from the moment the origin transaction exists until it
\* detaches: onBody, onEOM, onError and the egress callbacks never use a
\* transaction that is gone, nor miss one that is there.
OriginTxnNotDangling ==
    \A h \in Handler :
        proxy[h].originTxn_ <=> origin[h].state \in {"open", "eom", "failed"}

\* No callback of the client's transaction, of the origin's or of the connector
\* will follow.
ClientOver(h) == client[h].state \in {"complete", "errored"}
OriginDone(h) == origin[h].state \in {"none", "detached"}

\* No callback of the client's or the origin's transaction, and none of the
\* connector, can reach a handler that checkForShutdown has deleted, in
\* whatever order the two sides end.
NoDanglingCallback ==
    \A h \in Handler : proxy[h].deletes > 0 =>
        ClientOver(h) /\ OriginDone(h) /\ stage[h] = "idle"

\* A handler no callback will reach again has deleted itself: whichever side
\* ends last, one of the calls of checkForShutdown sees both ended.
NoLeakedHandler ==
    \A h \in Handler :
        Running(h) /\ ClientOver(h) /\ OriginDone(h) => proxy[h].deletes > 0

\* A client gets one answer, and nothing is written to it after it has gone:
\* the early return of the cache hit, the clientTerminated_ guards and the
\* order of the two sides' callbacks together see to it.
NoStrayWrite == \A h \in Handler : client[h].strays = 0

\* While the origin is there to receive it, it has got exactly what the client
\* has sent: nothing is dropped before the connection is made, because the
\* client's ingress is paused until then.
UploadIntact ==
    \A h \in Handler : origin[h].state \in {"open", "eom"} /\ ~origin[h].aborted =>
        origin[h].got = client[h].sent /\ origin[h].gotEom = client[h].eom

\* The origin transaction of some request for u failed.
OriginFailed(u) ==
    \E h \in Handler : proxy[h].request_ # NoRequest
        /\ proxy[h].request_.url = u /\ origin[h].failed

WholeUnlessFailed(u, r, body) ==
    \E n \in 1..r.len : body = Body(r, n) /\ (n = r.len \/ OriginFailed(u))

\* What is cached for a URL, and what is sent to a client from the cache (also
\* when a service worker is injected, which looks at one buffer only) or from
\* the origin, is the body of one response, in order and whole unless the
\* origin failed in the middle of a response for that URL.
BodiesWholeUnlessOriginFailed ==
    /\ \A u \in Cached : WholeUnlessFailed(u, map_[u].headers, map_[u].content.bytes)
    /\ \A h \in Handler : client[h].reply.status = 200 =>
          WholeUnlessFailed(proxy[h].request_.url,
                            client[h].reply.from, client[h].reply.body)

\* What a cached route holds is all the origin had to say.  It is what the code
\* says of the body it collects, and not so when the origin fails half way.
CachedRoutesAreWhole ==
    \A u \in Cached : map_[u].content.bytes = Whole(map_[u].headers)

\* A GET that was answered by the origin and is over leaves its URL cached, by
\* this handler or by one that overtook it, unless the cache is full.
AnsweredGetIsCached ==
    \A h \in Handler :
        /\ Running(h) /\ client[h].state = "complete"
        /\ client[h].reply.status = 200 /\ proxy[h].request_.get
        => proxy[h].request_.url \in Cached \/ size >= MaxRoutes

\* The handlers do nothing to the cache but what the cache allows its callers:
\* they store, under one URL at a time, a part of one response in order.  All
\* that is shown of the cache on its own then holds of it here.
CacheImplemented == CacheSpec

-----------------------------------------------------------------------------
(***************************************************************************)
(* What the handlers and the cache show the clients, all together.         *)
(***************************************************************************)
phaseOf(state) ==
    CASE state = "idle" -> "new"
      [] state = "open" -> "waiting"
      [] state = "replied" -> "answered"
      [] state = "aborted" -> "cut"
      [] state \in {"complete", "errored"} -> "over"

requests == [h \in Handler |-> proxy[h].request_]
phases == [h \in Handler |-> phaseOf(client[h].state)]
replies == [h \in Handler |-> client[h].reply]
failures == {h \in Handler : origin[h].failed}
cachedPages == [u \in Cached |-> [from |-> map_[u].headers, body |-> map_[u].content.bytes]]

Promise == INSTANCE Exchange WITH
    request <- requests, phase <- phases, reply <- replies, failed <- failures,
    published <- cachedPages

\* However the callbacks of all the handlers interleave, and whatever chunks
\* and buffers they collect, what the clients see is one exchange: a GET of a
\* cached page gets exactly that page, any other request the whole response of
\* its own origin or a 503, and a request that has run its course leaves behind
\* what its client was sent, if it was a GET and the first, and nothing else.
ExchangeImplemented == Promise!Spec

-----------------------------------------------------------------------------
HasEmptyBody(h) == origin[h].resp # NoResponse /\ origin[h].resp.len = 0

\* A request the proxy took is answered, aborted or given up by its client, at
\* the latest when the connection attempt or the origin times out, unless the
\* response has no body, or the handler has stopped reading it for ever: it does
\* so while the origin does not read the upload, which may wait for the handler
\* to read.
AnsweredUnlessEmptyOrPaused ==
    \A h \in Handler :
        (client[h].state = "open") ~>
            (client[h].state # "open" \/ HasEmptyBody(h) \/ ~up \/ []origin[h].paused)

\* Every request is answered unless the handler has stopped reading the origin,
\* also when the response has no body: what one expects of a proxy, and not so.
EveryRequestAnswered ==
    \A h \in Handler :
        (client[h].state = "open") ~>
            (client[h].state # "open" \/ ~up \/ []origin[h].paused)

\* A handler whose client is gone is eventually deleted: whatever the origin is
\* doing, it is aborted, complete or about to fail.
EventuallyDestroyed ==
    \A h \in Handler : ClientOver(h) ~> (proxy[h].deletes > 0 \/ ~up)
=============================================================================
