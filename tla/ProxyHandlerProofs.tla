------------------------- MODULE ProxyHandlerProofs -------------------------
(***************************************************************************)
(* Proofs about the proxy's request handler, for any number of handlers,   *)
(* URLs and responses: its state is well formed; it is deleted exactly     *)
(* when both its sides are done with it; its client gets one answer; the   *)
(* origin gets the whole request; and what it does to the cache is what    *)
(* the cache allows, so that the theorems of the cache hold of it.         *)
(***************************************************************************)
EXTENDS ProxyHandler, ContentCacheProofs

-----------------------------------------------------------------------------
(***************************************************************************)
(* Types.  ProxyTypeOK is not inductive: that the origin has not got more  *)
(* than the client sent is what bounds it, and a handler that completes    *)
(* must have a request.                                                    *)
(***************************************************************************)
GotIsSent == \A h \in Handler : origin[h].got <= client[h].sent
Requested == \A h \in Handler : client[h].state # "idle" => proxy[h].request_ \in Request

TypeInv == ProxyTypeOK /\ GotIsSent /\ Requested

LEMMA InitTypeInv == ProxyInit => TypeInv
  <1>. SUFFICES ASSUME ProxyInit PROVE TypeInv
    OBVIOUS
  <1>1. CacheTypeOK
    BY InitTypes DEF ProxyInit
  <1>2. NewProxy \in Proxy
    BY DEF NewProxy, Proxy
  <1>3. NewClient \in Client
    BY ProxyAssumption DEF NewClient, Client, NoReply, Reply
  <1>4. NewOrigin \in Origin
    BY ProxyAssumption DEF NewOrigin, Origin
  <1>5. GotIsSent /\ Requested
    BY DEF ProxyInit, GotIsSent, Requested, NewClient, NewOrigin
  <1>. QED  BY <1>1, <1>2, <1>3, <1>4, <1>5 DEF ProxyInit, TypeInv, ProxyTypeOK

\* The step leaves the records of the other handlers alone.
Frame(h) ==
    /\ proxy' = [proxy EXCEPT ![h] = proxy'[h]]
    /\ client' = [client EXCEPT ![h] = client'[h]]
    /\ origin' = [origin EXCEPT ![h] = origin'[h]]

HandlerTypes(h) ==
    /\ proxy[h] \in Proxy
    /\ client[h] \in Client
    /\ origin[h] \in Origin
    /\ origin[h].got <= client[h].sent
    /\ client[h].state # "idle" => proxy[h].request_ \in Request

LEMMA RecordTypes ==
    ASSUME TypeInv, NEW h \in Handler
    PROVE  CacheTypeOK /\ HandlerTypes(h)
  BY DEF TypeInv, ProxyTypeOK, GotIsSent, Requested, HandlerTypes

LEMMA FrameTypes ==
    ASSUME TypeInv, CacheTypeOK', NEW h \in Handler, Frame(h), HandlerTypes(h)'
    PROVE  TypeInv'
  BY DEF TypeInv, ProxyTypeOK, GotIsSent, Requested, HandlerTypes, Frame

\* Every callback of a handler has its frame.
LEMMA CallbackFrame ==
    ASSUME TypeInv, NEW h \in Handler, Callback(h)
    PROVE  Frame(h)
  <1>. USE DEF Frame, TypeInv, ProxyTypeOK
  <1>1. ASSUME NEW request \in Request, onRequest(h, request) PROVE Frame(h)
    BY <1>1 DEF onRequest, connectOrigin
  <1>2. CASE onBody(h) \/ onEOM(h)
    BY <1>2 DEF onBody, onEOM
  <1>3. CASE requestComplete(h)
    BY <1>3 DEF requestComplete
  <1>4. CASE onError(h)
    BY <1>4 DEF onError
  <1>5. CASE diskStep(h) \/ finishWrite(h)
    BY <1>5 DEF diskStep, finishWrite
  <1>6. CASE connectSuccess(h) \/ connectError(h)
    BY <1>6 DEF connectSuccess, connectError
  <1>7. ASSUME NEW r \in Response, originOnHeadersComplete(h, r) PROVE Frame(h)
    BY <1>7 DEF originOnHeadersComplete
  <1>8. CASE originOnBody(h) \/ originOnEOM(h)
    BY <1>8 DEF originOnBody, originOnEOM
  <1>9. CASE originOnError(h) \/ originDetachTransaction(h)
    BY <1>9 DEF originOnError, originDetachTransaction
  <1>10. CASE originOnEgressPaused(h) \/ originOnEgressResumed(h)
    BY <1>10 DEF originOnEgressPaused, originOnEgressResumed
  <1>. QED  BY <1>1, <1>2, <1>3, <1>4, <1>5, <1>6, <1>7, <1>8, <1>9, <1>10 DEF Callback

LEMMA CacheUnchanged ==
    ASSUME CacheTypeOK, UNCHANGED cacheVars
    PROVE  CacheTypeOK'
  BY DEF CacheTypeOK, cacheVars

\* The two ways of ending a client's transaction.
LEMMA AnswerTypes ==
    ASSUME NEW c \in Client, NEW r \in Reply
    PROVE  /\ sendWithEOM(c, r) \in Client
           /\ sendWithEOM(c, r).sent = c.sent
           /\ c.state = "idle" => sendWithEOM(c, r).state = "idle"
  <1>1. CASE c.state = "open"
    <2>1. sendWithEOM(c, r) = [c EXCEPT !.state = "replied", !.reply = r]
      BY <1>1 DEF sendWithEOM
    <2>2. sendWithEOM(c, r) \in Client
      BY <2>1 DEF Client
    <2>3. sendWithEOM(c, r).sent = c.sent
      BY <2>1 DEF Client
    <2>. QED  BY <1>1, <2>2, <2>3
  <1>2. CASE c.state # "open"
    <2>1. sendWithEOM(c, r) = [c EXCEPT !.strays = @ + 1]
      BY <1>2 DEF sendWithEOM
    <2>2. sendWithEOM(c, r) \in Client
      BY <2>1 DEF Client
    <2>3. sendWithEOM(c, r).sent = c.sent /\ sendWithEOM(c, r).state = c.state
      BY <2>1 DEF Client
    <2>. QED  BY <2>2, <2>3
  <1>. QED  BY <1>1, <1>2

LEMMA AbortTypes ==
    ASSUME NEW c \in Client
    PROVE  /\ sendAbort(c) \in Client
           /\ sendAbort(c).sent = c.sent
           /\ c.state = "idle" => sendAbort(c).state = "idle"
  <1>1. sendAbort(c) \in Client
    BY DEF sendAbort, Client
  <1>2. sendAbort(c).sent = c.sent /\ (c.state = "idle" => sendAbort(c).state = "idle")
    BY DEF sendAbort, Client
  <1>. QED  BY <1>1, <1>2

LEMMA HelperTypes ==
    ASSUME NEW p \in Proxy
    PROVE  /\ checkForShutdown(p) \in Proxy
           /\ checkForShutdown(p).request_ = p.request_
           /\ terminated(p) \in Proxy
           /\ terminated(p).request_ = p.request_
           /\ originSetTransaction(p) \in Proxy
           /\ originSetTransaction(p).request_ = p.request_
           /\ originUnset(p) \in Proxy
           /\ originUnset(p).request_ = p.request_
  <1>1. checkForShutdown(p) \in Proxy /\ checkForShutdown(p).request_ = p.request_
    BY DEF checkForShutdown, Proxy
  <1>2. terminated(p) \in Proxy /\ terminated(p).request_ = p.request_
    BY DEF terminated, Proxy
  <1>3. originSetTransaction(p) \in Proxy /\ originSetTransaction(p).request_ = p.request_
    BY DEF originSetTransaction, Proxy
  <1>4. originUnset(p) \in Proxy /\ originUnset(p).request_ = p.request_
    BY DEF originUnset, Proxy
  <1>. QED  BY <1>1, <1>2, <1>3, <1>4

\* What a cache hit and a failed connection are answered with.
LEMMA ReplyTypes ==
    /\ Reply503 \in Reply
    /\ \A r \in Response, body \in Seq(Chunk) : Reply200(r, body) \in Reply
    /\ \A route \in CachedRoute : pages(route) \subseteq Seq(Chunk)
  <1>1. Reply503 \in Reply
    BY DEF Reply503, Reply
  <1>2. \A r \in Response, body \in Seq(Chunk) : Reply200(r, body) \in Reply
    BY DEF Reply200, Reply
  <1>3. ASSUME NEW route \in CachedRoute
        PROVE  pages(route) \subseteq Seq(Chunk)
    <2>1. route.content.bytes \in Seq(Chunk)
      BY DEF CachedRoute, IOBuf
    <2>2. headBuffer(route.content) \in Seq(Chunk)
      BY <2>1 DEF headBuffer, CachedRoute, IOBuf
    <2>. QED  BY <2>1, <2>2 DEF pages
  <1>. QED  BY <1>1, <1>2, <1>3

LEMMA OnRequestTypes ==
    ASSUME TypeInv, NEW h \in Handler, NEW request \in Request, onRequest(h, request)
    PROVE  HandlerTypes(h)' /\ CacheTypeOK'
  <1>. DEFINE opened == [client[h] EXCEPT !.state = "open"]
              route == getCachedRoute(request.url)
  <1>. USE RecordTypes DEF HandlerTypes
  <1>1. proxy'[h] \in Proxy /\ proxy'[h].request_ \in Request
    <2>1. proxy'[h] = [proxy[h] EXCEPT !.request_ = request]
      BY DEF onRequest, TypeInv, ProxyTypeOK
    <2>. QED  BY <2>1 DEF Proxy
  <1>2. opened \in Client /\ opened.sent = client[h].sent
    BY DEF Client
  <1>3. origin'[h] \in Origin /\ origin'[h].got = origin[h].got
    <2>1. origin'[h] = origin[h] \/ origin'[h] = [origin[h] EXCEPT !.state = "connecting"]
      BY DEF onRequest, connectOrigin, TypeInv, ProxyTypeOK
    <2>. QED  BY <2>1 DEF Origin
  <1>4. client'[h] \in Client /\ client'[h].sent = client[h].sent
    <2>1. CASE request.get /\ route # NoRoute
      <3>1. route \in CachedRoute
        BY <2>1 DEF CacheTypeOK, getCachedRoute, Request
      <3>2. PICK page \in pages(route) :
                client'[h] = sendWithEOM(opened, Reply200(route.headers, page))
        BY <2>1 DEF onRequest, TypeInv, ProxyTypeOK
      <3>3. Reply200(route.headers, page) \in Reply
        <4>1. route.headers \in Response
          BY <3>1 DEF CachedRoute
        <4>2. page \in Seq(Chunk)
          <5>. HIDE DEF route
          <5>. QED  BY <3>1, ReplyTypes
        <4>. QED  BY <4>1, <4>2, ReplyTypes
      <3>. QED  BY <1>2, <3>2, <3>3, AnswerTypes
    <2>2. CASE client'[h] = sendWithEOM(opened, Reply503)
      BY <1>2, <2>2, ReplyTypes, AnswerTypes
    <2>3. CASE client'[h] = pauseIngress(opened)
      BY <1>2, <2>3 DEF pauseIngress, Client
    <2>4. \/ request.get /\ route # NoRoute
          \/ client'[h] = sendWithEOM(opened, Reply503)
          \/ client'[h] = pauseIngress(opened)
      <3>1. client \in [Handler -> Client]
        BY DEF TypeInv, ProxyTypeOK
      <3>. HIDE DEF HandlerTypes
      <3>. QED  BY <3>1 DEF onRequest, connectOrigin
    <2>. QED  BY <2>1, <2>2, <2>3, <2>4
  <1>5. CacheTypeOK'
    BY CacheUnchanged DEF onRequest
  <1>. QED  BY <1>1, <1>3, <1>4, <1>5

LEMMA ClientSendsTypes ==
    ASSUME TypeInv, NEW h \in Handler, onBody(h) \/ onEOM(h)
    PROVE  HandlerTypes(h)' /\ CacheTypeOK'
  <1>. USE RecordTypes DEF HandlerTypes
  <1>1. CacheTypeOK' /\ proxy'[h] = proxy[h]
    BY CacheUnchanged DEF onBody, onEOM
  <1>2. CASE onBody(h)
    <2>1. client'[h] = [client[h] EXCEPT !.sent = @ + 1] /\ client[h].sent < MaxUpload
      BY <1>2 DEF onBody, TypeInv, ProxyTypeOK
    <2>2. origin'[h] = origin[h] \/ origin'[h] = forward(origin[h])
      BY <1>2 DEF onBody, TypeInv, ProxyTypeOK
    <2>3. client'[h] \in Client /\ client'[h].sent = client[h].sent + 1
          /\ client'[h].state = client[h].state
      BY <2>1, ProxyAssumption DEF Client
    <2>4. origin'[h] \in Origin /\ origin'[h].got <= origin[h].got + 1
      <3>1. origin[h].got \in Nat /\ origin[h].got + 1 \in 0..MaxUpload
        BY <2>1, ProxyAssumption DEF Client, Origin
      <3>2. CASE origin'[h] = origin[h]
        BY <3>1, <3>2
      <3>3. CASE origin'[h] = forward(origin[h])
        BY <3>1, <3>3 DEF forward, Origin
      <3>. QED  BY <2>2, <3>2, <3>3
    <2>. QED  BY <1>1, <2>3, <2>4, ProxyAssumption DEF Client, Origin
  <1>3. CASE onEOM(h)
    <2>1. client'[h] = [client[h] EXCEPT !.eom = TRUE]
          /\ origin'[h] = [origin[h] EXCEPT !.gotEom = proxy[h].originTxn_]
      BY <1>3 DEF onEOM, TypeInv, ProxyTypeOK
    <2>2. client'[h] \in Client /\ client'[h].sent = client[h].sent
          /\ client'[h].state = client[h].state
      BY <2>1 DEF Client
    <2>3. origin'[h] \in Origin /\ origin'[h].got = origin[h].got
      BY <2>1 DEF Origin, Proxy
    <2>. QED  BY <1>1, <2>2, <2>3
  <1>. QED  BY <1>2, <1>3

LEMMA RequestCompleteTypes ==
    ASSUME TypeInv, NEW h \in Handler, requestComplete(h)
    PROVE  HandlerTypes(h)' /\ CacheTypeOK'
  <1>. USE RecordTypes DEF HandlerTypes
  <1>1. origin'[h] = origin[h]
    BY DEF requestComplete
  <1>2. client'[h] \in Client /\ client'[h].sent = client[h].sent
        /\ client[h].state # "idle"
    <2>1. client'[h] = [client[h] EXCEPT !.state = "complete"] /\ client[h].state # "idle"
      BY DEF requestComplete, TypeInv, ProxyTypeOK
    <2>. QED  BY <2>1 DEF Client
  <1>3. proxy'[h] \in Proxy /\ proxy'[h].request_ = proxy[h].request_
    <2>1. \/ proxy'[h] = proxy[h]
          \/ proxy'[h] = checkForShutdown(terminated(proxy[h]))
      BY DEF requestComplete, TypeInv, ProxyTypeOK
    <2>. QED  BY <2>1, HelperTypes
  <1>4. CacheTypeOK'
    <2>. DEFINE p == proxy[h]
                route == [content |-> cloneCoalesced(p.contentBody_),
                          headers |-> p.contentHeaders_]
    <2>1. CASE p.contentHeaders_ # NoResponse /\ addCachedRoute(h, p.request_.url, route)
      <3>1. p.request_.url \in Url
        BY <1>2 DEF Request
      <3>2. route \in CachedRoute
        BY <2>1 DEF CachedRoute, IOBuf, cloneCoalesced, Proxy
      <3>. QED  BY <2>1, <3>1, <3>2, AddKeepsTypes
    <2>2. CASE UNCHANGED cacheVars
      BY <2>2, CacheUnchanged
    <2>. QED  BY <2>1, <2>2 DEF requestComplete, bodyToCache
  <1>. QED  BY <1>1, <1>2, <1>3, <1>4

LEMMA OnErrorTypes ==
    ASSUME TypeInv, NEW h \in Handler, onError(h)
    PROVE  HandlerTypes(h)' /\ CacheTypeOK'
  <1>. USE RecordTypes DEF HandlerTypes
  <1>1. CacheTypeOK'
    BY CacheUnchanged DEF onError
  <1>2. client'[h] \in Client /\ client'[h].sent = client[h].sent
        /\ client[h].state # "idle"
    <2>1. client'[h] = [client[h] EXCEPT !.state = "errored"] /\ client[h].state # "idle"
      BY DEF onError, TypeInv, ProxyTypeOK
    <2>. QED  BY <2>1 DEF Client
  <1>. DEFINE p == terminated(proxy[h])
              q == checkForShutdown(originUnset(p))
  <1>3. proxy'[h] \in Proxy /\ proxy'[h].request_ = proxy[h].request_
    <2>1. proxy'[h] \in {checkForShutdown(p), q, checkForShutdown(q)}
      BY DEF onError, TypeInv, ProxyTypeOK
    <2>2. p \in Proxy /\ p.request_ = proxy[h].request_
      BY HelperTypes
    <2>. HIDE DEF p
    <2>3. q \in Proxy /\ q.request_ = p.request_
      BY <2>2, HelperTypes
    <2>. HIDE DEF q
    <2>. QED  BY <2>1, <2>2, <2>3, HelperTypes
  <1>4. origin'[h] \in Origin /\ origin'[h].got = origin[h].got
    <2>1. \/ origin'[h] = [origin[h] EXCEPT !.aborted = TRUE]
          \/ origin'[h] = [origin[h] EXCEPT !.state = "none"]
          \/ origin'[h] = origin[h]
          \/ origin'[h] = [origin[h] EXCEPT !.aborted = TRUE, !.state = "detached"]
      BY DEF onError, TypeInv, ProxyTypeOK
    <2>2. CASE origin'[h] = [origin[h] EXCEPT !.aborted = TRUE, !.state = "detached"]
      BY <2>2 DEF Origin
    <2>3. CASE origin'[h] \in {[origin[h] EXCEPT !.aborted = TRUE],
                               [origin[h] EXCEPT !.state = "none"], origin[h]}
      BY <2>3 DEF Origin
    <2>. QED  BY <2>1, <2>2, <2>3
  <1>. QED  BY <1>1, <1>2, <1>3, <1>4

LEMMA DiskTypes ==
    ASSUME TypeInv, NEW h \in Handler, diskStep(h) \/ finishWrite(h)
    PROVE  HandlerTypes(h)' /\ CacheTypeOK'
  <1>. USE RecordTypes DEF HandlerTypes
  <1>1. CacheTypeOK'
    BY DiskKeepsTypes DEF diskStep, finishWrite
  <1>2. client'[h] = client[h] /\ origin'[h] = origin[h]
    BY DEF diskStep, finishWrite
  <1>3. proxy'[h] \in {proxy[h], checkForShutdown(terminated(proxy[h]))}
    BY DEF diskStep, finishWrite, TypeInv, ProxyTypeOK
  <1>. QED  BY <1>1, <1>2, <1>3, HelperTypes

LEMMA ConnectTypes ==
    ASSUME TypeInv, NEW h \in Handler, connectSuccess(h) \/ connectError(h)
    PROVE  HandlerTypes(h)' /\ CacheTypeOK'
  <1>. USE RecordTypes DEF HandlerTypes
  <1>1. CacheTypeOK'
    BY CacheUnchanged DEF connectSuccess, connectError
  <1>2. origin'[h] \in Origin /\ origin'[h].got = origin[h].got
    <2>1. \/ origin'[h] = [origin[h] EXCEPT !.state = "open"]
          \/ origin'[h] = [origin[h] EXCEPT !.state = "none"]
      BY DEF connectSuccess, connectError, TypeInv, ProxyTypeOK
    <2>. QED  BY <2>1 DEF Origin
  <1>3. proxy'[h] \in Proxy /\ proxy'[h].request_ = proxy[h].request_
    <2>1. proxy'[h] \in {proxy[h], originSetTransaction(proxy[h]), checkForShutdown(proxy[h])}
      BY DEF connectSuccess, connectError, TypeInv, ProxyTypeOK
    <2>. QED  BY <2>1, HelperTypes
  <1>4. client'[h] \in Client /\ client'[h].sent = client[h].sent
        /\ (client[h].state = "idle" => client'[h].state = "idle")
    <2>1. client'[h] \in {client[h], sendAbort(client[h]), resumeIngress(client[h]),
                          sendWithEOM(client[h], Reply503)}
      BY DEF connectSuccess, connectError, abortDownstream, TypeInv, ProxyTypeOK
    <2>2. resumeIngress(client[h]) \in Client /\ resumeIngress(client[h]).sent = client[h].sent
          /\ resumeIngress(client[h]).state = client[h].state
      BY DEF resumeIngress, Client
    <2>. QED  BY <2>1, <2>2, ReplyTypes, AnswerTypes, AbortTypes
  <1>. QED  BY <1>1, <1>2, <1>3, <1>4

LEMMA OriginSendsTypes ==
    ASSUME TypeInv, NEW h \in Handler,
           \/ \E r \in Response : originOnHeadersComplete(h, r)
           \/ originOnBody(h) \/ originOnEOM(h)
    PROVE  HandlerTypes(h)' /\ CacheTypeOK'
  <1>. USE RecordTypes DEF HandlerTypes
  <1>1. ASSUME NEW r \in Response, originOnHeadersComplete(h, r)
        PROVE  HandlerTypes(h)' /\ CacheTypeOK'
    <2>1. CacheTypeOK' /\ client'[h] = client[h]
      BY <1>1, CacheUnchanged DEF originOnHeadersComplete
    <2>2. origin'[h] = [origin[h] EXCEPT !.resp = r]
      BY <1>1 DEF originOnHeadersComplete, TypeInv, ProxyTypeOK
    <2>3. proxy'[h] \in {proxy[h], [proxy[h] EXCEPT !.contentHeaders_ = r]}
      BY <1>1 DEF originOnHeadersComplete, TypeInv, ProxyTypeOK
    <2>4. origin'[h] \in Origin /\ origin'[h].got = origin[h].got
      BY <2>2 DEF Origin
    <2>5. proxy'[h] \in Proxy /\ proxy'[h].request_ = proxy[h].request_
      BY <2>3 DEF Proxy
    <2>. QED  BY <2>1, <2>4, <2>5
  <1>2. CASE originOnBody(h)
    <2>1. CacheTypeOK' /\ client'[h] = client[h]
      BY <1>2, CacheUnchanged DEF originOnBody
    <2>. DEFINE chain == <<origin[h].resp, origin[h].sent + 1>>
    <2>2. chain \in Chunk
      BY <1>2 DEF originOnBody, Chunk, Origin
    <2>. HIDE DEF chain
    <2>3. origin'[h] = [origin[h] EXCEPT !.sent = @ + 1]
      BY <1>2 DEF originOnBody, TypeInv, ProxyTypeOK
    <2>4. \/ proxy'[h] = proxy[h]
          \/ proxy'[h] = [proxy[h] EXCEPT !.contentBody_ = prependChain(@, chain)]
          \/ proxy'[h] = [proxy[h] EXCEPT !.contentBody_ = <<chain>>]
      BY <1>2 DEF originOnBody, collect, TypeInv, ProxyTypeOK, chain
    <2>5. origin'[h] \in Origin /\ origin'[h].got = origin[h].got
      BY <2>3 DEF Origin
    <2>6. proxy'[h] \in Proxy /\ proxy'[h].request_ = proxy[h].request_
      <3>1. prependChain(proxy[h].contentBody_, chain) \in Seq(Chunk) /\ <<chain>> \in Seq(Chunk)
        BY <2>2 DEF prependChain, Proxy
      <3>. QED  BY <2>4, <3>1 DEF Proxy
    <2>. QED  BY <2>1, <2>5, <2>6
  <1>3. CASE originOnEOM(h)
    <2>1. CacheTypeOK' /\ proxy'[h] = proxy[h]
      BY <1>3, CacheUnchanged DEF originOnEOM
    <2>2. origin'[h] = [origin[h] EXCEPT !.state = "eom"]
      BY <1>3 DEF originOnEOM, TypeInv, ProxyTypeOK
    <2>3. origin'[h] \in Origin /\ origin'[h].got = origin[h].got
      BY <2>2 DEF Origin
    <2>. DEFINE reply == Reply200(proxy[h].contentHeaders_, proxy[h].contentBody_)
    <2>4. \/ client'[h] = client[h]
          \/ proxy[h].contentHeaders_ # NoResponse /\ client'[h] = sendWithEOM(client[h], reply)
      BY <1>3 DEF originOnEOM, TypeInv, ProxyTypeOK
    <2>5. proxy[h].contentHeaders_ # NoResponse => reply \in Reply
      BY ReplyTypes DEF Proxy
    <2>. HIDE DEF reply
    <2>6. client'[h] \in Client /\ client'[h].sent = client[h].sent
          /\ (client[h].state = "idle" => client'[h].state = "idle")
      BY <2>4, <2>5, AnswerTypes
    <2>. QED  BY <2>1, <2>3, <2>6
  <1>. QED  BY <1>1, <1>2, <1>3

LEMMA OriginEndsTypes ==
    ASSUME TypeInv, NEW h \in Handler,
           \/ originOnError(h) \/ originDetachTransaction(h)
           \/ originOnEgressPaused(h) \/ originOnEgressResumed(h)
    PROVE  HandlerTypes(h)' /\ CacheTypeOK'
  <1>. USE RecordTypes DEF HandlerTypes
  <1>1. CacheTypeOK'
    BY CacheUnchanged DEF originOnError, originDetachTransaction,
                          originOnEgressPaused, originOnEgressResumed
  <1>2. client'[h] \in {client[h], sendAbort(client[h])}
    BY DEF originOnError, originDetachTransaction, originOnEgressPaused,
           originOnEgressResumed, abortDownstream, TypeInv, ProxyTypeOK
  <1>3. proxy'[h] \in {proxy[h], checkForShutdown(originUnset(proxy[h]))}
    BY DEF originOnError, originDetachTransaction, originOnEgressPaused,
           originOnEgressResumed, TypeInv, ProxyTypeOK
  <1>4. \/ origin'[h] = [origin[h] EXCEPT !.state = "failed", !.failed = TRUE]
        \/ origin'[h] = [origin[h] EXCEPT !.state = "detached"]
        \/ \E b \in BOOLEAN : origin'[h] = [origin[h] EXCEPT !.paused = b]
    BY DEF originOnError, originDetachTransaction, originOnEgressPaused,
           originOnEgressResumed, TypeInv, ProxyTypeOK
  <1>5. origin'[h] \in Origin /\ origin'[h].got = origin[h].got
    BY <1>4 DEF Origin
  <1>. QED  BY <1>1, <1>2, <1>3, <1>5, AbortTypes, HelperTypes

LEMMA CallbackTypes ==
    ASSUME TypeInv, NEW h \in Handler, Callback(h)
    PROVE  TypeInv'
  <1>1. HandlerTypes(h)' /\ CacheTypeOK'
    BY OnRequestTypes, ClientSendsTypes, RequestCompleteTypes, OnErrorTypes,
       DiskTypes, ConnectTypes, OriginSendsTypes, OriginEndsTypes DEF Callback
  <1>. QED  BY <1>1, CallbackFrame, FrameTypes

LEMMA NextKeepsTypeInv ==
    ASSUME TypeInv, [ProxyNext]_vars
    PROVE  TypeInv'
  <1>1. CASE restartProxy
    <2>1. CacheTypeOK'
      BY <1>1 DEF restartProxy, Restart, TypeInv, ProxyTypeOK, CacheTypeOK, Stage
    <2>2. NewProxy \in Proxy
      BY DEF NewProxy, Proxy
    <2>3. NewClient \in Client
      BY ProxyAssumption DEF NewClient, Client, NoReply, Reply
    <2>4. NewOrigin \in Origin
      BY ProxyAssumption DEF NewOrigin, Origin
    <2>5. GotIsSent' /\ Requested'
      BY <1>1 DEF restartProxy, GotIsSent, Requested, NewClient, NewOrigin
    <2>. QED  BY <1>1, <2>1, <2>2, <2>3, <2>4, <2>5 DEF restartProxy, TypeInv, ProxyTypeOK
  <1>2. CASE UNCHANGED vars
    <2>1. CacheTypeOK'
      BY <1>2, CacheUnchanged DEF vars, TypeInv, ProxyTypeOK
    <2>. QED  BY <1>2, <2>1 DEF vars, TypeInv, ProxyTypeOK, GotIsSent, Requested
  <1>. QED  BY <1>1, <1>2, CallbackTypes DEF ProxyNext

\* The state of the handlers and of the cache stays well formed, whatever the
\* order in which the callbacks come.
THEOREM ProxyTypeCorrect == ProxySpec => []ProxyTypeOK
  <1>1. TypeInv => ProxyTypeOK
    BY DEF TypeInv
  <1>. QED  BY <1>1, InitTypeInv, NextKeepsTypeInv, PTL DEF ProxySpec

LEMMA AlwaysTypeInv == ProxySpec => []TypeInv
  BY InitTypeInv, NextKeepsTypeInv, PTL DEF ProxySpec

-----------------------------------------------------------------------------
(***************************************************************************)
(* The life of a handler.  What must be shown of it (NoDanglingCallback,   *)
(* NoLeakedHandler, NoStrayWrite, UploadIntact, OriginTxnNotDangling)      *)
(* follows from how the handler's members and the two transactions go      *)
(* together at every moment.                                               *)
(***************************************************************************)

\* The members say what they mean: originTxn_ is set while there is an origin
\* transaction, clientTerminated_ once the client's is over and addCachedRoute
\* has returned, and the handler is deleted when neither side is left.
Members(h) ==
    /\ proxy[h].originTxn_ <=> origin[h].state \in {"open", "eom", "failed"}
    /\ proxy[h].clientTerminated_ => ClientOver(h) /\ stage[h] = "idle"
    /\ Running(h) /\ ClientOver(h) => proxy[h].clientTerminated_
    /\ stage[h] # "idle" => client[h].state = "complete"
    /\ proxy[h].deletes > 0 <=> proxy[h].clientTerminated_ /\ ~proxy[h].originTxn_

\* How far each side may be ahead of the other.
Phases(h) ==
    /\ client[h].strays = 0
    /\ client[h].state = "idle" => origin[h].state = "none"
    /\ origin[h].state = "connecting" => client[h].state = "open"
    /\ origin[h].state = "open" => client[h].state \in {"open", "errored"}
    /\ origin[h].state = "eom" => client[h].state \notin {"idle", "aborted"}

\* Nothing is read from the client before the origin is there to get it.
Upload(h) ==
    /\ client[h].state = "idle" \/ origin[h].state = "connecting" =>
         /\ client[h].sent = 0 /\ ~client[h].eom
         /\ origin[h].got = 0 /\ ~origin[h].gotEom
    /\ origin[h].state = "connecting" => client[h].paused
    /\ origin[h].state \in {"open", "eom"} /\ ~origin[h].aborted =>
         origin[h].got = client[h].sent /\ origin[h].gotEom = client[h].eom

LifeInv == \A h \in Handler : Members(h) /\ Phases(h) /\ Upload(h)

LEMMA InitLifeInv == ProxyInit => LifeInv
  BY DEF ProxyInit, CacheInit, LifeInv, Members, Phases, Upload, ClientOver,
         Running, NewProxy, NewClient, NewOrigin

\* A callback of one handler does not make another thread enter or leave
\* addCachedRoute.
LEMMA StageFrame ==
    ASSUME TypeInv, NEW h \in Handler, Callback(h), NEW g \in Handler, g # h
    PROVE  up /\ (stage'[g] = "idle" <=> stage[g] = "idle")
  <1>. USE DEF TypeInv, ProxyTypeOK, CacheTypeOK
  <1>1. CASE up /\ UNCHANGED cacheVars
    BY <1>1 DEF cacheVars
  <1>2. ASSUME NEW u, NEW route, up, addCachedRoute(h, u, route)
        PROVE  up /\ stage'[g] = stage[g]
    BY <1>2 DEF addCachedRoute, Insert, InsertRefused, InsertThrows, cacheVars
  <1>3. CASE up /\ (OpenFile(h) \/ WriteFile(h) \/ DiskError(h))
    BY <1>3 DEF OpenFile, WriteFile, DiskError
  <1>. QED  BY <1>1, <1>2, <1>3 DEF Callback, Running, onRequest, ClientSends, onBody,
              onEOM, requestComplete, onError, diskStep, finishWrite, connectSuccess,
              connectError, OriginSends, originOnHeadersComplete, originOnBody,
              originOnEOM, originOnError, OriginOver, originDetachTransaction,
              originOnEgressPaused, originOnEgressResumed

LEMMA OthersKeepLife ==
    ASSUME TypeInv, LifeInv, NEW h \in Handler, Callback(h), NEW g \in Handler, g # h
    PROVE  Members(g)' /\ Phases(g)' /\ Upload(g)'
  <1>1. proxy'[g] = proxy[g] /\ client'[g] = client[g] /\ origin'[g] = origin[g]
    BY CallbackFrame DEF Frame, TypeInv, ProxyTypeOK
  <1>2. up /\ (stage'[g] = "idle" <=> stage[g] = "idle")
    BY StageFrame
  <1>. QED  BY <1>1, <1>2 DEF LifeInv, Members, Phases, Upload, ClientOver, Running

HandlerLife(h) == Members(h) /\ Phases(h) /\ Upload(h)

LEMMA OnRequestLife ==
    ASSUME TypeInv, LifeInv, NEW h \in Handler, NEW request \in Request,
           onRequest(h, request)
    PROVE  HandlerLife(h)'
  <1>. USE RecordTypes DEF HandlerTypes
  <1>1. Members(h) /\ Phases(h) /\ Upload(h)
    BY DEF LifeInv
  <1>2. Running(h) /\ client[h].state = "idle" /\ UNCHANGED <<stage, up>>
    BY DEF onRequest, cacheVars
  <1>3. proxy'[h] = [proxy[h] EXCEPT !.request_ = request]
    BY DEF onRequest, TypeInv, ProxyTypeOK
  <1>. DEFINE opened == [client[h] EXCEPT !.state = "open"]
  <1>4. CASE /\ origin'[h] = origin[h]
             /\ \E reply : client'[h] = sendWithEOM(opened, reply)
    <2>1. PICK reply : client'[h] = sendWithEOM(opened, reply)
      BY <1>4
    <2>2. client'[h] = [opened EXCEPT !.state = "replied", !.reply = reply]
      BY <2>1 DEF sendWithEOM, Client
    <2>3. /\ client'[h].state = "replied"
          /\ client'[h].strays = client[h].strays
      BY <2>2 DEF Client
    <2>. QED  BY <1>1, <1>2, <1>3, <1>4, <2>3
              DEF HandlerLife, Members, Phases, Upload, ClientOver, Running, Proxy
  <1>5. CASE /\ origin'[h] = [origin[h] EXCEPT !.state = "connecting"]
             /\ client'[h] = pauseIngress(opened)
    <2>1. client'[h] = [client[h] EXCEPT !.state = "open", !.paused = TRUE]
      BY <1>5 DEF pauseIngress, Client
    <2>2. /\ client'[h].state = "open" /\ client'[h].paused
          /\ client'[h].strays = client[h].strays
          /\ client'[h].sent = client[h].sent /\ client'[h].eom = client[h].eom
      BY <2>1 DEF Client
    <2>3. /\ origin'[h].state = "connecting"
          /\ origin'[h].got = origin[h].got /\ origin'[h].gotEom = origin[h].gotEom
      BY <1>5 DEF Origin
    <2>. QED  BY <1>1, <1>2, <1>3, <2>2, <2>3
              DEF HandlerLife, Members, Phases, Upload, ClientOver, Running, Proxy
  <1>. QED  BY <1>4, <1>5 DEF onRequest, connectOrigin, TypeInv, ProxyTypeOK

LEMMA ClientSendsLife ==
    ASSUME TypeInv, LifeInv, NEW h \in Handler, onBody(h) \/ onEOM(h)
    PROVE  HandlerLife(h)'
  <1>. USE RecordTypes DEF HandlerTypes
  <1>1. Members(h) /\ Phases(h) /\ Upload(h)
    BY DEF LifeInv
  <1>2. /\ ClientSends(h) /\ UNCHANGED <<stage, up>>
        /\ proxy'[h] = proxy[h]
    BY DEF onBody, onEOM, cacheVars
  <1>3. CASE onBody(h)
    <2>1. client'[h] = [client[h] EXCEPT !.sent = @ + 1]
      BY <1>3 DEF onBody, TypeInv, ProxyTypeOK
    <2>2. origin'[h] = IF proxy[h].originTxn_ THEN [origin[h] EXCEPT !.got = @ + 1]
                       ELSE origin[h]
      BY <1>3 DEF onBody, forward, TypeInv, ProxyTypeOK
    <2>. QED  BY <1>1, <1>2, <2>1, <2>2 DEF HandlerLife, Members, Phases, Upload,
              ClientOver, ClientSends, Running, Client, Origin
  <1>4. CASE onEOM(h)
    <2>1. client'[h] = [client[h] EXCEPT !.eom = TRUE]
      BY <1>4 DEF onEOM, TypeInv, ProxyTypeOK
    <2>2. origin'[h] = [origin[h] EXCEPT !.gotEom = proxy[h].originTxn_]
      BY <1>4 DEF onEOM, TypeInv, ProxyTypeOK
    <2>3. /\ client'[h].state = client[h].state /\ client'[h].strays = client[h].strays
          /\ client'[h].sent = client[h].sent /\ client'[h].eom
          /\ client[h].state \in {"open", "replied"} /\ ~client[h].paused
      BY <1>2, <2>1 DEF ClientSends, Client
    <2>4. /\ origin'[h].state = origin[h].state /\ origin'[h].got = origin[h].got
          /\ origin'[h].aborted = origin[h].aborted
          /\ origin'[h].gotEom = proxy[h].originTxn_
      BY <2>2 DEF Origin
    <2>5. Members(h)' /\ Phases(h)'
      BY <1>1, <1>2, <2>3, <2>4 DEF Members, Phases, ClientOver, Running
    <2>6. Upload(h)'
      BY <1>1, <1>2, <2>1, <2>3, <2>4 DEF Members, Upload, Proxy, Client
    <2>. QED  BY <2>5, <2>6 DEF HandlerLife
  <1>. QED  BY <1>3, <1>4

\* Ending the client's side: the handler is deleted if there is no origin side.
LEMMA TerminatedLife ==
    ASSUME NEW p \in Proxy
    PROVE  LET q == checkForShutdown(terminated(p)) IN
           /\ q.clientTerminated_ /\ q.originTxn_ = p.originTxn_
           /\ q.deletes = IF p.originTxn_ THEN p.deletes ELSE p.deletes + 1
  <1>. DEFINE t == terminated(p)
  <1>1. t \in Proxy /\ t.clientTerminated_ /\ t.originTxn_ = p.originTxn_
        /\ t.deletes = p.deletes
    BY DEF terminated, Proxy
  <1>. HIDE DEF t
  <1>2. /\ checkForShutdown(t).clientTerminated_
        /\ checkForShutdown(t).originTxn_ = t.originTxn_
        /\ checkForShutdown(t).deletes = IF t.originTxn_ THEN t.deletes ELSE t.deletes + 1
    BY <1>1 DEF checkForShutdown, Proxy
  <1>. QED  BY <1>1, <1>2 DEF t

LEMMA RequestCompleteLife ==
    ASSUME TypeInv, LifeInv, NEW h \in Handler, requestComplete(h)
    PROVE  HandlerLife(h)'
  <1>. USE RecordTypes DEF HandlerTypes
  <1>1. Members(h) /\ Phases(h) /\ Upload(h)
    BY DEF LifeInv
  <1>2. /\ Running(h) /\ client[h].state \in {"aborted", "replied"}
        /\ origin'[h] = origin[h]
    BY DEF requestComplete
  <1>3. client'[h] = [client[h] EXCEPT !.state = "complete"]
    BY DEF requestComplete, TypeInv, ProxyTypeOK
  <1>4. proxy[h].deletes = 0 /\ ~proxy[h].clientTerminated_
    BY <1>1, <1>2 DEF Members, ClientOver, Proxy
  <1>5. CASE Running(h)'
    <2>1. proxy'[h] = checkForShutdown(terminated(proxy[h]))
      BY <1>5 DEF requestComplete, TypeInv, ProxyTypeOK
    <2>2. /\ proxy'[h].clientTerminated_ /\ proxy'[h].originTxn_ = proxy[h].originTxn_
          /\ proxy'[h].deletes = IF proxy[h].originTxn_ THEN 0 ELSE 1
      BY <1>4, <2>1, TerminatedLife
    <2>. QED  BY <1>1, <1>2, <1>3, <1>5, <2>2 DEF HandlerLife, Members, Phases, Upload,
              ClientOver, Running, Client, Proxy
  <1>6. CASE ~Running(h)'
    <2>1. proxy'[h] = proxy[h]
      BY <1>6 DEF requestComplete
    <2>. QED  BY <1>1, <1>2, <1>3, <1>4, <1>6, <2>1 DEF HandlerLife, Members, Phases,
              Upload, ClientOver, Running, Client, Proxy
  <1>. QED  BY <1>5, <1>6

LEMMA OnErrorLife ==
    ASSUME TypeInv, LifeInv, NEW h \in Handler, onError(h)
    PROVE  HandlerLife(h)'
  <1>. USE RecordTypes DEF HandlerTypes
  <1>1. Members(h) /\ Phases(h) /\ Upload(h)
    BY DEF LifeInv
  <1>2. Running(h) /\ client[h].state \in {"open", "replied"} /\ UNCHANGED <<stage, up>>
    BY DEF onError, cacheVars
  <1>3. client'[h] = [client[h] EXCEPT !.state = "errored"]
    BY DEF onError, TypeInv, ProxyTypeOK
  <1>4. /\ client'[h].state = "errored" /\ client'[h].strays = client[h].strays
        /\ client'[h].sent = client[h].sent /\ client'[h].eom = client[h].eom
    BY <1>3 DEF Client
  <1>5. proxy[h].deletes = 0 /\ ~proxy[h].clientTerminated_
    BY <1>1, <1>2 DEF Members, ClientOver, Proxy
  <1>. DEFINE p == terminated(proxy[h])
              q == checkForShutdown(originUnset(p))
  <1>6. p.originTxn_ = proxy[h].originTxn_
    BY DEF terminated, Proxy
  <1>7. CASE /\ proxy'[h] = checkForShutdown(p)
             /\ origin'[h] = IF p.originTxn_ THEN [origin[h] EXCEPT !.aborted = TRUE]
                             ELSE IF origin[h].state = "connecting"
                             THEN [origin[h] EXCEPT !.state = "none"] ELSE origin[h]
    <2>1. /\ proxy'[h].clientTerminated_ /\ proxy'[h].originTxn_ = proxy[h].originTxn_
          /\ proxy'[h].deletes = IF proxy[h].originTxn_ THEN 0 ELSE 1
      BY <1>5, <1>7, TerminatedLife
    <2>2. CASE proxy[h].originTxn_
      <3>1. origin'[h].aborted /\ origin'[h].state = origin[h].state
        BY <1>6, <1>7, <2>2 DEF Origin
      <3>. QED  BY <1>1, <1>2, <1>4, <2>1, <2>2, <3>1
                DEF HandlerLife, Members, Phases, Upload, ClientOver, Running
    <2>3. CASE ~proxy[h].originTxn_
      <3>1. origin'[h].state = IF origin[h].state = "connecting" THEN "none" ELSE origin[h].state
        BY <1>6, <1>7, <2>3 DEF Origin
      <3>. QED  BY <1>1, <1>2, <1>4, <2>1, <2>3, <3>1
                DEF HandlerLife, Members, Phases, Upload, ClientOver, Running
    <2>. QED  BY <2>2, <2>3
  <1>8. CASE /\ DetachInAbort
             /\ origin'[h] = [origin[h] EXCEPT !.aborted = TRUE, !.state = "detached"]
             /\ proxy'[h] \in {q, checkForShutdown(q)}
    <2>1. origin'[h].state = "detached"
      BY <1>8 DEF Origin
    <2>. DEFINE d == originUnset(p)
    <2>2. d \in Proxy /\ d.clientTerminated_ /\ ~d.originTxn_ /\ d.deletes = 0
      BY <1>5 DEF originUnset, terminated, Proxy
    <2>. HIDE DEF d
    <2>3. q \in Proxy /\ q.clientTerminated_ /\ ~q.originTxn_ /\ q.deletes = 1
      BY <2>2 DEF checkForShutdown, Proxy, d
    <2>. HIDE DEF q
    <2>4. /\ checkForShutdown(q).clientTerminated_ /\ ~checkForShutdown(q).originTxn_
          /\ checkForShutdown(q).deletes = 2
      BY <2>3 DEF checkForShutdown, Proxy
    <2>5. proxy'[h].clientTerminated_ /\ ~proxy'[h].originTxn_ /\ proxy'[h].deletes > 0
      BY <1>8, <2>3, <2>4
    <2>. QED  BY <1>1, <1>2, <1>4, <1>8, <2>1, <2>5
              DEF HandlerLife, Members, Phases, Upload, ClientOver, Running
  <1>. QED  BY <1>7, <1>8 DEF onError, TypeInv, ProxyTypeOK

LEMMA DiskLife ==
    ASSUME TypeInv, LifeInv, NEW h \in Handler, up, diskStep(h) \/ finishWrite(h)
    PROVE  HandlerLife(h)'
  <1>. USE RecordTypes DEF HandlerTypes
  <1>1. Members(h) /\ Phases(h) /\ Upload(h)
    BY DEF LifeInv
  <1>2. client'[h] = client[h] /\ origin'[h] = origin[h]
    BY DEF diskStep, finishWrite
  <1>3. stage[h] # "idle" /\ client[h].state = "complete" /\ ~proxy[h].clientTerminated_
    BY <1>1 DEF diskStep, finishWrite, OpenFile, WriteFile, DiskError, Members
  <1>4. CASE diskStep(h)
    <2>1. proxy'[h] = proxy[h] /\ stage'[h] # "idle"
      BY <1>3, <1>4 DEF diskStep, OpenFile, DiskError
    <2>. QED  BY <1>1, <1>2, <1>3, <2>1
              DEF HandlerLife, Members, Phases, Upload, ClientOver, Running
  <1>5. CASE finishWrite(h)
    <2>1. proxy'[h] = checkForShutdown(terminated(proxy[h]))
      BY <1>5 DEF finishWrite, TypeInv, ProxyTypeOK
    <2>2. stage'[h] = "idle"
      BY <1>5 DEF finishWrite, WriteFile, CacheTypeOK
    <2>3. proxy[h].deletes = 0
      BY <1>1, <1>3 DEF Members, Proxy
    <2>4. /\ proxy'[h].clientTerminated_ /\ proxy'[h].originTxn_ = proxy[h].originTxn_
          /\ proxy'[h].deletes = IF proxy[h].originTxn_ THEN 0 ELSE 1
      BY <2>1, <2>3, TerminatedLife
    <2>. QED  BY <1>1, <1>2, <1>3, <2>2, <2>4
              DEF HandlerLife, Members, Phases, Upload, ClientOver, Running
  <1>. QED  BY <1>4, <1>5

LEMMA ConnectLife ==
    ASSUME TypeInv, LifeInv, NEW h \in Handler, connectSuccess(h) \/ connectError(h)
    PROVE  HandlerLife(h)'
  <1>. USE RecordTypes DEF HandlerTypes
  <1>1. Members(h) /\ Phases(h) /\ Upload(h)
    BY DEF LifeInv
  <1>2. Running(h) /\ origin[h].state = "connecting" /\ UNCHANGED <<stage, up>>
    BY DEF connectSuccess, connectError, cacheVars
  <1>3. client[h].state = "open" /\ ~proxy[h].clientTerminated_ /\ ~proxy[h].originTxn_
    BY <1>1, <1>2 DEF Members, Phases, ClientOver
  <1>4. CASE connectSuccess(h)
    <2>1. proxy'[h] = [proxy[h] EXCEPT !.originTxn_ = TRUE]
      BY <1>4 DEF connectSuccess, originSetTransaction, TypeInv, ProxyTypeOK
    <2>2. client'[h] = [client[h] EXCEPT !.paused = FALSE]
      BY <1>4 DEF connectSuccess, resumeIngress, TypeInv, ProxyTypeOK
    <2>3. origin'[h] = [origin[h] EXCEPT !.state = "open"]
      BY <1>4 DEF connectSuccess, TypeInv, ProxyTypeOK
    <2>. QED  BY <1>1, <1>2, <1>3, <2>1, <2>2, <2>3 DEF HandlerLife, Members, Phases,
              Upload, ClientOver, Running, Proxy, Client, Origin
  <1>5. CASE connectError(h)
    <2>1. proxy'[h] = proxy[h]
      BY <1>3, <1>5 DEF connectError
    <2>2. client'[h] = [client[h] EXCEPT !.state = "replied", !.reply = Reply503]
      BY <1>3, <1>5 DEF connectError, sendWithEOM, TypeInv, ProxyTypeOK
    <2>3. client'[h].state = "replied" /\ client'[h].strays = client[h].strays
      BY <2>2 DEF Client
    <2>4. origin'[h].state = "none"
      BY <1>5 DEF connectError, TypeInv, ProxyTypeOK, Origin
    <2>. QED  BY <1>1, <1>2, <1>3, <2>1, <2>3, <2>4
              DEF HandlerLife, Members, Phases, Upload, ClientOver, Running
  <1>. QED  BY <1>4, <1>5

LEMMA OriginSendsLife ==
    ASSUME TypeInv, LifeInv, NEW h \in Handler,
           \/ \E r \in Response : originOnHeadersComplete(h, r)
           \/ originOnBody(h) \/ originOnEOM(h)
    PROVE  HandlerLife(h)'
  <1>. USE RecordTypes DEF HandlerTypes
  <1>1. Members(h) /\ Phases(h) /\ Upload(h)
    BY DEF LifeInv
  <1>2. /\ Running(h) /\ origin[h].state = "open" /\ UNCHANGED <<stage, up>>
    BY DEF originOnHeadersComplete, originOnBody, originOnEOM, OriginSends, cacheVars
  <1>3. CASE \/ \E r \in Response : originOnHeadersComplete(h, r)
             \/ originOnBody(h)
    <2>1. client'[h] = client[h]
      BY <1>3 DEF originOnHeadersComplete, originOnBody
    <2>2. \/ \E r \in Response : origin'[h] = [origin[h] EXCEPT !.resp = r]
          \/ origin'[h] = [origin[h] EXCEPT !.sent = @ + 1]
      BY <1>3 DEF originOnHeadersComplete, originOnBody, TypeInv, ProxyTypeOK
    <2>3. /\ origin'[h].state = "open"
          /\ origin'[h].got = origin[h].got /\ origin'[h].gotEom = origin[h].gotEom
          /\ origin'[h].aborted = origin[h].aborted
      BY <1>2, <2>2 DEF Origin
    <2>. DEFINE chain == <<origin[h].resp, origin[h].sent + 1>>
    <2>4. \/ proxy'[h] = proxy[h]
          \/ \E r \in Response : proxy'[h] = [proxy[h] EXCEPT !.contentHeaders_ = r]
          \/ proxy'[h] = [proxy[h] EXCEPT !.contentBody_ = prependChain(@, chain)]
          \/ proxy'[h] = [proxy[h] EXCEPT !.contentBody_ = <<chain>>]
      BY <1>3 DEF originOnHeadersComplete, originOnBody, collect, TypeInv, ProxyTypeOK
    <2>5. /\ proxy'[h].originTxn_ = proxy[h].originTxn_
          /\ proxy'[h].clientTerminated_ = proxy[h].clientTerminated_
          /\ proxy'[h].deletes = proxy[h].deletes
      BY <2>4 DEF Proxy
    <2>. QED  BY <1>1, <1>2, <2>1, <2>3, <2>5
              DEF HandlerLife, Members, Phases, Upload, ClientOver, Running
  <1>4. CASE originOnEOM(h)
    <2>1. proxy'[h] = proxy[h]
      BY <1>4 DEF originOnEOM
    <2>2. origin'[h] = [origin[h] EXCEPT !.state = "eom"]
      BY <1>4 DEF originOnEOM, TypeInv, ProxyTypeOK
    <2>3. /\ origin'[h].state = "eom"
          /\ origin'[h].got = origin[h].got /\ origin'[h].gotEom = origin[h].gotEom
          /\ origin'[h].aborted = origin[h].aborted
      BY <2>2 DEF Origin
    <2>4. \/ client[h].state = "open"
          \/ client[h].state = "errored" /\ proxy[h].clientTerminated_
      BY <1>1, <1>2 DEF Members, Phases, ClientOver
    <2>. DEFINE reply == Reply200(proxy[h].contentHeaders_, proxy[h].contentBody_)
    <2>5. \/ client'[h] = client[h]
          \/ /\ client[h].state = "open"
             /\ client'[h] = [client[h] EXCEPT !.state = "replied", !.reply = reply]
      BY <1>4, <2>4 DEF originOnEOM, sendWithEOM, TypeInv, ProxyTypeOK
    <2>6. /\ client'[h].strays = client[h].strays
          /\ client'[h].sent = client[h].sent /\ client'[h].eom = client[h].eom
          /\ \/ client'[h].state = client[h].state
             \/ client[h].state = "open" /\ client'[h].state = "replied"
      BY <2>5 DEF Client
    <2>. QED  BY <1>1, <1>2, <2>1, <2>3, <2>4, <2>6
              DEF HandlerLife, Members, Phases, Upload, ClientOver, Running
  <1>. QED  BY <1>3, <1>4

LEMMA OriginEndsLife ==
    ASSUME TypeInv, LifeInv, NEW h \in Handler,
           \/ originOnError(h) \/ originDetachTransaction(h)
           \/ originOnEgressPaused(h) \/ originOnEgressResumed(h)
    PROVE  HandlerLife(h)'
  <1>. USE RecordTypes DEF HandlerTypes
  <1>1. Members(h) /\ Phases(h) /\ Upload(h)
    BY DEF LifeInv
  <1>2. /\ Running(h) /\ UNCHANGED <<stage, up>>
        /\ origin[h].state \in {"open", "eom", "failed"}
    BY DEF originOnError, originDetachTransaction, OriginOver, originOnEgressPaused,
           originOnEgressResumed, cacheVars
  <1>3. proxy[h].originTxn_ /\ proxy[h].deletes = 0
    BY <1>1, <1>2 DEF Members, Proxy
  <1>4. CASE originOnError(h)
    <2>1. /\ proxy'[h] = proxy[h]
          /\ origin[h].state \in {"open", "eom"}
      BY <1>4 DEF originOnError
    <2>2. origin'[h] = [origin[h] EXCEPT !.state = "failed", !.failed = TRUE]
      BY <1>4 DEF originOnError, TypeInv, ProxyTypeOK
    <2>3. origin'[h].state = "failed"
      BY <2>2 DEF Origin
    <2>4. client'[h] = abortDownstream(h)
      BY <1>4 DEF originOnError, TypeInv, ProxyTypeOK
    <2>5. CASE proxy[h].clientTerminated_
      <3>1. client'[h] = client[h]
        BY <2>4, <2>5 DEF abortDownstream
      <3>. QED  BY <1>1, <1>2, <1>3, <2>1, <2>3, <2>5, <3>1
                DEF HandlerLife, Members, Phases, Upload, ClientOver, Running
    <2>6. CASE ~proxy[h].clientTerminated_
      <3>1. client[h].state \in {"open", "replied"}
        BY <1>1, <1>2, <2>1, <2>6 DEF Members, Phases, ClientOver, Client
      <3>2. client'[h] = [client[h] EXCEPT !.state = "aborted"]
        BY <2>4, <2>6, <3>1 DEF abortDownstream, sendAbort
      <3>3. client'[h].state = "aborted" /\ client'[h].strays = client[h].strays
        BY <3>2 DEF Client
      <3>. QED  BY <1>1, <1>2, <1>3, <2>1, <2>3, <2>6, <3>3
                DEF HandlerLife, Members, Phases, Upload, ClientOver, Running
    <2>. QED  BY <2>5, <2>6
  <1>5. CASE originDetachTransaction(h)
    <2>1. client'[h] = client[h]
      BY <1>5 DEF originDetachTransaction
    <2>2. origin'[h].state = "detached"
      BY <1>5 DEF originDetachTransaction, TypeInv, ProxyTypeOK, Origin
    <2>. DEFINE d == originUnset(proxy[h])
    <2>3. /\ d \in Proxy /\ ~d.originTxn_ /\ d.deletes = 0
          /\ d.clientTerminated_ = proxy[h].clientTerminated_
      BY <1>3 DEF originUnset, Proxy
    <2>4. proxy'[h] = checkForShutdown(d)
      BY <1>5 DEF originDetachTransaction, TypeInv, ProxyTypeOK
    <2>. HIDE DEF d
    <2>5. /\ ~proxy'[h].originTxn_
          /\ proxy'[h].clientTerminated_ = proxy[h].clientTerminated_
          /\ proxy'[h].deletes = IF proxy[h].clientTerminated_ THEN 1 ELSE 0
      BY <2>3, <2>4 DEF checkForShutdown, Proxy
    <2>6. client[h].state # "idle"
      BY <1>1, <1>2 DEF Phases
    <2>. QED  BY <1>1, <1>2, <2>1, <2>2, <2>5, <2>6
              DEF HandlerLife, Members, Phases, Upload, ClientOver, Running
  <1>6. CASE originOnEgressPaused(h) \/ originOnEgressResumed(h)
    <2>1. proxy'[h] = proxy[h] /\ client'[h] = client[h]
      BY <1>6 DEF originOnEgressPaused, originOnEgressResumed
    <2>2. \E b \in BOOLEAN : origin'[h] = [origin[h] EXCEPT !.paused = b]
      BY <1>6 DEF originOnEgressPaused, originOnEgressResumed, TypeInv, ProxyTypeOK
    <2>3. /\ origin'[h].state = origin[h].state /\ origin'[h].aborted = origin[h].aborted
          /\ origin'[h].got = origin[h].got /\ origin'[h].gotEom = origin[h].gotEom
      BY <2>2 DEF Origin
    <2>. QED  BY <1>1, <1>2, <2>1, <2>3
              DEF HandlerLife, Members, Phases, Upload, ClientOver, Running
  <1>. QED  BY <1>4, <1>5, <1>6

LEMMA CallbackLife ==
    ASSUME TypeInv, LifeInv, NEW h \in Handler, Callback(h)
    PROVE  LifeInv'
  <1>1. HandlerLife(h)'
    BY OnRequestLife, ClientSendsLife, RequestCompleteLife, OnErrorLife, DiskLife,
       ConnectLife, OriginSendsLife, OriginEndsLife DEF Callback
  <1>. QED  BY <1>1, OthersKeepLife DEF LifeInv, HandlerLife

LEMMA NextKeepsLifeInv ==
    ASSUME TypeInv, LifeInv, [ProxyNext]_vars
    PROVE  LifeInv'
  <1>1. CASE restartProxy
    BY <1>1 DEF restartProxy, Restart, LifeInv, Members, Phases, Upload, ClientOver,
                Running, NewProxy, NewClient, NewOrigin
  <1>2. CASE UNCHANGED vars
    BY <1>2 DEF vars, cacheVars, LifeInv, Members, Phases, Upload, ClientOver, Running
  <1>. QED  BY <1>1, <1>2, CallbackLife DEF ProxyNext

LEMMA AlwaysLifeInv == ProxySpec => [](TypeInv /\ LifeInv)
  BY InitTypeInv, InitLifeInv, NextKeepsTypeInv, NextKeepsLifeInv, PTL DEF ProxySpec

\* originTxn_ is set exactly while there is an origin transaction to use.
THEOREM OriginTxnNotDanglingCorrect == ProxySpec => []OriginTxnNotDangling
  <1>1. LifeInv => OriginTxnNotDangling
    BY DEF LifeInv, Members, OriginTxnNotDangling
  <1>. QED  BY <1>1, AlwaysLifeInv, PTL

\* No callback reaches a handler that checkForShutdown has deleted.
THEOREM NoDanglingCallbackCorrect == ProxySpec => []NoDanglingCallback
  <1>1. TypeInv /\ LifeInv => NoDanglingCallback
    <2>. SUFFICES ASSUME TypeInv, LifeInv, NEW h \in Handler, proxy[h].deletes > 0
                  PROVE  ClientOver(h) /\ OriginDone(h) /\ stage[h] = "idle"
      BY DEF NoDanglingCallback
    <2>1. Members(h) /\ Phases(h) /\ origin[h] \in Origin
      BY DEF LifeInv, TypeInv, ProxyTypeOK
    <2>2. ClientOver(h) /\ stage[h] = "idle" /\ origin[h].state \notin {"open", "eom", "failed"}
      BY <2>1 DEF Members
    <2>3. origin[h].state # "connecting"
      BY <2>1, <2>2 DEF Phases, ClientOver
    <2>. QED  BY <2>1, <2>2, <2>3 DEF OriginDone, Origin
  <1>. QED  BY <1>1, AlwaysLifeInv, PTL

\* A handler that no callback will reach again has been deleted.
THEOREM NoLeakedHandlerCorrect == ProxySpec => []NoLeakedHandler
  <1>1. LifeInv => NoLeakedHandler
    BY DEF LifeInv, Members, NoLeakedHandler, OriginDone
  <1>. QED  BY <1>1, AlwaysLifeInv, PTL

\* Nothing is written to a client that is not waiting for an answer.
THEOREM NoStrayWriteCorrect == ProxySpec => []NoStrayWrite
  <1>1. LifeInv => NoStrayWrite
    BY DEF LifeInv, Phases, NoStrayWrite
  <1>. QED  BY <1>1, AlwaysLifeInv, PTL

\* The origin has got what the client has sent, in as many chunks.
THEOREM UploadIntactCorrect == ProxySpec => []UploadIntact
  <1>1. LifeInv => UploadIntact
    BY DEF LifeInv, Upload, UploadIntact
  <1>. QED  BY <1>1, AlwaysLifeInv, PTL

-----------------------------------------------------------------------------
(***************************************************************************)
(* What the handler collects, and with it what it does to the cache.       *)
(***************************************************************************)

\* Until its client is gone, what the handler has collected is exactly what
\* the origin has sent: the headers, and the chunks of the body in order.
Collected(h) ==
    IF origin[h].resp = NoResponse
    THEN /\ origin[h].sent = 0
         /\ proxy[h].contentHeaders_ = NoResponse /\ proxy[h].contentBody_ = <<>>
    ELSE /\ origin[h].sent <= origin[h].resp.len
         /\ proxy[h].contentHeaders_ = origin[h].resp
         /\ proxy[h].contentBody_ = Body(origin[h].resp, origin[h].sent)

BodyInv == \A h \in Handler : ~proxy[h].clientTerminated_ => Collected(h)

LEMMA InitBodyInv == ProxyInit => BodyInv
  BY DEF ProxyInit, BodyInv, Collected, NewProxy, NewOrigin

\* The callbacks that neither receive nor collect.
KeepsBody(h) ==
    /\ proxy[h].clientTerminated_ => proxy'[h].clientTerminated_
    /\ proxy'[h].contentHeaders_ = proxy[h].contentHeaders_
    /\ proxy'[h].contentBody_ = proxy[h].contentBody_
    /\ origin'[h].resp = origin[h].resp
    /\ origin'[h].sent = origin[h].sent

LEMMA HelpersKeepBody ==
    ASSUME NEW p \in Proxy
    PROVE  \A q \in {checkForShutdown(p), terminated(p), originSetTransaction(p),
                     originUnset(p)} :
              /\ p.clientTerminated_ => q.clientTerminated_
              /\ q.contentHeaders_ = p.contentHeaders_
              /\ q.contentBody_ = p.contentBody_
  BY DEF checkForShutdown, terminated, originSetTransaction, originUnset, Proxy

LEMMA ClientSideKeepsBody ==
    ASSUME TypeInv, NEW h \in Handler,
           \/ \E request \in Request : onRequest(h, request)
           \/ onBody(h) \/ onEOM(h) \/ requestComplete(h) \/ onError(h)
           \/ diskStep(h) \/ finishWrite(h) \/ connectSuccess(h) \/ connectError(h)
    PROVE  KeepsBody(h)
  <1>. USE RecordTypes DEF HandlerTypes
  <1>1. ASSUME NEW request \in Request, onRequest(h, request) PROVE KeepsBody(h)
    <2>1. proxy'[h] = [proxy[h] EXCEPT !.request_ = request]
      BY <1>1 DEF onRequest, TypeInv, ProxyTypeOK
    <2>2. origin'[h] \in {origin[h], [origin[h] EXCEPT !.state = "connecting"]}
      BY <1>1 DEF onRequest, connectOrigin, TypeInv, ProxyTypeOK
    <2>3. origin'[h].resp = origin[h].resp /\ origin'[h].sent = origin[h].sent
      <3>1. CASE origin'[h] = origin[h]
        BY <3>1
      <3>2. CASE origin'[h] = [origin[h] EXCEPT !.state = "connecting"]
        BY <3>2 DEF Origin
      <3>. QED  BY <2>2, <3>1, <3>2
    <2>4. proxy'[h].clientTerminated_ = proxy[h].clientTerminated_
          /\ proxy'[h].contentHeaders_ = proxy[h].contentHeaders_
          /\ proxy'[h].contentBody_ = proxy[h].contentBody_
      BY <2>1 DEF Proxy
    <2>. QED  BY <2>3, <2>4 DEF KeepsBody
  <1>2. CASE onBody(h)
    <2>1. proxy'[h] = proxy[h] /\ origin'[h] \in {origin[h], forward(origin[h])}
      BY <1>2 DEF onBody, TypeInv, ProxyTypeOK
    <2>2. forward(origin[h]).resp = origin[h].resp
          /\ forward(origin[h]).sent = origin[h].sent
      BY DEF forward, Origin
    <2>. QED  BY <2>1, <2>2 DEF KeepsBody
  <1>3. CASE onEOM(h)
    <2>1. proxy'[h] = proxy[h]
          /\ origin'[h] = [origin[h] EXCEPT !.gotEom = proxy[h].originTxn_]
      BY <1>3 DEF onEOM, TypeInv, ProxyTypeOK
    <2>2. origin'[h].resp = origin[h].resp /\ origin'[h].sent = origin[h].sent
      BY <2>1 DEF Origin
    <2>. QED  BY <2>1, <2>2 DEF KeepsBody
  <1>4. CASE requestComplete(h) \/ diskStep(h) \/ finishWrite(h)
    <2>. DEFINE t == terminated(proxy[h])
    <2>1. origin'[h] = origin[h] /\ proxy'[h] \in {proxy[h], checkForShutdown(t)}
      BY <1>4 DEF requestComplete, diskStep, finishWrite, TypeInv, ProxyTypeOK
    <2>2. t \in Proxy /\ (proxy[h].clientTerminated_ => t.clientTerminated_)
          /\ t.contentHeaders_ = proxy[h].contentHeaders_
          /\ t.contentBody_ = proxy[h].contentBody_
      BY HelperTypes, HelpersKeepBody
    <2>. HIDE DEF t
    <2>. QED  BY <2>1, <2>2, HelpersKeepBody DEF KeepsBody
  <1>5. CASE onError(h)
    <2>. DEFINE t == terminated(proxy[h])
                d == originUnset(t)
                q == checkForShutdown(d)
    <2>1. proxy'[h] \in {checkForShutdown(t), q, checkForShutdown(q)}
      BY <1>5 DEF onError, TypeInv, ProxyTypeOK
    <2>2. origin'[h] \in {origin[h], [origin[h] EXCEPT !.aborted = TRUE],
                          [origin[h] EXCEPT !.state = "none"],
                          [origin[h] EXCEPT !.aborted = TRUE, !.state = "detached"]}
      BY <1>5 DEF onError, TypeInv, ProxyTypeOK
    <2>3. t \in Proxy /\ t.clientTerminated_
          /\ t.contentHeaders_ = proxy[h].contentHeaders_
          /\ t.contentBody_ = proxy[h].contentBody_
      BY DEF terminated, Proxy
    <2>. HIDE DEF t
    <2>4. d \in Proxy /\ d.clientTerminated_
          /\ d.contentHeaders_ = proxy[h].contentHeaders_
          /\ d.contentBody_ = proxy[h].contentBody_
      BY <2>3, HelperTypes, HelpersKeepBody
    <2>. HIDE DEF d
    <2>5. q \in Proxy /\ q.clientTerminated_
          /\ q.contentHeaders_ = proxy[h].contentHeaders_
          /\ q.contentBody_ = proxy[h].contentBody_
      BY <2>4, HelperTypes, HelpersKeepBody
    <2>. HIDE DEF q
    <2>6. origin'[h].resp = origin[h].resp /\ origin'[h].sent = origin[h].sent
      <3>1. CASE origin'[h] = origin[h]
        BY <3>1
      <3>2. CASE origin'[h] = [origin[h] EXCEPT !.aborted = TRUE]
        BY <3>2 DEF Origin
      <3>3. CASE origin'[h] = [origin[h] EXCEPT !.state = "none"]
        BY <3>3 DEF Origin
      <3>4. CASE origin'[h] = [origin[h] EXCEPT !.aborted = TRUE, !.state = "detached"]
        BY <3>4 DEF Origin
      <3>. QED  BY <2>2, <3>1, <3>2, <3>3, <3>4
    <2>7. proxy'[h].clientTerminated_
          /\ proxy'[h].contentHeaders_ = proxy[h].contentHeaders_
          /\ proxy'[h].contentBody_ = proxy[h].contentBody_
      BY <2>1, <2>3, <2>5, HelpersKeepBody
    <2>. QED  BY <2>6, <2>7 DEF KeepsBody
  <1>6. CASE connectSuccess(h) \/ connectError(h)
    <2>1. proxy'[h] \in {proxy[h], originSetTransaction(proxy[h]), checkForShutdown(proxy[h])}
      BY <1>6 DEF connectSuccess, connectError, TypeInv, ProxyTypeOK
    <2>2. origin'[h] \in {[origin[h] EXCEPT !.state = "open"],
                          [origin[h] EXCEPT !.state = "none"]}
      BY <1>6 DEF connectSuccess, connectError, TypeInv, ProxyTypeOK
    <2>3. origin'[h].resp = origin[h].resp /\ origin'[h].sent = origin[h].sent
      <3>1. CASE origin'[h] = [origin[h] EXCEPT !.state = "open"]
        BY <3>1 DEF Origin
      <3>2. CASE origin'[h] = [origin[h] EXCEPT !.state = "none"]
        BY <3>2 DEF Origin
      <3>. QED  BY <2>2, <3>1, <3>2
    <2>4. (proxy[h].clientTerminated_ => proxy'[h].clientTerminated_)
          /\ proxy'[h].contentHeaders_ = proxy[h].contentHeaders_
          /\ proxy'[h].contentBody_ = proxy[h].contentBody_
      BY <2>1, HelpersKeepBody
    <2>. QED  BY <2>3, <2>4 DEF KeepsBody
  <1>. QED  BY <1>1, <1>2, <1>3, <1>4, <1>5, <1>6

LEMMA OriginSideKeepsBody ==
    ASSUME TypeInv, NEW h \in Handler,
           \/ originOnEOM(h) \/ originOnError(h) \/ originDetachTransaction(h)
           \/ originOnEgressPaused(h) \/ originOnEgressResumed(h)
    PROVE  KeepsBody(h)
  <1>. USE RecordTypes DEF HandlerTypes
  <1>. DEFINE d == originUnset(proxy[h])
  <1>1. proxy'[h] \in {proxy[h], checkForShutdown(d)}
    BY DEF originOnEOM, originOnError, originDetachTransaction, originOnEgressPaused,
           originOnEgressResumed, TypeInv, ProxyTypeOK
  <1>2. d \in Proxy /\ (proxy[h].clientTerminated_ => d.clientTerminated_)
        /\ d.contentHeaders_ = proxy[h].contentHeaders_
        /\ d.contentBody_ = proxy[h].contentBody_
    BY HelperTypes, HelpersKeepBody
  <1>3. origin'[h] \in {[origin[h] EXCEPT !.state = "eom"],
                        [origin[h] EXCEPT !.state = "detached"],
                        [origin[h] EXCEPT !.state = "failed", !.failed = TRUE],
                        [origin[h] EXCEPT !.paused = TRUE],
                        [origin[h] EXCEPT !.paused = FALSE]}
    BY DEF originOnEOM, originOnError, originDetachTransaction, originOnEgressPaused,
           originOnEgressResumed, TypeInv, ProxyTypeOK
  <1>. HIDE DEF d
  <1>4. origin'[h].resp = origin[h].resp /\ origin'[h].sent = origin[h].sent
    <2>1. CASE origin'[h] = [origin[h] EXCEPT !.state = "eom"]
      BY <2>1 DEF Origin
    <2>2. CASE origin'[h] = [origin[h] EXCEPT !.state = "detached"]
      BY <2>2 DEF Origin
    <2>3. CASE origin'[h] = [origin[h] EXCEPT !.state = "failed", !.failed = TRUE]
      BY <2>3 DEF Origin
    <2>4. CASE origin'[h] = [origin[h] EXCEPT !.paused = TRUE]
      BY <2>4 DEF Origin
    <2>5. CASE origin'[h] = [origin[h] EXCEPT !.paused = FALSE]
      BY <2>5 DEF Origin
    <2>. QED  BY <1>3, <2>1, <2>2, <2>3, <2>4, <2>5
  <1>5. (proxy[h].clientTerminated_ => proxy'[h].clientTerminated_)
        /\ proxy'[h].contentHeaders_ = proxy[h].contentHeaders_
        /\ proxy'[h].contentBody_ = proxy[h].contentBody_
    BY <1>1, <1>2, HelpersKeepBody
  <1>. QED  BY <1>4, <1>5 DEF KeepsBody

LEMMA HeadersCollected ==
    ASSUME TypeInv, BodyInv, NEW h \in Handler, NEW r \in Response,
           originOnHeadersComplete(h, r)
    PROVE  (~proxy[h].clientTerminated_ => Collected(h))'
  <1>. USE RecordTypes DEF HandlerTypes
  <1>. SUFFICES ASSUME ~proxy'[h].clientTerminated_ PROVE Collected(h)'
    OBVIOUS
  <1>1. proxy'[h] = IF proxy[h].clientTerminated_ THEN proxy[h]
                    ELSE [proxy[h] EXCEPT !.contentHeaders_ = r]
    BY DEF originOnHeadersComplete, TypeInv, ProxyTypeOK
  <1>2. origin'[h] = [origin[h] EXCEPT !.resp = r] /\ origin[h].resp = NoResponse
    BY DEF originOnHeadersComplete, TypeInv, ProxyTypeOK
  <1>3. /\ ~proxy[h].clientTerminated_ /\ proxy'[h].contentHeaders_ = r
        /\ proxy'[h].contentBody_ = proxy[h].contentBody_
    BY <1>1 DEF Proxy
  <1>4. origin'[h].resp = r /\ origin'[h].sent = origin[h].sent
    BY <1>2 DEF Origin
  <1>5. origin[h].sent = 0 /\ proxy[h].contentBody_ = <<>>
    BY <1>2, <1>3 DEF BodyInv, Collected
  <1>6. Body(r, 0) = <<>> /\ r.len \in Nat /\ r # NoResponse
    BY ResponseAssumption DEF Body
  <1>. QED  BY <1>3, <1>4, <1>5, <1>6 DEF Collected

\* One more chunk of the body.
LEMMA BodyGrows ==
    ASSUME NEW r \in Response, NEW n \in Nat
    PROVE  /\ n > 0 => Body(r, n) # <<>>
           /\ prependChain(Body(r, n), <<r, n + 1>>) = Body(r, n + 1)
           /\ <<<<r, 1>>>> = Body(r, 1)
  <1>1. Body(r, n) \in Seq(Chunk) /\ Len(Body(r, n)) = n
    BY BodyType DEF Body
  <1>2. <<r, n + 1>> \in Chunk
    BY DEF Chunk
  <1>3. prependChain(Body(r, n), <<r, n + 1>>) = Body(r, n + 1)
    BY <1>1, <1>2 DEF prependChain, Body
  <1>4. <<<<r, 1>>>> = Body(r, 1)
    BY DEF Body
  <1>. QED  BY <1>1, <1>3, <1>4

LEMMA BodyCollected ==
    ASSUME TypeInv, BodyInv, NEW h \in Handler, originOnBody(h)
    PROVE  (~proxy[h].clientTerminated_ => Collected(h))'
  <1>. USE RecordTypes DEF HandlerTypes
  <1>. SUFFICES ASSUME ~proxy'[h].clientTerminated_ PROVE Collected(h)'
    OBVIOUS
  <1>. DEFINE r == origin[h].resp
              n == origin[h].sent
              body == proxy[h].contentBody_
              after == IF body # <<>> THEN prependChain(body, <<r, n + 1>>)
                       ELSE <<<<r, n + 1>>>>
  <1>1. proxy'[h] = IF proxy[h].clientTerminated_ THEN proxy[h]
                    ELSE [proxy[h] EXCEPT !.contentBody_ = after]
    BY DEF originOnBody, collect, TypeInv, ProxyTypeOK
  <1>2. origin'[h] = [origin[h] EXCEPT !.sent = @ + 1] /\ r # NoResponse /\ n < r.len
    BY DEF originOnBody, TypeInv, ProxyTypeOK
  <1>. HIDE DEF after
  <1>3. /\ ~proxy[h].clientTerminated_ /\ proxy'[h].contentBody_ = after
        /\ proxy'[h].contentHeaders_ = proxy[h].contentHeaders_
    BY <1>1 DEF Proxy
  <1>4. origin'[h].resp = r /\ origin'[h].sent = n + 1
    BY <1>2 DEF Origin
  <1>5. r \in Response /\ n \in Nat /\ r.len \in Nat
    BY <1>2, ResponseLen DEF Origin
  <1>6. body = Body(r, n) /\ proxy[h].contentHeaders_ = r
    BY <1>2, <1>3 DEF BodyInv, Collected
  <1>7. after = Body(r, n + 1)
    <2>1. CASE n = 0
      <3>1. body = <<>>
        BY <1>6, <2>1 DEF Body
      <3>2. n + 1 = 1
        BY <2>1
      <3>3. after = <<<<r, 1>>>>
        BY <3>1, <3>2 DEF after
      <3>4. <<<<r, 1>>>> = Body(r, 1)
        BY <1>5, BodyGrows
      <3>. QED  BY <3>2, <3>3, <3>4
    <2>2. CASE n > 0
      <3>1. body # <<>>
        BY <1>5, <1>6, <2>2, BodyGrows
      <3>. QED  BY <1>5, <1>6, <3>1, BodyGrows DEF after
    <2>. QED  BY <1>5, <2>1, <2>2
  <1>. QED  BY <1>2, <1>3, <1>4, <1>5, <1>6, <1>7 DEF Collected

LEMMA NextKeepsBodyInv ==
    ASSUME TypeInv, BodyInv, [ProxyNext]_vars
    PROVE  BodyInv'
  <1>1. ASSUME NEW h \in Handler, Callback(h) PROVE BodyInv'
    <2>1. (~proxy[h].clientTerminated_ => Collected(h))'
      <3>1. CASE KeepsBody(h)
        BY <3>1 DEF KeepsBody, BodyInv, Collected
      <3>. QED  BY <1>1, <3>1, HeadersCollected, BodyCollected, ClientSideKeepsBody,
                   OriginSideKeepsBody DEF Callback
    <2>2. ASSUME NEW g \in Handler, g # h
          PROVE  (~proxy[g].clientTerminated_ => Collected(g))'
      <3>1. proxy'[g] = proxy[g] /\ origin'[g] = origin[g]
        BY <1>1, <2>2, CallbackFrame DEF Frame, TypeInv, ProxyTypeOK
      <3>. QED  BY <3>1 DEF BodyInv, Collected
    <2>. QED  BY <2>1, <2>2 DEF BodyInv
  <1>2. CASE restartProxy
    BY <1>2 DEF restartProxy, BodyInv, Collected, NewProxy, NewOrigin
  <1>3. CASE UNCHANGED vars
    BY <1>3 DEF vars, BodyInv, Collected
  <1>. QED  BY <1>1, <1>2, <1>3 DEF ProxyNext

\* What requestComplete caches is a part of one response, in order.
LEMMA CachesAPrefix ==
    ASSUME TypeInv, LifeInv, BodyInv, NEW h \in Handler, requestComplete(h)
    PROVE  [CacheNext]_cacheVars
  <1>. USE RecordTypes DEF HandlerTypes
  <1>. DEFINE p == proxy[h]
              route == [content |-> cloneCoalesced(p.contentBody_),
                        headers |-> p.contentHeaders_]
  <1>1. CASE UNCHANGED cacheVars
    BY <1>1
  <1>2. CASE /\ p.contentBody_ # <<>> /\ p.contentHeaders_ # NoResponse
             /\ addCachedRoute(h, p.request_.url, route)
    <2>1. Running(h) /\ client[h].state \in {"aborted", "replied"}
      BY DEF requestComplete
    <2>2. Collected(h)
      BY <2>1 DEF LifeInv, Members, ClientOver, BodyInv
    <2>. DEFINE r == origin[h].resp
                n == origin[h].sent
    <2>3. r \in Response /\ p.contentHeaders_ = r /\ p.contentBody_ = Body(r, n)
          /\ n \in Nat /\ n <= r.len
      BY <1>2, <2>2 DEF Collected, Origin
    <2>4. n \in 1..r.len
      <3>1. n # 0
        BY <1>2, <2>3 DEF Body
      <3>. QED  BY <2>3, <3>1, ResponseLen
    <2>5. route = NewRoute(r, n)
      BY <2>3 DEF NewRoute
    <2>6. p.request_.url \in Url
      BY <2>1 DEF Request
    <2>. HIDE DEF route
    <2>. QED  BY <1>2, <2>1, <2>3, <2>4, <2>5, <2>6 DEF AddCachedRoute, CacheNext, Running
  <1>. QED  BY <1>1, <1>2 DEF requestComplete, bodyToCache

\* Every step of the proxy is a step of the cache, or none.
LEMMA StepIsCacheStep ==
    ASSUME TypeInv, LifeInv, BodyInv, [ProxyNext]_vars
    PROVE  [CacheNext]_cacheVars
  <1>1. ASSUME NEW h \in Handler, Callback(h) PROVE [CacheNext]_cacheVars
    <2>1. CASE requestComplete(h)
      BY <2>1, CachesAPrefix
    <2>2. CASE up /\ (diskStep(h) \/ finishWrite(h))
      BY <2>2 DEF diskStep, finishWrite, CacheNext
    <2>3. CASE UNCHANGED cacheVars
      BY <2>3
    <2>. QED  BY <1>1, <2>1, <2>2, <2>3 DEF Callback, onRequest, onBody, onEOM, onError,
              connectSuccess, connectError, originOnHeadersComplete, originOnBody,
              originOnEOM, originOnError, originDetachTransaction, originOnEgressPaused,
              originOnEgressResumed
  <1>2. CASE restartProxy
    BY <1>2 DEF restartProxy, CacheNext
  <1>3. CASE UNCHANGED vars
    BY <1>3 DEF vars
  <1>. QED  BY <1>1, <1>2, <1>3 DEF ProxyNext

\* The proxy uses the cache as the cache is specified on its own: each handler
\* stores, under one URL, a non-empty part of one response, in order.
THEOREM CacheRefinement == ProxySpec => CacheImplemented
  <1>1. ProxyInit => CacheInit
    BY DEF ProxyInit
  <1>. QED  BY <1>1, InitTypeInv, InitLifeInv, InitBodyInv, NextKeepsTypeInv,
               NextKeepsLifeInv, NextKeepsBodyInv, StepIsCacheStep, PTL
            DEF ProxySpec, CacheImplemented, CacheSpec

\* Hence, in the running proxy too, what is cached is never replaced, and what
\* may be advertised to clients is on disk or about to be.
THEOREM ProxyCacheCorrect ==
    ProxySpec => []CachedRoutesReachDisk /\ WriteOnceCacheImplemented
  BY CacheRefinement, CachedRoutesReachDiskCorrect, WriteOnceRefinement, PTL
  DEF CacheImplemented
=============================================================================
