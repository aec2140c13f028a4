------------------------- MODULE ProxyBodiesProofs -------------------------
(***************************************************************************)
(* Proofs about what the proxy passes on, for any number of handlers, URLs *)
(* and responses: bodies are whole unless the origin failed, what was      *)
(* answered is cached, and all of it together is the exchange the proxy    *)
(* promises its clients.  The proofs rest on what the states of the two    *)
(* transactions say of how much the origin has sent.                       *)
(***************************************************************************)
EXTENDS ProxyHandlerProofs, FiniteSetTheorems

-----------------------------------------------------------------------------
(***************************************************************************)
(* The inductive invariant.                                                *)
(***************************************************************************)
Early == {"none", "connecting"}

\* Before the origin is connected it has sent nothing.  A client that has been
\* answered and has not gone was answered with all the origin had to say, or
\* without it.  The proxy aborts a client only when the origin has failed.
Progress(h) ==
    /\ origin[h].state \in Early => origin[h].resp = NoResponse /\ ~origin[h].failed
    /\ client[h].state = "replied" =>
         origin[h].resp = NoResponse \/ origin[h].sent = origin[h].resp.len
    /\ client[h].state = "aborted" => origin[h].failed

Answer(h) ==
    /\ client[h].state \in {"idle", "open"} => client[h].reply.status = 0
    /\ client[h].reply.status = 200 =>
         WholeUnlessFailed(proxy[h].request_.url,
                           client[h].reply.from, client[h].reply.body)

\* A cached body is in one buffer, so that the injection sees all of it.
Stored(u) ==
    /\ map_[u].content.bufs = 1
    /\ WholeUnlessFailed(u, map_[u].headers, map_[u].content.bytes)

WholeInv ==
    /\ \A h \in Handler : Progress(h) /\ Answer(h)
    /\ \A u \in Cached : Stored(u)

LEMMA InitWholeInv == ProxyInit => WholeInv
  BY DEF ProxyInit, CacheInit, WholeInv, Progress, Answer, Cached, Early, NewProxy,
         NewClient, NewOrigin, NoReply

-----------------------------------------------------------------------------
(***************************************************************************)
(* The steps that neither answer nor receive.                              *)
(***************************************************************************)
Quiet(h) ==
    /\ proxy'[h].request_ = proxy[h].request_
    /\ client'[h].reply = client[h].reply
    /\ \/ client'[h].state \in {client[h].state, "errored"}
       \/ client'[h].state = "complete" /\ requestComplete(h)
       \/ /\ client'[h].state = "aborted" /\ origin'[h].failed
          /\ client[h].state \in {"open", "replied"}
    /\ origin'[h].state \in Early => origin[h].state \in Early
    /\ origin'[h].resp = origin[h].resp /\ origin'[h].sent = origin[h].sent
    /\ \/ origin'[h].failed = origin[h].failed
       \/ origin'[h].failed /\ origin'[h].state = "failed" /\ client[h].state # "idle"

LEMMA ClientSideQuiet ==
    ASSUME TypeInv, NEW h \in Handler,
           \/ onBody(h) \/ onEOM(h) \/ requestComplete(h) \/ onError(h)
           \/ diskStep(h) \/ finishWrite(h) \/ connectSuccess(h)
    PROVE  Quiet(h)
  <1>. USE RecordTypes DEF HandlerTypes
  <1>1. origin'[h].resp = origin[h].resp /\ origin'[h].sent = origin[h].sent
    BY ClientSideKeepsBody DEF KeepsBody
  <1>2. CASE onBody(h)
    <2>1. /\ proxy'[h] = proxy[h]
          /\ client'[h] = [client[h] EXCEPT !.sent = @ + 1]
          /\ origin'[h] \in {origin[h], forward(origin[h])}
      BY <1>2 DEF onBody, TypeInv, ProxyTypeOK
    <2>2. client'[h].state = client[h].state /\ client'[h].reply = client[h].reply
      BY <2>1 DEF Client
    <2>3. origin'[h].state = origin[h].state /\ origin'[h].failed = origin[h].failed
      BY <2>1 DEF forward, Origin
    <2>. QED  BY <1>1, <2>1, <2>2, <2>3 DEF Quiet
  <1>3. CASE onEOM(h)
    <2>1. /\ proxy'[h] = proxy[h]
          /\ client'[h] = [client[h] EXCEPT !.eom = TRUE]
          /\ origin'[h] = [origin[h] EXCEPT !.gotEom = proxy[h].originTxn_]
      BY <1>3 DEF onEOM, TypeInv, ProxyTypeOK
    <2>2. client'[h].state = client[h].state /\ client'[h].reply = client[h].reply
      BY <2>1 DEF Client
    <2>3. origin'[h].state = origin[h].state /\ origin'[h].failed = origin[h].failed
      BY <2>1 DEF Origin
    <2>. QED  BY <1>1, <2>1, <2>2, <2>3 DEF Quiet
  <1>4. CASE requestComplete(h) \/ diskStep(h) \/ finishWrite(h)
    <2>1. /\ proxy'[h] \in {proxy[h], checkForShutdown(terminated(proxy[h]))}
          /\ \/ client'[h] = client[h]
             \/ /\ client'[h] = [client[h] EXCEPT !.state = "complete"]
                /\ requestComplete(h)
          /\ origin'[h] = origin[h]
      BY <1>4 DEF requestComplete, diskStep, finishWrite, TypeInv, ProxyTypeOK
    <2>2. proxy'[h].request_ = proxy[h].request_
      BY <2>1, HelperTypes
    <2>3. /\ \/ client'[h].state = client[h].state
             \/ client'[h].state = "complete" /\ requestComplete(h)
          /\ client'[h].reply = client[h].reply
      BY <2>1 DEF Client
    <2>. QED  BY <1>1, <2>1, <2>2, <2>3 DEF Quiet
  <1>5. CASE onError(h)
    <2>. DEFINE t == terminated(proxy[h])
                q == checkForShutdown(originUnset(t))
    <2>1. /\ proxy'[h] \in {checkForShutdown(t), q, checkForShutdown(q)}
          /\ client'[h] = [client[h] EXCEPT !.state = "errored"]
          /\ \/ origin'[h] \in {origin[h], [origin[h] EXCEPT !.aborted = TRUE],
                               [origin[h] EXCEPT !.aborted = TRUE, !.state = "detached"]}
             \/ /\ origin[h].state = "connecting"
                /\ origin'[h] = [origin[h] EXCEPT !.state = "none"]
      BY <1>5 DEF onError, TypeInv, ProxyTypeOK
    <2>2. /\ t \in Proxy /\ t.request_ = proxy[h].request_
          /\ q \in Proxy /\ q.request_ = proxy[h].request_
      BY HelperTypes
    <2>. HIDE DEF t, q
    <2>3. proxy'[h].request_ = proxy[h].request_
      BY <2>1, <2>2, HelperTypes
    <2>4. client'[h].state = "errored" /\ client'[h].reply = client[h].reply
      BY <2>1 DEF Client
    <2>5. /\ origin'[h].state \in Early => origin[h].state \in Early
          /\ origin'[h].failed = origin[h].failed
      BY <2>1 DEF Origin, Early
    <2>. QED  BY <1>1, <2>3, <2>4, <2>5 DEF Quiet
  <1>6. CASE connectSuccess(h)
    <2>1. /\ proxy'[h] = originSetTransaction(proxy[h])
          /\ client'[h] = resumeIngress(client[h])
          /\ origin'[h] = [origin[h] EXCEPT !.state = "open"]
      BY <1>6 DEF connectSuccess, TypeInv, ProxyTypeOK
    <2>2. proxy'[h].request_ = proxy[h].request_
      BY <2>1, HelperTypes
    <2>3. client'[h].state = client[h].state /\ client'[h].reply = client[h].reply
      BY <2>1 DEF resumeIngress, Client
    <2>4. origin'[h].state = "open" /\ origin'[h].failed = origin[h].failed
      BY <2>1 DEF Origin
    <2>. QED  BY <1>1, <2>2, <2>3, <2>4 DEF Quiet, Early
  <1>. QED  BY <1>2, <1>3, <1>4, <1>5, <1>6

LEMMA OriginSideQuiet ==
    ASSUME TypeInv, LifeInv, NEW h \in Handler,
           \/ originOnError(h) \/ originDetachTransaction(h)
           \/ originOnEgressPaused(h) \/ originOnEgressResumed(h)
    PROVE  Quiet(h)
  <1>. USE RecordTypes DEF HandlerTypes
  <1>1. origin'[h].resp = origin[h].resp /\ origin'[h].sent = origin[h].sent
    BY OriginSideKeepsBody DEF KeepsBody
  <1>2. CASE originOnError(h)
    <2>1. /\ proxy'[h] = proxy[h]
          /\ client'[h] \in {client[h], sendAbort(client[h])}
          /\ origin'[h] = [origin[h] EXCEPT !.state = "failed", !.failed = TRUE]
          /\ origin[h].state \in {"open", "eom"}
      BY <1>2 DEF originOnError, abortDownstream, TypeInv, ProxyTypeOK
    <2>2. /\ \/ client'[h].state = client[h].state
             \/ client'[h].state = "aborted" /\ client[h].state \in {"open", "replied"}
          /\ client'[h].reply = client[h].reply
      BY <2>1 DEF sendAbort, Client
    <2>3. origin'[h].state = "failed" /\ origin'[h].failed
      BY <2>1 DEF Origin
    <2>4. client[h].state # "idle"
      BY <2>1 DEF LifeInv, Phases
    <2>. QED  BY <1>1, <2>1, <2>2, <2>3, <2>4 DEF Quiet, Early
  <1>3. CASE originDetachTransaction(h)
    <2>1. /\ proxy'[h] = checkForShutdown(originUnset(proxy[h]))
          /\ client'[h] = client[h]
          /\ origin'[h] = [origin[h] EXCEPT !.state = "detached"]
      BY <1>3 DEF originDetachTransaction, TypeInv, ProxyTypeOK
    <2>2. proxy'[h].request_ = proxy[h].request_
      BY <2>1, HelperTypes
    <2>3. origin'[h].state = "detached" /\ origin'[h].failed = origin[h].failed
      BY <2>1 DEF Origin
    <2>. QED  BY <1>1, <2>1, <2>2, <2>3 DEF Quiet, Early
  <1>4. CASE originOnEgressPaused(h) \/ originOnEgressResumed(h)
    <2>1. /\ proxy'[h] = proxy[h] /\ client'[h] = client[h]
          /\ origin'[h] \in {[origin[h] EXCEPT !.paused = TRUE],
                             [origin[h] EXCEPT !.paused = FALSE]}
      BY <1>4 DEF originOnEgressPaused, originOnEgressResumed, TypeInv, ProxyTypeOK
    <2>2. origin'[h].state = origin[h].state /\ origin'[h].failed = origin[h].failed
      BY <2>1 DEF Origin
    <2>. QED  BY <1>1, <2>1, <2>2 DEF Quiet
  <1>. QED  BY <1>2, <1>3, <1>4

-----------------------------------------------------------------------------
(***************************************************************************)
(* An origin that has failed for a URL has failed for it for good.         *)
(***************************************************************************)
FailureKept(h) ==
    origin[h].failed => origin'[h].failed /\ proxy'[h].request_ = proxy[h].request_

FailuresKept == \A u : OriginFailed(u) => OriginFailed(u)'

\* A transaction without a request is a new one.
LEMMA IdleIsNew ==
    ASSUME LifeInv, NEW h \in Handler, Progress(h), client[h].state = "idle"
    PROVE  /\ origin[h].state = "none" /\ origin[h].resp = NoResponse
           /\ ~origin[h].failed
  BY DEF LifeInv, Phases, Progress, Early

LEMMA StepKeepsFailure ==
    ASSUME TypeInv, LifeInv, NEW h \in Handler, Progress(h), Callback(h)
    PROVE  FailureKept(h)
  <1>. USE RecordTypes DEF HandlerTypes
  <1>1. CASE Quiet(h)
    BY <1>1 DEF Quiet, FailureKept
  <1>2. ASSUME NEW request \in Request, onRequest(h, request) PROVE FailureKept(h)
    BY <1>2, IdleIsNew DEF onRequest, FailureKept
  <1>3. CASE connectError(h)
    <2>1. proxy'[h] \in {proxy[h], checkForShutdown(proxy[h])}
          /\ origin'[h] = [origin[h] EXCEPT !.state = "none"]
      BY <1>3 DEF connectError, TypeInv, ProxyTypeOK
    <2>2. proxy'[h].request_ = proxy[h].request_
      BY <2>1, HelperTypes
    <2>3. origin'[h].failed = origin[h].failed
      BY <2>1 DEF Origin
    <2>. QED  BY <2>2, <2>3 DEF FailureKept
  <1>4. ASSUME NEW r \in Response, originOnHeadersComplete(h, r) PROVE FailureKept(h)
    <2>1. proxy'[h] \in {proxy[h], [proxy[h] EXCEPT !.contentHeaders_ = r]}
          /\ origin'[h] = [origin[h] EXCEPT !.resp = r]
      BY <1>4 DEF originOnHeadersComplete, TypeInv, ProxyTypeOK
    <2>. QED  BY <2>1 DEF FailureKept, Proxy, Origin
  <1>5. CASE originOnBody(h)
    <2>. DEFINE body == collect(proxy[h].contentBody_, <<origin[h].resp, origin[h].sent + 1>>)
    <2>1. proxy'[h] \in {proxy[h], [proxy[h] EXCEPT !.contentBody_ = body]}
          /\ origin'[h] = [origin[h] EXCEPT !.sent = @ + 1]
      BY <1>5 DEF originOnBody, TypeInv, ProxyTypeOK
    <2>. HIDE DEF body
    <2>. QED  BY <2>1 DEF FailureKept, Proxy, Origin
  <1>6. CASE originOnEOM(h)
    <2>1. proxy'[h] = proxy[h] /\ origin'[h] = [origin[h] EXCEPT !.state = "eom"]
      BY <1>6 DEF originOnEOM, TypeInv, ProxyTypeOK
    <2>. QED  BY <2>1 DEF FailureKept, Origin
  <1>. QED  BY <1>1, <1>2, <1>3, <1>4, <1>5, <1>6, ClientSideQuiet, OriginSideQuiet
            DEF Callback

LEMMA StepKeepsFailures ==
    ASSUME TypeInv, LifeInv, NEW h \in Handler, Progress(h), Callback(h)
    PROVE  FailuresKept
  <1>. SUFFICES ASSUME NEW u, NEW g \in Handler, proxy[g].request_ # NoRequest,
                       proxy[g].request_.url = u, origin[g].failed
                PROVE  proxy'[g].request_ = proxy[g].request_ /\ origin'[g].failed
    BY DEF FailuresKept, OriginFailed
  <1>1. CASE g = h
    BY <1>1, StepKeepsFailure DEF FailureKept
  <1>2. CASE g # h
    BY <1>2, CallbackFrame DEF Frame, TypeInv, ProxyTypeOK
  <1>. QED  BY <1>1, <1>2

-----------------------------------------------------------------------------
(***************************************************************************)
(* What is sent to clients.                                                *)
(***************************************************************************)
LEMMA StaysWhole ==
    ASSUME FailuresKept, NEW u, NEW r, NEW body, WholeUnlessFailed(u, r, body)
    PROVE  WholeUnlessFailed(u, r, body)'
  BY DEF FailuresKept, WholeUnlessFailed

LEMMA QuietKeepsAnswer ==
    ASSUME NEW h \in Handler, FailuresKept, Progress(h), Answer(h), Quiet(h)
    PROVE  Progress(h)' /\ Answer(h)'
  <1>1. Progress(h)'
    BY DEF Progress, Quiet, Early
  <1>2. (client[h].state \in {"idle", "open"} => client[h].reply.status = 0)'
    BY DEF Quiet, Answer
  <1>3. ASSUME client[h].reply.status = 200
        PROVE  WholeUnlessFailed(proxy[h].request_.url, client[h].reply.from,
                                 client[h].reply.body)'
    BY <1>3, StaysWhole DEF Quiet, Answer
  <1>4. client'[h].reply = client[h].reply /\ proxy'[h].request_ = proxy[h].request_
    BY DEF Quiet
  <1>. QED  BY <1>1, <1>2, <1>3, <1>4 DEF Answer

\* The answer of a client that is waiting for one.
LEMMA AnswerSent ==
    ASSUME NEW c \in Client, c.state = "open", NEW reply
    PROVE  /\ sendWithEOM(c, reply).state = "replied"
           /\ sendWithEOM(c, reply).reply = reply
  BY DEF sendWithEOM, Client

\* The head of a chain of one buffer is all of it.
LEMMA HeadIsWhole ==
    ASSUME NEW route \in CachedRoute, route.content.bufs = 1
    PROVE  \A page \in pages(route) : page = route.content.bytes
  <1>1. route.content.bytes \in Seq(Chunk)
    BY DEF CachedRoute, IOBuf
  <1>2. headBuffer(route.content) = SubSeq(route.content.bytes, 1, Len(route.content.bytes))
    BY <1>1 DEF headBuffer
  <1>3. headBuffer(route.content) = route.content.bytes
    BY <1>1, <1>2
  <1>. QED  BY <1>3 DEF pages

LEMMA OnRequestAnswer ==
    ASSUME TypeInv, LifeInv, WholeInv, FailuresKept, NEW h \in Handler,
           NEW request \in Request, onRequest(h, request)
    PROVE  Progress(h)' /\ Answer(h)'
  <1>. USE RecordTypes DEF HandlerTypes
  <1>. DEFINE opened == [client[h] EXCEPT !.state = "open"]
              route == map_[request.url]
  <1>1. /\ client[h].state = "idle" /\ proxy'[h] = [proxy[h] EXCEPT !.request_ = request]
        /\ UNCHANGED map_
    BY DEF onRequest, cacheVars, TypeInv, ProxyTypeOK
  <1>2. origin[h].resp = NoResponse /\ ~origin[h].failed /\ client[h].reply.status = 0
    BY <1>1, IdleIsNew DEF WholeInv, Answer
  <1>3. proxy'[h].request_ = request
    BY <1>1 DEF Proxy
  <1>4. opened \in Client /\ opened.state = "open" /\ opened.reply = client[h].reply
    BY DEF Client
  <1>5. \/ /\ route # NoRoute /\ origin'[h] = origin[h]
           /\ \E page \in pages(route) :
                 client'[h] = sendWithEOM(opened, Reply200(route.headers, page))
        \/ origin'[h] = origin[h] /\ client'[h] = sendWithEOM(opened, Reply503)
        \/ /\ origin'[h] = [origin[h] EXCEPT !.state = "connecting"]
           /\ client'[h] = pauseIngress(opened)
    BY Zenon DEF onRequest, connectOrigin, getCachedRoute, TypeInv, ProxyTypeOK
  <1>. HIDE DEF opened
  <1>6. CASE /\ route # NoRoute /\ origin'[h] = origin[h]
             /\ \E page \in pages(route) :
                   client'[h] = sendWithEOM(opened, Reply200(route.headers, page))
    <2>1. PICK page \in pages(route) :
              client'[h] = sendWithEOM(opened, Reply200(route.headers, page))
      BY <1>6
    <2>2. client'[h].state = "replied" /\ client'[h].reply = Reply200(route.headers, page)
      BY <1>4, <2>1, AnswerSent
    <2>3. request.url \in Cached /\ route \in CachedRoute
      BY <1>6 DEF Cached, CacheTypeOK, Request
    <2>4. page = route.content.bytes
      BY <2>3, HeadIsWhole DEF WholeInv, Stored
    <2>5. WholeUnlessFailed(request.url, route.headers, page)
      BY <2>3, <2>4 DEF WholeInv, Stored
    <2>6. client'[h].reply.from = route.headers /\ client'[h].reply.body = page
      BY <2>2 DEF Reply200
    <2>7. PICK n \in 1..route.headers.len :
              /\ page = Body(route.headers, n)
              /\ n = route.headers.len \/ OriginFailed(request.url)
      BY <2>5 DEF WholeUnlessFailed
    <2>8. n = route.headers.len \/ OriginFailed(request.url)'
      BY <2>7 DEF FailuresKept
    <2>9. Answer(h)'
      BY <1>3, <2>2, <2>6, <2>7, <2>8 DEF Answer, WholeUnlessFailed
    <2>10. Progress(h)'
      BY <1>2, <1>6, <2>2 DEF Progress
    <2>. QED  BY <2>9, <2>10
  <1>7. CASE origin'[h] = origin[h] /\ client'[h] = sendWithEOM(opened, Reply503)
    <2>1. client'[h].state = "replied" /\ client'[h].reply = Reply503
      BY <1>4, <1>7, AnswerSent
    <2>. QED  BY <1>2, <1>7, <2>1 DEF Progress, Answer, Reply503
  <1>8. CASE /\ origin'[h] = [origin[h] EXCEPT !.state = "connecting"]
             /\ client'[h] = pauseIngress(opened)
    <2>1. client'[h].state = "open" /\ client'[h].reply.status = 0
      BY <1>2, <1>4, <1>8 DEF pauseIngress, Client
    <2>2. origin'[h].resp = NoResponse /\ ~origin'[h].failed
      BY <1>2, <1>8 DEF Origin
    <2>. QED  BY <2>1, <2>2 DEF Progress, Answer
  <1>. QED  BY <1>5, <1>6, <1>7, <1>8

LEMMA ConnectErrorAnswer ==
    ASSUME TypeInv, LifeInv, WholeInv, NEW h \in Handler, connectError(h)
    PROVE  Progress(h)' /\ Answer(h)'
  <1>. USE RecordTypes DEF HandlerTypes
  <1>1. origin[h].state = "connecting" /\ client[h].state = "open"
        /\ ~proxy[h].clientTerminated_
    BY DEF connectError, LifeInv, Phases, Members, ClientOver
  <1>2. /\ client'[h] = sendWithEOM(client[h], Reply503)
        /\ origin'[h] = [origin[h] EXCEPT !.state = "none"]
    BY <1>1 DEF connectError, TypeInv, ProxyTypeOK
  <1>3. client'[h].state = "replied" /\ client'[h].reply = Reply503
    BY <1>1, <1>2, AnswerSent
  <1>4. origin'[h].resp = NoResponse /\ ~origin'[h].failed
    <2>1. origin[h].resp = NoResponse /\ ~origin[h].failed
      BY <1>1 DEF WholeInv, Progress, Early
    <2>. QED  BY <1>2, <2>1 DEF Origin
  <1>. QED  BY <1>3, <1>4 DEF Progress, Answer, Reply503

\* While the origin sends its client waits, or has gone.
LEMMA ReceivingAnswer ==
    ASSUME TypeInv, LifeInv, WholeInv, FailuresKept, NEW h \in Handler,
           originOnBody(h) \/ \E r \in Response : originOnHeadersComplete(h, r)
    PROVE  Progress(h)' /\ Answer(h)'
  <1>. USE RecordTypes DEF HandlerTypes
  <1>1. origin[h].state = "open" /\ client[h].state \in {"open", "errored"}
        /\ client'[h] = client[h]
    BY DEF originOnBody, originOnHeadersComplete, OriginSends, LifeInv, Phases
  <1>2. origin'[h].state = "open" /\ proxy'[h].request_ = proxy[h].request_
    <2>1. CASE originOnBody(h)
      <3>. DEFINE body == collect(proxy[h].contentBody_,
                                  <<origin[h].resp, origin[h].sent + 1>>)
      <3>1. proxy'[h] \in {proxy[h], [proxy[h] EXCEPT !.contentBody_ = body]}
            /\ origin'[h] = [origin[h] EXCEPT !.sent = @ + 1]
        BY <2>1 DEF originOnBody, TypeInv, ProxyTypeOK
      <3>. HIDE DEF body
      <3>. QED  BY <1>1, <3>1 DEF Proxy, Origin
    <2>2. ASSUME NEW r \in Response, originOnHeadersComplete(h, r)
          PROVE  origin'[h].state = "open" /\ proxy'[h].request_ = proxy[h].request_
      <3>1. proxy'[h] \in {proxy[h], [proxy[h] EXCEPT !.contentHeaders_ = r]}
            /\ origin'[h] = [origin[h] EXCEPT !.resp = r]
        BY <2>2 DEF originOnHeadersComplete, TypeInv, ProxyTypeOK
      <3>. QED  BY <1>1, <3>1 DEF Proxy, Origin
    <2>. QED  BY <2>1, <2>2
  <1>3. Progress(h)'
    BY <1>1, <1>2 DEF Progress, Early
  <1>4. Answer(h)'
    BY <1>1, <1>2 DEF WholeInv, Answer, WholeUnlessFailed, FailuresKept
  <1>. QED  BY <1>3, <1>4

\* The origin's last word is the answer, and the answer is all it said.
LEMMA OriginOnEOMAnswer ==
    ASSUME TypeInv, LifeInv, BodyInv, WholeInv, FailuresKept, NEW h \in Handler,
           originOnEOM(h)
    PROVE  Progress(h)' /\ Answer(h)'
  <1>. USE RecordTypes DEF HandlerTypes
  <1>. DEFINE p == proxy[h]
              r == origin[h].resp
  <1>1. /\ OriginSends(h) /\ r # NoResponse /\ origin[h].sent = r.len
        /\ proxy'[h] = p /\ origin'[h] = [origin[h] EXCEPT !.state = "eom"]
    BY DEF originOnEOM, TypeInv, ProxyTypeOK
  <1>2. origin'[h].state = "eom" /\ origin'[h].resp = r /\ origin'[h].sent = r.len
    BY <1>1 DEF Origin
  <1>3. client[h].state \in {"open", "errored"}
    BY <1>1 DEF OriginSends, LifeInv, Phases
  <1>4. CASE client'[h] = client[h]
    BY <1>1, <1>2, <1>3, <1>4
    DEF WholeInv, Progress, Answer, Early, WholeUnlessFailed, FailuresKept
  <1>5. CASE /\ ~p.clientTerminated_ /\ p.contentHeaders_ # NoResponse
             /\ p.contentBody_ # <<>>
             /\ client'[h] = sendWithEOM(client[h], Reply200(p.contentHeaders_, p.contentBody_))
    <2>1. client[h].state = "open"
      BY <1>1, <1>3, <1>5 DEF OriginSends, LifeInv, Members, ClientOver
    <2>2. p.contentHeaders_ = r /\ p.contentBody_ = Body(r, r.len)
      BY <1>1, <1>5 DEF BodyInv, Collected
    <2>3. /\ client'[h].state = "replied"
          /\ client'[h].reply = Reply200(r, Body(r, r.len))
      BY <1>5, <2>1, <2>2, AnswerSent
    <2>4. r.len \in 1..r.len
      <3>1. r \in Response /\ r.len \in Nat
        BY <1>1, ResponseLen DEF Origin
      <3>2. r.len # 0
        BY <1>5, <2>2 DEF Body
      <3>. QED  BY <3>1, <3>2
    <2>5. client'[h].reply.from = r /\ client'[h].reply.body = Body(r, r.len)
      BY <2>3 DEF Reply200
    <2>6. Answer(h)'
      BY <2>3, <2>4, <2>5 DEF Answer, WholeUnlessFailed
    <2>7. Progress(h)'
      BY <1>2, <2>3 DEF Progress, Early
    <2>. QED  BY <2>6, <2>7
  <1>. QED  BY <1>4, <1>5 DEF originOnEOM, TypeInv, ProxyTypeOK

LEMMA StepKeepsAnswer ==
    ASSUME TypeInv, LifeInv, BodyInv, WholeInv, NEW h \in Handler, Callback(h),
           NEW g \in Handler
    PROVE  Progress(g)' /\ Answer(g)'
  <1>1. FailuresKept /\ Progress(h) /\ Answer(h)
    BY StepKeepsFailures DEF WholeInv
  <1>2. Progress(h)' /\ Answer(h)'
    <2>1. CASE Quiet(h)
      BY <1>1, <2>1, QuietKeepsAnswer
    <2>. QED  BY <1>1, <2>1, ClientSideQuiet, OriginSideQuiet, OnRequestAnswer,
              ConnectErrorAnswer, ReceivingAnswer, OriginOnEOMAnswer DEF Callback
  <1>3. CASE g # h
    <2>1. proxy'[g] = proxy[g] /\ client'[g] = client[g] /\ origin'[g] = origin[g]
      BY <1>3, CallbackFrame DEF Frame, TypeInv, ProxyTypeOK
    <2>. QED  BY <1>1, <2>1 DEF WholeInv, Progress, Answer, WholeUnlessFailed, FailuresKept
  <1>. QED  BY <1>2, <1>3

-----------------------------------------------------------------------------
(***************************************************************************)
(* What is cached.                                                         *)
(***************************************************************************)
collectedRoute(p) ==
    [content |-> cloneCoalesced(p.contentBody_), headers |-> p.contentHeaders_]

\* requestComplete puts what the handler collected into a map with room for it.
Inserts(h) ==
    LET p == proxy[h]
    IN /\ requestComplete(h) /\ size < MaxRoutes /\ map_[p.request_.url] = NoRoute
       /\ p.request_.get /\ p.contentBody_ # <<>> /\ p.contentHeaders_ # NoResponse
       /\ map_' = [map_ EXCEPT ![p.request_.url] = collectedRoute(p)]

LEMMA MapAfter ==
    ASSUME NEW h \in Handler, Callback(h)
    PROVE  map_' = map_ \/ Inserts(h)
  <1>1. CASE requestComplete(h)
    <2>1. ASSUME NEW u, NEW route, addCachedRoute(h, u, route)
          PROVE  \/ map_' = map_
                 \/ /\ size < MaxRoutes /\ map_[u] = NoRoute
                    /\ map_' = [map_ EXCEPT ![u] = route]
      BY <2>1 DEF addCachedRoute, Insert, InsertRefused, InsertThrows, cacheVars
    <2>. QED  BY <1>1, <2>1 DEF requestComplete, Inserts, collectedRoute, bodyToCache, cacheVars
  <1>2. CASE diskStep(h) \/ finishWrite(h)
    BY <1>2 DEF diskStep, finishWrite, OpenFile, DiskError, WriteFile
  <1>3. CASE UNCHANGED cacheVars
    BY <1>3 DEF cacheVars
  <1>. QED  BY <1>1, <1>2, <1>3 DEF Callback, onRequest, onBody, onEOM, onError,
            connectSuccess, connectError, originOnHeadersComplete, originOnBody,
            originOnEOM, originOnError, originDetachTransaction, originOnEgressPaused,
            originOnEgressResumed

\* The one place where a route becomes visible: the client was answered, with
\* all of the body, or aborted, because the origin had failed.
LEMMA InsertedIsStored ==
    ASSUME TypeInv, LifeInv, BodyInv, WholeInv, FailuresKept,
           NEW h \in Handler, Inserts(h), NEW u, u = proxy[h].request_.url
    PROVE  Stored(u)'
  <1>. USE RecordTypes DEF HandlerTypes
  <1>. DEFINE p == proxy[h]
              r == origin[h].resp
              n == origin[h].sent
  <1>1. /\ requestComplete(h) /\ p.contentBody_ # <<>> /\ p.contentHeaders_ # NoResponse
        /\ map_' = [map_ EXCEPT ![u] = collectedRoute(p)]
    BY DEF Inserts
  <1>2. Running(h) /\ client[h].state \in {"aborted", "replied"}
    BY <1>1 DEF requestComplete
  <1>3. p.request_ \in Request /\ u \in Url /\ p.request_ # NoRequest
    BY <1>2, ProxyAssumption DEF Request
  <1>4. Collected(h)
    BY <1>2 DEF LifeInv, Members, ClientOver, BodyInv
  <1>5. r \in Response /\ p.contentHeaders_ = r /\ p.contentBody_ = Body(r, n)
        /\ n \in Nat /\ n <= r.len
    BY <1>1, <1>4 DEF Collected, Origin
  <1>6. n \in 1..r.len
    <2>1. n # 0
      BY <1>1, <1>5 DEF Body
    <2>. QED  BY <1>5, <2>1, ResponseLen
  <1>7. n = r.len \/ OriginFailed(u)
    <2>1. CASE client[h].state = "aborted"
      BY <1>3, <2>1 DEF WholeInv, Progress, OriginFailed
    <2>2. CASE client[h].state = "replied"
      BY <1>1, <1>5, <2>2 DEF WholeInv, Progress
    <2>. QED  BY <1>2, <2>1, <2>2
  <1>8. n = r.len \/ OriginFailed(u)'
    BY <1>7 DEF FailuresKept
  <1>9. map_'[u] = [content |-> [bytes |-> Body(r, n), bufs |-> 1], headers |-> r]
    BY <1>1, <1>3, <1>5 DEF collectedRoute, cloneCoalesced, CacheTypeOK
  <1>10. /\ map_'[u].content.bufs = 1 /\ map_'[u].headers = r
         /\ map_'[u].content.bytes = Body(r, n)
    BY <1>9
  <1>. HIDE DEF p, r, n
  <1>. QED  BY <1>6, <1>8, <1>10 DEF Stored, WholeUnlessFailed

LEMMA NextKeepsWholeInv ==
    ASSUME TypeInv, LifeInv, BodyInv, WholeInv, [ProxyNext]_vars
    PROVE  WholeInv'
  <1>1. ASSUME NEW h \in Handler, Callback(h) PROVE WholeInv'
    <2>1. FailuresKept
      BY <1>1, StepKeepsFailures DEF WholeInv
    <2>2. ASSUME NEW u \in Cached, map_'[u] = map_[u] PROVE Stored(u)'
      BY <2>1, <2>2 DEF WholeInv, Stored, WholeUnlessFailed, FailuresKept
    <2>3. ASSUME NEW u \in Cached' PROVE Stored(u)'
      <3>1. CASE map_'[u] = map_[u]
        BY <2>2, <2>3, <3>1 DEF Cached
      <3>2. CASE map_'[u] # map_[u]
        <4>1. Inserts(h)
          BY <1>1, <3>2, MapAfter
        <4>2. u = proxy[h].request_.url
          BY <2>3, <3>2, <4>1 DEF Inserts, Cached, TypeInv, ProxyTypeOK, CacheTypeOK
        <4>. QED  BY <2>1, <4>1, <4>2, InsertedIsStored
      <3>. QED  BY <3>1, <3>2
    <2>. QED  BY <1>1, <2>3, StepKeepsAnswer DEF WholeInv
  <1>2. CASE restartProxy
    BY <1>2 DEF restartProxy, Restart, WholeInv, Progress, Answer, Cached, Early, NewProxy,
                NewClient, NewOrigin, NoReply
  <1>3. CASE UNCHANGED vars
    BY <1>3 DEF vars, cacheVars, WholeInv, Progress, Answer, Stored, Cached,
                WholeUnlessFailed, OriginFailed
  <1>. QED  BY <1>1, <1>2, <1>3 DEF ProxyNext

LEMMA AlwaysWholeInv == ProxySpec => [](TypeInv /\ LifeInv /\ BodyInv /\ WholeInv)
  BY InitTypeInv, InitLifeInv, InitBodyInv, InitWholeInv, NextKeepsTypeInv,
     NextKeepsLifeInv, NextKeepsBodyInv, NextKeepsWholeInv, PTL DEF ProxySpec

\* What is cached, and what is sent from the cache or from the origin, is the
\* body of one response, in order, and whole unless an origin transaction for
\* that URL failed: a truncated body has no other cause.
THEOREM BodiesWholeCorrect == ProxySpec => []BodiesWholeUnlessOriginFailed
  <1>1. WholeInv => BodiesWholeUnlessOriginFailed
    BY DEF WholeInv, Answer, Stored, BodiesWholeUnlessOriginFailed
  <1>. QED  BY <1>1, AlwaysWholeInv, PTL
-----------------------------------------------------------------------------
(***************************************************************************)
(* What was answered is cached.                                            *)
(***************************************************************************)
Kept(u) == u \in Cached \/ size >= MaxRoutes

HasBody(h) == proxy[h].contentBody_ # <<>> /\ proxy[h].contentHeaders_ # NoResponse

\* An answered GET is cached, or the map is full, or what is to be cached is
\* still to be taken from the handler by requestComplete.
Caching(h) ==
    /\ client[h].state \in {"replied", "aborted", "complete"}
    /\ client[h].reply.status = 200 /\ proxy[h].request_.get
    => \/ Kept(proxy[h].request_.url)
       \/ client[h].state # "complete" /\ HasBody(h)

CachingInv ==
    /\ IsFiniteSet(Cached)
    /\ \A h \in Handler : Caching(h)

LEMMA InitCachingInv == ProxyInit => CachingInv
  <1>. SUFFICES ASSUME ProxyInit PROVE CachingInv
    OBVIOUS
  <1>1. Cached = {}
    BY DEF ProxyInit, CacheInit, Cached
  <1>. QED  BY <1>1, FS_EmptySet DEF ProxyInit, CachingInv, Caching, NewClient

LEMMA CollectedIsRoute ==
    ASSUME TypeInv, NEW h \in Handler, client[h].state # "idle", HasBody(h)
    PROVE  /\ proxy[h].request_.url \in Url
           /\ collectedRoute(proxy[h]) \in CachedRoute
           /\ collectedRoute(proxy[h]) # NoRoute
  <1>. USE RecordTypes DEF HandlerTypes
  <1>1. proxy[h].request_.url \in Url
    BY DEF Request
  <1>2. collectedRoute(proxy[h]) \in CachedRoute
    BY DEF HasBody, collectedRoute, CachedRoute, IOBuf, cloneCoalesced, Proxy
  <1>. QED  BY <1>1, <1>2, NoRouteAssumption

\* The map grows, by one route at a time, and what is kept stays so.
LEMMA KeptStays ==
    ASSUME TypeInv, IsFiniteSet(Cached), NEW h \in Handler, Callback(h)
    PROVE  IsFiniteSet(Cached)' /\ \A u : Kept(u) => Kept(u)'
  <1>1. CASE map_' = map_
    BY <1>1 DEF Kept, Cached, size
  <1>2. CASE Inserts(h)
    <2>. DEFINE new == proxy[h].request_.url
                route == collectedRoute(proxy[h])
    <2>1. new \in Url /\ route # NoRoute
      <3>1. client[h].state # "idle" /\ HasBody(h)
        BY <1>2 DEF Inserts, HasBody, requestComplete
      <3>. QED  BY <3>1, CollectedIsRoute
    <2>2. map_' = [map_ EXCEPT ![new] = route] /\ map_ \in [Url -> CachedRoute \cup {NoRoute}]
      BY <1>2, RecordTypes DEF Inserts, CacheTypeOK
    <2>. HIDE DEF new, route
    <2>3. Cached' = Cached \cup {new}
      BY <2>1, <2>2 DEF Cached
    <2>4. IsFiniteSet(Cached')
      BY <2>3, FS_AddElement
    <2>5. Cardinality(Cached) <= Cardinality(Cached')
      BY <2>3, <2>4, FS_Subset
    <2>6. Cardinality(Cached) \in Nat /\ Cardinality(Cached') \in Nat
      BY <2>4, FS_CardinalityType
    <2>. QED  BY <2>3, <2>4, <2>5, <2>6, CacheAssumption DEF Kept, size
  <1>. QED  BY <1>1, <1>2, MapAfter

\* requestComplete caches what the handler has collected of a GET.
LEMMA RequestCompleteKeeps ==
    ASSUME TypeInv, IsFiniteSet(Cached), NEW h \in Handler, requestComplete(h),
           HasBody(h), proxy[h].request_.get, NEW u, u = proxy[h].request_.url
    PROVE  Kept(u)'
  <1>. DEFINE route == collectedRoute(proxy[h])
  <1>1. addCachedRoute(h, u, route)
    BY DEF requestComplete, HasBody, bodyToCache, collectedRoute
  <1>2. u \in Url /\ route # NoRoute
    BY CollectedIsRoute DEF requestComplete
  <1>3. map_ \in [Url -> CachedRoute \cup {NoRoute}]
    BY RecordTypes DEF CacheTypeOK
  <1>. HIDE DEF route
  <1>4. CASE Insert(h, u, route)
    BY <1>2, <1>3, <1>4 DEF Insert, Kept, Cached
  <1>5. CASE InsertRefused(u) \/ InsertThrows(u)
    BY <1>2, <1>5 DEF InsertRefused, InsertThrows, cacheVars, Kept, Cached, size
  <1>. QED  BY <1>1, <1>4, <1>5 DEF addCachedRoute

LEMMA QuietKeepsCaching ==
    ASSUME TypeInv, LifeInv, CachingInv, NEW h \in Handler, Callback(h), Answer(h),
           Quiet(h), KeepsBody(h)
    PROVE  Caching(h)'
  <1>. DEFINE url == proxy[h].request_.url
  <1>1. /\ proxy'[h].request_ = proxy[h].request_ /\ client'[h].reply = client[h].reply
        /\ HasBody(h)' <=> HasBody(h)
    BY DEF Quiet, KeepsBody, HasBody
  <1>2. \A u : Kept(u) => Kept(u)'
    BY KeptStays DEF CachingInv
  <1>3. CASE requestComplete(h) /\ HasBody(h) /\ proxy[h].request_.get
    <2>1. \A u : u = proxy[h].request_.url => Kept(u)'
      BY <1>3, RequestCompleteKeeps DEF CachingInv
    <2>. QED  BY <1>1, <2>1 DEF Caching
  <1>4. CASE ~(requestComplete(h) /\ HasBody(h) /\ proxy[h].request_.get)
    <2>1. CASE client[h].reply.status = 200 /\ proxy[h].request_.get
      <3>1. client[h].state \notin {"idle", "open"}
        BY <2>1 DEF Answer
      <3>. QED  BY <1>1, <1>2, <1>4, <2>1, <3>1 DEF Caching, CachingInv, Quiet, requestComplete
    <2>2. CASE ~(client[h].reply.status = 200 /\ proxy[h].request_.get)
      BY <1>1, <2>2 DEF Caching
    <2>. QED  BY <2>1, <2>2
  <1>. QED  BY <1>3, <1>4

\* An answer from the cache, and one from the origin.
LEMMA AnswerIsCaching ==
    ASSUME TypeInv, LifeInv, BodyInv, WholeInv, CachingInv, NEW h \in Handler,
           \/ \E request \in Request : onRequest(h, request)
           \/ connectError(h) \/ originOnEOM(h)
    PROVE  Caching(h)'
  <1>. USE RecordTypes DEF HandlerTypes
  <1>1. ASSUME NEW request \in Request, onRequest(h, request) PROVE Caching(h)'
    <2>. DEFINE opened == [client[h] EXCEPT !.state = "open"]
    <2>1. opened \in Client /\ opened.state = "open" /\ opened.reply = client[h].reply
          /\ client[h].reply.status = 0
      BY <1>1 DEF onRequest, WholeInv, Answer, Client
    <2>2. proxy'[h] = [proxy[h] EXCEPT !.request_ = request] /\ UNCHANGED map_
          /\ client[h].state = "idle"
      BY <1>1 DEF onRequest, cacheVars, TypeInv, ProxyTypeOK
    <2>3. proxy'[h].request_ = request
      BY <2>2 DEF Proxy
    <2>4. \/ map_[request.url] # NoRoute
          \/ client'[h] = sendWithEOM(opened, Reply503)
          \/ client'[h] = pauseIngress(opened)
      BY <1>1 DEF onRequest, connectOrigin, getCachedRoute, TypeInv, ProxyTypeOK
    <2>. HIDE DEF opened
    <2>5. CASE map_[request.url] # NoRoute
      BY <2>2, <2>3, <2>5 DEF Caching, Kept, Cached, Request
    <2>6. CASE client'[h] = sendWithEOM(opened, Reply503)
      BY <2>1, <2>6, AnswerSent DEF Caching, Reply503
    <2>7. CASE client'[h] = pauseIngress(opened)
      BY <2>1, <2>7 DEF Caching, pauseIngress, Client
    <2>. QED  BY <2>4, <2>5, <2>6, <2>7
  <1>2. CASE connectError(h)
    <2>1. client[h].state = "open" /\ ~proxy[h].clientTerminated_
      BY <1>2 DEF connectError, LifeInv, Phases, Members, ClientOver
    <2>2. client'[h] = sendWithEOM(client[h], Reply503)
      BY <1>2, <2>1 DEF connectError, TypeInv, ProxyTypeOK
    <2>. QED  BY <2>1, <2>2, AnswerSent DEF Caching, Reply503
  <1>3. CASE originOnEOM(h)
    <2>1. /\ proxy'[h] = proxy[h]
          /\ \/ client'[h].state \in {"open", "errored"}
             \/ client'[h].state = "replied" /\ HasBody(h)
      <3>1. proxy'[h] = proxy[h] /\ client[h].state \in {"open", "errored"}
        BY <1>3 DEF originOnEOM, OriginSends, LifeInv, Phases
      <3>2. CASE client'[h] = client[h]
        BY <3>1, <3>2
      <3>3. CASE /\ ~proxy[h].clientTerminated_ /\ HasBody(h)
                 /\ client'[h] = sendWithEOM(client[h], Reply200(proxy[h].contentHeaders_,
                                                                proxy[h].contentBody_))
        <4>1. client[h].state = "open"
          BY <1>3, <3>1, <3>3 DEF originOnEOM, OriginSends, LifeInv, Members, ClientOver
        <4>. QED  BY <3>1, <3>3, <4>1, AnswerSent
      <3>. QED  BY <1>3, <3>1, <3>2, <3>3 DEF originOnEOM, HasBody, TypeInv, ProxyTypeOK
    <2>. QED  BY <2>1 DEF Caching, HasBody
  <1>. QED  BY <1>1, <1>2, <1>3

LEMMA StepKeepsCaching ==
    ASSUME TypeInv, LifeInv, BodyInv, WholeInv, CachingInv, NEW h \in Handler,
           Callback(h), NEW g \in Handler
    PROVE  Caching(g)'
  <1>1. \A u : Kept(u) => Kept(u)'
    BY KeptStays DEF CachingInv
  <1>2. Caching(h)'
    <2>1. CASE \/ onBody(h) \/ onEOM(h) \/ requestComplete(h) \/ onError(h)
               \/ diskStep(h) \/ finishWrite(h) \/ connectSuccess(h)
      BY <2>1, ClientSideQuiet, ClientSideKeepsBody, QuietKeepsCaching DEF WholeInv
    <2>2. CASE \/ originOnError(h) \/ originDetachTransaction(h)
               \/ originOnEgressPaused(h) \/ originOnEgressResumed(h)
      BY <2>2, OriginSideQuiet, OriginSideKeepsBody, QuietKeepsCaching DEF WholeInv
    <2>3. CASE originOnBody(h) \/ \E r \in Response : originOnHeadersComplete(h, r)
      BY <2>3 DEF originOnBody, originOnHeadersComplete, OriginSends, LifeInv, Phases, Caching
    <2>. QED  BY <2>1, <2>2, <2>3, AnswerIsCaching DEF Callback
  <1>3. CASE g # h
    <2>1. proxy'[g] = proxy[g] /\ client'[g] = client[g]
      BY <1>3, CallbackFrame DEF Frame, TypeInv, ProxyTypeOK
    <2>. QED  BY <1>1, <2>1 DEF CachingInv, Caching, HasBody
  <1>. QED  BY <1>2, <1>3

LEMMA NextKeepsCachingInv ==
    ASSUME TypeInv, LifeInv, BodyInv, WholeInv, CachingInv, [ProxyNext]_vars
    PROVE  CachingInv'
  <1>1. ASSUME NEW h \in Handler, Callback(h) PROVE CachingInv'
    <2>1. IsFiniteSet(Cached)'
      BY <1>1, KeptStays DEF CachingInv
    <2>. QED  BY <1>1, <2>1, StepKeepsCaching DEF CachingInv
  <1>2. CASE restartProxy
    <2>1. Cached' = {}
      BY <1>2 DEF restartProxy, Restart, Cached
    <2>. QED  BY <1>2, <2>1, FS_EmptySet DEF restartProxy, CachingInv, Caching, NewClient
  <1>3. CASE UNCHANGED vars
    BY <1>3 DEF vars, cacheVars, CachingInv, Caching, Kept, HasBody, Cached, size
  <1>. QED  BY <1>1, <1>2, <1>3 DEF ProxyNext

\* A GET that was answered by the origin and is over leaves its URL cached, by
\* this handler or by one that overtook it, unless the cache is full.
THEOREM AnsweredGetIsCachedCorrect == ProxySpec => []AnsweredGetIsCached
  <1>1. CachingInv => AnsweredGetIsCached
    BY DEF CachingInv, Caching, Kept, AnsweredGetIsCached
  <1>2. ProxySpec => [](TypeInv /\ LifeInv /\ BodyInv /\ WholeInv /\ CachingInv)
    BY InitTypeInv, InitLifeInv, InitBodyInv, InitWholeInv, InitCachingInv,
       NextKeepsTypeInv, NextKeepsLifeInv, NextKeepsBodyInv, NextKeepsWholeInv,
       NextKeepsCachingInv, PTL DEF ProxySpec
  <1>. QED  BY <1>1, <1>2, PTL
-----------------------------------------------------------------------------
(***************************************************************************)
(* The exchange that the proxy promises its clients.  Beyond what is shown *)
(* above it needs that a client that got an answer from the origin got     *)
(* what the handler still holds, and that an origin that failed has cut    *)
(* its client off, and fails no more.                                      *)
(***************************************************************************)
Matching(h) ==
    /\ \/ client[h].state = "replied"
       \/ client[h].state = "aborted" /\ client[h].reply.status = 200
       => (HasBody(h) => client[h].reply = Reply200(proxy[h].contentHeaders_,
                                                    proxy[h].contentBody_))
    /\ origin[h].failed => /\ origin[h].state \in {"failed", "detached"}
                          /\ client[h].state \notin {"open", "replied"}

MatchingInv == \A h \in Handler : Matching(h)

LEMMA InitMatchingInv == ProxyInit => MatchingInv
  BY DEF ProxyInit, MatchingInv, Matching, NewClient, NewOrigin

\* The steps that show nothing of themselves to the client.
Silent(h) ==
    /\ proxy'[h].request_ = proxy[h].request_
    /\ client'[h].state = client[h].state
    /\ client'[h].reply = client[h].reply
    /\ origin'[h].failed = origin[h].failed

SilentStep(h) ==
    \/ onBody(h) \/ onEOM(h) \/ diskStep(h) \/ finishWrite(h) \/ connectSuccess(h)
    \/ \E r \in Response : originOnHeadersComplete(h, r)
    \/ originOnBody(h) \/ originDetachTransaction(h)
    \/ originOnEgressPaused(h) \/ originOnEgressResumed(h)

LEMMA SilentSteps ==
    ASSUME TypeInv, NEW h \in Handler, SilentStep(h)
    PROVE  Silent(h) /\ (origin'[h].state # origin[h].state =>
                            origin'[h].state \in {"open", "detached"})
  <1>. USE RecordTypes DEF HandlerTypes
  <1>1. /\ client'[h].state = client[h].state
        /\ client'[h].reply = client[h].reply
    <2>1. client'[h] \in {client[h], [client[h] EXCEPT !.sent = @ + 1],
                          [client[h] EXCEPT !.eom = TRUE],
                          [client[h] EXCEPT !.paused = FALSE]}
      BY DEF SilentStep, onBody, onEOM, diskStep, finishWrite, connectSuccess, resumeIngress,
             originOnHeadersComplete, originOnBody, originDetachTransaction,
             originOnEgressPaused, originOnEgressResumed, TypeInv, ProxyTypeOK
    <2>. QED  BY <2>1 DEF Client
  <1>2. /\ origin'[h].failed = origin[h].failed
        /\ origin'[h].state # origin[h].state => origin'[h].state \in {"open", "detached"}
    <2>1. \/ origin'[h] \in {origin[h], forward(origin[h]),
                             [origin[h] EXCEPT !.gotEom = proxy[h].originTxn_],
                             [origin[h] EXCEPT !.state = "open"],
                             [origin[h] EXCEPT !.sent = @ + 1],
                             [origin[h] EXCEPT !.state = "detached"],
                             [origin[h] EXCEPT !.paused = TRUE],
                             [origin[h] EXCEPT !.paused = FALSE]}
          \/ \E r \in Response : origin'[h] = [origin[h] EXCEPT !.resp = r]
      BY DEF SilentStep, onBody, onEOM, diskStep, finishWrite, connectSuccess,
             originOnHeadersComplete, originOnBody, originDetachTransaction,
             originOnEgressPaused, originOnEgressResumed, TypeInv, ProxyTypeOK
    <2>. QED  BY <2>1 DEF forward, Origin
  <1>3. proxy'[h].request_ = proxy[h].request_
    <2>1. ASSUME NEW r \in Response, originOnHeadersComplete(h, r)
          PROVE  proxy'[h].request_ = proxy[h].request_
      <3>1. proxy'[h] \in {proxy[h], [proxy[h] EXCEPT !.contentHeaders_ = r]}
        BY <2>1 DEF originOnHeadersComplete, TypeInv, ProxyTypeOK
      <3>. QED  BY <3>1 DEF Proxy
    <2>2. CASE originOnBody(h)
      <3>. DEFINE body == collect(proxy[h].contentBody_,
                                  <<origin[h].resp, origin[h].sent + 1>>)
      <3>1. proxy'[h] \in {proxy[h], [proxy[h] EXCEPT !.contentBody_ = body]}
        BY <2>2 DEF originOnBody, TypeInv, ProxyTypeOK
      <3>. HIDE DEF body
      <3>. QED  BY <3>1 DEF Proxy
    <2>3. CASE originDetachTransaction(h)
      <3>1. originUnset(proxy[h]) \in Proxy
        BY HelperTypes
      <3>. QED  BY <2>3, <3>1, HelperTypes
                DEF originDetachTransaction, TypeInv, ProxyTypeOK
    <2>4. CASE originOnEgressPaused(h) \/ originOnEgressResumed(h)
      BY <2>4 DEF originOnEgressPaused, originOnEgressResumed
    <2>. QED  BY <2>1, <2>2, <2>3, <2>4, ClientSideQuiet DEF SilentStep, Quiet
  <1>. QED  BY <1>1, <1>2, <1>3 DEF Silent

LEMMA CarriedMatching ==
    ASSUME WholeInv, MatchingInv, NEW h \in Handler, Quiet(h), KeepsBody(h),
           origin'[h].failed = origin[h].failed,
           origin[h].failed => origin'[h].state \in {"failed", "detached"}
    PROVE  Matching(h)'
  BY DEF MatchingInv, Matching, HasBody, Quiet, KeepsBody, WholeInv, Answer

\* What ends the client's side leaves what was collected where it is.
LEMMA EndingMatching ==
    ASSUME TypeInv, LifeInv, WholeInv, MatchingInv, NEW h \in Handler,
           requestComplete(h) \/ onError(h)
    PROVE  Matching(h)'
  <1>. USE RecordTypes DEF HandlerTypes
  <1>1. /\ origin'[h].failed = origin[h].failed
        /\ \/ origin'[h].state \in {origin[h].state, "detached"}
           \/ origin[h].state = "connecting"
    <2>1. \/ origin'[h] \in {origin[h], [origin[h] EXCEPT !.aborted = TRUE],
                            [origin[h] EXCEPT !.aborted = TRUE, !.state = "detached"]}
          \/ /\ origin[h].state = "connecting"
             /\ origin'[h] = [origin[h] EXCEPT !.state = "none"]
      BY DEF requestComplete, onError, TypeInv, ProxyTypeOK
    <2>. QED  BY <2>1 DEF Origin
  <1>. QED  BY <1>1, CarriedMatching, ClientSideQuiet, ClientSideKeepsBody
            DEF MatchingInv, Matching

LEMMA SilentMatching ==
    ASSUME TypeInv, LifeInv, WholeInv, MatchingInv, NEW h \in Handler, SilentStep(h)
    PROVE  Matching(h)'
  <1>1. /\ origin'[h].failed = origin[h].failed
        /\ origin[h].failed => origin'[h].state \in {"failed", "detached"}
    <2>1. CASE connectSuccess(h)
      BY <2>1, SilentSteps DEF connectSuccess, MatchingInv, Matching, Silent
    <2>2. CASE SilentStep(h) /\ ~connectSuccess(h)
      <3>1. origin'[h].state \in {origin[h].state, "detached"}
        BY <2>2, RecordTypes
        DEF SilentStep, onBody, onEOM, diskStep, finishWrite, forward,
            originOnHeadersComplete, originOnBody, originDetachTransaction,
            originOnEgressPaused, originOnEgressResumed, TypeInv, ProxyTypeOK,
            HandlerTypes, Origin
      <3>. QED  BY <3>1, SilentSteps DEF MatchingInv, Matching, Silent
    <2>. QED  BY <2>1, <2>2
  <1>2. CASE originOnBody(h) \/ \E r \in Response : originOnHeadersComplete(h, r)
    <2>1. client'[h].state \in {"open", "errored"}
      BY <1>2 DEF originOnBody, originOnHeadersComplete, OriginSends, LifeInv, Phases
    <2>2. ~origin'[h].failed
      BY <1>1, <1>2 DEF originOnBody, originOnHeadersComplete, OriginSends, MatchingInv,
                        Matching
    <2>. QED  BY <2>1, <2>2 DEF Matching
  <1>3. CASE SilentStep(h) /\ ~(originOnBody(h)
                                \/ \E r \in Response : originOnHeadersComplete(h, r))
    <2>1. KeepsBody(h)
      BY <1>3, ClientSideKeepsBody, OriginSideKeepsBody DEF SilentStep
    <2>2. Quiet(h)
      BY <1>3, ClientSideQuiet, OriginSideQuiet DEF SilentStep
    <2>. QED  BY <1>1, <2>1, <2>2, CarriedMatching
  <1>. QED  BY <1>2, <1>3

\* A failing origin: its client was waiting or being answered and is cut off,
\* or has gone.
LEMMA FailingOrigin ==
    ASSUME TypeInv, LifeInv, MatchingInv, WholeInv, NEW h \in Handler, originOnError(h)
    PROVE  /\ ~origin[h].failed /\ origin'[h].failed /\ origin'[h].state = "failed"
           /\ \/ client[h].state \in {"open", "replied"} /\ client'[h].state = "aborted"
              \/ ClientOver(h) /\ client'[h].state = client[h].state
           /\ client'[h].reply = client[h].reply /\ proxy'[h] = proxy[h]
  <1>. USE RecordTypes DEF HandlerTypes
  <1>1. /\ proxy'[h] = proxy[h] /\ client'[h] = abortDownstream(h)
        /\ origin'[h] = [origin[h] EXCEPT !.state = "failed", !.failed = TRUE]
        /\ origin[h].state \in {"open", "eom"} /\ Running(h)
    BY DEF originOnError, TypeInv, ProxyTypeOK
  <1>2. ~origin[h].failed
    BY <1>1 DEF MatchingInv, Matching
  <1>3. origin'[h].failed /\ origin'[h].state = "failed"
    BY <1>1 DEF Origin
  <1>4. CASE ClientOver(h)
    BY <1>1, <1>2, <1>3, <1>4 DEF abortDownstream, LifeInv, Members
  <1>5. CASE ~ClientOver(h)
    <2>1. client[h].state \in {"open", "replied"}
      BY <1>1, <1>2, <1>5 DEF WholeInv, Progress, LifeInv, Phases, ClientOver, Client
    <2>2. client'[h] = [client[h] EXCEPT !.state = "aborted"]
      BY <1>1, <1>5, <2>1 DEF abortDownstream, sendAbort, LifeInv, Members
    <2>3. client'[h].state = "aborted" /\ client'[h].reply = client[h].reply
      BY <2>2 DEF Client
    <2>. QED  BY <1>1, <1>2, <1>3, <2>1, <2>3
  <1>. QED  BY <1>4, <1>5

LEMMA FailingMatching ==
    ASSUME TypeInv, LifeInv, WholeInv, MatchingInv, NEW h \in Handler, originOnError(h)
    PROVE  Matching(h)'
  BY FailingOrigin DEF MatchingInv, Matching, HasBody, ClientOver, WholeInv, Answer

\* The three steps that may answer a client.
LEMMA Asking ==
    ASSUME TypeInv, LifeInv, BodyInv, WholeInv, NEW h \in Handler,
           NEW q \in Request, onRequest(h, q)
    PROVE  /\ client[h].state = "idle" /\ proxy'[h].request_ = q /\ map_' = map_
           /\ ~origin[h].failed /\ origin'[h].failed = origin[h].failed /\ ~HasBody(h)'
           /\ IF q.get /\ q.url \in Cached
              THEN /\ client'[h].state = "replied"
                   /\ client'[h].reply = Reply200(map_[q.url].headers,
                                                 map_[q.url].content.bytes)
              ELSE \/ client'[h].state = "replied" /\ client'[h].reply = Reply503
                   \/ client'[h].state = "open" /\ client'[h].reply = client[h].reply
  <1>. USE RecordTypes DEF HandlerTypes
  <1>. DEFINE opened == [client[h] EXCEPT !.state = "open"]
              route == map_[q.url]
  <1>1. /\ client[h].state = "idle" /\ proxy'[h] = [proxy[h] EXCEPT !.request_ = q]
        /\ UNCHANGED map_
        /\ origin'[h] \in {origin[h], [origin[h] EXCEPT !.state = "connecting"]}
    BY DEF onRequest, connectOrigin, cacheVars, TypeInv, ProxyTypeOK
  <1>2. origin[h].resp = NoResponse /\ ~origin[h].failed
    BY <1>1, IdleIsNew DEF WholeInv
  <1>3. origin'[h].failed = origin[h].failed
    BY <1>1 DEF Origin
  <1>4. proxy[h].contentHeaders_ = NoResponse
    BY <1>1, <1>2 DEF LifeInv, Members, ClientOver, BodyInv, Collected
  <1>5. proxy'[h].request_ = q /\ ~HasBody(h)'
    BY <1>1, <1>4 DEF HasBody, Proxy
  <1>6. opened \in Client /\ opened.state = "open" /\ opened.reply = client[h].reply
    BY DEF Client
  <1>7. q.get /\ q.url \in Cached <=> q.get /\ route # NoRoute
    BY DEF Cached, Request
  <1>. HIDE DEF opened
  <1>8. CASE q.get /\ route # NoRoute
    <2>1. PICK page \in pages(route) :
              client'[h] = sendWithEOM(opened, Reply200(route.headers, page))
      BY <1>8, Zenon DEF onRequest, getCachedRoute, TypeInv, ProxyTypeOK, opened
    <2>2. route \in CachedRoute /\ route.content.bufs = 1
      BY <1>7, <1>8 DEF Cached, CacheTypeOK, Request, WholeInv, Stored
    <2>3. page = route.content.bytes
      BY <2>2, HeadIsWhole
    <2>. QED  BY <1>1, <1>2, <1>3, <1>5, <1>6, <1>7, <1>8, <2>1, <2>3, AnswerSent
  <1>9. CASE ~(q.get /\ route # NoRoute)
    <2>1. client'[h] \in {sendWithEOM(opened, Reply503), pauseIngress(opened)}
      BY <1>9 DEF onRequest, connectOrigin, getCachedRoute, TypeInv, ProxyTypeOK, opened
    <2>2. /\ pauseIngress(opened).state = "open"
          /\ pauseIngress(opened).reply = client[h].reply
      BY <1>6 DEF pauseIngress, Client
    <2>. QED  BY <1>1, <1>2, <1>3, <1>5, <1>6, <1>7, <1>9, <2>1, <2>2, AnswerSent
  <1>. QED  BY <1>8, <1>9

LEMMA Refusing ==
    ASSUME TypeInv, LifeInv, BodyInv, WholeInv, NEW h \in Handler, connectError(h)
    PROVE  /\ client[h].state = "open" /\ client'[h].state = "replied"
           /\ client'[h].reply = Reply503
           /\ proxy'[h] = proxy[h] /\ ~HasBody(h)
           /\ ~origin[h].failed /\ origin'[h].failed = origin[h].failed
  <1>. USE RecordTypes DEF HandlerTypes
  <1>1. /\ origin[h].state = "connecting" /\ client[h].state = "open"
        /\ ~proxy[h].clientTerminated_
    BY DEF connectError, LifeInv, Phases, Members, ClientOver
  <1>2. /\ client'[h] = sendWithEOM(client[h], Reply503) /\ proxy'[h] = proxy[h]
        /\ origin'[h] = [origin[h] EXCEPT !.state = "none"]
    BY <1>1 DEF connectError, TypeInv, ProxyTypeOK
  <1>3. origin[h].resp = NoResponse /\ ~origin[h].failed
    BY <1>1 DEF WholeInv, Progress, Early
  <1>4. ~HasBody(h)
    BY <1>1, <1>3 DEF BodyInv, Collected, HasBody
  <1>5. origin'[h].failed = origin[h].failed
    BY <1>2 DEF Origin
  <1>. QED  BY <1>1, <1>2, <1>3, <1>4, <1>5, AnswerSent

LEMMA Responding ==
    ASSUME TypeInv, LifeInv, BodyInv, MatchingInv, NEW h \in Handler, originOnEOM(h)
    PROVE  /\ proxy'[h] = proxy[h]
           /\ ~origin[h].failed /\ origin'[h].failed = origin[h].failed
           /\ \/ client'[h] = client[h] /\ client[h].state \in {"open", "errored"}
              \/ /\ client[h].state = "open" /\ client'[h].state = "replied" /\ HasBody(h)
                 /\ \E r \in Response : r.len > 0 /\ proxy[h].contentHeaders_ = r
                                       /\ proxy[h].contentBody_ = Whole(r)
                 /\ client'[h].reply = Reply200(proxy[h].contentHeaders_,
                                               proxy[h].contentBody_)
  <1>. USE RecordTypes DEF HandlerTypes
  <1>. DEFINE p == proxy[h]
              r == origin[h].resp
  <1>1. /\ OriginSends(h) /\ r # NoResponse /\ origin[h].sent = r.len
        /\ proxy'[h] = p /\ origin'[h] = [origin[h] EXCEPT !.state = "eom"]
    BY DEF originOnEOM, TypeInv, ProxyTypeOK
  <1>2. client[h].state \in {"open", "errored"}
    BY <1>1 DEF OriginSends, LifeInv, Phases
  <1>3. ~origin[h].failed /\ origin'[h].failed = origin[h].failed
    BY <1>1 DEF OriginSends, MatchingInv, Matching, Origin
  <1>4. CASE client'[h] = client[h]
    BY <1>1, <1>2, <1>3, <1>4
  <1>5. CASE /\ ~p.clientTerminated_ /\ p.contentHeaders_ # NoResponse
             /\ p.contentBody_ # <<>>
             /\ client'[h] = sendWithEOM(client[h], Reply200(p.contentHeaders_, p.contentBody_))
    <2>1. client[h].state = "open"
      BY <1>1, <1>2, <1>5 DEF OriginSends, LifeInv, Members, ClientOver
    <2>2. p.contentHeaders_ = r /\ p.contentBody_ = Whole(r)
      BY <1>1, <1>5 DEF BodyInv, Collected, Whole
    <2>3. r \in Response /\ r.len \in Nat
      BY <1>1, ResponseLen DEF Origin
    <2>4. r.len > 0
      BY <1>5, <2>2, <2>3 DEF Whole, Body
    <2>5. HasBody(h)
      BY <1>5 DEF HasBody
    <2>. QED  BY <1>1, <1>3, <1>5, <2>1, <2>2, <2>3, <2>4, <2>5, AnswerSent
  <1>. QED  BY <1>4, <1>5 DEF originOnEOM, TypeInv, ProxyTypeOK

LEMMA AnsweringMatching ==
    ASSUME TypeInv, LifeInv, BodyInv, WholeInv, MatchingInv, NEW h \in Handler,
           \/ \E q \in Request : onRequest(h, q)
           \/ connectError(h) \/ originOnEOM(h)
    PROVE  Matching(h)'
  <1>1. ASSUME NEW q \in Request, onRequest(h, q) PROVE Matching(h)'
    BY <1>1, Asking DEF Matching
  <1>2. CASE connectError(h)
    BY <1>2, Refusing DEF Matching, HasBody
  <1>3. CASE originOnEOM(h)
    BY <1>3, Responding DEF Matching
  <1>. QED  BY <1>1, <1>2, <1>3

LEMMA NextKeepsMatchingInv ==
    ASSUME TypeInv, LifeInv, BodyInv, WholeInv, MatchingInv, [ProxyNext]_vars
    PROVE  MatchingInv'
  <1>1. ASSUME NEW h \in Handler, Callback(h), NEW g \in Handler PROVE Matching(g)'
    <2>1. CASE g = h
      BY <1>1, <2>1, SilentMatching, EndingMatching, FailingMatching, AnsweringMatching
      DEF Callback, SilentStep
    <2>2. CASE g # h
      <3>1. proxy'[g] = proxy[g] /\ client'[g] = client[g] /\ origin'[g] = origin[g]
        BY <1>1, <2>2, CallbackFrame DEF Frame, TypeInv, ProxyTypeOK
      <3>. QED  BY <3>1 DEF MatchingInv, Matching, HasBody
    <2>. QED  BY <2>1, <2>2
  <1>2. CASE restartProxy
    BY <1>2 DEF restartProxy, MatchingInv, Matching, NewClient, NewOrigin
  <1>3. CASE UNCHANGED vars
    BY <1>3 DEF vars, MatchingInv, Matching, HasBody
  <1>. QED  BY <1>1, <1>2, <1>3 DEF ProxyNext, MatchingInv

-----------------------------------------------------------------------------
(***************************************************************************)
(* Every step of the proxy is a step of the exchange, or none.             *)
(***************************************************************************)

\* A callback changes what is shown of its own handler only.
LEMMA ShownFrame ==
    ASSUME TypeInv, NEW h \in Handler, Callback(h)
    PROVE  /\ requests' = [requests EXCEPT ![h] = proxy'[h].request_]
           /\ phases' = [phases EXCEPT ![h] = phaseOf(client'[h].state)]
           /\ replies' = [replies EXCEPT ![h] = client'[h].reply]
           /\ origin'[h].failed = origin[h].failed => failures' = failures
           /\ origin'[h].failed => failures' = failures \cup {h}
  <1>1. Frame(h)
    BY CallbackFrame
  <1>2. requests' = [requests EXCEPT ![h] = proxy'[h].request_]
    BY <1>1 DEF Frame, requests, TypeInv, ProxyTypeOK
  <1>3. phases' = [phases EXCEPT ![h] = phaseOf(client'[h].state)]
    BY <1>1 DEF Frame, phases, TypeInv, ProxyTypeOK
  <1>4. replies' = [replies EXCEPT ![h] = client'[h].reply]
    BY <1>1 DEF Frame, replies, TypeInv, ProxyTypeOK
  <1>5. /\ origin'[h].failed = origin[h].failed => failures' = failures
        /\ origin'[h].failed => failures' = failures \cup {h}
    BY <1>1 DEF Frame, failures, TypeInv, ProxyTypeOK
  <1>. QED  BY <1>2, <1>3, <1>4, <1>5

LEMMA ShownValues ==
    ASSUME NEW h \in Handler
    PROVE  /\ requests[h] = proxy[h].request_ /\ phases[h] = phaseOf(client[h].state)
           /\ replies[h] = client[h].reply
           /\ h \in failures <=> origin[h].failed
  BY DEF requests, phases, replies, failures

\* What a callback leaves as it is, it shows as it was.
LEMMA ShownSame ==
    ASSUME TypeInv, NEW h \in Handler, Callback(h)
    PROVE  /\ proxy'[h].request_ = proxy[h].request_ => requests' = requests
           /\ phaseOf(client'[h].state) = phaseOf(client[h].state) => phases' = phases
           /\ client'[h].reply = client[h].reply => replies' = replies
           /\ map_' = map_ => cachedPages' = cachedPages
  <1>1. proxy'[h].request_ = proxy[h].request_ => requests' = requests
    BY ShownFrame DEF requests
  <1>2. phaseOf(client'[h].state) = phaseOf(client[h].state) => phases' = phases
    BY ShownFrame DEF phases
  <1>3. client'[h].reply = client[h].reply => replies' = replies
    BY ShownFrame DEF replies
  <1>4. map_' = map_ => cachedPages' = cachedPages
    BY DEF cachedPages, Cached
  <1>. QED  BY <1>1, <1>2, <1>3, <1>4

LEMMA PhaseNames ==
    /\ phaseOf("idle") = "new" /\ phaseOf("open") = "waiting"
    /\ phaseOf("replied") = "answered" /\ phaseOf("aborted") = "cut"
    /\ phaseOf("complete") = "over" /\ phaseOf("errored") = "over"
  BY DEF phaseOf

LEMMA MapKept ==
    ASSUME NEW h \in Handler, Callback(h), ~requestComplete(h)
    PROVE  map_' = map_
  BY MapAfter DEF Inserts

LEMMA AskStep ==
    ASSUME TypeInv, LifeInv, BodyInv, WholeInv, NEW h \in Handler,
           NEW q \in Request, onRequest(h, q), Callback(h)
    PROVE  Promise!Ask(h, q)
  <1>1. /\ phases[h] = "new" /\ requests' = [requests EXCEPT ![h] = q]
        /\ UNCHANGED <<failures, cachedPages>>
    BY Asking, ShownFrame, ShownSame, ShownValues, PhaseNames
  <1>2. DOMAIN cachedPages = Cached
    BY DEF cachedPages
  <1>3. CASE q.get /\ q.url \in Cached
    <2>1. /\ client'[h].state = "replied"
          /\ client'[h].reply = Promise!Ok(cachedPages[q.url])
      BY <1>3, Asking DEF Promise!Ok, Reply200, cachedPages
    <2>2. Promise!Answer(h, Promise!Ok(cachedPages[q.url]))
      BY <2>1, ShownFrame, PhaseNames DEF Promise!Answer
    <2>. QED  BY <1>1, <1>2, <1>3, <2>2 DEF Promise!Ask
  <1>4. CASE ~(q.get /\ q.url \in Cached)
    <2>1. CASE client'[h].state = "replied" /\ client'[h].reply = Reply503
      <3>1. Promise!Answer(h, Promise!Unavailable)
        BY <2>1, ShownFrame, PhaseNames DEF Promise!Answer, Promise!Unavailable, Reply503
      <3>. QED  BY <1>1, <1>2, <1>4, <3>1 DEF Promise!Ask
    <2>2. CASE client'[h].state = "open" /\ client'[h].reply = client[h].reply
      <3>1. Promise!Wait(h)
        BY <2>2, ShownFrame, ShownSame, PhaseNames DEF Promise!Wait
      <3>. QED  BY <1>1, <1>2, <1>4, <3>1 DEF Promise!Ask
    <2>. QED  BY <1>4, <2>1, <2>2, Asking
  <1>. QED  BY <1>3, <1>4

LEMMA SilentIsStutter ==
    ASSUME TypeInv, NEW h \in Handler, SilentStep(h), Callback(h)
    PROVE  UNCHANGED Promise!exchangeVars
  <1>1. map_' = map_
    <2>1. ~Inserts(h)
      BY SilentSteps, PhaseNames, RecordTypes
      DEF Inserts, requestComplete, Silent, TypeInv, ProxyTypeOK, HandlerTypes, Client
    <2>. QED  BY <2>1, MapAfter
  <1>. QED  BY <1>1, SilentSteps, ShownFrame, ShownSame DEF Silent, Promise!exchangeVars

LEMMA RespondStep ==
    ASSUME TypeInv, LifeInv, BodyInv, WholeInv, MatchingInv, NEW h \in Handler,
           connectError(h) \/ originOnEOM(h), Callback(h)
    PROVE  Promise!Respond(h) \/ UNCHANGED Promise!exchangeVars
  <1>1. UNCHANGED cachedPages
    <2>1. UNCHANGED map_
      BY DEF connectError, originOnEOM, cacheVars
    <2>. QED  BY <2>1, ShownSame
  <1>2. CASE connectError(h)
    <2>1. /\ phases[h] = "waiting" /\ UNCHANGED <<requests, failures>>
          /\ Promise!Answer(h, Promise!Unavailable)
      BY <1>2, Refusing, ShownFrame, ShownSame, ShownValues, PhaseNames
      DEF Promise!Answer, Promise!Unavailable, Reply503
    <2>. QED  BY <1>1, <2>1 DEF Promise!Respond
  <1>3. CASE originOnEOM(h)
    <2>1. UNCHANGED <<requests, failures>>
      BY <1>3, Responding, ShownFrame, ShownSame
    <2>2. CASE client'[h] = client[h]
      BY <1>1, <2>1, <2>2, ShownSame DEF Promise!exchangeVars
    <2>3. CASE client[h].state = "open" /\ client'[h].state = "replied"
      <3>1. PICK r \in Response : /\ r.len > 0 /\ proxy[h].contentHeaders_ = r
                                 /\ proxy[h].contentBody_ = Whole(r)
                                 /\ client'[h].reply = Reply200(r, Whole(r))
        BY <1>3, <2>3, Responding
      <3>2. client'[h].reply = Promise!Ok(Promise!Page(r, r.len))
        BY <3>1 DEF Reply200, Whole, Body, Promise!Ok, Promise!Page, Promise!Body
      <3>3. Promise!Answer(h, Promise!Ok(Promise!Page(r, r.len)))
        BY <2>3, <3>2, ShownFrame, PhaseNames DEF Promise!Answer
      <3>4. phases[h] = "waiting" /\ h \notin failures
        BY <1>3, <2>3, Responding, ShownValues, PhaseNames
      <3>. QED  BY <1>1, <2>1, <3>1, <3>3, <3>4 DEF Promise!Respond
    <2>. QED  BY <1>3, <2>2, <2>3, Responding
  <1>. QED  BY <1>2, <1>3

LEMMA FailStep ==
    ASSUME TypeInv, LifeInv, WholeInv, MatchingInv, NEW h \in Handler,
           originOnError(h), Callback(h)
    PROVE  Promise!Fail(h)
  <1>1. UNCHANGED cachedPages
    BY ShownSame DEF originOnError, cacheVars
  <1>2. /\ h \notin failures /\ failures' = failures \cup {h}
        /\ UNCHANGED <<requests, replies>>
    BY FailingOrigin, ShownFrame, ShownSame, ShownValues
  <1>3. /\ phases[h] # "new"
        /\ phaseOf(client'[h].state) = IF phases[h] \in {"waiting", "answered"}
                                       THEN "cut" ELSE phases[h]
    BY FailingOrigin, ShownValues, PhaseNames DEF ClientOver
  <1>4. phases' = [phases EXCEPT ![h] = IF @ \in {"waiting", "answered"} THEN "cut" ELSE @]
    BY <1>3, ShownFrame DEF phases
  <1>. QED  BY <1>1, <1>2, <1>3, <1>4 DEF Promise!Fail

LEMMA LeaveStep ==
    ASSUME TypeInv, NEW h \in Handler, onError(h), Callback(h)
    PROVE  Promise!Leave(h)
  <1>1. UNCHANGED cachedPages
    BY ShownSame DEF onError, cacheVars
  <1>2. /\ client[h].state \in {"open", "replied"} /\ client'[h].state = "errored"
        /\ client'[h].reply = client[h].reply
    BY RecordTypes DEF onError, TypeInv, ProxyTypeOK, HandlerTypes, Client
  <1>3. /\ proxy'[h].request_ = proxy[h].request_ /\ origin'[h].failed = origin[h].failed
    <2>1. /\ Quiet(h)
          /\ origin'[h] \in {origin[h], [origin[h] EXCEPT !.aborted = TRUE],
                             [origin[h] EXCEPT !.aborted = TRUE, !.state = "detached"],
                             [origin[h] EXCEPT !.state = "none"]}
      BY ClientSideQuiet DEF onError, TypeInv, ProxyTypeOK
    <2>. QED  BY <2>1, RecordTypes DEF Quiet, HandlerTypes, Origin
  <1>. QED  BY <1>1, <1>2, <1>3, ShownFrame, ShownSame, ShownValues, PhaseNames
            DEF Promise!Leave

\* The exchange counts as the cache does.
LEMMA SameCardinality == \A S : Promise!Cardinality(S) = Cardinality(S)
  BY DEF Promise!Cardinality, Cardinality

\* What an insertion publishes is what the origin of the handler sent: all of
\* the answer, when there was one.
LEMMA InsertPublishes ==
    ASSUME TypeInv, LifeInv, BodyInv, MatchingInv, NEW h \in Handler, Inserts(h)
    PROVE  /\ Promise!Wanted(h)
           /\ \E r \in Response : \E n \in 1..r.len :
                 /\ Promise!Sent(h, r, n)
                 /\ Promise!Publish(requests[h].url, Promise!Page(r, n))
  <1>. USE RecordTypes DEF HandlerTypes
  <1>. DEFINE p == proxy[h]
              r == origin[h].resp
              n == origin[h].sent
              u == p.request_.url
  <1>1. /\ requestComplete(h) /\ size < MaxRoutes /\ map_[u] = NoRoute
        /\ p.request_.get /\ HasBody(h)
        /\ map_' = [map_ EXCEPT ![u] = collectedRoute(p)]
    BY DEF Inserts, HasBody
  <1>2. client[h].state \in {"aborted", "replied"}
    BY <1>1 DEF requestComplete
  <1>3. u \in Url /\ collectedRoute(p) # NoRoute
    BY <1>1, <1>2, CollectedIsRoute
  <1>4. Collected(h)
    BY <1>2 DEF LifeInv, Members, ClientOver, BodyInv
  <1>5. /\ r \in Response /\ n \in Nat /\ n <= r.len
        /\ p.contentHeaders_ = r /\ p.contentBody_ = Body(r, n)
    BY <1>1, <1>4 DEF Collected, HasBody, Origin
  <1>6. n \in 1..r.len
    <2>1. n # 0
      BY <1>1, <1>5 DEF HasBody, Body
    <2>. QED  BY <1>5, <2>1, ResponseLen
  <1>7. DOMAIN cachedPages = Cached /\ requests[h] = p.request_
    BY ShownValues DEF cachedPages
  <1>8. Promise!Wanted(h)
    BY <1>1, <1>7, SameCardinality DEF Promise!Wanted, size, Cached
  <1>9. Promise!Sent(h, r, n)
    <2>1. client[h].state = "replied" \/ client[h].reply.status = 200
          => client[h].reply = Reply200(r, Body(r, n))
      BY <1>1, <1>2, <1>5 DEF MatchingInv, Matching
    <2>2. Reply200(r, Body(r, n)).status = 200
          /\ Reply200(r, Body(r, n)) = Promise!Ok(Promise!Page(r, n))
      BY DEF Reply200, Body, Promise!Ok, Promise!Page, Promise!Body
    <2>3. replies[h] = client[h].reply /\ phases[h] = phaseOf(client[h].state)
      BY ShownValues
    <2>. HIDE DEF r, n
    <2>. QED  BY <1>2, <2>1, <2>2, <2>3, PhaseNames DEF Promise!Sent
  <1>10. Promise!Publish(u, Promise!Page(r, n))
    <2>. DEFINE page == Promise!Page(r, n)
                route == collectedRoute(p)
    <2>1. page = [from |-> route.headers, body |-> route.content.bytes]
      BY <1>5 DEF Promise!Page, Promise!Body, Body, collectedRoute, cloneCoalesced
    <2>2. map_ \in [Url -> CachedRoute \cup {NoRoute}]
      BY DEF CacheTypeOK
    <2>. HIDE DEF route, page, u
    <2>3. Cached' = Cached \cup {u}
      BY <1>1, <1>3, <2>2 DEF Cached, route
    <2>4. map_'[u] = route /\ \A v \in Cached : v # u => map_'[v] = map_[v]
      BY <1>1, <1>3, <2>2 DEF Cached, route
    <2>5. cachedPages' = [v \in Cached \cup {u} |->
                            [from |-> map_'[v].headers, body |-> map_'[v].content.bytes]]
      BY <2>3 DEF cachedPages
    <2>6. ASSUME NEW v \in Cached \cup {u}
          PROVE  [from |-> map_'[v].headers, body |-> map_'[v].content.bytes]
                 = IF v = u THEN page ELSE cachedPages[v]
      BY <2>1, <2>4 DEF cachedPages
    <2>. QED  BY <1>7, <2>5, <2>6 DEF Promise!Publish, page
  <1>. HIDE DEF r, n
  <1>. QED  BY <1>5, <1>6, <1>7, <1>8, <1>9, <1>10

LEMMA FinishStep ==
    ASSUME TypeInv, LifeInv, BodyInv, WholeInv, CachingInv, MatchingInv,
           NEW h \in Handler, requestComplete(h), Callback(h)
    PROVE  Promise!Finish(h)
  <1>. USE RecordTypes DEF HandlerTypes
  <1>1. /\ client[h].state \in {"aborted", "replied"}
        /\ client'[h] = [client[h] EXCEPT !.state = "complete"]
        /\ origin'[h] = origin[h]
    BY DEF requestComplete, TypeInv, ProxyTypeOK
  <1>2. client'[h].state = "complete" /\ client'[h].reply = client[h].reply
    BY <1>1 DEF Client
  <1>3. proxy'[h].request_ = proxy[h].request_
    BY ClientSideQuiet DEF Quiet
  <1>4. /\ phases[h] \in {"answered", "cut"} /\ phases' = [phases EXCEPT ![h] = "over"]
        /\ UNCHANGED <<requests, replies, failures>>
    <2>1. phases[h] \in {"answered", "cut"}
      BY <1>1, ShownValues, PhaseNames
    <2>2. phases' = [phases EXCEPT ![h] = "over"]
      BY <1>2, ShownFrame, PhaseNames
    <2>3. UNCHANGED <<requests, replies, failures>>
      BY <1>1, <1>2, <1>3, ShownFrame, ShownSame
    <2>. QED  BY <2>1, <2>2, <2>3
  <1>5. CASE Inserts(h)
    BY <1>4, <1>5, InsertPublishes DEF Promise!Finish
  <1>6. CASE ~Inserts(h)
    <2>1. map_' = map_
      BY <1>6, MapAfter
    <2>2. ASSUME Promise!Wanted(h), replies[h].status = 200 PROVE FALSE
      <3>1. /\ proxy[h].request_.get /\ client[h].reply.status = 200
            /\ ~Kept(proxy[h].request_.url)
        <4>1. DOMAIN cachedPages = Cached /\ requests[h] = proxy[h].request_
              /\ replies[h] = client[h].reply
          BY ShownValues DEF cachedPages
        <4>2. Cardinality(Cached) \in Nat
          BY FS_CardinalityType DEF CachingInv
        <4>. QED  BY <2>2, <4>1, <4>2, SameCardinality, CacheAssumption
              DEF Promise!Wanted, Kept, size
      <3>2. HasBody(h)
        <4>1. Caching(h)
          BY DEF CachingInv
        <4>. QED  BY <1>1, <3>1, <4>1 DEF Caching
      <3>3. Kept(proxy[h].request_.url)'
        <4>1. \A u : u = proxy[h].request_.url => Kept(u)'
          BY <3>1, <3>2, RequestCompleteKeeps DEF CachingInv
        <4>2. proxy'[h].request_.url = proxy[h].request_.url
          BY <1>3
        <4>. QED  BY <4>1, <4>2
      <3>. QED  BY <2>1, <3>1, <3>3, <1>3 DEF Kept, Cached, size
    <2>. QED  BY <1>4, <2>1, <2>2, ShownSame DEF Promise!Finish
  <1>. QED  BY <1>5, <1>6

Fresh ==
    /\ map_ = [u \in Url |-> NoRoute]
    /\ proxy = [h \in Handler |-> NewProxy]
    /\ client = [h \in Handler |-> NewClient]
    /\ origin = [h \in Handler |-> NewOrigin]

LEMMA FreshShowsNothing == Fresh => Promise!Init
  <1>. SUFFICES ASSUME Fresh PROVE Promise!Init
    OBVIOUS
  <1>. USE DEF Fresh
  <1>1. requests = [h \in Handler |-> NoRequest]
    BY DEF requests, NewProxy
  <1>2. phases = [h \in Handler |-> "new"]
    BY PhaseNames DEF phases, NewClient
  <1>3. replies = [h \in Handler |-> Promise!NoReply]
    BY DEF replies, NewClient, NoReply, Promise!NoReply
  <1>4. failures = {}
    BY DEF failures, NewOrigin
  <1>5. cachedPages = [u \in {} |-> Promise!Page(NoResponse, 0)]
    <2>1. Cached = {}
      BY DEF Cached
    <2>. QED  BY <2>1 DEF cachedPages
  <1>. QED  BY <1>1, <1>2, <1>3, <1>4, <1>5 DEF Promise!Init

LEMMA StepIsExchangeStep ==
    ASSUME TypeInv, LifeInv, BodyInv, WholeInv, CachingInv, MatchingInv,
           [ProxyNext]_vars
    PROVE  [Promise!Next]_Promise!exchangeVars
  <1>1. ASSUME NEW h \in Handler, Callback(h)
        PROVE  [Promise!Next]_Promise!exchangeVars
    <2>1. ASSUME NEW q \in Request, onRequest(h, q)
          PROVE  [Promise!Next]_Promise!exchangeVars
      BY <1>1, <2>1, AskStep DEF Promise!Next, Request
    <2>2. CASE SilentStep(h)
      BY <1>1, <2>2, SilentIsStutter
    <2>3. CASE connectError(h) \/ originOnEOM(h)
      BY <1>1, <2>3, RespondStep DEF Promise!Next
    <2>4. CASE originOnError(h)
      BY <1>1, <2>4, FailStep DEF Promise!Next
    <2>5. CASE requestComplete(h)
      BY <1>1, <2>5, FinishStep DEF Promise!Next
    <2>6. CASE onError(h)
      BY <1>1, <2>6, LeaveStep DEF Promise!Next
    <2>. QED  BY <1>1, <2>1, <2>2, <2>3, <2>4, <2>5, <2>6 DEF Callback, SilentStep
  <1>2. CASE restartProxy
    <2>1. Fresh'
      BY <1>2 DEF restartProxy, Restart, Fresh
    <2>2. (Fresh => Promise!Init)'
      BY FreshShowsNothing, PTL
    <2>3. Promise!Init'
      BY <2>1, <2>2
    <2>. QED  BY <2>3 DEF Promise!Next, Promise!Restart
  <1>3. CASE UNCHANGED vars
    BY <1>3 DEF vars, cacheVars, Promise!exchangeVars, requests, phases, replies, failures,
                cachedPages, Cached
  <1>. QED  BY <1>1, <1>2, <1>3 DEF ProxyNext

\* However the callbacks of the handlers interleave, their clients see one
\* exchange over one cache, the one the abstract specification describes.
THEOREM ExchangeRefinement == ProxySpec => ExchangeImplemented
  <1>1. ProxyInit => Promise!Init
    BY FreshShowsNothing DEF ProxyInit, CacheInit, Fresh
  <1>. QED  BY <1>1, InitTypeInv, InitLifeInv, InitBodyInv, InitWholeInv, InitCachingInv,
               InitMatchingInv, NextKeepsTypeInv, NextKeepsLifeInv, NextKeepsBodyInv,
               NextKeepsWholeInv, NextKeepsCachingInv, NextKeepsMatchingInv,
               StepIsExchangeStep, PTL
            DEF ProxySpec, ExchangeImplemented, Promise!Spec
=============================================================================
