--------------------------- MODULE MasternodeProofs ---------------------------
(***************************************************************************)
(* Proofs about Masternode and the router it composes: for any number of   *)
(* threads, any names, messages and configurations.                        *)
(***************************************************************************)
EXTENDS Masternode, TLAPS

-----------------------------------------------------------------------------
(***************************************************************************)
(* Type correctness.                                                       *)
(***************************************************************************)

\* What a transaction becomes when its handler answers is a transaction.
LEMMA AnsweredType ==
    ASSUME NEW t \in Transaction, NEW n \in Nat
    PROVE  answered(t, n) \in Transaction
  <1>. DEFINE u == [t EXCEPT !.state = "answered"]
  <1>1. u \in Transaction
    BY DEF Transaction
  <1>2. u.answers = t.answers /\ t.answers + n \in Nat
    BY DEF Transaction
  <1>3. [u EXCEPT !.answers = t.answers + n] \in Transaction
    <2>. HIDE DEF u
    <2>. QED  BY <1>1, <1>2 DEF Transaction
  <1>4. answered(t, n) = [u EXCEPT !.answers = t.answers + n]
    BY <1>2, Zenon DEF answered
  <1>. QED  BY <1>3, <1>4

\* A message with a Host field put in is a message.
LEMMA SentType ==
    ASSUME NEW m \in Message, NEW sent \in ensureHostHeader(m)
    PROVE  sent \in MessageType /\ sent.secure = m.secure
  <1>1. m \in MessageType
    BY RouterAssumption
  <1>. DEFINE with(host) == [m EXCEPT !.host = host]
  <1>2. ASSUME NEW host \in Host
        PROVE  with(host) \in MessageType /\ with(host).secure = m.secure
    BY <1>1 DEF MessageType
  <1>3. sent \in {m} \cup {with(host) : host \in IF noHost(m.host) THEN Host ELSE {}}
    BY DEF ensureHostHeader
  <1>. HIDE DEF with
  <1>4. CASE noHost(m.host)
    <2>1. sent \in {m} \cup {with(host) : host \in Host}
      BY <1>3, <1>4
    <2>. QED  BY <1>1, <1>2, <2>1
  <1>5. CASE ~noHost(m.host)
    BY <1>1, <1>3, <1>5
  <1>. QED  BY <1>4, <1>5

\* Every request gets one of the handlers.
LEMMA HandlerForType == \A m : handlerFor(m) \in Handler \ {"none"}
  BY DEF handlerFor, Handler

\* A redirect names a host, with the port of SSL.
LEMMA RedirectHostType ==
    ASSUME NEW t \in Transaction
    PROVE  redirectHost(t) \in Host /\ redirectHost(t).port = "ssl_port"
  <1>1. t.url \in URL /\ t.host \in Host
    BY DEF Transaction
  <1>2. t.url.host \in Name \cup {NoHost} /\ t.host.name \in Name
    BY <1>1 DEF URL, Host
  <1>3. (IF t.url.host # NoHost THEN t.url.host ELSE t.host.name) \in Name
    BY <1>2
  <1>. QED
    BY <1>3 DEF redirectHost, Host

\* Making and freeing parts leaves pointers.
LEMMA PartsType ==
    ASSUME part \in [Part -> Pointer], NEW parts
    PROVE  made(parts) \in [Part -> Pointer] /\ freed(parts) \in [Part -> Pointer]
  BY DEF made, freed, Pointer

\* The actions of the main thread preserve the type invariant.
LEMMA MainKeepsType ==
    ASSUME MasternodeTypeOK, mainNext
    PROVE  MasternodeTypeOK'
  <1>. USE DEF MasternodeTypeOK, RouterTypeOK
  <1>1. CASE makeState
    <2>1. part' \in [Part -> Pointer]
      BY <1>1, PartsType DEF makeState
    <2>2. [config EXCEPT !.geo_ip_enabled = FALSE] \in ConfigType
      BY DEF ConfigType
    <2>3. config' \in ConfigType
      BY <1>1, <2>2 DEF makeState
    <2>. QED  BY <1>1, <2>1, <2>3 DEF makeState
  <1>2. CASE makeCache
    BY <1>2, PartsType DEF makeCache
  <1>3. CASE makeServiceWorker
    BY <1>3, PartsType DEF makeServiceWorker
  <1>4. CASE makeServer
    BY <1>4, PartsType DEF makeServer
  <1>5. CASE beginPolling
    BY <1>5 DEF beginPolling
  <1>6. CASE bind
    BY <1>6 DEF bind
  <1>7. CASE stop
    BY <1>7 DEF stop
  <1>8. CASE destroy
    BY <1>8, PartsType DEF destroy
  <1>9. CASE shutdown
    BY <1>9, PartsType DEF shutdown
  <1>. QED
    BY <1>1, <1>2, <1>3, <1>4, <1>5, <1>6, <1>7, <1>8, <1>9 DEF mainNext

\* So do the actions of an I/O thread.
LEMMA RouterKeepsType ==
    ASSUME MasternodeTypeOK, RouterNext, UNCHANGED poller
    PROVE  MasternodeTypeOK'
  <1>. USE DEF MasternodeTypeOK, RouterTypeOK
  <1>. PICK w \in Thread :
          \/ \E m \in Message : onRequest(w, m)
          \/ handle(w) \/ requestComplete(w) \/ onError(w)
    BY DEF RouterNext
  <1>0. txn[w] \in Transaction
    OBVIOUS
  <1>1. ASSUME NEW m \in Message, onRequest(w, m)
        PROVE  MasternodeTypeOK'
    <2>1. ASSUME NEW sent \in ensureHostHeader(m)
          PROVE  [state |-> "routed", handler |-> handlerFor(sent), secure |-> sent.secure,
                  host |-> sent.host, url |-> sent.url, answers |-> 0] \in Transaction
      <3>1. sent \in MessageType
        BY SentType
      <3>2. sent.host \in Host /\ sent.secure \in BOOLEAN /\ sent.url \in URL
        BY <3>1 DEF MessageType
      <3>. QED  BY <3>2, HandlerForType DEF Transaction
    <2>. QED  BY <1>1, <2>1 DEF onRequest
  <1>2. CASE rejectRequest(w)
    <2>1. answered(txn[w], 1) \in Transaction
      BY <1>0, AnsweredType
    <2>. QED  BY <1>2, <2>1 DEF rejectRequest
  <1>3. CASE redirectRequest(w)
    <2>1. answered(txn[w], 1) \in Transaction /\ answered(txn[w], 2) \in Transaction
      BY <1>0, AnsweredType
    <2>2. redirectHost(txn[w]) \in Host
      BY <1>0, RedirectHostType
    <2>3. txn' \in [Thread -> Transaction]
      BY <1>3, <2>1 DEF redirectRequest, endProcess
    <2>4. redirected' \subseteq Host
      BY <1>3, <2>2 DEF redirectRequest
    <2>. QED  BY <1>3, <2>3, <2>4 DEF redirectRequest, endProcess
  <1>4. CASE directRequest(w) \/ workerRequest(w) \/ proxyRequest(w)
    <2>1. answered(txn[w], 1) \in Transaction
      BY <1>0, AnsweredType
    <2>2. main' \in {main, "crashed"} /\ txn' \in {txn, [txn EXCEPT ![w] = answered(txn[w], 1)]}
      BY <1>4 DEF directRequest, workerRequest, proxyRequest, answerFromParts, endProcess
    <2>3. UNCHANGED <<config, part, timer_, redirected>>
      BY <1>4 DEF directRequest, workerRequest, proxyRequest
    <2>. QED  BY <2>1, <2>2, <2>3
  <1>5. CASE requestComplete(w) \/ onError(w)
    <2>1. NoTransaction \in Transaction
      BY RouterAssumption DEF NoTransaction, Transaction, Handler, Host, URL
    <2>. QED  BY <1>5, <2>1 DEF requestComplete, onError, endProcess
  <1>. QED
    BY <1>1, <1>2, <1>3, <1>4, <1>5 DEF handle

\* And those that start and stop the threads, and the poller.
LEMMA OtherThreadsKeepType ==
    ASSUME MasternodeTypeOK,
           \/ \E w \in Thread : onServerStart(w) \/ onServerStop(w)
           \/ fetch \/ fetched \/ parsed
    PROVE  MasternodeTypeOK'
  <1>. USE DEF MasternodeTypeOK, RouterTypeOK, Pointer
  <1>1. CASE \E w \in Thread : onServerStart(w) \/ onServerStop(w)
    BY <1>1 DEF onServerStart, onServerStop
  <1>2. CASE fetch \/ fetched \/ parsed
    BY <1>2 DEF fetch, fetched, parsed, routerVars
  <1>. QED  BY <1>1, <1>2

\* The process's state stays well formed, from Masternode::Masternode to exit.
THEOREM MasternodeTypeCorrect == MasternodeSpec => []MasternodeTypeOK
  <1>1. MasternodeInit => MasternodeTypeOK
    <2>1. NoTransaction \in Transaction
      BY RouterAssumption DEF NoTransaction, Transaction, Handler, Host, URL
    <2>. QED
      BY <2>1, RouterAssumption
      DEF MasternodeInit, RouterInit, MasternodeTypeOK, RouterTypeOK, Pointer
  <1>2. MasternodeTypeOK /\ [MasternodeNext]_masternodeVars => MasternodeTypeOK'
    <2>. SUFFICES ASSUME MasternodeTypeOK, [MasternodeNext]_masternodeVars
                  PROVE  MasternodeTypeOK'
      OBVIOUS
    <2>1. CASE UNCHANGED masternodeVars
      BY <2>1 DEF masternodeVars, routerVars, MasternodeTypeOK, RouterTypeOK
    <2>. QED
      BY <2>1, MainKeepsType, RouterKeepsType, OtherThreadsKeepType DEF MasternodeNext
  <1>. QED
    BY <1>1, <1>2, PTL DEF MasternodeSpec

-----------------------------------------------------------------------------
(***************************************************************************)
(* The parts.  What a part of the process uses is made before it and freed *)
(* after it.                                                               *)
(***************************************************************************)

\* The network state, with the index if the configuration says so.
NetworkStateLives ==
    config.enableP2P => /\ part["state_"] = "live" /\ part["httpClient_"] = "live"
                        /\ config.geo_ip_enabled => part["geo_"] = "live"

\* Which parts there are, by where the main thread is.
PartsInv ==
    /\ main \in {"cache", "sw", "server", "start", "bind", "serving", "stopping", "shutdown"}
          => NetworkStateLives
    /\ main \in {"sw", "server", "start", "bind", "serving", "stopping", "shutdown"}
          => part["cache_"] = "live"
    /\ main \in {"server", "start", "bind", "serving", "stopping"}
          => (config.enableServiceWorker => part["sw_"] = "live")
    /\ part["sw_"] = "freed" => main \in {"shutdown", "exited"}

\* The poller runs on what the network state owns, until the destructor has
\* waited for it.
PollerInv ==
    poller # "none" => /\ config.enableP2P
                       /\ main \in {"bind", "serving", "stopping", "shutdown", "crashed"}

\* The requests under way have what they use, also after a crash.
RequestsInv ==
    \A w \in Thread : txn[w].state # "idle" =>
        /\ main \in {"serving", "stopping", "crashed"}
        /\ timer_[w] = "live" /\ part["cache_"] = "live" /\ NetworkStateLives
        /\ config.enableServiceWorker => part["sw_"] = "live"
        /\ txn[w].handler = "ServiceWorker" => config.enableServiceWorker

PartsSafe == PartsInv /\ PollerInv /\ RequestsInv

\* The main thread keeps the order of making and freeing.
LEMMA MainKeepsParts ==
    ASSUME MasternodeTypeOK, PartsSafe, mainNext
    PROVE  PartsSafe'
  <1>. USE DEF PartsSafe, PartsInv, PollerInv, RequestsInv, NetworkStateLives
  <1>0. /\ config \in ConfigType /\ part \in [Part -> Pointer]
        /\ txn \in [Thread -> Transaction]
    BY DEF MasternodeTypeOK, RouterTypeOK
  <1>1. CASE makeState
    <2>1. \A w \in Thread : txn[w].state = "idle"
      BY <1>1 DEF makeState
    <2>2. poller = "none"
      BY <1>1 DEF makeState
    <2>3. part["sw_"] # "freed"
      BY <1>1 DEF makeState
    <2>4. /\ part'["sw_"] = part["sw_"]
          /\ NetworkStateLives'
      <3>1. CASE ~config.enableP2P /\ UNCHANGED <<part, config>>
        BY <3>1
      <3>2. CASE /\ config.enableP2P
                 /\ part' = made({"state_", "httpClient_"})
                 /\ config' = [config EXCEPT !.geo_ip_enabled = FALSE]
        BY <1>0, <3>2 DEF made, Part, ConfigType
      <3>3. CASE /\ config.enableP2P /\ config.geo_ip_enabled
                 /\ part' = made({"state_", "httpClient_", "geo_"})
                 /\ UNCHANGED config
        BY <1>0, <3>3 DEF made, Part
      <3>. QED  BY <1>1, <3>1, <3>2, <3>3 DEF makeState
    <2>. QED  BY <1>1, <2>1, <2>2, <2>3, <2>4 DEF makeState
  <1>2. CASE makeCache
    BY <1>0, <1>2 DEF makeCache, made, Part
  <1>3. CASE makeServiceWorker
    BY <1>0, <1>3 DEF makeServiceWorker, made, Part
  <1>4. CASE makeServer
    BY <1>0, <1>4 DEF makeServer, made, Part
  <1>5. CASE beginPolling
    BY <1>5 DEF beginPolling
  <1>6. CASE bind
    BY <1>6 DEF bind
  <1>7. CASE stop
    BY <1>7 DEF stop
  <1>8. CASE destroy
    <2>1. \A w \in Thread : txn[w].state = "idle"
      BY <1>8 DEF destroy
    <2>. QED  BY <1>0, <1>8, <2>1 DEF destroy, freed, Part
  <1>9. CASE shutdown
    <2>1. \A w \in Thread : txn[w].state = "idle"
      BY <1>9 DEF shutdown
    <2>. QED  BY <1>9, <2>1 DEF shutdown
  <1>. QED
    BY <1>1, <1>2, <1>3, <1>4, <1>5, <1>6, <1>7, <1>8, <1>9 DEF mainNext

\* A request comes while the server runs, when all parts are there.
LEMMA RouterKeepsParts ==
    ASSUME MasternodeTypeOK, PartsSafe, RouterNext, UNCHANGED poller
    PROVE  PartsSafe'
  <1>. USE DEF PartsSafe, PartsInv, PollerInv, RequestsInv, NetworkStateLives
  <1>0. part \in [Part -> Pointer] /\ txn \in [Thread -> Transaction]
    BY DEF MasternodeTypeOK, RouterTypeOK
  <1>. PICK w \in Thread :
          \/ \E m \in Message : onRequest(w, m)
          \/ handle(w) \/ requestComplete(w) \/ onError(w)
    BY DEF RouterNext
  <1>1. ASSUME NEW m \in Message, onRequest(w, m)
        PROVE  PartsSafe'
    <2>1. \A sent : handlerFor(sent) = "ServiceWorker" => config.enableServiceWorker
      BY DEF handlerFor
    <2>2. PICK sent \in ensureHostHeader(m) : txn' = [txn EXCEPT ![w] =
             [state |-> "routed", handler |-> handlerFor(sent), secure |-> sent.secure,
              host |-> sent.host, url |-> sent.url, answers |-> 0]]
      BY <1>1 DEF onRequest
    <2>3. /\ main = "serving" /\ timer_[w] = "live"
          /\ UNCHANGED <<config, part, timer_, main>>
      BY <1>1 DEF onRequest
    <2>. QED  BY <1>0, <2>1, <2>2, <2>3
  <1>2. ASSUME UNCHANGED <<config, part, timer_>>, main' \in {main, "crashed"},
               \A v \in Thread : txn'[v].state # "idle" =>
                   txn[v].state # "idle" /\ txn'[v].handler = txn[v].handler
        PROVE  PartsSafe'
    <2>1. main \in {"serving", "stopping"}
      BY DEF RouterNext
    <2>. QED  BY <1>2, <2>1
  <1>3. CASE handle(w)
    <2>1. /\ txn[w].state # "idle"
          /\ UNCHANGED <<config, part, timer_>>
          /\ main' \in {main, "crashed"}
          /\ UNCHANGED txn \/ \E n : txn' = [txn EXCEPT ![w] = answered(txn[w], n)]
      BY <1>3
      DEF handle, rejectRequest, redirectRequest, directRequest, workerRequest,
          proxyRequest, answerFromParts, endProcess
    <2>2. \A n : answered(txn[w], n).handler = txn[w].handler
      BY <1>0 DEF answered, Transaction
    <2>. QED  BY <1>0, <1>2, <2>1, <2>2
  <1>4. CASE requestComplete(w) \/ onError(w)
    <2>1. NoTransaction.state = "idle"
      BY DEF NoTransaction
    <2>. QED  BY <1>0, <1>2, <1>4, <2>1 DEF requestComplete, onError, endProcess
  <1>. QED  BY <1>1, <1>3, <1>4

\* A thread without a timer has no transaction.
LEMMA OtherThreadsKeepParts ==
    ASSUME MasternodeTypeOK, PartsSafe,
           \/ \E w \in Thread : onServerStart(w) \/ onServerStop(w)
           \/ fetch \/ fetched \/ parsed
    PROVE  PartsSafe'
  <1>. USE DEF PartsSafe, PartsInv, PollerInv, RequestsInv, NetworkStateLives
  <1>1. CASE \E w \in Thread : onServerStart(w) \/ onServerStop(w)
    BY <1>1 DEF onServerStart, onServerStop, MasternodeTypeOK, RouterTypeOK
  <1>2. CASE fetch \/ fetched \/ parsed
    BY <1>2 DEF fetch, fetched, parsed, routerVars
  <1>. QED  BY <1>1, <1>2

LEMMA PartsStaySafe == MasternodeSpec => [](MasternodeTypeOK /\ PartsSafe)
  <1>1. MasternodeInit => PartsSafe
    BY DEF MasternodeInit, RouterInit, PartsSafe, PartsInv, PollerInv, RequestsInv,
           NoTransaction, Part
  <1>2. MasternodeTypeOK /\ PartsSafe /\ [MasternodeNext]_masternodeVars => PartsSafe'
    <2>. SUFFICES ASSUME MasternodeTypeOK, PartsSafe, [MasternodeNext]_masternodeVars
                  PROVE  PartsSafe'
      OBVIOUS
    <2>1. CASE UNCHANGED masternodeVars
      BY <2>1 DEF masternodeVars, routerVars, PartsSafe, PartsInv, PollerInv, RequestsInv,
                  NetworkStateLives
    <2>. QED
      BY <2>1, MainKeepsParts, RouterKeepsParts, OtherThreadsKeepParts DEF MasternodeNext
  <1>. QED
    BY <1>1, <1>2, MasternodeTypeCorrect, PTL DEF MasternodeSpec

\* A request, from the first to the last one the server takes, finds all parts
\* its handler uses.
THEOREM RequestsFindTheirPartsCorrect == MasternodeSpec => []RequestsFindTheirParts
  <1>1. PartsSafe => RequestsFindTheirParts
    BY DEF PartsSafe, RequestsInv, NetworkStateLives, RequestsFindTheirParts, uses,
           asksNetwork
  <1>. QED  BY <1>1, PartsStaySafe, PTL

\* The poller's thread finds what it uses although it starts before the server
\* and may still run when main destroys the parts.
THEOREM PollerFindsItsPartsCorrect == MasternodeSpec => []PollerFindsItsParts
  <1>1. PartsSafe => PollerFindsItsParts
    BY DEF PartsSafe, PartsInv, PollerInv, NetworkStateLives, PollerFindsItsParts
  <1>. QED  BY <1>1, PartsStaySafe, PTL

-----------------------------------------------------------------------------
(***************************************************************************)
(* The requests.  What onRequest looked at stays with the transaction, and *)
(* the configuration it went by does not change any more but for geo IP.   *)
(***************************************************************************)

\* The choice that was made for a request.
Chosen(t) ==
    /\ t.secure => config.ssl_enabled
    /\ t.handler = "Reject" => ~requestIsValid(t.host)
    /\ t.handler # "Reject" => requestIsValid(t.host)
    /\ t.handler = "Redirect" => config.upgrade_insecure /\ ~t.secure
    /\ t.handler \in {"Direct", "ServiceWorker", "Proxy"} =>
          (config.upgrade_insecure => t.secure)

\* One answer, or the two of a redirect on the empty domain.
Answers(t) ==
    /\ t.state # "answered" => t.answers = 0
    /\ config.protected_domain # NoName => t.answers <= 1

\* A thread without a request has no handler.
ChoiceInv ==
    /\ \A w \in Thread : txn[w].state = "idle" => txn[w].handler = "none"
    /\ \A w \in Thread : Answers(txn[w]) /\ (txn[w].state # "idle" => Chosen(txn[w]))
    /\ \A host \in redirected : host.port = "ssl_port"

\* Nothing the choice was made by changes.
SameSite == /\ config'.protected_domain = config.protected_domain
            /\ config'.ssl_enabled = config.ssl_enabled
            /\ config'.upgrade_insecure = config.upgrade_insecure

LEMMA ChoiceAfter ==
    ASSUME UNCHANGED config,
           \A v \in Thread : /\ Answers(txn'[v])
                             /\ txn'[v].state # "idle" => Chosen(txn'[v])
                             /\ txn'[v].state = "idle" => txn'[v].handler = "none",
           \A host \in redirected' : host.port = "ssl_port"
    PROVE  ChoiceInv'
  <1>1. ASSUME NEW v \in Thread
        PROVE  /\ Answers(txn[v])'
               /\ (txn[v].state # "idle" => Chosen(txn[v]))'
    <2>1. Answers(txn'[v]) /\ (txn'[v].state # "idle" => Chosen(txn'[v]))
      OBVIOUS
    <2>2. Answers(txn[v])'
      BY <2>1 DEF Answers
    <2>3. (txn[v].state # "idle" => Chosen(txn[v]))'
      BY <2>1 DEF Chosen, requestIsValid
    <2>. QED  BY <2>2, <2>3
  <1>. QED  BY <1>1 DEF ChoiceInv

LEMMA ChosenStays ==
    ASSUME ChoiceInv, SameSite, UNCHANGED <<txn, redirected>>
    PROVE  ChoiceInv'
  BY DEF ChoiceInv, SameSite, Chosen, Answers, requestIsValid

\* What an answer changes in a transaction.
LEMMA AnsweredKeeps ==
    ASSUME NEW t \in Transaction, NEW n \in Nat
    PROVE  LET u == answered(t, n)
           IN /\ u.secure = t.secure /\ u.handler = t.handler /\ u.host = t.host
              /\ u.state = "answered" /\ u.answers = t.answers + n
  BY DEF answered, Transaction

\* An answer that is the first keeps the choice, and is one unless the empty
\* domain is protected.
LEMMA AnswerKeepsChoice ==
    ASSUME ChoiceInv, MasternodeTypeOK, UNCHANGED config,
           NEW w \in Thread, txn[w].state = "routed",
           NEW n \in {1, 2}, n = 2 => config.protected_domain = NoName,
           txn' = [txn EXCEPT ![w] = answered(txn[w], n)],
           \A host \in redirected' : host.port = "ssl_port"
    PROVE  ChoiceInv'
  <1>. DEFINE u == answered(txn[w], n)
  <1>0. txn \in [Thread -> Transaction] /\ txn[w] \in Transaction
    BY DEF MasternodeTypeOK, RouterTypeOK
  <1>1. /\ u.secure = txn[w].secure /\ u.handler = txn[w].handler
        /\ u.host = txn[w].host
        /\ u.state = "answered" /\ u.answers = txn[w].answers + n
    BY <1>0, AnsweredKeeps
  <1>2. txn[w].answers = 0 /\ Chosen(txn[w])
    BY DEF ChoiceInv, Answers
  <1>. HIDE DEF u
  <1>3. Answers(u)
    BY <1>1, <1>2 DEF Answers
  <1>4. Chosen(u)
    BY <1>1, <1>2 DEF Chosen
  <1>5. \A v \in Thread : /\ Answers(txn'[v])
                          /\ txn'[v].state # "idle" => Chosen(txn'[v])
    BY <1>0, <1>3, <1>4 DEF ChoiceInv, u
  <1>6. \A v \in Thread : txn'[v].state = "idle" => txn'[v].handler = "none"
    BY <1>0, <1>1 DEF ChoiceInv, u
  <1>. QED  BY <1>5, <1>6, ChoiceAfter

LEMMA RouterKeepsChoice ==
    ASSUME MasternodeTypeOK, ChoiceInv, RouterNext, UNCHANGED poller
    PROVE  ChoiceInv'
  <1>0. txn \in [Thread -> Transaction]
    BY DEF MasternodeTypeOK, RouterTypeOK
  <1>. PICK w \in Thread :
          \/ \E m \in Message : onRequest(w, m)
          \/ handle(w) \/ requestComplete(w) \/ onError(w)
    BY DEF RouterNext
  <1>5. CASE UNCHANGED <<txn, config, redirected>>
    BY <1>5 DEF ChoiceInv, Chosen, Answers, requestIsValid
  <1>1. ASSUME NEW m \in Message, onRequest(w, m)
        PROVE  ChoiceInv'
    <2>0. PICK sent \in ensureHostHeader(m) : txn' = [txn EXCEPT ![w] =
             [state |-> "routed", handler |-> handlerFor(sent), secure |-> sent.secure,
              host |-> sent.host, url |-> sent.url, answers |-> 0]]
      BY <1>1 DEF onRequest
    <2>. DEFINE t == [state |-> "routed", handler |-> handlerFor(sent), secure |-> sent.secure,
                      host |-> sent.host, url |-> sent.url, answers |-> 0]
    <2>1. Answers(t)
      BY DEF Answers
    <2>2. Chosen(t)
      <3>1. sent.secure => config.ssl_enabled
        BY <1>1, SentType DEF onRequest
      <3>. QED  BY <3>1 DEF Chosen, handlerFor
    <2>4. t.state # "idle"
      OBVIOUS
    <2>. HIDE DEF t
    <2>3. txn' = [txn EXCEPT ![w] = t] /\ UNCHANGED <<config, redirected>>
      BY <1>1, <2>0 DEF onRequest, t
    <2>5. \A v \in Thread : /\ Answers(txn'[v])
                            /\ txn'[v].state # "idle" => Chosen(txn'[v])
                            /\ txn'[v].state = "idle" => txn'[v].handler = "none"
      BY <1>0, <2>1, <2>2, <2>3, <2>4 DEF ChoiceInv
    <2>6. \A host \in redirected' : host.port = "ssl_port"
      BY <2>3 DEF ChoiceInv
    <2>. QED  BY <2>3, <2>5, <2>6, ChoiceAfter
  <1>2. CASE rejectRequest(w) \/ directRequest(w) \/ workerRequest(w) \/ proxyRequest(w)
    <2>0. /\ UNCHANGED txn \/ txn' = [txn EXCEPT ![w] = answered(txn[w], 1)]
          /\ txn[w].state = "routed"
          /\ UNCHANGED <<config, redirected>>
      BY <1>2
      DEF rejectRequest, directRequest, workerRequest, proxyRequest, answerFromParts,
          endProcess
    <2>. SUFFICES ASSUME txn' = [txn EXCEPT ![w] = answered(txn[w], 1)]
                  PROVE  ChoiceInv'
      BY <1>5, <2>0
    <2>1. txn[w].state = "routed" /\ UNCHANGED <<config, redirected>>
      BY <2>0
    <2>2. \A host \in redirected' : host.port = "ssl_port"
      BY <2>1 DEF ChoiceInv
    <2>3. 1 \in {1, 2} /\ (1 = 2 => config.protected_domain = NoName)
      OBVIOUS
    <2>. QED  BY <2>1, <2>2, <2>3, AnswerKeepsChoice
  <1>3. CASE redirectRequest(w)
    <2>1. CASE txn[w].url.path = "none"
      BY <1>3, <1>5, <2>1 DEF redirectRequest, endProcess
    <2>2. CASE txn[w].url.path # "none"
      <3>. DEFINE n == IF noHostNamed(txn[w]) THEN 2 ELSE 1
      <3>1. /\ txn[w].state = "routed" /\ txn[w].handler = "Redirect"
            /\ txn' = [txn EXCEPT ![w] = answered(txn[w], n)]
            /\ redirected' = redirected \cup {redirectHost(txn[w])}
            /\ UNCHANGED config
        BY <1>3, <2>2 DEF redirectRequest
      <3>2. Chosen(txn[w])
        BY <3>1 DEF ChoiceInv
      <3>3. n \in {1, 2} /\ (n = 2 => config.protected_domain = NoName)
        BY <3>1, <3>2 DEF Chosen, noHostNamed, noHost, requestIsValid
      <3>4. \A host \in redirected' : host.port = "ssl_port"
        BY <1>0, <3>1, RedirectHostType DEF ChoiceInv
      <3>. QED  BY <3>1, <3>3, <3>4, AnswerKeepsChoice
    <2>. QED  BY <2>1, <2>2
  <1>4. CASE requestComplete(w) \/ onError(w)
    <2>1. /\ Answers(NoTransaction) /\ NoTransaction.state = "idle"
          /\ NoTransaction.handler = "none"
      BY DEF Answers, NoTransaction
    <2>2. /\ UNCHANGED txn \/ txn' = [txn EXCEPT ![w] = NoTransaction]
          /\ UNCHANGED <<config, redirected>>
      BY <1>4 DEF requestComplete, onError, endProcess
    <2>. QED  BY <1>0, <1>5, <2>1, <2>2 DEF ChoiceInv, Chosen, Answers, requestIsValid
  <1>. QED  BY <1>1, <1>2, <1>3, <1>4 DEF handle

LEMMA ChoicesStay == MasternodeSpec => [](MasternodeTypeOK /\ ChoiceInv)
  <1>1. MasternodeInit => ChoiceInv
    BY DEF MasternodeInit, RouterInit, ChoiceInv, Answers, NoTransaction
  <1>2. MasternodeTypeOK /\ ChoiceInv /\ [MasternodeNext]_masternodeVars => ChoiceInv'
    <2>. SUFFICES ASSUME MasternodeTypeOK, ChoiceInv, [MasternodeNext]_masternodeVars
                  PROVE  ChoiceInv'
      OBVIOUS
    <2>1. CASE UNCHANGED masternodeVars
      BY <2>1, ChosenStays DEF masternodeVars, routerVars, SameSite
    <2>2. CASE mainNext
      <3>1. config \in ConfigType
        BY DEF MasternodeTypeOK, RouterTypeOK
      <3>2. SameSite /\ UNCHANGED <<txn, redirected>>
        BY <2>2, <3>1
        DEF mainNext, makeState, makeCache, makeServiceWorker, makeServer,
            beginPolling, bind, stop, destroy, shutdown, SameSite, ConfigType
      <3>. QED  BY <3>2, ChosenStays
    <2>3. CASE \/ \E w \in Thread : onServerStart(w) \/ onServerStop(w)
               \/ fetch \/ fetched \/ parsed
      BY <2>3, ChosenStays
      DEF onServerStart, onServerStop, fetch, fetched, parsed, routerVars, SameSite
    <2>. QED
      BY <2>1, <2>2, <2>3, RouterKeepsChoice DEF MasternodeNext
  <1>. QED
    BY <1>1, <1>2, MasternodeTypeCorrect, PTL DEF MasternodeSpec

\* A request gets one response from the handlers that answer at once, although
\* RedirectHandler goes on after its 400: a request that names no host does not
\* come to it unless the empty domain is the protected one.
THEOREM OneResponseCorrect == MasternodeSpec => []OneResponse
  <1>1. ChoiceInv => OneResponse
    BY DEF ChoiceInv, Answers, OneResponse
  <1>. QED  BY <1>1, ChoicesStay, PTL

\* A redirected client that comes back over TLS gets its content: the port that
\* RedirectHandler names is one that requestIsValid knows.
THEOREM RedirectsLeadToContentCorrect == MasternodeSpec => []RedirectsLeadToContent
  <1>1. ChoiceInv => RedirectsLeadToContent
    BY DEF ChoiceInv, Chosen, requestIsValid, RedirectsLeadToContent
  <1>. QED  BY <1>1, ChoicesStay, PTL

\* With the upgrade on nothing is given out over an insecure connection, and
\* nothing ever to a request for another host.
THEOREM ContentOnlyWhereConfiguredCorrect == MasternodeSpec => []ContentOnlyWhereConfigured
  <1>1. MasternodeTypeOK /\ ChoiceInv => ContentOnlyWhereConfigured
    BY DEF ChoiceInv, Chosen, requestIsValid, ContentOnlyWhereConfigured
  <1>. QED  BY <1>1, ChoicesStay, PTL

-----------------------------------------------------------------------------
(***************************************************************************)
(* The end of the process.                                                 *)
(***************************************************************************)

\* A request that ends the process has a reason of its own: the parts its handler
\* uses are there.
LEMMA RequestEnds ==
    ASSUME PartsSafe, main # "crashed", main' = "crashed", RouterNext
    PROVE  \E w \in Thread : MayEnd(txn[w])
  <1>. PICK w \in Thread :
          \/ \E m \in Message : onRequest(w, m)
          \/ handle(w) \/ requestComplete(w) \/ onError(w)
    BY DEF RouterNext
  <1>1. CASE redirectRequest(w)
    BY <1>1 DEF redirectRequest, MayEnd
  <1>2. CASE directRequest(w) \/ workerRequest(w) \/ proxyRequest(w)
    <2>1. txn[w].state # "idle"
      BY <1>2 DEF directRequest, workerRequest, proxyRequest
    <2>2. \A p \in uses(txn[w]) : part[p] = "live"
      BY <2>1 DEF PartsSafe, RequestsInv, NetworkStateLives, uses, asksNetwork
    <2>3. ~answerFromParts(w)
      BY <2>2 DEF answerFromParts
    <2>4. txn[w].handler = "Direct" /\ asksNetwork(txn[w]) /\ config.geo_ip_enabled
      BY <1>2, <2>3 DEF directRequest, workerRequest, proxyRequest
    <2>5. "geo_" \in uses(txn[w])
      BY <2>4 DEF uses, Part
    <2>. QED  BY <2>2, <2>4, <2>5 DEF MayEnd, asksNetwork
  <1>3. CASE requestComplete(w)
    BY <1>3 DEF requestComplete, MayEnd
  <1>4. CASE rejectRequest(w) \/ onError(w) \/ \E m \in Message : onRequest(w, m)
    BY <1>4 DEF rejectRequest, onError, onRequest
  <1>. QED  BY <1>1, <1>2, <1>3, <1>4 DEF handle

\* No destructor, no thread's end and nothing the poller does ends the process;
\* and of the requests only those that have a reason of their own.
THEOREM EndsForAReasonCorrect == MasternodeSpec => EndsForAReason
  <1>1. ASSUME PartsSafe, MasternodeNext, main \notin {"crashed", "exited"},
               main' \in {"crashed", "exited"}
        PROVE  main \in {"sw", "bind", "shutdown"} \/ \E w \in Thread : MayEnd(txn[w])
    <2>1. CASE mainNext
      BY <1>1, <2>1
      DEF mainNext, makeState, makeCache, makeServiceWorker, makeServer, beginPolling,
          bind, stop, destroy, shutdown
    <2>2. CASE \E w \in Thread : onServerStart(w) \/ onServerStop(w)
      BY <1>1, <2>2 DEF onServerStart, onServerStop
    <2>3. CASE RouterNext /\ UNCHANGED poller
      <3>1. main' # "exited"
        BY <1>1, <2>3
        DEF RouterNext, onRequest, handle, rejectRequest, redirectRequest, directRequest,
            workerRequest, proxyRequest, answerFromParts, endProcess, requestComplete, onError
      <3>. QED  BY <1>1, <2>3, <3>1, RequestEnds
    <2>4. CASE fetch \/ fetched \/ parsed
      BY <1>1, <2>4 DEF fetch, fetched, parsed, routerVars
    <2>. QED  BY <1>1, <2>1, <2>2, <2>3, <2>4 DEF MasternodeNext
  <1>2. ASSUME PartsSafe, [MasternodeNext]_masternodeVars
        PROVE  [/\ main \notin {"crashed", "exited"} /\ main' \in {"crashed", "exited"}
                => main \in {"sw", "bind", "shutdown"} \/ \E w \in Thread : MayEnd(txn[w])
               ]_masternodeVars
    BY <1>1, <1>2
  <1>. QED  BY <1>2, PartsStaySafe, PTL DEF MasternodeSpec, EndsForAReason
=============================================================================
