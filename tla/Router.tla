------------------------------- MODULE Router -------------------------------
(***************************************************************************)
(* The router (Router.h, Router.cpp) and the handlers that answer at once  *)
(* (RejectHandler, RedirectHandler, ServiceWorkerHandler).  The router     *)
(* makes one handler per request; which one follows from the configuration *)
(* and from four things a request says: its host, whether it came over     *)
(* TLS, whether it has the direct header, and its URL.                     *)
(*                                                                         *)
(* What DirectHandler and ProxyHandler do in detail is the subject of      *)
(* their own modules; here they use their parts and answer, or end the     *)
(* process where an exception would leave a noexcept callback.  The I/O    *)
(* threads are independent, and so are the transactions of one thread: a   *)
(* thread handles one at a time.                                           *)
(***************************************************************************)
EXTENDS Naturals

CONSTANTS
    Thread,    \* the I/O threads
    Name,      \* host names
    NoName,    \* the empty host name
    NoHost,    \* the host of a URL that has none
    Message,   \* the requests clients may send
    Config     \* the configurations that main may make from the flags

VARIABLES
    config,     \* the MasternodeConfig all parts share
    part,       \* the parts the router and its handlers point to
    timer_,     \* timer_[w]: the timer of I/O thread w
    main,       \* where the main thread is
    txn,        \* txn[w]: the transaction on thread w and its handler
    redirected  \* history: the hosts clients were redirected to

routerVars == <<config, part, timer_, main, txn, redirected>>

-----------------------------------------------------------------------------
\* The port a host is named with: none, the configured ones, or another.
Host == [name : Name, port : {"none", "port", "ssl_port", "other"}]

\* In absolute form a URL has a host, and may then lack a path.
URL == [host : Name \cup {NoHost}, path : {"none", "page", "worker"}]

MessageType == [host : Host, secure : BOOLEAN, direct : BOOLEAN, url : URL]

ConfigType == [protected_domain : Name, ssl_enabled : BOOLEAN,
               upgrade_insecure : BOOLEAN, enableServiceWorker : BOOLEAN,
               enableP2P : BOOLEAN, geo_ip_enabled : BOOLEAN]

\* main configures the upgrade only together with SSL.
ASSUME RouterAssumption ==
    /\ NoName \in Name
    /\ NoHost \notin Name
    /\ Message \subseteq MessageType
    /\ \A m \in Message : m.url.path = "none" => m.url.host # NoHost
    /\ Config \subseteq ConfigType
    /\ \A c \in Config : c.upgrade_insecure => c.ssl_enabled

Part == {"state_", "httpClient_", "geo_", "cache_", "sw_", "server_"}
Pointer == {"null", "live", "freed"}

Handler == {"none", "Reject", "Redirect", "Direct", "ServiceWorker", "Proxy"}

NoTransaction == [state |-> "idle", handler |-> "none", secure |-> FALSE,
                  host |-> [name |-> NoName, port |-> "none"],
                  url |-> [host |-> NoHost, path |-> "page"], answers |-> 0]

Transaction == [state : {"idle", "routed", "answered"}, handler : Handler,
                secure : BOOLEAN, host : Host, url : URL, answers : Nat]

RouterInit ==
    /\ config \in Config
    /\ part = [p \in Part |-> "null"]
    /\ timer_ = [w \in Thread |-> "null"]
    /\ txn = [w \in Thread |-> NoTransaction]
    /\ redirected = {}

-----------------------------------------------------------------------------
(***************************************************************************)
(* Router::onRequest.                                                      *)
(***************************************************************************)
requestIsValid_NoSslPort(host) ==
    /\ host.name = config.protected_domain
    /\ host.port \in {"none", "port"}

requestIsValid(host) ==
    /\ host.name = config.protected_domain
    /\ \/ host.port \in {"none", "port"}
       \/ host.port = "ssl_port" /\ config.ssl_enabled

\* The Host field is missing, or empty.
noHost(host) == host.name = NoName /\ host.port = "none"

\* The service worker's own URL, which a URL in absolute form is not.
workerUrl == [host |-> NoHost, path |-> "worker"]

\* The direct header is looked at before the upgrade.
handlerFor_DirectFirst(m) ==
    IF ~requestIsValid(m.host) THEN "Reject"
    ELSE IF m.direct THEN "Direct"
    ELSE IF config.upgrade_insecure /\ ~m.secure THEN "Redirect"
    ELSE IF /\ config.enableServiceWorker /\ part["sw_"] # "null"
            /\ m.url = workerUrl
         THEN "ServiceWorker"
    ELSE "Proxy"

handlerFor(m) ==
    IF ~requestIsValid(m.host) THEN "Reject"
    ELSE IF config.upgrade_insecure /\ ~m.secure THEN "Redirect"
    ELSE IF m.direct THEN "Direct"
    ELSE IF /\ config.enableServiceWorker /\ part["sw_"] # "null"
            /\ m.url = workerUrl
         THEN "ServiceWorker"
    ELSE "Proxy"

\* A Host field that is missing is put in by proxygen, which has its own idea
\* of what to put there; one that is empty stays.
ensureHostHeader(m) ==
    {m} \cup {[m EXCEPT !.host = host] : host \in IF noHost(m.host) THEN Host ELSE {}}

\* proxygen hands a request to the router on the thread of its connection.
\* Only a server with a certificate has secure connections.
onRequest(w, m) ==
    /\ main = "serving" /\ timer_[w] = "live"
    /\ txn[w].state = "idle"
    /\ m.secure => config.ssl_enabled
    /\ \E sent \in ensureHostHeader(m) :
          txn' = [txn EXCEPT ![w] =
             [state |-> "routed", handler |-> handlerFor(sent), secure |-> sent.secure,
              host |-> sent.host, url |-> sent.url, answers |-> 0]]
    /\ UNCHANGED <<config, part, timer_, main, redirected>>

-----------------------------------------------------------------------------
(***************************************************************************)
(* The handlers' onRequest.                                                *)
(***************************************************************************)
answered(t, n) == [t EXCEPT !.state = "answered", !.answers = @ + n]

rejectRequest(w) ==
    /\ txn[w].state = "routed" /\ txn[w].handler = "Reject"
    /\ txn' = [txn EXCEPT ![w] = answered(@, 1)]
    /\ UNCHANGED <<config, part, timer_, main, redirected>>

\* The URL's host, also when it has none.
redirectHost_UrlOnly(t) == [name |-> t.url.host, port |-> "ssl_port"]

\* The host of the Location: that of the URL, or the Host field without port.
redirectHost(t) ==
    [name |-> IF t.url.host # NoHost THEN t.url.host ELSE t.host.name,
     port |-> "ssl_port"]

\* The request names no host at all.
noHostNamed_Inverted(t) == t.url.host = NoHost /\ ~noHost(t.host)

noHostNamed(t) == t.url.host = NoHost /\ noHost(t.host)

\* A noexcept function is left with an exception, or a null pointer followed.
endProcess == main' = "crashed" /\ UNCHANGED txn

\* There is no return after the 400.  substr(1) of an empty path throws in a
\* noexcept function.
redirectRequest(w) ==
    /\ txn[w].state = "routed" /\ txn[w].handler = "Redirect"
    /\ IF txn[w].url.path = "none"
       THEN endProcess /\ UNCHANGED redirected
       ELSE /\ txn' = [txn EXCEPT ![w] =
                         answered(@, IF noHostNamed(@) THEN 2 ELSE 1)]
            /\ redirected' = redirected \cup {redirectHost(txn[w])}
            /\ UNCHANGED main
    /\ UNCHANGED <<config, part, timer_>>

\* A direct request asks the network state if there is one.
asksNetwork(t) == t.handler = "Direct" /\ config.enableP2P /\ part["state_"] # "null"

\* The pointers a handler follows without looking at them: a proxy has content
\* to inject the service worker into.
uses(t) ==
    {p \in Part :
        \/ p = "cache_" /\ t.handler \in {"Direct", "Proxy"}
        \/ p = "state_" /\ asksNetwork(t)
        \/ p = "geo_" /\ asksNetwork(t) /\ config.geo_ip_enabled
        \/ p = "sw_" /\ \/ t.handler = "ServiceWorker"
                        \/ t.handler = "Proxy" /\ config.enableServiceWorker}

answerFromParts(w) ==
    IF \A p \in uses(txn[w]) : part[p] = "live"
    THEN txn' = [txn EXCEPT ![w] = answered(@, 1)] /\ UNCHANGED main
    ELSE endProcess

\* With geo IP on the search may find no tree, and an index may be out of range
\* when it is looked up.
directRequest(w) ==
    /\ txn[w].state = "routed" /\ txn[w].handler = "Direct"
    /\ \/ answerFromParts(w)
       \/ asksNetwork(txn[w]) /\ config.geo_ip_enabled /\ endProcess
    /\ UNCHANGED <<config, part, timer_, redirected>>

workerRequest(w) ==
    /\ txn[w].state = "routed" /\ txn[w].handler = "ServiceWorker"
    /\ answerFromParts(w)
    /\ UNCHANGED <<config, part, timer_, redirected>>

\* The proxy may also leave the client without an answer until it gives up.
proxyRequest(w) ==
    /\ txn[w].state = "routed" /\ txn[w].handler = "Proxy"
    /\ answerFromParts(w)
    /\ UNCHANGED <<config, part, timer_, redirected>>

\* delete this.  Before that the proxy caches the answer, and a map that is full
\* or a file that cannot be opened or written throws.
requestComplete(w) ==
    /\ txn[w].state = "answered"
    /\ \/ txn' = [txn EXCEPT ![w] = NoTransaction] /\ UNCHANGED main
       \/ txn[w].handler = "Proxy" /\ endProcess
    /\ UNCHANGED <<config, part, timer_, redirected>>

\* delete this.
onError(w) ==
    /\ txn[w].state \in {"routed", "answered"}
    /\ txn' = [txn EXCEPT ![w] = NoTransaction]
    /\ UNCHANGED <<config, part, timer_, main, redirected>>

handle(w) ==
    \/ rejectRequest(w) \/ redirectRequest(w)
    \/ directRequest(w) \/ workerRequest(w) \/ proxyRequest(w)

RouterNext ==
    /\ main \in {"serving", "stopping"}
    /\ \E w \in Thread :
          \/ \E m \in Message : onRequest(w, m)
          \/ handle(w)
          \/ requestComplete(w) \/ onError(w)

-----------------------------------------------------------------------------
\* The router's state is well formed.
RouterTypeOK ==
    /\ config \in ConfigType
    /\ part \in [Part -> Pointer]
    /\ timer_ \in [Thread -> Pointer]
    /\ txn \in [Thread -> Transaction]
    /\ redirected \subseteq Host

\* A request gets one response, whichever handler it got.  The one exception is
\* a server that protects the empty domain: the redirect handler goes on after
\* its 400 for a request that names no host.
OneResponse ==
    config.protected_domain # NoName => \A w \in Thread : txn[w].answers <= 1

\* A client that follows a redirect to this site is neither redirected again
\* nor rejected: requestIsValid knows the port that RedirectHandler sends
\* clients to, and the upgrade is over with a secure connection.
RedirectsLeadToContent ==
    \A w \in Thread :
        /\ txn[w].state # "idle" /\ txn[w].secure
        /\ txn[w].host \in redirected
        /\ txn[w].host.name = config.protected_domain
        => txn[w].handler \notin {"Reject", "Redirect"}

\* With the upgrade on, nothing of the site, of the service worker or of the
\* edge nodes is given out over an insecure connection, and never anything of
\* the site to a request for another host.
ContentOnlyWhereConfigured ==
    \A w \in Thread :
        txn[w].handler \in {"Direct", "ServiceWorker", "Proxy"} =>
            /\ config.upgrade_insecure => txn[w].secure
            /\ txn[w].host.name = config.protected_domain

\* What the handler of a transaction uses is there: the timer of its thread and
\* every part whose pointer it follows.  With P2P enabled the network state is
\* one of them: a direct request never takes it for switched off.
RequestsFindTheirParts ==
    \A w \in Thread : txn[w].state # "idle" =>
        /\ timer_[w] = "live"
        /\ \A p \in uses(txn[w]) : part[p] = "live"
        /\ txn[w].handler = "Direct" /\ config.enableP2P => part["state_"] = "live"
=============================================================================
