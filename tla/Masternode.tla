----------------------------- MODULE Masternode -----------------------------
(***************************************************************************)
(* The life of the process (MasternodeServer.cpp, Masternode.cpp, and the  *)
(* constructors and destructors of the parts): the parts are made one by   *)
(* one, the poller is started before the server binds its ports, each I/O  *)
(* thread makes its timer, requests come, and a signal stops the server.   *)
(* The parts are then destroyed while the poller's thread may still be in  *)
(* the middle of a fetch.                                                  *)
(***************************************************************************)
EXTENDS Router

VARIABLE poller   \* the thread of the FunctionScheduler

masternodeVars == <<routerVars, poller>>

-----------------------------------------------------------------------------
MasternodeInit ==
    /\ RouterInit
    /\ main = "state"
    /\ poller = "none"

Alive == main \notin {"exited", "crashed"}

made(parts) == [p \in Part |-> IF p \in parts THEN "live" ELSE part[p]]
freed(parts) ==
    [p \in Part |-> IF p \in parts /\ part[p] = "live" THEN "freed" ELSE part[p]]

(***************************************************************************)
(* Masternode::Masternode.                                                 *)
(***************************************************************************)

\* The option stays on when the database does not load.
makeState_KeepsGeoIp ==
    /\ main = "state" /\ main' = "cache"
    /\ \/ ~config.enableP2P /\ UNCHANGED part
       \/ config.enableP2P /\ part' = made({"state_", "httpClient_"})
       \/ /\ config.enableP2P /\ config.geo_ip_enabled
          /\ part' = made({"state_", "httpClient_", "geo_"})
    /\ UNCHANGED <<config, timer_, txn, redirected, poller>>

\* A database that does not load throws out of the constructor.
makeState_Uncaught ==
    /\ main = "state"
    /\ \/ ~config.enableP2P /\ main' = "cache" /\ UNCHANGED part
       \/ config.enableP2P /\ ~config.geo_ip_enabled
             /\ main' = "cache" /\ part' = made({"state_", "httpClient_"})
       \/ config.enableP2P /\ config.geo_ip_enabled
             /\ main' = "cache" /\ part' = made({"state_", "httpClient_", "geo_"})
       \/ config.enableP2P /\ config.geo_ip_enabled
             /\ main' = "crashed" /\ UNCHANGED part
    /\ UNCHANGED <<config, timer_, txn, redirected, poller>>

\* NetworkState::NetworkState.  Geo IP is turned off, for all parts, when the
\* database does not load.
makeState ==
    /\ main = "state" /\ main' = "cache"
    /\ \/ ~config.enableP2P /\ UNCHANGED <<part, config>>
       \/ /\ config.enableP2P
          /\ part' = made({"state_", "httpClient_"})
          /\ config' = [config EXCEPT !.geo_ip_enabled = FALSE]
       \/ /\ config.enableP2P /\ config.geo_ip_enabled
          /\ part' = made({"state_", "httpClient_", "geo_"})
          /\ UNCHANGED config
    /\ UNCHANGED <<timer_, txn, redirected, poller>>

makeCache ==
    /\ main = "cache" /\ main' = "sw"
    /\ part' = made({"cache_"})
    /\ UNCHANGED <<config, timer_, txn, redirected, poller>>

\* ServiceWorker::ServiceWorker ends the process when it cannot read the script.
makeServiceWorker ==
    /\ main = "sw"
    /\ \/ ~config.enableServiceWorker /\ main' = "server" /\ UNCHANGED part
       \/ config.enableServiceWorker /\ main' = "server" /\ part' = made({"sw_"})
       \/ config.enableServiceWorker /\ main' = "crashed" /\ UNCHANGED part
    /\ UNCHANGED <<config, timer_, txn, redirected, poller>>

\* The router and the server that owns it.
makeServer ==
    /\ main = "server" /\ main' = "start"
    /\ part' = made({"server_"})
    /\ UNCHANGED <<config, timer_, txn, redirected, poller>>

(***************************************************************************)
(* Masternode::start, on a thread of its own, and the I/O threads.         *)
(***************************************************************************)
beginPolling ==
    /\ main = "start" /\ main' = "bind"
    /\ poller' = IF config.enableP2P THEN "resting" ELSE poller
    /\ UNCHANGED <<config, part, timer_, txn, redirected>>

\* A port that is taken throws, and nothing catches it.
bind ==
    /\ main = "bind" /\ main' \in {"serving", "crashed"}
    /\ UNCHANGED <<config, part, timer_, txn, redirected, poller>>

onServerStart(w) ==
    /\ main = "serving" /\ timer_[w] = "null"
    /\ timer_' = [timer_ EXCEPT ![w] = "live"]
    /\ UNCHANGED <<config, part, main, txn, redirected, poller>>

\* SIGINT, SIGTERM or Masternode::stop, once the server runs.
stop ==
    /\ main = "serving" /\ main' = "stopping"
    /\ UNCHANGED <<config, part, timer_, txn, redirected, poller>>

\* A thread ends when its connections are dropped.
onServerStop(w) ==
    /\ main = "stopping" /\ timer_[w] = "live"
    /\ txn[w].state = "idle"
    /\ timer_' = [timer_ EXCEPT ![w] = "null"]
    /\ UNCHANGED <<config, part, main, txn, redirected, poller>>

(***************************************************************************)
(* The destructors, at the end of main.  The members of Masternode only    *)
(* count references; the last are those of the router, in the server.      *)
(***************************************************************************)
destroy ==
    /\ main = "stopping"
    /\ \A w \in Thread : timer_[w] = "null"
    /\ main' = "shutdown"
    /\ part' = freed({"sw_"})
    /\ UNCHANGED <<config, timer_, txn, redirected, poller>>

\* The members are destroyed with the scheduler still running: geo_ and
\* httpClient_ come before it.
shutdown_MembersFirst ==
    /\ main = "shutdown" /\ main' = "exited"
    /\ part' = freed(Part)
    /\ UNCHANGED <<config, timer_, txn, redirected, poller>>

\* NetworkState::~NetworkState waits for the scheduler's thread before any of
\* the members is destroyed; the cache and the server follow.
shutdown ==
    /\ main = "shutdown" /\ main' = "exited"
    /\ poller \in {"none", "resting"} /\ poller' = "none"
    /\ part' = freed(Part)
    /\ UNCHANGED <<config, timer_, txn, redirected>>

(***************************************************************************)
(* The poller.  Whether the fetch returns is up to the gateway.            *)
(***************************************************************************)
fetch ==
    /\ Alive /\ main # "shutdown"
    /\ poller = "resting" /\ poller' = "fetching"
    /\ UNCHANGED routerVars

fetched ==
    /\ main # "crashed"
    /\ poller = "fetching" /\ poller' \in {"resting", "parsing"}
    /\ UNCHANGED routerVars

\* Publishing the list needs a lock that main holds while it destroys.
parsed_NeedsMain ==
    /\ main \notin {"crashed", "shutdown"}
    /\ poller = "parsing" /\ poller' = "resting"
    /\ UNCHANGED routerVars

parsed ==
    /\ main # "crashed"
    /\ poller = "parsing" /\ poller' = "resting"
    /\ UNCHANGED routerVars

-----------------------------------------------------------------------------
mainNext ==
    \/ makeState \/ makeCache \/ makeServiceWorker \/ makeServer
    \/ beginPolling \/ bind \/ stop \/ destroy \/ shutdown

MasternodeNext ==
    \/ mainNext
    \/ \E w \in Thread : onServerStart(w) \/ onServerStop(w)
    \/ RouterNext /\ UNCHANGED poller
    \/ fetch \/ fetched \/ parsed

MasternodeSpec == MasternodeInit /\ [][MasternodeNext]_masternodeVars

\* When the server is stopped it drops what is left of its connections.
drop(w) == main = "stopping" /\ onError(w) /\ UNCHANGED poller

\* The threads run on, and a signal may but need not come.  Nothing is said of
\* the end of a fetch.
MasternodeFairness ==
    /\ WF_masternodeVars(destroy) /\ WF_masternodeVars(shutdown)
    /\ WF_masternodeVars(parsed)
    /\ \A w \in Thread :
          WF_masternodeVars(drop(w)) /\ WF_masternodeVars(onServerStop(w))

FairMasternodeSpec == MasternodeSpec /\ MasternodeFairness

-----------------------------------------------------------------------------
\* The process's state is well formed.
MasternodeTypeOK ==
    /\ RouterTypeOK
    /\ main \in {"state", "cache", "sw", "server", "start", "bind", "serving",
                 "stopping", "shutdown", "exited", "crashed"}
    /\ poller \in {"none", "resting", "fetching", "parsing"}

\* The poller uses the HTTP client while it fetches, and the geographic index
\* while it parses: from the first fetch, which comes before the server is up,
\* to the last, during which main may already be destroying the parts.
PollerFindsItsParts ==
    main # "crashed" =>
        /\ poller \in {"fetching", "parsing"} =>
              part["state_"] = "live" /\ part["httpClient_"] = "live"
        /\ poller = "parsing" /\ config.geo_ip_enabled => part["geo_"] = "live"

\* A request that may end the process: a redirect without a path; a direct
\* request that searches the index; a proxied one that is over and is cached.
MayEnd(t) ==
    \/ t.handler = "Redirect" /\ t.url.path = "none"
    \/ t.handler = "Direct" /\ config.enableP2P /\ config.geo_ip_enabled /\ part["geo_"] = "live"
    \/ t.handler = "Proxy" /\ t.state = "answered"

\* The process ends when the service worker's script cannot be read, when its
\* ports are taken, when it is told to stop, or with one of the requests above;
\* and never because the geo IP database does not load or because a handler
\* follows a pointer to a part that was not made or is gone.
EndsForAReason ==
    [][/\ main \notin {"crashed", "exited"} /\ main' \in {"crashed", "exited"}
       => main \in {"sw", "bind", "shutdown"} \/ \E w \in Thread : MayEnd(txn[w])
      ]_masternodeVars

\* A server that is told to stop ends, unless the gateway neither answers nor
\* hangs up: then the destructor waits for the fetch for ever.
StopsUnlessGatewaySilent ==
    main = "stopping" ~> (main \in {"exited", "crashed"} \/ [](poller = "fetching"))
=============================================================================
