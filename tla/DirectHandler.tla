---------------------------- MODULE DirectHandler ----------------------------
(***************************************************************************)
(* The handler of direct requests (DirectHandler.cpp): it tells the        *)
(* service worker in a browser which edge nodes to ask and under which     *)
(* hash each cached URL is stored there.  onRequest reads the tree and the *)
(* list of the network state and the map of the cache, each under a lock   *)
(* of its own, while the poller and the other request threads run.         *)
(*                                                                         *)
(* The other request threads are the cache on its own (CacheNext): the     *)
(* proxy does nothing to it but that.                                      *)
(***************************************************************************)
EXTENDS ContentCache, NetworkState

CONSTANT Direct   \* the direct requests being handled

\* One option of the configuration enables the disk writes, the network state
\* and its use by the handler.
enableP2P == WriteToDisk

VARIABLE direct   \* direct[d]: the locals of onRequest

directVars == <<cacheVars, networkVars, direct>>

-----------------------------------------------------------------------------
\* tree, overtaken: history, for the properties.  The list that the tree was
\* built from when it was searched, and whether the poller has published, or
\* was publishing, since.
DirectRequest ==
    [pc : {"idle", "lookup", "assets", "replied"},
     indices : Seq(Nat), nodes : Seq(Node), before : SUBSET Url,
     hashes : [Url -> Hash \cup {NoHash}], tree : Seq(Node), overtaken : BOOLEAN]

NewDirectRequest ==
    [pc |-> "idle", indices |-> <<>>, nodes |-> <<>>, before |-> {},
     hashes |-> [u \in Url |-> NoHash], tree |-> <<>>, overtaken |-> FALSE]

DirectInit ==
    /\ CacheInit
    /\ NetworkInit
    /\ direct = [d \in Direct |-> NewDirectRequest]

-----------------------------------------------------------------------------
(***************************************************************************)
(* DirectHandler::onRequest, in the order of its reads.                    *)
(***************************************************************************)

\* From the list of edge nodes on to the asset hashes: iterating over the map
\* finds at least what is in it now.
assetsNext(request, nodes) ==
    [request EXCEPT !.pc = "assets", !.nodes = nodes, !.before = Cached]

\* The client's nearest nodes: search the tree.  Before the first report there
\* is no tree, and the null pointer ends the process.
searchTree(d) ==
    /\ up /\ direct[d].pc = "idle"
    /\ enableP2P /\ geo
    /\ IF treeData_ = NoTree
       THEN up' = FALSE /\ UNCHANGED direct
       ELSE /\ \E p \in Place : \E indices \in getNearestNodes(treeData_, p) :
                  direct' = [direct EXCEPT ![d] =
                      [@ EXCEPT !.pc = "lookup", !.indices = indices,
                                !.tree = treeData_, !.overtaken = newList # NoList]]
            /\ UNCHANGED up
    /\ UNCHANGED <<map_, stage, target, files, torn, networkVars>>

\* edgeNodes_.rlock()->at(i) for one index.  Out of range it throws, and the
\* exception leaves a noexcept function and ends the process.
lookupNode(d) ==
    /\ up /\ direct[d].pc = "lookup"
    /\ LET request == direct[d]
           i == request.indices[Len(request.nodes) + 1]
           nodes == Append(request.nodes, edgeNodes_[i])
       IN IF i \notin DOMAIN edgeNodes_
          THEN up' = FALSE /\ UNCHANGED direct
          ELSE /\ direct' = [direct EXCEPT ![d] =
                      IF Len(nodes) = Len(request.indices) THEN assetsNext(@, nodes)
                      ELSE [@ EXCEPT !.nodes = nodes]]
               /\ UNCHANGED up
    /\ UNCHANGED <<map_, stage, target, files, torn, networkVars>>

\* Without geo IP all nodes are given, and without P2P none.
copyNodes(d) ==
    /\ up /\ direct[d].pc = "idle"
    /\ ~(enableP2P /\ geo)
    /\ direct' = [direct EXCEPT ![d] =
                     assetsNext(@, IF enableP2P THEN getEdgeNodes ELSE <<>>)]
    /\ UNCHANGED <<cacheVars, networkVars>>

\* ContentCache::getAssetHashMap, which may or may not see what is inserted
\* while it iterates, and the answer.
sendAssets(d) ==
    /\ up /\ direct[d].pc = "assets"
    /\ \E seen \in SUBSET Cached :
          /\ direct[d].before \subseteq seen
          /\ direct' = [direct EXCEPT ![d].pc = "replied",
                            ![d].hashes = [u \in Url |-> IF u \in seen
                                              THEN getHash(map_[u]) ELSE NoHash]]
    /\ UNCHANGED <<cacheVars, networkVars>>

\* requestComplete or onError: delete this.
finish(d) ==
    /\ up /\ direct[d].pc = "replied"
    /\ direct' = [direct EXCEPT ![d] = NewDirectRequest]
    /\ UNCHANGED <<cacheVars, networkVars>>

onRequest(d) == searchTree(d) \/ lookupNode(d) \/ copyNodes(d) \/ sendAssets(d)

-----------------------------------------------------------------------------
\* The poller's thread, which runs only with P2P enabled.
poll ==
    /\ up /\ enableP2P
    /\ \/ /\ parseFetched \/ swapEdgeNodes
          /\ direct' = [d \in Direct |-> [direct[d] EXCEPT
                            !.overtaken = @ \/ direct[d].pc = "lookup"]]
       \/ (fetch \/ pollFails) /\ UNCHANGED direct
    /\ UNCHANGED cacheVars

otherThreads == up /\ CacheNext /\ UNCHANGED <<networkVars, direct>>

\* A new process.
restartAll ==
    /\ Restart
    /\ edgeNodes_' = <<>> /\ treeData_' = NoTree /\ newList' = NoList
    /\ geo' \in (IF GeoIpEnabled THEN BOOLEAN ELSE {FALSE})
    /\ fetched' = NoReport
    /\ direct' = [d \in Direct |-> NewDirectRequest]

DirectNext ==
    \/ \E d \in Direct : onRequest(d) \/ finish(d)
    \/ poll
    \/ otherThreads
    \/ restartAll

DirectSpec == DirectInit /\ [][DirectNext]_directVars

-----------------------------------------------------------------------------
\* The cache, the network state and the requests are well formed.
DirectTypeOK ==
    /\ CacheTypeOK
    /\ NetworkTypeOK
    /\ direct \in [Direct -> DirectRequest]

\* The nodes given so far are those the tree found.
GivenAsFound(d) ==
    \A i \in 1..found(direct[d].tree) :
        i \in DOMAIN direct[d].nodes =>
            direct[d].nodes[i] = direct[d].tree[direct[d].indices[i]]

\* With geo IP on a client is given the nodes that were found to be nearest to
\* it, provided that no list was being published while they were looked up:
\* tree and list are of one generation whenever the poller rests.
FoundUnlessOvertaken ==
    \A d \in Direct :
        direct[d].indices # <<>> /\ ~direct[d].overtaken => GivenAsFound(d)

\* The indices that getNearestNodes returns can be used to look up the nodes in
\* the network state, as Geo says: each that was found names the node found.
\* Not so when a list is published meanwhile.  An index that names no node at
\* all throws out of a noexcept function.
IndicesNameTheirNodes ==
    \A d \in Direct : direct[d].pc = "lookup" =>
        LET i == Len(direct[d].nodes) + 1
            index == direct[d].indices[i]
        IN i <= found(direct[d].tree) =>
              index \in DOMAIN edgeNodes_ /\ edgeNodes_[index] = direct[d].tree[index]

\* A client is given up to NearestCount edge nodes, as getNearestEdgeNodes says.
\* Not so when there are fewer: the first one then fills the rest.
UpToNearestCount ==
    \A d \in Direct : \A i, j \in DOMAIN direct[d].nodes :
        direct[d].nodes[i] = direct[d].nodes[j] => i = j

\* A direct request ends the process only before the first report, when the
\* report has no usable node, or when a list is published during the lookup.
SurvivesUnlessEmptyOrOvertaken ==
    [][\A d \in Direct :
          searchTree(d) \/ lookupNode(d) =>
              \/ up'
              \/ treeData_ = NoTree
              \/ direct[d].tree = <<>>
              \/ direct[d].overtaken]_directVars

\* A hash that a client has been given names a complete file of the cache
\* directory, or one that a thread is about to write.
GivenHashesReachDisk ==
    \A d \in Direct : \A u \in Url :
        LET hash == direct[d].hashes[u]
        IN enableP2P /\ hash # NoHash => hash \in files \ torn \/ WillWrite(hash)
=============================================================================
