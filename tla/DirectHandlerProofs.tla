------------------------ MODULE DirectHandlerProofs ------------------------
(***************************************************************************)
(* Proofs about direct requests, for any number of requests, edge nodes,   *)
(* reports, places and caching threads: the state is well formed; a client *)
(* is given the nodes that were found unless a list is published during    *)
(* the lookups; a request ends the process in known cases only; and the    *)
(* hashes it gives name files that are or will be written.                 *)
(***************************************************************************)
EXTENDS DirectHandler, ContentCacheProofs, NetworkStateProofs

-----------------------------------------------------------------------------
(***************************************************************************)
(* Types.                                                                  *)
(***************************************************************************)
LEMMA NewRequestType == NewDirectRequest \in DirectRequest
  BY DEF NewDirectRequest, DirectRequest

\* Ending the process leaves the rest of the cache as it is.
LEMMA CrashKeepsTypes ==
    ASSUME CacheTypeOK, up' \in BOOLEAN, UNCHANGED <<map_, stage, target, files, torn>>
    PROVE  CacheTypeOK'
  BY DEF CacheTypeOK

LEMMA SearchTypes ==
    ASSUME DirectTypeOK, NEW d \in Direct, searchTree(d)
    PROVE  DirectTypeOK'
  <1>. USE DEF DirectTypeOK
  <1>1. up' \in BOOLEAN
    BY DEF searchTree, CacheTypeOK
  <1>2. CacheTypeOK'
    BY <1>1, CrashKeepsTypes DEF searchTree
  <1>3. NetworkTypeOK'
    BY DEF searchTree, networkVars, listVars, NetworkTypeOK
  <1>4. CASE treeData_ = NoTree
    BY <1>2, <1>3, <1>4 DEF searchTree
  <1>5. CASE treeData_ # NoTree
    <2>1. PICK p \in Place : \E indices \in getNearestNodes(treeData_, p) :
             direct' = [direct EXCEPT ![d] =
                 [@ EXCEPT !.pc = "lookup", !.indices = indices,
                           !.tree = treeData_, !.overtaken = newList # NoList]]
      BY <1>5 DEF searchTree
    <2>2. PICK indices \in getNearestNodes(treeData_, p) :
             direct' = [direct EXCEPT ![d] =
                 [@ EXCEPT !.pc = "lookup", !.indices = indices,
                           !.tree = treeData_, !.overtaken = newList # NoList]]
      BY <2>1
    <2>3. treeData_ \in Seq(Node)
      BY <1>5 DEF NetworkTypeOK
    <2>4. indices \in Seq(Nat)
      BY <2>3, IndicesType
    <2>5. direct' \in [Direct -> DirectRequest]
      <3>1. direct[d] \in DirectRequest
        OBVIOUS
      <3>2. [direct[d] EXCEPT !.pc = "lookup", !.indices = indices, !.tree = treeData_,
                              !.overtaken = newList # NoList] \in DirectRequest
        BY <3>1, <2>3, <2>4 DEF DirectRequest
      <3>. QED  BY <2>2, <3>2
    <2>. QED  BY <1>2, <1>3, <2>5
  <1>. QED  BY <1>4, <1>5

LEMMA LookupTypes ==
    ASSUME DirectTypeOK, NEW d \in Direct, lookupNode(d)
    PROVE  DirectTypeOK'
  <1>. USE DEF DirectTypeOK
  <1>. DEFINE i == direct[d].indices[Len(direct[d].nodes) + 1]
              nodes == Append(direct[d].nodes, edgeNodes_[i])
  <1>1. up' \in BOOLEAN
    BY DEF lookupNode, CacheTypeOK
  <1>2. CacheTypeOK'
    BY <1>1, CrashKeepsTypes DEF lookupNode
  <1>3. NetworkTypeOK'
    BY DEF lookupNode, networkVars, listVars, NetworkTypeOK
  <1>4. CASE i \notin DOMAIN edgeNodes_
    BY <1>2, <1>3, <1>4 DEF lookupNode
  <1>5. CASE i \in DOMAIN edgeNodes_
    <2>1. nodes \in Seq(Node)
      BY <1>5 DEF NetworkTypeOK, DirectRequest
    <2>2. direct' = [direct EXCEPT ![d] =
                IF Len(nodes) = Len(direct[d].indices) THEN assetsNext(@, nodes)
                ELSE [@ EXCEPT !.nodes = nodes]]
      BY <1>5 DEF lookupNode
    <2>3. Cached \in SUBSET Url
      BY DEF Cached
    <2>4. direct' \in [Direct -> DirectRequest]
      <3>. HIDE DEF nodes
      <3>1. direct[d] \in DirectRequest
        OBVIOUS
      <3>2. assetsNext(direct[d], nodes) \in DirectRequest
        BY <2>1, <2>3, <3>1 DEF DirectRequest, assetsNext
      <3>3. [direct[d] EXCEPT !.nodes = nodes] \in DirectRequest
        BY <2>1, <3>1 DEF DirectRequest
      <3>. QED  BY <2>2, <3>2, <3>3
    <2>. QED  BY <1>2, <1>3, <2>4
  <1>. QED  BY <1>4, <1>5

LEMMA ReplyTypesDirect ==
    ASSUME DirectTypeOK, NEW d \in Direct,
           copyNodes(d) \/ sendAssets(d) \/ finish(d)
    PROVE  DirectTypeOK'
  <1>. USE DEF DirectTypeOK
  <1>1. UNCHANGED <<cacheVars, networkVars>>
    BY DEF copyNodes, sendAssets, finish
  <1>2. CacheTypeOK' /\ NetworkTypeOK'
    BY <1>1 DEF cacheVars, networkVars, listVars, CacheTypeOK, NetworkTypeOK
  <1>3. CASE copyNodes(d)
    <2>1. (IF enableP2P THEN getEdgeNodes ELSE <<>>) \in Seq(Node)
      BY DEF getEdgeNodes, NetworkTypeOK
    <2>2. Cached \in SUBSET Url
      BY DEF Cached
    <2>3. direct' \in [Direct -> DirectRequest]
      <3>. DEFINE nodes == IF enableP2P THEN getEdgeNodes ELSE <<>>
      <3>1. direct' = [direct EXCEPT ![d] = assetsNext(@, nodes)]
        BY <1>3 DEF copyNodes
      <3>. HIDE DEF nodes
      <3>2. assetsNext(direct[d], nodes) \in DirectRequest
        <4>1. nodes \in Seq(Node)
          BY <2>1 DEF nodes
        <4>. QED  BY <2>2, <4>1 DEF assetsNext, DirectRequest
      <3>. QED  BY <3>1, <3>2
    <2>. QED  BY <1>2, <2>3
  <1>4. CASE sendAssets(d)
    <2>1. PICK seen \in SUBSET Cached :
             direct' = [direct EXCEPT ![d].pc = "replied",
                          ![d].hashes = [u \in Url |-> IF u \in seen
                                            THEN getHash(map_[u]) ELSE NoHash]]
      BY <1>4 DEF sendAssets
    <2>2. ASSUME NEW u \in Cached PROVE getHash(map_[u]) \in Hash
      BY <2>2 DEF Cached, CacheTypeOK, CachedRoute, IOBuf, getHash, Hash
    <2>. DEFINE hashes == [u \in Url |-> IF u \in seen
                                       THEN getHash(map_[u]) ELSE NoHash]
    <2>3. hashes \in [Url -> Hash \cup {NoHash}]
      BY <2>2
    <2>4. direct' \in [Direct -> DirectRequest]
      <3>1. direct' = [direct EXCEPT ![d].pc = "replied", ![d].hashes = hashes]
        BY <2>1
      <3>. HIDE DEF hashes
      <3>2. [direct[d] EXCEPT !.pc = "replied", !.hashes = hashes] \in DirectRequest
        BY <2>3 DEF DirectRequest
      <3>3. direct' = [direct EXCEPT ![d] =
                          [direct[d] EXCEPT !.pc = "replied", !.hashes = hashes]]
        BY <3>1
      <3>. QED  BY <3>2, <3>3
    <2>. QED  BY <1>2, <2>4
  <1>5. CASE finish(d)
    <2>1. direct' \in [Direct -> DirectRequest]
      BY <1>5, NewRequestType DEF finish
    <2>. QED  BY <1>2, <2>1
  <1>. QED  BY <1>3, <1>4, <1>5

LEMMA PollTypes ==
    ASSUME DirectTypeOK, poll
    PROVE  DirectTypeOK'
  <1>1. CacheTypeOK'
    BY DEF poll, cacheVars, CacheTypeOK, DirectTypeOK
  <1>2. NetworkTypeOK'
    BY PollKeepsTypes DEF poll, NetworkNext, DirectTypeOK
  <1>3. ASSUME NEW d \in Direct
        PROVE  [direct[d] EXCEPT !.overtaken = @ \/ direct[d].pc = "lookup"] \in DirectRequest
    BY DEF DirectTypeOK, DirectRequest
  <1>4. direct' \in [Direct -> DirectRequest]
    BY <1>3 DEF poll, DirectTypeOK
  <1>. QED  BY <1>1, <1>2, <1>4 DEF DirectTypeOK

LEMMA OtherTypes ==
    ASSUME DirectTypeOK,
           otherThreads \/ restartAll \/ UNCHANGED directVars
    PROVE  DirectTypeOK'
  <1>. USE DEF DirectTypeOK
  <1>1. CASE otherThreads
    BY <1>1, NextKeepsTypes DEF otherThreads, networkVars, listVars, NetworkTypeOK
  <1>2. CASE restartAll
    <2>1. CacheTypeOK'
      BY <1>2, NextKeepsTypes DEF restartAll, CacheNext
    <2>2. geo' \in BOOLEAN
      BY <1>2, Zenon DEF restartAll
    <2>3. NetworkTypeOK'
      BY <1>2, <2>2 DEF restartAll, NetworkTypeOK
    <2>. QED  BY <1>2, <2>1, <2>3, NewRequestType DEF restartAll
  <1>3. CASE UNCHANGED directVars
    BY <1>3 DEF directVars, cacheVars, networkVars, listVars, CacheTypeOK, NetworkTypeOK
  <1>. QED  BY <1>1, <1>2, <1>3

LEMMA NextKeepsDirectTypes ==
    ASSUME DirectTypeOK, [DirectNext]_directVars
    PROVE  DirectTypeOK'
  BY SearchTypes, LookupTypes, ReplyTypesDirect, PollTypes, OtherTypes
     DEF DirectNext, onRequest

LEMMA InitDirectTypes == DirectInit => DirectTypeOK
  BY InitTypes, InitNetworkTypes, NewRequestType DEF DirectInit, DirectTypeOK

\* The cache, the network state and the requests stay well formed.
THEOREM DirectTypeCorrect == DirectSpec => []DirectTypeOK
  BY InitDirectTypes, NextKeepsDirectTypes, PTL DEF DirectSpec

-----------------------------------------------------------------------------
(***************************************************************************)
(* Tree and list.  They are of one generation while the poller rests, and  *)
(* a lookup that was not overtaken started, and has stayed, in such a      *)
(* moment: the list then is the one the tree was searched for.             *)
(***************************************************************************)
OneGeneration ==
    /\ newList # NoList => newList = treeData_
    /\ newList = NoList /\ treeData_ # NoTree => edgeNodes_ = treeData_

\* A request starts from nothing, has indices of the tree still to look up
\* while it is looking up, and has looked them up in the list of that tree.
Lookup(d) ==
    /\ direct[d].pc = "idle" => direct[d] = NewDirectRequest
    /\ direct[d].pc = "lookup" =>
          /\ Len(direct[d].indices) = NearestCount
          /\ Len(direct[d].nodes) < NearestCount
          /\ \A i \in 1..NearestCount : direct[d].indices[i] \in DOMAIN direct[d].tree \cup {1}
          /\ ~direct[d].overtaken => newList = NoList /\ edgeNodes_ = direct[d].tree
    /\ direct[d].indices # <<>> /\ ~direct[d].overtaken => GivenAsFound(d)

LookupInv == OneGeneration /\ \A d \in Direct : Lookup(d)

LEMMA InitLookupInv == DirectInit => LookupInv
  BY DEF DirectInit, NetworkInit, LookupInv, OneGeneration, Lookup, NewDirectRequest

\* A request that takes no step is not disturbed but by the poller.
LEMMA LookupFrame ==
    ASSUME NEW d \in Direct, Lookup(d), direct'[d] = direct[d],
           UNCHANGED <<edgeNodes_, newList>>
    PROVE  Lookup(d)'
  BY DEF Lookup, GivenAsFound, found

\* A request's own step leaves the others alone, and the network state.
LEMMA DirectFrame ==
    ASSUME DirectTypeOK, NEW d \in Direct, onRequest(d) \/ finish(d)
    PROVE  /\ UNCHANGED networkVars
           /\ \A e \in Direct \ {d} : direct'[e] = direct[e]
  <1>1. CASE searchTree(d)
    BY <1>1 DEF searchTree, DirectTypeOK
  <1>2. CASE lookupNode(d)
    BY <1>2 DEF lookupNode, DirectTypeOK
  <1>3. CASE copyNodes(d) \/ sendAssets(d) \/ finish(d)
    BY <1>3 DEF copyNodes, sendAssets, finish, DirectTypeOK
  <1>. QED  BY <1>1, <1>2, <1>3 DEF onRequest

LEMMA SearchLookup ==
    ASSUME DirectTypeOK, LookupInv, NEW d \in Direct, searchTree(d)
    PROVE  Lookup(d)'
  <1>1. CASE treeData_ = NoTree
    BY <1>1, LookupFrame DEF searchTree, networkVars, listVars, LookupInv
  <1>2. CASE treeData_ # NoTree
    <2>1. PICK p \in Place : \E indices \in getNearestNodes(treeData_, p) :
             direct' = [direct EXCEPT ![d] =
                 [@ EXCEPT !.pc = "lookup", !.indices = indices,
                           !.tree = treeData_, !.overtaken = newList # NoList]]
      BY <1>2 DEF searchTree
    <2>2. PICK indices \in getNearestNodes(treeData_, p) :
             direct' = [direct EXCEPT ![d] =
                 [@ EXCEPT !.pc = "lookup", !.indices = indices,
                           !.tree = treeData_, !.overtaken = newList # NoList]]
      BY <2>1
    <2>3. direct[d] = NewDirectRequest /\ direct[d] \in DirectRequest
      BY DEF searchTree, LookupInv, Lookup, DirectTypeOK
    <2>4. /\ direct'[d].pc = "lookup" /\ direct'[d].indices = indices
          /\ direct'[d].tree = treeData_ /\ direct'[d].nodes = <<>>
          /\ direct'[d].overtaken = (newList # NoList)
      BY <2>2, <2>3 DEF NewDirectRequest, DirectRequest, DirectTypeOK
    <2>5. treeData_ \in Seq(Node)
      BY <1>2 DEF DirectTypeOK, NetworkTypeOK
    <2>6. /\ Len(indices) = NearestCount
          /\ \A i \in 1..NearestCount : indices[i] \in DOMAIN treeData_ \cup {1}
      BY <2>5, IndicesType
    <2>7. newList = NoList => edgeNodes_ = treeData_
      BY <1>2 DEF LookupInv, OneGeneration
    <2>8. GivenAsFound(d)'
      BY <2>4 DEF GivenAsFound
    <2>9. UNCHANGED <<edgeNodes_, newList>>
      BY DEF searchTree, networkVars, listVars
    <2>10. Len(direct'[d].nodes) < NearestCount
      BY <2>4, NetworkAssumption
    <2>11. ~direct'[d].overtaken => newList' = NoList /\ edgeNodes_' = direct'[d].tree
      BY <2>4, <2>7, <2>9
    <2>12. \A i \in 1..NearestCount : direct'[d].indices[i] \in DOMAIN direct'[d].tree \cup {1}
      BY <2>4, <2>6
    <2>. QED  BY <2>4, <2>6, <2>8, <2>10, <2>11, <2>12 DEF Lookup
  <1>. QED  BY <1>1, <1>2

LEMMA LookupLookup ==
    ASSUME DirectTypeOK, LookupInv, NEW d \in Direct, lookupNode(d)
    PROVE  Lookup(d)'
  <1>. DEFINE request == direct[d]
              next == Len(request.nodes) + 1
              i == request.indices[next]
              nodes == Append(request.nodes, edgeNodes_[i])
  <1>1. CASE i \notin DOMAIN edgeNodes_
    BY <1>1, LookupFrame DEF lookupNode, networkVars, listVars, LookupInv
  <1>2. CASE i \in DOMAIN edgeNodes_
    <2>1. /\ request.pc = "lookup" /\ request \in DirectRequest
          /\ Lookup(d)
          /\ UNCHANGED <<edgeNodes_, newList>>
      BY DEF lookupNode, DirectTypeOK, LookupInv, networkVars, listVars
    <2>2. direct' = [direct EXCEPT ![d] =
                IF Len(nodes) = Len(request.indices) THEN assetsNext(@, nodes)
                ELSE [@ EXCEPT !.nodes = nodes]]
      BY <1>2 DEF lookupNode
    <2>3. /\ nodes \in Seq(Node) /\ Len(nodes) = next /\ nodes[next] = edgeNodes_[i]
          /\ \A j \in 1..Len(request.nodes) : nodes[j] = request.nodes[j]
          /\ next \in Nat
      BY <1>2, <2>1 DEF DirectRequest, DirectTypeOK, NetworkTypeOK
    <2>. HIDE DEF nodes
    <2>4. /\ direct'[d].nodes = nodes /\ direct'[d].indices = request.indices
          /\ direct'[d].tree = request.tree /\ direct'[d].overtaken = request.overtaken
          /\ direct'[d].pc = IF Len(nodes) = Len(request.indices) THEN "assets" ELSE "lookup"
      BY <2>1, <2>2 DEF DirectTypeOK, DirectRequest, assetsNext
    <2>5. /\ Len(request.indices) = NearestCount /\ NearestCount \in Nat
          /\ Len(request.nodes) < NearestCount
      BY <2>1, NetworkAssumption DEF Lookup
    <2>6. direct'[d].pc = "lookup" => Len(direct'[d].nodes) < NearestCount
      BY <2>3, <2>4, <2>5
    <2>7. ASSUME ~request.overtaken
          PROVE  GivenAsFound(d)'
      <3>1. request.indices # <<>> /\ edgeNodes_ = request.tree
        BY <2>1, <2>5, <2>7 DEF Lookup
      <3>2. GivenAsFound(d)
        BY <2>1, <2>7, <3>1 DEF Lookup
      <3>3. SUFFICES ASSUME NEW j \in 1..found(request.tree), j \in DOMAIN nodes
                     PROVE  nodes[j] = request.tree[request.indices[j]]
        BY <2>4 DEF GivenAsFound, found
      <3>4. CASE j = next
        BY <2>3, <3>1, <3>4
      <3>5. CASE j # next
        <4>1. j \in DOMAIN request.nodes
          BY <2>1, <2>3, <3>3, <3>5 DEF DirectRequest
        <4>2. j \in 1..Len(request.nodes)
          BY <2>1, <4>1 DEF DirectRequest
        <4>. QED  BY <2>3, <3>2, <4>1, <4>2 DEF GivenAsFound
      <3>. QED  BY <3>4, <3>5
    <2>. QED  BY <2>1, <2>4, <2>6, <2>7 DEF Lookup
  <1>. QED  BY <1>1, <1>2

\* What follows the lookups does not touch what they gave.
LEMMA ReplyLookup ==
    ASSUME DirectTypeOK, LookupInv, NEW d \in Direct,
           copyNodes(d) \/ sendAssets(d) \/ finish(d)
    PROVE  Lookup(d)'
  <1>1. direct[d] \in DirectRequest /\ Lookup(d)
    BY DEF DirectTypeOK, LookupInv
  <1>2. CASE copyNodes(d)
    <2>1. direct[d].indices = <<>>
      BY <1>1, <1>2 DEF copyNodes, Lookup, NewDirectRequest
    <2>2. direct'[d].pc = "assets" /\ direct'[d].indices = <<>>
      BY <1>1, <1>2, <2>1 DEF copyNodes, assetsNext, DirectTypeOK, DirectRequest
    <2>. QED  BY <2>2 DEF Lookup
  <1>3. CASE sendAssets(d)
    <2>1. /\ direct'[d].pc = "replied" /\ direct'[d].indices = direct[d].indices
          /\ direct'[d].tree = direct[d].tree /\ direct'[d].nodes = direct[d].nodes
          /\ direct'[d].overtaken = direct[d].overtaken
      <3>1. PICK hashes :
               direct' = [direct EXCEPT ![d].pc = "replied", ![d].hashes = hashes]
        BY <1>3 DEF sendAssets
      <3>. QED  BY <1>1, <3>1 DEF DirectTypeOK, DirectRequest
    <2>. QED  BY <1>1, <2>1 DEF Lookup, GivenAsFound, found
  <1>4. CASE finish(d)
    <2>1. direct'[d] = NewDirectRequest
      BY <1>4 DEF finish, DirectTypeOK
    <2>. QED  BY <2>1 DEF Lookup, NewDirectRequest
  <1>. QED  BY <1>2, <1>3, <1>4

\* The poller keeps tree and list of one generation, or leaves that to its next
\* step, and marks the lookups it overtakes.
LEMMA PollLookup ==
    ASSUME DirectTypeOK, LookupInv, poll
    PROVE  LookupInv'
  <1>1. CASE (fetch \/ pollFails) /\ UNCHANGED direct
    BY <1>1
    DEF fetch, pollFails, listVars, LookupInv, OneGeneration, Lookup, GivenAsFound, found
  <1>2. CASE /\ parseFetched \/ swapEdgeNodes
             /\ direct' = [d \in Direct |-> [direct[d] EXCEPT
                               !.overtaken = @ \/ direct[d].pc = "lookup"]]
    <2>1. OneGeneration'
      <3>1. CASE parseFetched
        <4>1. PICK list \in orderings(accepted(fetched)) :
                 IF geo
                 THEN treeData_' = list /\ newList' = list /\ UNCHANGED edgeNodes_
                 ELSE edgeNodes_' = list /\ UNCHANGED <<treeData_, newList>>
          BY <3>1 DEF parseFetched, parseStateUpdate
        <4>2. list # NoList
          BY OrderingType, NetworkAssumption
        <4>. QED  BY <4>1, <4>2 DEF OneGeneration, DirectTypeOK, NetworkTypeOK
      <3>2. CASE swapEdgeNodes
        BY <3>2 DEF swapEdgeNodes, LookupInv, OneGeneration
      <3>. QED  BY <1>2, <3>1, <3>2
    <2>2. ASSUME NEW d \in Direct
          PROVE  Lookup(d)'
      <3>1. direct[d] \in DirectRequest /\ Lookup(d)
        BY DEF DirectTypeOK, LookupInv
      <3>2. direct'[d] = [direct[d] EXCEPT
                              !.overtaken = direct[d].overtaken \/ direct[d].pc = "lookup"]
        BY <1>2
      <3>3. CASE direct[d].pc = "lookup"
        <4>1. /\ direct'[d].overtaken = TRUE /\ direct'[d].pc = "lookup"
              /\ direct'[d].indices = direct[d].indices /\ direct'[d].nodes = direct[d].nodes
              /\ direct'[d].tree = direct[d].tree
          BY <3>1, <3>2, <3>3 DEF DirectRequest
        <4>. QED  BY <3>1, <3>3, <4>1 DEF Lookup
      <3>4. CASE direct[d].pc # "lookup"
        <4>1. direct'[d] = direct[d]
          BY <3>1, <3>2, <3>4 DEF DirectRequest
        <4>. QED  BY <3>1, <3>4, <4>1 DEF Lookup, GivenAsFound, found
      <3>. QED  BY <3>3, <3>4
    <2>. QED  BY <2>1, <2>2 DEF LookupInv
  <1>. QED  BY <1>1, <1>2 DEF poll

LEMMA NextKeepsLookupInv ==
    ASSUME DirectTypeOK, LookupInv, [DirectNext]_directVars
    PROVE  LookupInv'
  <1>1. ASSUME NEW d \in Direct, onRequest(d) \/ finish(d)
        PROVE  LookupInv'
    <2>1. UNCHANGED networkVars /\ \A e \in Direct \ {d} : direct'[e] = direct[e]
      BY <1>1, DirectFrame
    <2>2. Lookup(d)'
      BY <1>1, SearchLookup, LookupLookup, ReplyLookup DEF onRequest
    <2>3. ASSUME NEW e \in Direct \ {d} PROVE Lookup(e)'
      BY <2>1, LookupFrame DEF LookupInv, networkVars, listVars
    <2>. QED  BY <2>1, <2>2, <2>3 DEF LookupInv, OneGeneration, networkVars, listVars
  <1>2. CASE poll
    BY <1>2, PollLookup
  <1>3. CASE otherThreads \/ UNCHANGED directVars
    <2>1. UNCHANGED <<edgeNodes_, treeData_, newList, direct>>
      BY <1>3 DEF otherThreads, directVars, networkVars, listVars
    <2>. QED  BY <2>1, LookupFrame DEF LookupInv, OneGeneration
  <1>4. CASE restartAll
    BY <1>4 DEF restartAll, LookupInv, OneGeneration, Lookup, NewDirectRequest
  <1>. QED  BY <1>1, <1>2, <1>3, <1>4 DEF DirectNext

LEMMA AlwaysLookupInv == DirectSpec => [](DirectTypeOK /\ LookupInv)
  BY InitDirectTypes, InitLookupInv, NextKeepsDirectTypes, NextKeepsLookupInv, PTL
     DEF DirectSpec

\* A client is given the nodes that the tree found for it, unless a list is
\* published while they are looked up.
THEOREM FoundUnlessOvertakenCorrect == DirectSpec => []FoundUnlessOvertaken
  <1>1. LookupInv => FoundUnlessOvertaken
    BY DEF LookupInv, Lookup, FoundUnlessOvertaken
  <1>. QED  BY <1>1, AlwaysLookupInv, PTL

\* The lookups of a request end the process only when the list was empty, or a
\* list was published meanwhile; the search only when there has been no list.
THEOREM SurvivalCorrect == DirectSpec => SurvivesUnlessEmptyOrOvertaken
  <1>1. ASSUME DirectTypeOK, LookupInv, NEW d \in Direct, searchTree(d)
        PROVE  up' \/ treeData_ = NoTree
    BY <1>1 DEF searchTree
  <1>2. ASSUME DirectTypeOK, LookupInv, NEW d \in Direct, lookupNode(d),
               direct[d].tree # <<>>, ~direct[d].overtaken
        PROVE  up'
    <2>1. /\ Lookup(d) /\ direct[d].pc = "lookup"
          /\ direct[d] \in DirectRequest
      BY <1>2 DEF LookupInv, lookupNode, DirectTypeOK
    <2>2. edgeNodes_ = direct[d].tree
      BY <1>2, <2>1 DEF Lookup
    <2>3. Len(direct[d].nodes) + 1 \in 1..NearestCount
      BY <2>1, NetworkAssumption DEF Lookup, DirectRequest
    <2>4. direct[d].indices[Len(direct[d].nodes) + 1] \in DOMAIN edgeNodes_ \cup {1}
      BY <2>1, <2>2, <2>3 DEF Lookup
    <2>5. 1 \in DOMAIN edgeNodes_
      BY <1>2, <2>1, <2>2 DEF DirectRequest
    <2>. QED  BY <1>2, <2>4, <2>5 DEF lookupNode
  <1>3. ASSUME DirectTypeOK /\ LookupInv, [DirectNext]_directVars
        PROVE  [\A d \in Direct : searchTree(d) \/ lookupNode(d) =>
                   \/ up'
                   \/ treeData_ = NoTree
                   \/ direct[d].tree = <<>>
                   \/ direct[d].overtaken]_directVars
    BY <1>1, <1>2, <1>3
  <1>. QED  BY <1>3, AlwaysLookupInv, PTL DEF DirectSpec, SurvivesUnlessEmptyOrOvertaken

-----------------------------------------------------------------------------
(***************************************************************************)
(* The hashes.  A hash is that of a cached route when it is read, which    *)
(* reaches the disk; and no step of the cache takes a file back that       *)
(* reaches the disk, until the process ends and the requests with it.      *)
(***************************************************************************)
HashInv == DiskInv /\ GivenHashesReachDisk

LEMMA InitHashInv == DirectInit => HashInv
  <1>1. DirectInit => DiskInv
    BY InitTypes DEF DirectInit, CacheInit, DiskInv, OpenedFilesExist,
                     CachedRoutesReachDisk, Cached
  <1>2. DirectInit => GivenHashesReachDisk
    BY DEF DirectInit, NewDirectRequest, GivenHashesReachDisk
  <1>. QED  BY <1>1, <1>2 DEF HashInv

\* Without a step of the cache, but for the end of the process, nothing changes
\* for the files.
LEMMA FilesFrame ==
    ASSUME DiskInv, UNCHANGED <<map_, stage, target, files, torn>>, CacheTypeOK'
    PROVE  DiskInv' /\ \A f : ReachesDisk(f) => ReachesDisk(f)'
  BY DEF DiskInv, OpenedFilesExist, CachedRoutesReachDisk, OnDisk, WillWrite,
         Cached, getHash, ReachesDisk

\* A step of the cache while the process runs.
LEMMA CacheKeepsFile ==
    ASSUME DiskInv, up, CacheNext, NEW f, ReachesDisk(f)
    PROVE  ReachesDisk(f)'
  <1>1. ASSUME NEW h \in Handler, NEW u \in Url, NEW r \in Response,
               NEW n \in 1..r.len, AddCachedRoute(h, u, r, n)
        PROVE  ReachesDisk(f)'
    BY <1>1, AddKeepsFile DEF DiskInv, AddCachedRoute
  <1>2. ASSUME NEW h \in Handler, OpenFile(h) \/ WriteFile(h) \/ DiskError(h)
        PROVE  ReachesDisk(f)'
    BY <1>2, DiskKeepsFile DEF DiskInv
  <1>3. CASE Restart
    BY <1>3 DEF Restart
  <1>. QED  BY <1>1, <1>2, <1>3 DEF CacheNext

\* A step that keeps the files, and gives no hashes, keeps what was given.
LEMMA HashFrame ==
    ASSUME GivenHashesReachDisk,
           \A f : ReachesDisk(f) => ReachesDisk(f)',
           \A d \in Direct : \/ direct'[d].hashes = direct[d].hashes
                            \/ direct'[d].hashes = [u \in Url |-> NoHash]
    PROVE  GivenHashesReachDisk'
  BY DEF GivenHashesReachDisk, ReachesDisk, enableP2P

LEMMA NextKeepsHashInv ==
    ASSUME DirectTypeOK, LookupInv, HashInv, [DirectNext]_directVars
    PROVE  HashInv'
  <1>. USE DEF HashInv
  <1>. DirectTypeOK'
    BY NextKeepsDirectTypes
  <1>1. ASSUME NEW d \in Direct, searchTree(d) \/ lookupNode(d) \/ copyNodes(d) \/ finish(d)
        PROVE  HashInv'
    <2>1. UNCHANGED <<map_, stage, target, files, torn>>
      BY <1>1 DEF searchTree, lookupNode, copyNodes, finish, cacheVars
    <2>2. DiskInv' /\ \A f : ReachesDisk(f) => ReachesDisk(f)'
      BY <2>1, FilesFrame DEF DirectTypeOK
    <2>3. \/ direct'[d].hashes = direct[d].hashes
          \/ direct'[d].hashes = [u \in Url |-> NoHash]
      <3>1. CASE searchTree(d)
        <4>1. CASE treeData_ = NoTree
          BY <3>1, <4>1 DEF searchTree
        <4>2. CASE treeData_ # NoTree
          <5>1. PICK indices :
                   direct' = [direct EXCEPT ![d] =
                       [@ EXCEPT !.pc = "lookup", !.indices = indices,
                                 !.tree = treeData_, !.overtaken = newList # NoList]]
            BY <3>1, <4>2 DEF searchTree
          <5>2. direct'[d] = [direct[d] EXCEPT !.pc = "lookup", !.indices = indices,
                                 !.tree = treeData_, !.overtaken = newList # NoList]
            BY <5>1 DEF DirectTypeOK
          <5>3. direct'[d].hashes = direct[d].hashes
            BY <5>2 DEF DirectTypeOK, DirectRequest
          <5>. QED  BY <5>3
        <4>. QED  BY <4>1, <4>2
      <3>2. CASE lookupNode(d)
        <4>. DEFINE nodes == Append(direct[d].nodes,
                                edgeNodes_[direct[d].indices[Len(direct[d].nodes) + 1]])
        <4>1. direct[d] \in DirectRequest
          BY DEF DirectTypeOK
        <4>2. /\ assetsNext(direct[d], nodes).hashes = direct[d].hashes
              /\ [direct[d] EXCEPT !.nodes = nodes].hashes = direct[d].hashes
          BY <4>1 DEF assetsNext, DirectRequest
        <4>3. direct'[d] \in {direct[d], assetsNext(direct[d], nodes),
                              [direct[d] EXCEPT !.nodes = nodes]}
          BY <3>2 DEF lookupNode, DirectTypeOK
        <4>. QED  BY <4>2, <4>3
      <3>3. CASE copyNodes(d)
        BY <3>3 DEF copyNodes, assetsNext, DirectTypeOK, DirectRequest
      <3>4. CASE finish(d)
        BY <3>4 DEF finish, NewDirectRequest, DirectTypeOK
      <3>. QED  BY <1>1, <3>1, <3>2, <3>3, <3>4
    <2>4. \A e \in Direct \ {d} : direct'[e] = direct[e]
      BY <1>1, DirectFrame DEF onRequest
    <2>. QED  BY <2>2, <2>3, <2>4, HashFrame
  <1>2. ASSUME NEW d \in Direct, sendAssets(d)
        PROVE  HashInv'
    <2>1. UNCHANGED cacheVars
      BY <1>2 DEF sendAssets
    <2>2. DiskInv' /\ \A f : ReachesDisk(f) => ReachesDisk(f)'
      BY <2>1, FilesFrame DEF DirectTypeOK, cacheVars
    <2>3. \A e \in Direct \ {d} : direct'[e] = direct[e]
      BY <1>2, DirectFrame DEF onRequest
    <2>4. PICK seen \in SUBSET Cached :
             direct' = [direct EXCEPT ![d].pc = "replied",
                          ![d].hashes = [u \in Url |-> IF u \in seen
                                            THEN getHash(map_[u]) ELSE NoHash]]
      BY <1>2 DEF sendAssets
    <2>. DEFINE hashes == [u \in Url |-> IF u \in seen
                                       THEN getHash(map_[u]) ELSE NoHash]
    <2>5. direct'[d].hashes = hashes
      <3>1. direct' = [direct EXCEPT ![d].pc = "replied", ![d].hashes = hashes]
        BY <2>4
      <3>. HIDE DEF hashes
      <3>. QED  BY <3>1 DEF DirectTypeOK, DirectRequest
    <2>6. ASSUME WriteToDisk, NEW u \in Url, hashes[u] # NoHash
          PROVE  ReachesDisk(hashes[u])
      BY <2>6 DEF DiskInv, CachedRoutesReachDisk, OnDisk, ReachesDisk
    <2>7. ASSUME NEW e \in Direct, NEW u \in Url, WriteToDisk,
                 NEW f, f = direct'[e].hashes[u], f # NoHash
          PROVE  ReachesDisk(f)'
      <3>. HIDE DEF hashes
      <3>1. CASE e = d
        BY <2>2, <2>5, <2>6, <2>7, <3>1
      <3>2. CASE e # d
        <4>1. f = direct[e].hashes[u]
          BY <2>3, <2>7, <3>2
        <4>2. ReachesDisk(f)
          BY <2>7, <4>1 DEF GivenHashesReachDisk, ReachesDisk, enableP2P
        <4>. QED  BY <2>2, <4>2
      <3>. QED  BY <3>1, <3>2
    <2>8. GivenHashesReachDisk'
      BY <2>7 DEF GivenHashesReachDisk, ReachesDisk, WillWrite, enableP2P
    <2>. QED  BY <2>2, <2>8
  <1>3. CASE poll \/ UNCHANGED directVars
    <2>1. UNCHANGED cacheVars
      BY <1>3 DEF poll, directVars
    <2>2. DiskInv' /\ \A f : ReachesDisk(f) => ReachesDisk(f)'
      BY <2>1, FilesFrame DEF DirectTypeOK, cacheVars
    <2>3. \A d \in Direct : direct'[d].hashes = direct[d].hashes
      BY <1>3 DEF poll, directVars, DirectTypeOK, DirectRequest
    <2>. QED  BY <2>2, <2>3, HashFrame
  <1>4. CASE otherThreads
    <2>1. DiskInv'
      BY <1>4, DiskInvInductive DEF otherThreads
    <2>2. \A f : ReachesDisk(f) => ReachesDisk(f)'
      BY <1>4, CacheKeepsFile DEF otherThreads
    <2>. QED  BY <1>4, <2>1, <2>2, HashFrame DEF otherThreads
  <1>5. CASE restartAll
    <2>1. DiskInv'
      BY <1>5, DiskInvInductive DEF restartAll, CacheNext
    <2>2. \A d \in Direct : \A u \in Url : direct'[d].hashes[u] = NoHash
      BY <1>5 DEF restartAll, NewDirectRequest
    <2>. QED  BY <2>1, <2>2 DEF GivenHashesReachDisk
  <1>. QED  BY <1>1, <1>2, <1>3, <1>4, <1>5 DEF DirectNext, onRequest

\* A hash that a client has been given names a file that is complete, or that a
\* thread is on its way to write.
THEOREM GivenHashesCorrect == DirectSpec => []GivenHashesReachDisk
  <1>1. HashInv => GivenHashesReachDisk
    BY DEF HashInv
  <1>. QED  BY <1>1, InitHashInv, NextKeepsHashInv, AlwaysLookupInv, PTL DEF DirectSpec
=============================================================================
