------------------------ MODULE NetworkStateProofs ------------------------
(***************************************************************************)
(* Lemmas about the network state, for any edge nodes, reports and places: *)
(* what the poller publishes and what the search returns.                  *)
(***************************************************************************)
EXTENDS NetworkState, FiniteSetTheorems, TLAPS

\* Any order of the accepted nodes is a list of nodes.
LEMMA OrderingType ==
    ASSUME NEW report, NEW list \in orderings(accepted(report))
    PROVE  list \in Seq(Node)
  <1>1. accepted(report) \in SUBSET Node
    BY DEF accepted
  <1>2. Cardinality(accepted(report)) \in Nat
    BY <1>1, NetworkAssumption, FS_Subset, FS_CardinalityType
  <1>3. list \in [1..Cardinality(accepted(report)) -> Node]
    BY <1>1 DEF orderings
  <1>. QED  BY <1>2, <1>3

\* The search of a tree returns NearestCount indices, of its nodes or zero.
LEMMA IndicesType ==
    ASSUME NEW tree \in Seq(Node), NEW p, NEW indices \in getNearestNodes(tree, p)
    PROVE  /\ indices \in Seq(Nat)
           /\ Len(indices) = NearestCount
           /\ \A i \in 1..NearestCount : indices[i] \in DOMAIN tree \cup {1}
  <1>1. indices \in [1..NearestCount -> DOMAIN tree \cup {1}]
    BY DEF getNearestNodes
  <1>2. NearestCount \in Nat
    BY NetworkAssumption
  <1>3. \A i \in 1..NearestCount : indices[i] \in DOMAIN tree \cup {1}
    BY <1>1
  <1>4. indices \in [1..NearestCount -> Nat]
    <2>1. DOMAIN tree = 1..Len(tree) /\ Len(tree) \in Nat
      OBVIOUS
    <2>2. DOMAIN tree \cup {1} \in SUBSET Nat
      BY <2>1
    <2>. QED  BY <1>1, <2>2
  <1>5. indices \in Seq(Nat) /\ Len(indices) = NearestCount
    BY <1>2, <1>4
  <1>. QED  BY <1>3, <1>5

LEMMA InitNetworkTypes == NetworkInit => NetworkTypeOK
  <1>1. NetworkInit => geo \in BOOLEAN
    BY Zenon DEF NetworkInit
  <1>2. <<>> \in Seq(Node)
    OBVIOUS
  <1>. QED  BY <1>1, <1>2 DEF NetworkInit, NetworkTypeOK

\* The poller publishes lists of nodes, and a tree only with geo IP on.
LEMMA ParseKeepsTypes ==
    ASSUME NetworkTypeOK, NEW report, parseStateUpdate(report)
    PROVE  NetworkTypeOK'
  BY OrderingType DEF parseStateUpdate, NetworkTypeOK

LEMMA PollKeepsTypes ==
    ASSUME NetworkTypeOK, NetworkNext
    PROVE  NetworkTypeOK'
  <1>. USE DEF NetworkTypeOK
  <1>1. CASE fetch
    BY <1>1 DEF fetch, listVars
  <1>2. CASE parseFetched
    BY <1>2, ParseKeepsTypes DEF parseFetched
  <1>3. CASE swapEdgeNodes
    BY <1>3 DEF swapEdgeNodes
  <1>4. CASE pollFails
    BY <1>4 DEF pollFails, listVars
  <1>. QED  BY <1>1, <1>2, <1>3, <1>4 DEF NetworkNext
=============================================================================
