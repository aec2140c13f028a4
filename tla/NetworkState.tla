---------------------------- MODULE NetworkState ----------------------------
(***************************************************************************)
(* The edge nodes of the peer-to-peer network (NetworkState.h,             *)
(* NetworkState.cpp, Geo.cpp): one thread polls the network gateway and    *)
(* publishes the list of usable nodes and, with geo IP on, a KD-tree over  *)
(* the same list.  The request threads search the tree, which gives them   *)
(* indices, and look these up in the list.  Tree and list have a lock      *)
(* each, and are published one after the other.                            *)
(*                                                                         *)
(* A report is reduced to what parseStateUpdate tells apart in the entry   *)
(* of each node.  Time is left to the gateway: whether a heartbeat is too  *)
(* old is part of the report.                                              *)
(***************************************************************************)
EXTENDS Naturals, Sequences, FiniteSets

CONSTANTS
    Node,             \* the edge nodes, by their Ethereum address
    Report,           \* the reports the gateway may give
    Place,            \* where clients may be
    Distance,         \* Distance[p][n]: how far node n is from place p
    NearestCount,     \* how many nodes a client is given with geo IP on
    NoList,           \* no list is being published
    NoTree,           \* the null TreeData pointer
    NoReport,         \* no report is being fetched
    GeoIpEnabled,     \* config: geo_ip_enabled
    IgnoreHeartbeat   \* config: ignore_heartbeat

\* The entry of a node: missing, lacking a field or with one of another type,
\* with a heartbeat older than two minutes, without content, or usable.
Kind == {"absent", "malformed", "stale", "empty", "live"}

ASSUME NetworkAssumption ==
    /\ Report \subseteq [Node -> Kind]
    /\ Distance \in [Place -> [Node -> Nat]]
    /\ NearestCount \in Nat \ {0}
    /\ GeoIpEnabled \in BOOLEAN
    /\ IgnoreHeartbeat \in BOOLEAN
    /\ IsFiniteSet(Node)
    /\ NoList \notin Seq(Node)
    /\ NoTree \notin Seq(Node)
    /\ NoReport \notin Report

VARIABLES
    edgeNodes_,  \* the list of edge nodes
    treeData_,   \* the list the KD-tree was built from, or NoTree
    newList,     \* the poller's local list, after the tree was published
    geo,         \* config_->geo_ip_enabled, after the constructor
    fetched      \* the report of the Get under way, from the moment the
                 \* gateway answers with it until it is parsed, or NoReport

listVars == <<edgeNodes_, treeData_, newList, geo>>
networkVars == <<listVars, fetched>>

-----------------------------------------------------------------------------
\* The constructor turns geo IP off when the database does not load.
NetworkInit ==
    /\ edgeNodes_ = <<>>
    /\ treeData_ = NoTree
    /\ newList = NoList
    /\ geo \in (IF GeoIpEnabled THEN BOOLEAN ELSE {FALSE})
    /\ fetched = NoReport

\* The nodes parseStateUpdate keeps: every entry is tried on its own, and one
\* that throws costs only itself.
accepted(report) ==
    {n \in Node : report[n] = "live" \/ (IgnoreHeartbeat /\ report[n] = "stale")}

\* The report is a hash map: its entries come in any order.
orderings(nodes) ==
    {list \in [1..Cardinality(nodes) -> nodes] :
        \A i, j \in DOMAIN list : list[i] = list[j] => i = j}

(***************************************************************************)
(* The poller.                                                             *)
(***************************************************************************)

\* The gateway answers with a report.  What it would report later on is of no
\* interest to this Get.
fetch ==
    /\ fetched = NoReport /\ newList = NoList
    /\ fetched' \in Report
    /\ UNCHANGED listVars

\* The tree is built once, and not again for later lists.
parseStateUpdate_TreeOnce(report) ==
    /\ newList = NoList
    /\ \E list \in orderings(accepted(report)) :
          IF geo /\ treeData_ = NoTree
          THEN treeData_' = list /\ newList' = list /\ UNCHANGED edgeNodes_
          ELSE edgeNodes_' = list /\ UNCHANGED <<treeData_, newList>>
    /\ fetched' = NoReport
    /\ UNCHANGED geo

\* It is built with geo IP off, too.
parseStateUpdate_NoGeoCheck(report) ==
    /\ newList = NoList
    /\ \E list \in orderings(accepted(report)) :
          treeData_' = list /\ newList' = list /\ UNCHANGED edgeNodes_
    /\ fetched' = NoReport
    /\ UNCHANGED geo

\* The tree is built and published with geo IP on, and the list follows.
parseStateUpdate(report) ==
    /\ newList = NoList
    /\ \E list \in orderings(accepted(report)) :
          IF geo
          THEN treeData_' = list /\ newList' = list /\ UNCHANGED edgeNodes_
          ELSE edgeNodes_' = list /\ UNCHANGED <<treeData_, newList>>
    /\ fetched' = NoReport
    /\ UNCHANGED geo

\* The poller parses what it has fetched.
parseFetched == fetched # NoReport /\ parseStateUpdate(fetched)

\* An empty list is taken for a failure.
swapEdgeNodes_KeepsLast ==
    /\ newList # NoList
    /\ edgeNodes_' = IF newList = <<>> THEN edgeNodes_ ELSE newList
    /\ newList' = NoList
    /\ UNCHANGED <<treeData_, geo, fetched>>

swapEdgeNodes ==
    /\ newList # NoList
    /\ edgeNodes_' = newList
    /\ newList' = NoList
    /\ UNCHANGED <<treeData_, geo, fetched>>

\* The gateway does not answer, or its answer is an error, is cut short or is
\* not a report at all, for which parseStateUpdate throws before it publishes
\* anything: the scheduler runs the function again when it is due.
pollFails ==
    /\ newList = NoList
    /\ fetched' = NoReport
    /\ UNCHANGED listVars

\* One poll after the other, whatever the client does to get at a report.
NetworkNext == fetch \/ parseFetched \/ swapEdgeNodes \/ pollFails

NetworkSpec == NetworkInit /\ [][NetworkNext]_networkVars

(***************************************************************************)
(* What the request threads call.                                          *)
(***************************************************************************)
getEdgeNodes == edgeNodes_

found(tree) == IF Len(tree) < NearestCount THEN Len(tree) ELSE NearestCount

\* The index vector is as long as what was asked for.  It is sorted by
\* distance as far as there are nodes, and zero beyond that: indices start
\* from 1 here.
getNearestNodes_PadsBeyond(tree, p) ==
    {indices \in [1..NearestCount -> 1..Len(tree) + 1] :
        /\ \A i \in 1..NearestCount : indices[i] = Len(tree) + 1 <=> i > found(tree)
        /\ \A i, j \in 1..found(tree) : indices[i] = indices[j] => i = j}

getNearestNodes(tree, p) ==
    LET distance(i) == Distance[p][tree[i]]
        result == 1..found(tree)
    IN {indices \in [1..NearestCount -> DOMAIN tree \cup {1}] :
          /\ \A i, j \in result : i < j =>
                /\ indices[i] # indices[j]
                /\ distance(indices[i]) <= distance(indices[j])
          /\ \A i \in DOMAIN tree \ {indices[j] : j \in result} :
                \A j \in result : distance(indices[j]) <= distance(i)
          /\ \A i \in 1..NearestCount \ result : indices[i] = 1}

-----------------------------------------------------------------------------
\* Tree and lists are lists of nodes, and without geo IP, when there may be no
\* Geo object, no tree is built.
NetworkTypeOK ==
    /\ edgeNodes_ \in Seq(Node)
    /\ treeData_ \in Seq(Node) \cup {NoTree}
    /\ newList \in Seq(Node) \cup {NoList}
    /\ geo \in BOOLEAN
    /\ ~geo => treeData_ = NoTree /\ newList = NoList
    /\ fetched \in Report \cup {NoReport}
=============================================================================
