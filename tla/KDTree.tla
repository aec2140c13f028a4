------------------------------- MODULE KDTree -------------------------------
(***************************************************************************)
(* The index of the places of the edge nodes (Geo.cpp, Geo.h, and the      *)
(* parts of libs/nanoflann.hpp it uses): a KD-tree is built over a list of *)
(* points, and searched for the points nearest to a client.  What the      *)
(* search returns is shown to be what NetworkState takes it to return.     *)
(*                                                                         *)
(* The recursion of the code is in the state: a call of divideTree that    *)
(* has not returned is a node that is not built yet, and the calls of      *)
(* searchLevel that are still to come are in todo.  A node is known by the *)
(* part of vind that it was made for.                                      *)
(*                                                                         *)
(* Coordinates are integers in place of doubles, multiples of 2 to a power *)
(* large enough for the halving of intervals to be exact.  A position in   *)
(* vind counts from 0 as in the code, a point of the list from 1.          *)
(***************************************************************************)
EXTENDS Integers, Sequences, FiniteSetsExt

\* Geo makes the tree for three dimensions.
Axis == 1..3

CONSTANTS
    Point,         \* the points the edge nodes may be at
    Query,         \* the points clients may be at
    MaxPoints,     \* bound: the length of the list
    leafMaxSize,   \* KDTreeSingleIndexAdaptorParams
    NearestCount,  \* how many points are asked for
    NoQuery,       \* nothing has been asked yet
    MaxDistance    \* the largest double

ASSUME KDTreeAssumption ==
    /\ Point \cup Query \subseteq [Axis -> Int]
    /\ MaxPoints \in Nat
    /\ leafMaxSize \in Nat \ {0}
    /\ NearestCount \in Nat \ {0}
    /\ NoQuery \notin Query
    /\ MaxDistance \notin Int

VARIABLES
    pts,       \* PointCloud: the list the tree is built from
    vind,      \* the points, in the order of the leaves
    tree,      \* the nodes, by their part of vind
    query,     \* the point that was asked for
    todo,      \* the calls of searchLevel to come, the next one first
    scan,      \* where the search is in a leaf
    resultSet  \* the points found so far, with their distances

searchVars == <<query, todo, scan, resultSet>>
kdVars == <<pts, vind, tree, searchVars>>

-----------------------------------------------------------------------------
\* L2_Simple_Adaptor: squared distances, in one dimension and in all.
accum_dist(a, b) == (a - b) * (a - b)
total(dists) == dists[1] + dists[2] + dists[3]
evalMetric(a, b) == total([i \in Axis |-> accum_dist(a[i], b[i])])

\* A part of vind, and all of it.
Part == [left : Nat, right : Nat]
Root == [left |-> 0, right |-> Len(pts)]

size(c) == c.right - c.left
within(c) == c.left..c.right - 1
lower(c, mid) == [c EXCEPT !.right = mid]
upper(c, mid) == [c EXCEPT !.left = mid]

\* A coordinate of the point at a position.
coordinate(k, i) == pts[vind[k]][i]

\* The points of a part, and the interval that points take in each dimension.
pointsOf(c) == {vind[k] : k \in within(c)}

boundingBox(points) ==
    [i \in Axis |-> [low |-> Min({pts[p][i] : p \in points}),
                     high |-> Max({pts[p][i] : p \in points})]]

-----------------------------------------------------------------------------
(***************************************************************************)
(* Building the tree.  pc: what a node is, or how far its divideTree has   *)
(* come: it was called, it brings the points below the cut to the front,   *)
(* and then those at the cut, and it waits for its first or second child.  *)
(* bbox: the box it was given, and when it is built the tight one.  left,  *)
(* right, lim1: the locals of planeSplit.                                  *)
(***************************************************************************)
Box == [Axis -> [low : Int, high : Int]]

Node == [pc : {"called", "below", "upTo", "first", "second", "inner", "leaf"},
         bbox : Box, divfeat : Axis, cutval : Int,
         left : Int, right : Int, lim1 : Int, mid : Int,
         divlow : Int, divhigh : Int]

at(c, pc) == c \in DOMAIN tree /\ tree[c].pc = pc

built(c) == at(c, "leaf") \/ at(c, "inner")
splitting(c) == at(c, "below") \/ at(c, "upTo")

\* The call of divideTree for a part.
call(nodes, c, bbox) ==
    [d \in DOMAIN nodes \cup {c} |->
        IF d # c THEN nodes[d]
        ELSE [pc |-> "called", bbox |-> bbox, divfeat |-> 1, cutval |-> 0,
              left |-> 0, right |-> 0, lim1 |-> 0, mid |-> 0, divlow |-> 0, divhigh |-> 0]]

\* buildIndex.  Without a point there is no tree.
buildIndex ==
    /\ tree = <<>> /\ pts # <<>>
    /\ vind' = [k \in within(Root) |-> k + 1]
    /\ tree' = call(tree, Root, boundingBox(DOMAIN pts))
    /\ UNCHANGED <<pts, searchVars>>

makeLeaf(c) ==
    /\ at(c, "called")
    /\ size(c) <= leafMaxSize
    /\ tree' = [tree EXCEPT ![c].pc = "leaf", ![c].bbox = boundingBox(pointsOf(c))]
    /\ UNCHANGED <<pts, vind, searchVars>>

\* The dimension of the largest spread among those in which the box is about as
\* long as it gets; the first one if the box is a point.
cutFeature(c) ==
    LET span(i) == tree[c].bbox[i].high - tree[c].bbox[i].low
        spread(i) == boundingBox(pointsOf(c))[i].high - boundingBox(pointsOf(c))[i].low
        maxSpan == Max({span(i) : i \in Axis})
        long == {i \in Axis : 100000 * span(i) > 99999 * maxSpan}
        widest == {i \in long : \A j \in long : spread(j) <= spread(i)}
    IN IF long = {} THEN 1 ELSE Min(widest)

\* In the middle of the box, but not beyond the points.
cutValue(c, f) ==
    LET middle == (tree[c].bbox[f].low + tree[c].bbox[f].high) \div 2
        elems == boundingBox(pointsOf(c))[f]
    IN IF middle < elems.low THEN elems.low
       ELSE IF middle > elems.high THEN elems.high ELSE middle

middleSplit_(c) ==
    /\ at(c, "called")
    /\ size(c) > leafMaxSize
    /\ LET f == cutFeature(c)
       IN tree' = [tree EXCEPT ![c].pc = "below",
                               ![c].divfeat = f, ![c].cutval = cutValue(c, f),
                               ![c].left = c.left, ![c].right = c.right - 1]
    /\ UNCHANGED <<pts, vind, searchVars>>

(***************************************************************************)
(* planeSplit: its two loops are one but for the points they bring to the  *)
(* front.  right does not go below the first position, being unsigned.     *)
(***************************************************************************)
front(c, k) ==
    IF at(c, "below") THEN coordinate(k, tree[c].divfeat) < tree[c].cutval
                      ELSE coordinate(k, tree[c].divfeat) <= tree[c].cutval

leftWaits(c) == tree[c].left <= tree[c].right /\ ~front(c, tree[c].left)

advanceLeft(c) ==
    /\ splitting(c)
    /\ tree[c].left <= tree[c].right /\ front(c, tree[c].left)
    /\ tree' = [tree EXCEPT ![c].left = @ + 1]
    /\ UNCHANGED <<pts, vind, searchVars>>

advanceRight(c) ==
    /\ splitting(c) /\ leftWaits(c)
    /\ tree[c].right > c.left /\ ~front(c, tree[c].right)
    /\ tree' = [tree EXCEPT ![c].right = @ - 1]
    /\ UNCHANGED <<pts, vind, searchVars>>

swap(c) ==
    /\ splitting(c) /\ leftWaits(c)
    /\ tree[c].right > c.left /\ front(c, tree[c].right)
    /\ vind' = [vind EXCEPT ![tree[c].left] = vind[tree[c].right],
                            ![tree[c].right] = vind[tree[c].left]]
    /\ tree' = [tree EXCEPT ![c].left = @ + 1, ![c].right = @ - 1]
    /\ UNCHANGED <<pts, searchVars>>

swept(c, pc) ==
    /\ at(c, pc)
    /\ \/ tree[c].left > tree[c].right
       \/ leftWaits(c) /\ tree[c].right = c.left

\* The second loop goes on from where the first has come.
nextLoop(c) ==
    /\ swept(c, "below")
    /\ tree' = [tree EXCEPT ![c].pc = "upTo",
                            ![c].lim1 = tree[c].left, ![c].right = c.right - 1]
    /\ UNCHANGED <<pts, vind, searchVars>>

\* Half of the points each, wherever the cut is.
splitIndex_Half(count, lim1, lim2) == count \div 2

\* All that is not beyond the cut, also when that is everything.
splitIndex_UpTo(count, lim1, lim2) == lim2

splitIndex(count, lim1, lim2) ==
    IF lim1 > count \div 2 THEN lim1
    ELSE IF lim2 < count \div 2 THEN lim2
    ELSE count \div 2

(***************************************************************************)
(* divideTree, for the two sides of the cut, one after the other.          *)
(***************************************************************************)
firstChild(c) ==
    /\ swept(c, "upTo")
    /\ LET n == tree[c]
           mid == c.left + splitIndex(size(c), n.lim1 - c.left, n.left - c.left)
       IN tree' = call([tree EXCEPT ![c].pc = "first", ![c].mid = mid],
                       lower(c, mid), [n.bbox EXCEPT ![n.divfeat].high = n.cutval])
    /\ UNCHANGED <<pts, vind, searchVars>>

secondChild(c) ==
    /\ at(c, "first")
    /\ built(lower(c, tree[c].mid))
    /\ LET n == tree[c]
       IN tree' = call([tree EXCEPT ![c].pc = "second"],
                       upper(c, n.mid), [n.bbox EXCEPT ![n.divfeat].low = n.cutval])
    /\ UNCHANGED <<pts, vind, searchVars>>

least(a, b) == IF a < b THEN a ELSE b
greatest(a, b) == IF a < b THEN b ELSE a

\* The gap that the two tight boxes leave, and the box around them.
join(c) ==
    /\ at(c, "second")
    /\ built(upper(c, tree[c].mid))
    /\ LET f == tree[c].divfeat
           box1 == tree[lower(c, tree[c].mid)].bbox
           box2 == tree[upper(c, tree[c].mid)].bbox
       IN tree' = [tree EXCEPT
              ![c].pc = "inner",
              ![c].divlow = box1[f].high, ![c].divhigh = box2[f].low,
              ![c].bbox = [i \in Axis |-> [low |-> least(box1[i].low, box2[i].low),
                                           high |-> greatest(box1[i].high, box2[i].high)]]]
    /\ UNCHANGED <<pts, vind, searchVars>>

divideTree(c) ==
    \/ makeLeaf(c) \/ middleSplit_(c)
    \/ advanceLeft(c) \/ advanceRight(c) \/ swap(c) \/ nextLoop(c)
    \/ firstChild(c) \/ secondChild(c) \/ join(c)

-----------------------------------------------------------------------------
(***************************************************************************)
(* Searching it.  A result set is a sequence of points with distances.     *)
(***************************************************************************)
Found == [dist : Int, index : Nat]

\* mindistsq: how near a point of the node may be, and the part of that which
\* each dimension has.  other: it is the child behind the cut.
Call == [node : Part, mindistsq : Int, dists : [Axis -> Int], other : BOOLEAN]

\* at: the position that is next.  worst: what worst_dist was at the start.
Scan == [at : Int, to : Int, worst : Int \cup {MaxDistance}]
NoScan == [at |-> 0, to |-> 0, worst |-> MaxDistance]

\* dists[capacity - 1], which is set when the result set gets full.
worstDist ==
    IF Len(resultSet) = NearestCount THEN resultSet[NearestCount].dist ELSE MaxDistance

\* Behind the points that are as near, and the last one falls out.
addPoint(dist, index) ==
    LET i == Max({0} \cup {j \in DOMAIN resultSet : resultSet[j].dist <= dist})
        count == least(Len(resultSet) + 1, NearestCount)
    IN [j \in 1..count |-> IF j <= i THEN resultSet[j]
                           ELSE IF j = i + 1 THEN [dist |-> dist, index |-> index]
                           ELSE resultSet[j - 1]]

\* computeInitialDistances: how far the point is outside of the box.
initialDists(l) ==
    LET box == tree[Root].bbox
    IN [i \in Axis |-> IF l[i] < box[i].low THEN accum_dist(l[i], box[i].low)
                       ELSE IF l[i] > box[i].high THEN accum_dist(l[i], box[i].high)
                       ELSE 0]

idle == todo = <<>> /\ scan.at = scan.to

\* Geo::getNearestNodes and findNeighbors.
getNearestNodes(l) ==
    /\ pts = <<>> \/ built(Root)
    /\ idle
    /\ query' = l /\ resultSet' = <<>> /\ scan' = NoScan
    /\ todo' = IF pts = <<>> THEN <<>>
               ELSE <<[node |-> Root, mindistsq |-> total(initialDists(l)),
                       dists |-> initialDists(l), other |-> FALSE]>>
    /\ UNCHANGED <<pts, vind, tree>>

next == Head(todo)
due == todo # <<>> /\ scan.at = scan.to

\* What is behind a cut is left out when no point of it can be as near as the
\* worst one in a full result set.
tooFar ==
    next.other /\ worstDist # MaxDistance /\ next.mindistsq > worstDist

leaveOut ==
    /\ due /\ tooFar
    /\ todo' = Tail(todo)
    /\ UNCHANGED <<pts, vind, tree, query, scan, resultSet>>

searchLeaf ==
    /\ due /\ ~tooFar
    /\ at(next.node, "leaf")
    /\ scan' = [at |-> next.node.left, to |-> next.node.right, worst |-> worstDist]
    /\ todo' = Tail(todo)
    /\ UNCHANGED <<pts, vind, tree, query, resultSet>>

visit ==
    /\ scan.at < scan.to
    /\ LET index == vind[scan.at]
           dist == evalMetric(query, pts[index])
       IN resultSet' = IF scan.worst = MaxDistance \/ dist < scan.worst
                       THEN addPoint(dist, index) ELSE resultSet
    /\ scan' = [scan EXCEPT !.at = @ + 1]
    /\ UNCHANGED <<pts, vind, tree, query, todo>>

\* The distance to the other side of the cut is added to the one before, also
\* where a cut of the same dimension is a part of that.
bound_Adds(mindistsq, cut_dist, dst) == mindistsq + cut_dist

bound(mindistsq, cut_dist, dst) == mindistsq + cut_dist - dst

\* The vector of distances is one for all levels, and restored after the call for
\* the other child: each call has what it finds there.
searchLevel ==
    /\ due /\ ~tooFar
    /\ at(next.node, "inner")
    /\ LET n == tree[next.node]
           f == n.divfeat
           child1 == lower(next.node, n.mid)
           child2 == upper(next.node, n.mid)
           before == (query[f] - n.divlow) + (query[f] - n.divhigh) < 0
           cut_dist == accum_dist(query[f], IF before THEN n.divhigh ELSE n.divlow)
           best == [next EXCEPT !.node = IF before THEN child1 ELSE child2, !.other = FALSE]
           other == [node |-> IF before THEN child2 ELSE child1,
                     mindistsq |-> bound(next.mindistsq, cut_dist, next.dists[f]),
                     dists |-> [next.dists EXCEPT ![f] = cut_dist], other |-> TRUE]
       IN todo' = <<best, other>> \o Tail(todo)
    /\ UNCHANGED <<pts, vind, tree, query, scan, resultSet>>

-----------------------------------------------------------------------------
\* Geo makes an object for each list, which does not change.
KDInit ==
    /\ pts \in UNION {[1..n -> Point] : n \in 0..MaxPoints}
    /\ vind = <<>> /\ tree = <<>>
    /\ query = NoQuery /\ todo = <<>> /\ scan = NoScan /\ resultSet = <<>>

buildStep == buildIndex \/ \E c \in DOMAIN tree : divideTree(c)
searchStep == leaveOut \/ searchLeaf \/ visit \/ searchLevel

KDNext == buildStep \/ searchStep \/ \E l \in Query : getNearestNodes(l)

KDSpec == KDInit /\ [][KDNext]_kdVars

\* The thread that builds a tree, or searches it, runs.
FairKDSpec == KDSpec /\ WF_kdVars(buildStep) /\ WF_kdVars(searchStep)

-----------------------------------------------------------------------------
\* The points on either side of a cut are on their side of it, and the gap
\* between the two sides is as wide as the node says.
separates(c) ==
    LET n == tree[c]
        values(d) == {coordinate(k, n.divfeat) : k \in within(d)}
    IN /\ c.left < n.mid /\ n.mid < c.right
       /\ built(lower(c, n.mid)) /\ built(upper(c, n.mid))
       /\ n.divlow = Max(values(lower(c, n.mid)))
       /\ n.divhigh = Min(values(upper(c, n.mid)))
       /\ n.divlow <= n.divhigh

\* The tree divides the points: each one is in one leaf, no leaf is empty, and
\* the cuts separate what is on their two sides, however many points coincide.
TreeDividesPoints ==
    built(Root) =>
        /\ \A p \in DOMAIN pts :
              \E c \in DOMAIN tree : {d \in DOMAIN tree : at(d, "leaf") /\ p \in pointsOf(d)} = {c}
        /\ \A c \in DOMAIN tree :
              (at(c, "leaf") /\ pointsOf(c) # {}) \/ (at(c, "inner") /\ separates(c))

\* What NetworkState takes the search to return: Node is a point, Place a query.
Network == INSTANCE NetworkState WITH
    Node <- Point, Report <- {}, Place <- Query,
    Distance <- [q \in Query |-> [p \in Point |-> evalMetric(q, p)]],
    NoList <- NoQuery, NoTree <- NoQuery, NoReport <- NoQuery, GeoIpEnabled <- TRUE, IgnoreHeartbeat <- FALSE,
    edgeNodes_ <- pts, treeData_ <- pts, newList <- pts, geo <- TRUE, fetched <- NoQuery

\* The vector is as long as what is asked for, and zero (which is the first
\* point) beyond what is found.
ret_indices ==
    [i \in 1..NearestCount |-> IF i \in DOMAIN resultSet THEN resultSet[i].index ELSE 1]

\* The search finds the nearest points in order of their distance, although it
\* leaves out the subtrees whose bound is beyond the worst point it has; and
\* that is what the requests for edge nodes are modelled and proved with.
NearestFound ==
    idle /\ query # NoQuery => ret_indices \in Network!getNearestNodes(pts, query)

\* buildIndex comes to an end, whatever points coincide, and so does each search.
CallsReturn ==
    /\ pts # <<>> ~> built(Root)
    /\ ~idle ~> idle
=============================================================================
