---------------------------- MODULE KDTreeProofs ----------------------------
(***************************************************************************)
(* Proofs about the KD-tree, for any points, queries, sizes of leaves and  *)
(* numbers of nearest points: the tree divides the points, and the search  *)
(* finds the nearest.                                                      *)
(***************************************************************************)
EXTENDS KDTree, FiniteSetTheorems, WellFoundedInduction, TLAPS

-----------------------------------------------------------------------------
(***************************************************************************)
(* Least and greatest elements, and squares.                               *)
(***************************************************************************)
\* The size of a finite set without a least element would itself have a least value.
LEMMA LeastExists ==
    ASSUME NEW S \in SUBSET Int, S # {}, IsFiniteSet(S)
    PROVE  \E m \in S : \A x \in S : m <= x
  <1>. DEFINE Bad(T) == /\ T \in SUBSET Int /\ T # {} /\ IsFiniteSet(T)
                        /\ \A m \in T : \E x \in T : x < m
              Sizes == {n \in Nat : \E T \in SUBSET Int : Bad(T) /\ Cardinality(T) = n}
  <1>1. Sizes = {}
    <2>. SUFFICES ASSUME Sizes # {} PROVE FALSE
      OBVIOUS
    <2>1. PICK n \in Sizes : \A k \in Sizes : ~(k < n)
      <3>1. Sizes \subseteq Nat
        OBVIOUS
      <3>. HIDE DEF Sizes
      <3>2. PICK n \in Sizes : \A k \in Sizes : <<k, n>> \notin OpToRel(<, Nat)
        BY <3>1, NatLessThanWellFounded, WFMin
      <3>3. \A k, m \in Nat : k < m => <<k, m>> \in OpToRel(<, Nat)
        BY DEF OpToRel
      <3>. QED  BY <3>1, <3>2, <3>3
    <2>2. PICK T \in SUBSET Int : Bad(T) /\ Cardinality(T) = n
      BY <2>1
    <2>3. PICK t \in T : TRUE
      BY <2>2
    <2>4. /\ IsFiniteSet(T \ {t}) /\ Cardinality(T \ {t}) = n - 1 /\ n \in Nat
      BY <2>1, <2>2, <2>3, FS_RemoveElement, FS_CardinalityType
    <2>5. PICK s \in T : s < t
      BY <2>2, <2>3
    <2>6. T \ {t} # {} /\ T \ {t} \in SUBSET Int /\ n - 1 \in Nat
      <3>1. s # t
        BY <2>2, <2>5
      <3>2. Cardinality(T \ {t}) \in Nat
        BY <2>4, FS_CardinalityType
      <3>. QED  BY <2>2, <2>4, <2>5, <3>1, <3>2
    <2>7. \A m \in T \ {t} : \E x \in T \ {t} : x < m
      <3>. SUFFICES ASSUME NEW m \in T \ {t}
                    PROVE  \E x \in T \ {t} : x < m
        OBVIOUS
      <3>1. PICK x \in T : x < m
        BY <2>2
      <3>. QED  BY <2>2, <2>3, <2>5, <3>1
    <2>8. n - 1 \in Sizes
      BY <2>4, <2>6, <2>7
    <2>. QED  BY <2>1, <2>4, <2>8
  <1>2. Cardinality(S) \in Nat
    BY FS_CardinalityType
  <1>. QED
    <2>. SUFFICES ASSUME \A m \in S : \E x \in S : ~(m <= x)
                  PROVE  FALSE
      OBVIOUS
    <2>1. Bad(S)
      OBVIOUS
    <2>. QED  BY <1>1, <1>2, <2>1


LEMMA MinOf ==
    ASSUME NEW S \in SUBSET Int, S # {}, IsFiniteSet(S)
    PROVE  Min(S) \in S /\ \A x \in S : Min(S) <= x
  BY LeastExists DEF Min

LEMMA ImageFinite ==
    ASSUME NEW S, IsFiniteSet(S), NEW f
    PROVE  IsFiniteSet({f[x] : x \in S})
  <1>. DEFINE T == {f[x] : x \in S}
              g == [x \in S |-> f[x]]
  <1>1. g \in Surjection(S, T)
    BY DEF Surjection
  <1>. HIDE DEF T, g
  <1>2. IsFiniteSet(T)
    BY <1>1, FS_Surjection
  <1>. QED  BY <1>2 DEF T

LEMMA MaxOf ==
    ASSUME NEW S \in SUBSET Int, S # {}, IsFiniteSet(S)
    PROVE  Max(S) \in S /\ \A x \in S : x <= Max(S)
  <1>. DEFINE f == [x \in S |-> 0 - x]
              T == {f[x] : x \in S}
  <1>1. T \in SUBSET Int /\ T # {}
    <2>1. \A x \in S : f[x] \in Int
      OBVIOUS
    <2>. HIDE DEF f
    <2>. QED  BY <2>1
  <1>2. IsFiniteSet(T)
    <2>. HIDE DEF f
    <2>. QED  BY ImageFinite
  <1>3. PICK m \in T : \A x \in T : m <= x
    <2>. HIDE DEF T
    <2>. QED  BY <1>1, <1>2, LeastExists
  <1>4. PICK g \in S : m = 0 - g
    BY <1>3
  <1>5. \A x \in S : x <= g
    <2>. SUFFICES ASSUME NEW x \in S PROVE x <= g
      OBVIOUS
    <2>1. 0 - g <= 0 - x
      BY <1>3, <1>4
    <2>. QED  BY <2>1
  <1>. QED  BY <1>4, <1>5 DEF Max

LEMMA LeastIs ==
    ASSUME NEW S \in SUBSET Int, NEW m \in S, \A x \in S : m <= x
    PROVE  Min(S) = m
  <1>1. Min(S) \in S /\ \A x \in S : Min(S) <= x
    BY DEF Min
  <1>2. Min(S) <= m /\ m <= Min(S) /\ Min(S) \in Int /\ m \in Int
    BY <1>1
  <1>. QED  BY <1>2

LEMMA GreatestIs ==
    ASSUME NEW S \in SUBSET Int, NEW m \in S, \A x \in S : x <= m
    PROVE  Max(S) = m
  <1>1. Max(S) \in S /\ \A x \in S : Max(S) >= x
    BY DEF Max
  <1>2. m <= Max(S) /\ Max(S) <= m /\ Max(S) \in Int /\ m \in Int
    BY <1>1
  <1>. QED  BY <1>2

\* What is farther on one side is farther when squared.
LEMMA Squares ==
    ASSUME NEW a \in Int, NEW b \in Int, NEW c \in Int
    PROVE  /\ accum_dist(a, b) \in Nat
           /\ a <= b /\ b <= c => /\ accum_dist(a, b) <= accum_dist(a, c)
                                  /\ accum_dist(c, b) <= accum_dist(c, a)
  <1>1. accum_dist(a, b) \in Int /\ 0 <= accum_dist(a, b)
    BY DEF accum_dist
  <1>2. ASSUME a <= b, b <= c
        PROVE  (a - b) * (a - b) <= (a - c) * (a - c)
    BY <1>2
  <1>3. ASSUME a <= b, b <= c
        PROVE  (c - b) * (c - b) <= (c - a) * (c - a)
    BY <1>3
  <1>. QED  BY <1>1, <1>2, <1>3 DEF accum_dist

LEMMA AxisFinite == IsFiniteSet(Axis) /\ Axis \subseteq Int /\ 1 \in Axis
  <1>1. IsFiniteSet({1})
    BY FS_Singleton
  <1>2. IsFiniteSet({1} \cup {2})
    BY <1>1, FS_AddElement
  <1>3. IsFiniteSet(({1} \cup {2}) \cup {3})
    BY <1>2, FS_AddElement
  <1>4. Axis = ({1} \cup {2}) \cup {3}
    BY DEF Axis
  <1>. QED  BY <1>3, <1>4

\* The distance of two points, and when a sum of three is at most another.
LEMMA Distances ==
    ASSUME NEW a \in [Axis -> Int], NEW b \in [Axis -> Int]
    PROVE  /\ evalMetric(a, b) \in Int
           /\ evalMetric(a, b) = accum_dist(a[1], b[1]) + accum_dist(a[2], b[2])
                                                        + accum_dist(a[3], b[3])
  <1>1. \A i \in Axis : a[i] \in Int /\ b[i] \in Int
    OBVIOUS
  <1>2. \A i \in Axis : accum_dist(a[i], b[i]) \in Int
    BY <1>1 DEF accum_dist
  <1>3. 1 \in Axis /\ 2 \in Axis /\ 3 \in Axis
    BY DEF Axis
  <1>4. evalMetric(a, b) = accum_dist(a[1], b[1]) + accum_dist(a[2], b[2])
                                                  + accum_dist(a[3], b[3])
    <2>. DEFINE d == [i \in Axis |-> accum_dist(a[i], b[i])]
    <2>1. /\ d[1] = accum_dist(a[1], b[1]) /\ d[2] = accum_dist(a[2], b[2])
          /\ d[3] = accum_dist(a[3], b[3])
      BY <1>3
    <2>. HIDE DEF d
    <2>2. evalMetric(a, b) = total(d)
      BY DEF evalMetric, d
    <2>. QED  BY <2>1, <2>2 DEF total
  <1>. HIDE DEF Axis
  <1>5. /\ accum_dist(a[1], b[1]) \in Int /\ accum_dist(a[2], b[2]) \in Int
        /\ accum_dist(a[3], b[3]) \in Int
    BY <1>2, <1>3
  <1>. QED  BY <1>4, <1>5

LEMMA Totals ==
    ASSUME NEW d \in [Axis -> Int], NEW a \in [Axis -> Int], NEW b \in [Axis -> Int],
           \A i \in Axis : d[i] <= accum_dist(a[i], b[i])
    PROVE  total(d) <= evalMetric(a, b)
  <1>1. 1 \in Axis /\ 2 \in Axis /\ 3 \in Axis
    BY DEF Axis
  <1>2. \A i \in Axis : /\ d[i] \in Int /\ accum_dist(a[i], b[i]) \in Int
                        /\ d[i] <= accum_dist(a[i], b[i])
    BY DEF accum_dist
  <1>. DEFINE e(i) == accum_dist(a[i], b[i])
  <1>3. /\ d[1] \in Int /\ d[2] \in Int /\ d[3] \in Int
        /\ e(1) \in Int /\ e(2) \in Int /\ e(3) \in Int
        /\ d[1] <= e(1) /\ d[2] <= e(2) /\ d[3] <= e(3)
    BY <1>1, <1>2
  <1>4. evalMetric(a, b) = e(1) + e(2) + e(3)
    BY Distances
  <1>. HIDE DEF e
  <1>. QED  BY <1>3, <1>4 DEF total

\* The sum, when one of its parts is replaced.
LEMMA TotalExcept ==
    ASSUME NEW d \in [Axis -> Int], NEW f \in Axis, NEW x \in Int
    PROVE  /\ total(d) \in Int
           /\ total([d EXCEPT ![f] = x]) = total(d) + x - d[f]
  <1>1. d[1] \in Int /\ d[2] \in Int /\ d[3] \in Int /\ d[f] \in Int
    BY DEF Axis
  <1>2. f = 1 \/ f = 2 \/ f = 3
    BY DEF Axis
  <1>. DEFINE e == [d EXCEPT ![f] = x]
  <1>3. /\ e[1] = (IF f = 1 THEN x ELSE d[1])
        /\ e[2] = (IF f = 2 THEN x ELSE d[2])
        /\ e[3] = (IF f = 3 THEN x ELSE d[3])
    BY DEF Axis
  <1>. HIDE DEF e
  <1>4. total(e) = total(d) + x - d[f]
    BY <1>1, <1>2, <1>3 DEF total
  <1>. QED  BY <1>1, <1>4 DEF total, e

-----------------------------------------------------------------------------
(***************************************************************************)
(* The invariant of the tree that is built.  It speaks of the nodes that   *)
(* are made, and holds in every state of the recursion.                    *)
(***************************************************************************)
PointsOK == pts \in Seq(Point)

\* A node that has made children is cut at mid, and they are under it.
Cut(c) == tree[c].pc \in {"first", "second", "inner"}
InLower(c, d) == d.left <= c.left /\ c.right <= tree[d].mid
InUpper(c, d) == tree[d].mid <= c.left /\ c.right <= d.right
Under(c, d) == Cut(d) /\ (InLower(c, d) \/ InUpper(c, d))
Apart(c, d) == c.right <= d.left \/ d.right <= c.left

MadeOK ==
    /\ tree \in [DOMAIN tree -> Node]
    /\ DOMAIN tree # {} => Root \in DOMAIN tree
    /\ \A c \in DOMAIN tree : c \in Part /\ c.left < c.right /\ c.right <= Len(pts)

\* vind is a permutation of the points.
OrderOK ==
    DOMAIN tree # {} =>
        /\ vind \in [within(Root) -> DOMAIN pts]
        /\ \A j, k \in within(Root) : vind[j] = vind[k] => j = k
        /\ \A p \in DOMAIN pts : \E k \in within(Root) : vind[k] = p

\* Two nodes are apart, or one is under the other.
Laminar == \A c, d \in DOMAIN tree : c = d \/ Apart(c, d) \/ Under(c, d) \/ Under(d, c)

\* What has a built node above it is built.
BuiltUnder == \A c, d \in DOMAIN tree : Under(c, d) /\ built(d) => built(c)

\* Each position is in a node that is not cut, or will be in one's second child.
Covered ==
    DOMAIN tree # {} => \A k \in within(Root) : \E c \in DOMAIN tree :
        k \in within(c) /\ (~Cut(c) \/ (at(c, "first") /\ k >= tree[c].mid))

value(c, k) == coordinate(k, tree[c].divfeat)

\* planeSplit: what is left of left and right of right is on its side, and the
\* cut is not beyond the points, so that neither index leaves the part.
Splits(c) ==
    LET n == tree[c]
    IN /\ c.left <= n.left /\ n.left <= n.right + 1
       /\ c.left <= n.right /\ n.right < c.right
       /\ c.left + 1 < c.right
       /\ \E k \in within(c) : value(c, k) <= n.cutval
       /\ \E k \in within(c) : value(c, k) >= n.cutval
       /\ n.pc = "below" =>
            /\ \A k \in c.left .. n.left - 1 : value(c, k) < n.cutval
            /\ \A k \in n.right + 1 .. c.right - 1 : value(c, k) >= n.cutval
       /\ n.pc = "upTo" =>
            /\ c.left <= n.lim1 /\ n.lim1 <= n.left
            /\ \A k \in c.left .. n.lim1 - 1 : value(c, k) < n.cutval
            /\ \A k \in n.lim1 .. c.right - 1 : value(c, k) >= n.cutval
            /\ \A k \in n.lim1 .. n.left - 1 : value(c, k) <= n.cutval
            /\ \A k \in n.right + 1 .. c.right - 1 : value(c, k) > n.cutval

\* Both sides have points, on their side of the cut.
Waits(c) ==
    LET n == tree[c]
    IN /\ c.left < n.mid /\ n.mid < c.right
       /\ \A k \in c.left .. n.mid - 1 : value(c, k) <= n.cutval
       /\ \A k \in n.mid .. c.right - 1 : value(c, k) >= n.cutval
       /\ n.pc = "first" => /\ lower(c, n.mid) \in DOMAIN tree
                            /\ \A d \in DOMAIN tree : ~InUpper(d, c)
       /\ n.pc = "second" => built(lower(c, n.mid)) /\ upper(c, n.mid) \in DOMAIN tree

\* A box is tight: no point is outside, and one is on each side of it.
TightBox(c, box) ==
    \A i \in Axis :
        /\ \A k \in within(c) : /\ box[i].low <= coordinate(k, i)
                                /\ coordinate(k, i) <= box[i].high
        /\ \E k \in within(c) : box[i].low = coordinate(k, i)
        /\ \E k \in within(c) : box[i].high = coordinate(k, i)

Divides(c) ==
    LET n == tree[c]
    IN /\ c.left < n.mid /\ n.mid < c.right
       /\ built(lower(c, n.mid)) /\ built(upper(c, n.mid))
       /\ n.divlow = tree[lower(c, n.mid)].bbox[n.divfeat].high
       /\ n.divhigh = tree[upper(c, n.mid)].bbox[n.divfeat].low
       /\ n.divlow <= n.divhigh

NodeOK(c) ==
    /\ splitting(c) => Splits(c)
    /\ at(c, "first") \/ at(c, "second") => Waits(c)
    /\ built(c) => TightBox(c, tree[c].bbox)
    /\ at(c, "inner") => Divides(c)

BuildInv ==
    /\ PointsOK /\ MadeOK /\ OrderOK /\ Laminar /\ BuiltUnder /\ Covered
    /\ \A c \in DOMAIN tree : NodeOK(c)

-----------------------------------------------------------------------------
(***************************************************************************)
(* Parts and boxes.                                                        *)
(***************************************************************************)
LEMMA Halves ==
    ASSUME NEW c \in Part, NEW mid \in Nat
    PROVE  /\ lower(c, mid) \in Part /\ upper(c, mid) \in Part
           /\ lower(c, mid).left = c.left /\ lower(c, mid).right = mid
           /\ upper(c, mid).left = mid /\ upper(c, mid).right = c.right
  BY DEF Part, lower, upper

LEMMA SamePart ==
    ASSUME NEW c \in Part, NEW d \in Part, c.left = d.left, c.right = d.right
    PROVE  c = d
  BY DEF Part

LEMMA RootPart ==
    ASSUME PointsOK
    PROVE  /\ Root \in Part /\ Root.left = 0 /\ Root.right = Len(pts)
           /\ Len(pts) \in Nat /\ DOMAIN pts = 1..Len(pts)
           /\ within(Root) = 0 .. Len(pts) - 1
  BY DEF PointsOK, Part, Root, within

LEMMA MadeNode ==
    ASSUME PointsOK, MadeOK, NEW c \in DOMAIN tree
    PROVE  /\ tree[c] \in Node /\ c \in Part
           /\ c.left \in Nat /\ c.right \in Nat /\ c.left < c.right /\ c.right <= Len(pts)
           /\ Len(pts) \in Nat
           /\ within(c) \subseteq within(Root)
           /\ \A k : k \in within(c) <=> k \in Int /\ c.left <= k /\ k < c.right
  <1>1. /\ tree[c] \in Node /\ c \in Part /\ c.left < c.right /\ c.right <= Len(pts)
    BY DEF MadeOK
  <1>2. c.left \in Nat /\ c.right \in Nat
    BY <1>1 DEF Part
  <1>3. \A k : k \in within(c) <=> k \in Int /\ c.left <= k /\ k < c.right
    BY <1>2 DEF within
  <1>. QED  BY <1>1, <1>2, <1>3, RootPart

LEMMA Coordinates ==
    ASSUME PointsOK, OrderOK, DOMAIN tree # {}, NEW k \in within(Root), NEW i \in Axis
    PROVE  /\ vind[k] \in DOMAIN pts
           /\ pts[vind[k]] \in [Axis -> Int] /\ coordinate(k, i) \in Int
  <1>1. vind[k] \in DOMAIN pts
    BY DEF OrderOK
  <1>2. pts[vind[k]] \in Point
    BY <1>1, RootPart DEF PointsOK
  <1>3. pts[vind[k]] \in [Axis -> Int]
    BY <1>2, KDTreeAssumption
  <1>. QED  BY <1>1, <1>3 DEF coordinate

\* The box of some points is tight.
LEMMA BoxOfPoints ==
    ASSUME PointsOK, NEW P \in SUBSET DOMAIN pts, P # {}
    PROVE  /\ boundingBox(P) \in Box
           /\ \A i \in Axis :
                /\ \A p \in P : /\ boundingBox(P)[i].low <= pts[p][i]
                                /\ pts[p][i] <= boundingBox(P)[i].high
                /\ \E p \in P : boundingBox(P)[i].low = pts[p][i]
                /\ \E p \in P : boundingBox(P)[i].high = pts[p][i]
  <1>. DEFINE S(i) == {pts[p][i] : p \in P}
  <1>1. IsFiniteSet(P)
    <2>1. IsFiniteSet(DOMAIN pts)
      BY RootPart, FS_Interval
    <2>. QED  BY <2>1, FS_Subset
  <1>2. ASSUME NEW i \in Axis
        PROVE  S(i) \in SUBSET Int /\ S(i) # {} /\ IsFiniteSet(S(i))
    <2>1. \A p \in P : pts[p][i] \in Int
      <3>1. \A p \in P : pts[p] \in Point
        BY RootPart DEF PointsOK
      <3>. QED  BY <3>1, KDTreeAssumption
    <2>. DEFINE f == [p \in P |-> pts[p][i]]
    <2>2. IsFiniteSet({f[p] : p \in P})
      <3>. HIDE DEF f
      <3>. QED  BY <1>1, ImageFinite
    <2>3. {f[p] : p \in P} = S(i)
      OBVIOUS
    <2>. QED  BY <2>1, <2>2, <2>3
  <1>3. \A i \in Axis : /\ Min(S(i)) \in S(i) /\ \A x \in S(i) : Min(S(i)) <= x
                        /\ Max(S(i)) \in S(i) /\ \A x \in S(i) : x <= Max(S(i))
    <2>. HIDE DEF S
    <2>. QED  BY <1>2, MinOf, MaxOf
  <1>4. \A i \in Axis : boundingBox(P)[i] = [low |-> Min(S(i)), high |-> Max(S(i))]
    BY DEF boundingBox
  <1>5. boundingBox(P) \in Box
    <2>1. \A i \in Axis : Min(S(i)) \in Int /\ Max(S(i)) \in Int
      <3>. HIDE DEF S
      <3>. QED  BY <1>2, <1>3
    <2>2. boundingBox(P) = [i \in Axis |-> [low |-> Min(S(i)), high |-> Max(S(i))]]
      BY DEF boundingBox
    <2>. HIDE DEF S
    <2>. QED  BY <2>1, <2>2 DEF Box
  <1>6. ASSUME NEW i \in Axis
        PROVE  /\ \A p \in P : /\ boundingBox(P)[i].low <= pts[p][i]
                             /\ pts[p][i] <= boundingBox(P)[i].high
               /\ \E p \in P : boundingBox(P)[i].low = pts[p][i]
               /\ \E p \in P : boundingBox(P)[i].high = pts[p][i]
    <2>1. boundingBox(P)[i].low = Min(S(i)) /\ boundingBox(P)[i].high = Max(S(i))
      <3>. DEFINE b(j) == [low |-> Min(S(j)), high |-> Max(S(j))]
      <3>1. boundingBox(P) = [j \in Axis |-> b(j)]
        BY DEF boundingBox
      <3>. HIDE DEF b
      <3>2. boundingBox(P)[i] = b(i)
        BY <3>1
      <3>. QED  BY <3>2 DEF b
    <2>2. \A p \in P : pts[p][i] \in S(i)
      OBVIOUS
    <2>3. \A x \in S(i) : \E p \in P : x = pts[p][i]
      OBVIOUS
    <2>4. /\ Min(S(i)) \in S(i) /\ \A x \in S(i) : Min(S(i)) <= x
          /\ Max(S(i)) \in S(i) /\ \A x \in S(i) : x <= Max(S(i))
      <3>. HIDE DEF S
      <3>. QED  BY <1>3
    <2>. DEFINE T == S(i)
                box == boundingBox(P)[i]
    <2>5. /\ \A p \in P : pts[p][i] \in T
          /\ \A x \in T : (\E p \in P : x = pts[p][i]) /\ box.low <= x /\ x <= box.high
          /\ box.low \in T /\ box.high \in T
      BY <2>1, <2>2, <2>3, <2>4
    <2>. HIDE DEF T, box
    <2>6. /\ \A p \in P : box.low <= pts[p][i] /\ pts[p][i] <= box.high
          /\ \E p \in P : box.low = pts[p][i]
          /\ \E p \in P : box.high = pts[p][i]
      BY <2>5
    <2>. QED  BY <2>6 DEF box
  <1>. QED  BY <1>5, <1>6

LEMMA BoxOfPart ==
    ASSUME PointsOK, MadeOK, OrderOK, NEW c \in DOMAIN tree
    PROVE  boundingBox(pointsOf(c)) \in Box /\ TightBox(c, boundingBox(pointsOf(c)))
  <1>1. pointsOf(c) \in SUBSET DOMAIN pts
    BY MadeNode, RootPart DEF pointsOf, OrderOK
  <1>2. pointsOf(c) # {}
    <2>1. c.left \in within(c)
      BY MadeNode
    <2>. QED  BY <2>1 DEF pointsOf
  <1>. DEFINE b == boundingBox(pointsOf(c))
  <1>3. /\ b \in Box
        /\ \A i \in Axis :
             /\ \A p \in pointsOf(c) : b[i].low <= pts[p][i] /\ pts[p][i] <= b[i].high
             /\ \E p \in pointsOf(c) : b[i].low = pts[p][i]
             /\ \E p \in pointsOf(c) : b[i].high = pts[p][i]
    BY <1>1, <1>2, BoxOfPoints
  <1>. HIDE DEF b
  <1>4. TightBox(c, b)
    BY <1>3 DEF TightBox, pointsOf, coordinate
  <1>. QED  BY <1>3, <1>4 DEF b

\* A cut is inside of its part.
LEMMA CutInside ==
    ASSUME BuildInv, NEW c \in DOMAIN tree, Cut(c)
    PROVE  tree[c].mid \in Nat /\ c.left < tree[c].mid /\ tree[c].mid < c.right
  <1>1. at(c, "first") \/ at(c, "second") \/ at(c, "inner")
    BY DEF Cut, at
  <1>2. c.left < tree[c].mid /\ tree[c].mid < c.right
    BY <1>1 DEF BuildInv, NodeOK, Waits, Divides
  <1>3. tree[c].mid \in Int /\ c.left \in Nat
    BY MadeNode DEF BuildInv, Node
  <1>. QED  BY <1>2, <1>3

-----------------------------------------------------------------------------
(***************************************************************************)
(* What a step on one node leaves of the others.                           *)
(***************************************************************************)
\* A node is as it was when it is not touched, and what was built still is.
LEMMA NodeStays ==
    ASSUME NEW d \in DOMAIN tree, NodeOK(d), vind' = vind, pts' = pts,
           DOMAIN tree \subseteq DOMAIN tree', tree'[d] = tree[d],
           \A e \in DOMAIN tree : built(e) => tree'[e] = tree[e],
           at(d, "first") => \A e \in DOMAIN tree' \ DOMAIN tree : ~InUpper(e, d),
           \A e \in DOMAIN tree : InUpper(e, d)' <=> InUpper(e, d)
    PROVE  NodeOK(d)'
  <1>1. \A e : built(e) => built(e)' /\ tree'[e] = tree[e]
    BY DEF built, at
  <1>2. \A pc : at(d, pc)' <=> at(d, pc)
    BY DEF at
  <1>3. /\ built(d)' <=> built(d)
        /\ splitting(d)' <=> splitting(d)
    BY DEF built, splitting, at
  <1>4. \A k, i : coordinate(k, i)' = coordinate(k, i)
    BY DEF coordinate
  <1>5. \A k : value(d, k)' = value(d, k)
    BY DEF value, coordinate
  <1>6. ASSUME splitting(d) PROVE Splits(d)'
    <2>1. Splits(d)
      BY <1>6 DEF NodeOK
    <2>. QED  BY <1>5, <2>1 DEF Splits
  <1>7. ASSUME at(d, "first") \/ at(d, "second") PROVE Waits(d)'
    <2>1. Waits(d)
      BY <1>7 DEF NodeOK
    <2>2. tree[d].pc = "first" => \A e \in DOMAIN tree' : ~InUpper(e, d)'
      <3>1. \A e : InUpper(e, d)' <=> InUpper(e, d)
        BY DEF InUpper
      <3>. QED  BY <2>1, <3>1 DEF Waits, at
    <2>. QED  BY <1>1, <1>5, <2>1, <2>2 DEF Waits
  <1>8. ASSUME built(d) PROVE TightBox(d, tree[d].bbox)'
    <2>1. TightBox(d, tree[d].bbox)
      BY <1>8 DEF NodeOK
    <2>. QED  BY <1>4, <2>1 DEF TightBox
  <1>9. ASSUME at(d, "inner") PROVE Divides(d)'
    <2>1. Divides(d)
      BY <1>9 DEF NodeOK
    <2>. QED  BY <1>1, <2>1 DEF Divides
  <1>. QED  BY <1>2, <1>3, <1>6, <1>7, <1>8, <1>9 DEF NodeOK

\* A step of one call of divideTree that makes no node.
LEMMA SameNodes ==
    ASSUME BuildInv, pts' = pts,
           NEW c \in DOMAIN tree, ~built(c), ~at(c, "first"),
           NEW n \in Node, n.pc # "first", tree' = [tree EXCEPT ![c] = n],
           n.pc \in {"first", "second", "inner"} <=> Cut(c),
           Cut(c) => n.mid = tree[c].mid,
           n.pc \in {"leaf", "inner"} => \A d \in DOMAIN tree : Under(d, c) => built(d),
           OrderOK', \A d \in DOMAIN tree : NodeOK(d)'
    PROVE  BuildInv'
  <1>1. /\ DOMAIN tree' = DOMAIN tree /\ tree'[c] = n
        /\ \A d \in DOMAIN tree : d # c => tree'[d] = tree[d]
    OBVIOUS
  <1>2. \A d \in DOMAIN tree : Cut(d)' <=> Cut(d)
    BY <1>1 DEF Cut
  <1>3. \A d \in DOMAIN tree : Cut(d) => tree'[d].mid = tree[d].mid
    BY <1>1
  <1>4. \A d, e \in DOMAIN tree : Under(d, e)' <=> Under(d, e)
    BY <1>2, <1>3 DEF Under, InLower, InUpper
  <1>5. \A d \in DOMAIN tree : d # c => (built(d)' <=> built(d))
    BY <1>1 DEF built, at
  <1>6. PointsOK' /\ Root' = Root /\ within(Root)' = within(Root)
    BY DEF PointsOK, BuildInv, Root, within
  <1>7. MadeOK'
    BY <1>1, <1>6 DEF BuildInv, MadeOK
  <1>8. Laminar'
    BY <1>1, <1>4 DEF BuildInv, Laminar, Apart
  <1>9. BuiltUnder'
    <2>. SUFFICES ASSUME NEW d \in DOMAIN tree, NEW e \in DOMAIN tree,
                         Under(d, e), built(e)'
                  PROVE  built(d)'
      BY <1>1, <1>4 DEF BuiltUnder
    <2>1. built(d)
      <3>1. CASE e = c
        <4>1. n.pc \in {"leaf", "inner"}
          BY <1>1, <3>1 DEF built, at
        <4>. QED  BY <3>1, <4>1
      <3>2. CASE e # c
        BY <1>5, <3>2 DEF BuildInv, BuiltUnder
      <3>. QED  BY <3>1, <3>2
    <2>. QED  BY <1>5, <2>1
  <1>10. Covered'
    <2>. SUFFICES ASSUME NEW k \in within(Root), DOMAIN tree # {}
                  PROVE  \E d \in DOMAIN tree' :
                            k \in within(d)' /\ (~Cut(d)' \/ (at(d, "first")' /\ k >= tree'[d].mid))
      BY <1>1, <1>6 DEF Covered
    <2>1. PICK d \in DOMAIN tree : k \in within(d) /\ (~Cut(d) \/ (at(d, "first") /\ k >= tree[d].mid))
      BY DEF BuildInv, Covered
    <2>2. at(d, "first") => at(d, "first")' /\ tree'[d] = tree[d]
      BY <1>1 DEF at
    <2>. QED  BY <1>1, <1>2, <2>1, <2>2 DEF within
  <1>. QED  BY <1>1, <1>6, <1>7, <1>8, <1>9, <1>10 DEF BuildInv

\* Nor does it move a point.
LEMMA OwnStep ==
    ASSUME BuildInv, pts' = pts, vind' = vind,
           NEW c \in DOMAIN tree, ~built(c), ~at(c, "first"),
           NEW n \in Node, n.pc # "first", tree' = [tree EXCEPT ![c] = n],
           n.pc \in {"first", "second", "inner"} <=> Cut(c),
           Cut(c) => n.mid = tree[c].mid,
           n.pc \in {"leaf", "inner"} => \A d \in DOMAIN tree : Under(d, c) => built(d),
           NodeOK(c)'
    PROVE  BuildInv'
  <1>1. DOMAIN tree' = DOMAIN tree /\ \A d \in DOMAIN tree : d # c => tree'[d] = tree[d]
    OBVIOUS
  <1>2. OrderOK'
    BY <1>1 DEF BuildInv, OrderOK, Root, within
  <1>3. ASSUME NEW d \in DOMAIN tree, d # c
        PROVE  NodeOK(d)'
    <2>1. NodeOK(d) /\ tree'[d] = tree[d] /\ DOMAIN tree \subseteq DOMAIN tree'
      BY <1>1, <1>3 DEF BuildInv
    <2>2. \A e \in DOMAIN tree : InUpper(e, d)' <=> InUpper(e, d)
      BY <2>1 DEF InUpper
    <2>. QED  BY <1>1, <2>1, <2>2, NodeStays
  <1>. QED  BY <1>2, <1>3, SameNodes

\* A call that made no node yet for a child has none under it.
LEMMA NoneUnder ==
    ASSUME BuildInv, NEW c \in DOMAIN tree, ~Cut(c),
           NEW d \in DOMAIN tree
    PROVE  c = d \/ Apart(c, d) \/ Under(c, d)
  BY DEF BuildInv, Laminar, Under

\* A step that makes a node for one side of a cut.
LEMMA ChildStep ==
    ASSUME BuildInv, pts' = pts, vind' = vind,
           NEW c \in DOMAIN tree, ~built(c), ~at(c, "second"),
           NEW n \in Node, n.pc \in {"first", "second"}, n.mid \in Nat,
           NEW x \in Part, x.left < x.right, c.left <= x.left, x.right <= c.right, x # c,
           NEW box \in Box,
           tree' = call([tree EXCEPT ![c] = n], x, box),
           Cut(c) => n.mid = tree[c].mid,
           \/ x = lower(c, n.mid) /\ n.pc = "first" /\ ~Cut(c)
           \/ x = upper(c, n.mid) /\ n.pc = "second" /\ at(c, "first"),
           \A d \in DOMAIN tree : d = c \/ Apart(c, d) \/ Under(c, d) \/ Apart(x, d),
           NodeOK(c)'
    PROVE  BuildInv'
  <1>1. /\ DOMAIN tree' = DOMAIN tree \cup {x}
        /\ tree'[x] \in Node /\ tree'[x].pc = "called"
        /\ tree'[c] = n
        /\ \A d \in DOMAIN tree : d # c /\ d # x => tree'[d] = tree[d]
    <2>. DEFINE nodes == [tree EXCEPT ![c] = n]
    <2>1. /\ DOMAIN nodes = DOMAIN tree /\ nodes[c] = n
          /\ \A d \in DOMAIN tree : d # c => nodes[d] = tree[d]
      OBVIOUS
    <2>2. tree' = call(nodes, x, box)
      OBVIOUS
    <2>. HIDE DEF nodes
    <2>3. /\ DOMAIN call(nodes, x, box) = DOMAIN nodes \cup {x}
          /\ call(nodes, x, box)[x] \in Node /\ call(nodes, x, box)[x].pc = "called"
          /\ \A d \in DOMAIN nodes : d # x => call(nodes, x, box)[d] = nodes[d]
      BY DEF call, Node, Axis
    <2>. QED  BY <2>1, <2>2, <2>3
  <1>2. /\ c \in Part /\ c.left \in Nat /\ c.right \in Nat /\ c.left < c.right
        /\ c.right <= Len(pts) /\ Len(pts) \in Nat
        /\ x.left \in Nat /\ x.right \in Nat
        /\ \A d \in DOMAIN tree : d.left \in Nat /\ d.right \in Nat /\ d.left < d.right
    BY MadeNode DEF BuildInv, Part
  <1>3. \/ x.left = c.left /\ x.right = n.mid
        \/ x.left = n.mid /\ x.right = c.right
    <2>1. /\ lower(c, n.mid).left = c.left /\ lower(c, n.mid).right = n.mid
          /\ upper(c, n.mid).left = n.mid /\ upper(c, n.mid).right = c.right
      BY <1>2, Halves
    <2>2. x = lower(c, n.mid) \/ x = upper(c, n.mid)
      OBVIOUS
    <2>. QED  BY <2>1, <2>2
  <1>4. x \notin DOMAIN tree
    <2>. SUFFICES ASSUME x \in DOMAIN tree PROVE FALSE
      OBVIOUS
    <2>1. Apart(c, x) \/ Under(c, x) \/ Apart(x, x)
      OBVIOUS
    <2>2. ~Apart(c, x) /\ ~Apart(x, x)
      BY <1>2 DEF Apart
    <2>3. ~Under(c, x)
      <3>. SUFFICES ASSUME Cut(x), InLower(c, x) \/ InUpper(c, x) PROVE FALSE
        BY DEF Under
      <3>1. tree[x].mid \in Nat /\ x.left < tree[x].mid /\ tree[x].mid < x.right
        BY CutInside
      <3>. QED  BY <1>2, <3>1 DEF InLower, InUpper
    <2>. QED  BY <2>1, <2>2, <2>3
  <1>5. \A d \in DOMAIN tree : d # c => tree'[d] = tree[d]
    BY <1>1, <1>4
  <1>6. /\ \A d \in DOMAIN tree : d # c => (Cut(d)' <=> Cut(d))
        /\ Cut(c)' /\ ~Cut(x)'
    BY <1>1, <1>5 DEF Cut
  <1>7. /\ \A d \in DOMAIN tree : built(d)' <=> built(d)
        /\ ~built(x)' /\ ~built(c)'
        /\ \A d \in DOMAIN tree : built(d) => tree'[d] = tree[d]
    BY <1>1, <1>5 DEF built, at
  <1>8. \A d, e \in DOMAIN tree : e # c => (Under(d, e)' <=> Under(d, e))
    BY <1>5, <1>6 DEF Under, InLower, InUpper
  <1>9. \A d \in DOMAIN tree : Under(d, c) => Under(d, c)'
    BY <1>1, <1>6 DEF Under, InLower, InUpper
  <1>10. Under(x, c)'
    BY <1>1, <1>2, <1>3, <1>6 DEF Under, InLower, InUpper
  <1>11. ASSUME NEW d \in DOMAIN tree, d # c
         PROVE  Apart(x, d) \/ (Under(c, d) /\ Under(x, d) /\ Under(x, d)')
    <2>1. Apart(c, d) => Apart(x, d)
      BY <1>2 DEF Apart
    <2>2. ASSUME Under(c, d) PROVE Under(x, d) /\ Under(x, d)'
      <3>1. tree[d].mid \in Nat
        BY <2>2, CutInside DEF Under
      <3>2. Under(x, d)
        BY <1>2, <2>2, <3>1 DEF Under, InLower, InUpper
      <3>. QED  BY <1>5, <1>6, <1>11, <3>2 DEF Under, InLower, InUpper
    <2>. QED  BY <1>11, <2>1, <2>2
  <1>12. PointsOK' /\ Root' = Root /\ within(Root)' = within(Root)
    BY DEF PointsOK, BuildInv, Root, within
  <1>13. MadeOK'
    <2>1. \A d \in DOMAIN tree' : tree'[d] \in Node
      BY <1>1, <1>5 DEF BuildInv, MadeOK
    <2>2. tree' = [d \in DOMAIN tree' |-> tree'[d]]
      BY DEF call
    <2>3. tree' \in [DOMAIN tree' -> Node]
      BY <2>1, <2>2
    <2>4. Root \in DOMAIN tree'
      BY <1>1 DEF BuildInv, MadeOK
    <2>5. \A d \in DOMAIN tree' : d \in Part /\ d.left < d.right /\ d.right <= Len(pts)
      <3>1. x \in Part /\ x.left < x.right /\ x.right <= Len(pts)
        BY <1>2
      <3>. QED  BY <1>1, <3>1 DEF BuildInv, MadeOK
    <2>. QED  BY <1>12, <2>3, <2>4, <2>5 DEF MadeOK
  <1>14. OrderOK'
    BY <1>1, <1>12 DEF BuildInv, OrderOK
  <1>15. Laminar'
    <2>. SUFFICES ASSUME NEW d \in DOMAIN tree', NEW e \in DOMAIN tree', d # e
                  PROVE  Apart(d, e) \/ Under(d, e)' \/ Under(e, d)'
      BY DEF Laminar, Apart
    <2>1. CASE d \in DOMAIN tree /\ e \in DOMAIN tree
      <3>1. Apart(d, e) \/ Under(d, e) \/ Under(e, d)
        BY <2>1 DEF BuildInv, Laminar
      <3>. QED  BY <1>8, <1>9, <2>1, <3>1
    <2>2. \A y \in DOMAIN tree : Apart(x, y) \/ Under(x, y)'
      BY <1>10, <1>11
    <2>3. CASE d = x
      BY <1>1, <2>2, <2>3
    <2>4. CASE e = x
      <3>1. Apart(x, d) \/ Under(x, d)'
        BY <1>1, <2>2, <2>4
      <3>. QED  BY <2>4, <3>1 DEF Apart
    <2>. QED  BY <1>1, <2>1, <2>3, <2>4
  <1>16. BuiltUnder'
    <2>. SUFFICES ASSUME NEW d \in DOMAIN tree', NEW e \in DOMAIN tree', Under(d, e)', built(e)'
                  PROVE  built(d)'
      BY DEF BuiltUnder
    <2>1. e \in DOMAIN tree /\ e # c /\ built(e)
      BY <1>1, <1>7
    <2>2. CASE d \in DOMAIN tree
      BY <1>7, <1>8, <2>1, <2>2 DEF BuildInv, BuiltUnder
    <2>3. CASE d = x
      <3>1. ~Apart(x, e)
        <4>1. x.left < x.right /\ e.left < e.right
          BY <1>2, <2>1
        <4>2. e.left <= x.left /\ x.right <= e.right
          <5>1. Cut(e) /\ (InLower(x, e) \/ InUpper(x, e))
            BY <1>5, <1>6, <2>1, <2>3 DEF Under, InLower, InUpper
          <5>2. tree[e].mid \in Nat /\ e.left < tree[e].mid /\ tree[e].mid < e.right
            BY <2>1, <5>1, CutInside
          <5>. QED  BY <1>2, <2>1, <5>1, <5>2 DEF InLower, InUpper
        <4>. QED  BY <1>2, <2>1, <4>1, <4>2 DEF Apart
      <3>2. Under(c, e)
        BY <1>11, <2>1, <3>1
      <3>. QED  BY <2>1, <3>2 DEF BuildInv, BuiltUnder
    <2>. QED  BY <1>1, <2>2, <2>3
  <1>17. Covered'
    <2>. SUFFICES ASSUME NEW k \in within(Root)
                  PROVE  \E d \in DOMAIN tree' :
                            k \in within(d)' /\ (~Cut(d)' \/ (at(d, "first")' /\ k >= tree'[d].mid))
      BY <1>1, <1>12 DEF Covered
    <2>0. k \in Int
      BY RootPart DEF BuildInv
    <2>1. PICK d \in DOMAIN tree : k \in within(d) /\ (~Cut(d) \/ (at(d, "first") /\ k >= tree[d].mid))
      BY DEF BuildInv, Covered
    <2>2. CASE d # c
      <3>1. Cut(d)' <=> Cut(d)
        BY <1>6, <2>2
      <3>2. at(d, "first") => at(d, "first")' /\ tree'[d] = tree[d]
        BY <1>1, <1>5, <2>2 DEF at
      <3>. QED  BY <1>1, <2>1, <3>1, <3>2 DEF within
    <2>3. CASE d = c /\ k \in within(x)
      BY <1>1, <1>6, <2>3 DEF within
    <2>4. CASE d = c /\ k \notin within(x)
      <3>1. ~(x.left <= k /\ k < x.right) /\ c.left <= k /\ k < c.right
        BY <1>2, <2>0, <2>1, <2>4, MadeNode DEF within, BuildInv
      <3>2. n.pc = "first" /\ k >= n.mid
        <4>1. CASE x = lower(c, n.mid) /\ n.pc = "first"
          <5>1. x.left = c.left /\ x.right = n.mid
            BY <1>2, <4>1, Halves
          <5>. QED  BY <1>2, <2>0, <3>1, <4>1, <5>1
        <4>2. CASE x = upper(c, n.mid) /\ at(c, "first")
          <5>1. x.left = n.mid /\ x.right = c.right /\ n.mid = tree[c].mid /\ Cut(c)
            BY <1>2, <4>2, Halves DEF at, Cut
          <5>2. k >= n.mid
            BY <2>1, <2>4, <5>1
          <5>. QED  BY <1>2, <2>0, <3>1, <5>1, <5>2
        <4>. QED  BY <4>1, <4>2
      <3>. QED  BY <1>1, <2>1, <2>4, <3>2 DEF within, at
    <2>. QED  BY <2>2, <2>3, <2>4
  <1>18. NodeOK(x)'
    BY <1>1 DEF NodeOK, splitting, built, at
  <1>19. ASSUME NEW d \in DOMAIN tree, d # c
         PROVE  NodeOK(d)'
    <2>1. NodeOK(d) /\ tree'[d] = tree[d] /\ DOMAIN tree \subseteq DOMAIN tree'
      BY <1>1, <1>5, <1>19 DEF BuildInv
    <2>2. \A e \in DOMAIN tree : InUpper(e, d)' <=> InUpper(e, d)
      BY <2>1 DEF InUpper
    <2>3. ASSUME at(d, "first") PROVE ~InUpper(x, d)
      <3>. SUFFICES ASSUME InUpper(x, d) PROVE FALSE
        OBVIOUS
      <3>1. /\ Cut(d) /\ tree[d].mid \in Nat /\ d.left < tree[d].mid /\ tree[d].mid < d.right
            /\ ~InUpper(c, d)
        BY <2>1, <2>3, CutInside DEF Cut, at, NodeOK, Waits
      <3>2. ~Apart(x, d)
        BY <1>2, <3>1 DEF Apart, InUpper
      <3>3. Under(c, d)
        BY <1>11, <1>19, <3>2
      <3>4. InLower(c, d)
        BY <3>1, <3>3 DEF Under
      <3>. QED  BY <1>2, <3>1, <3>4 DEF InLower, InUpper
    <2>4. at(d, "first") => \A e \in DOMAIN tree' \ DOMAIN tree : ~InUpper(e, d)
      BY <1>1, <2>3
    <2>. QED  BY <1>7, <2>1, <2>2, <2>4, NodeStays
  <1>. QED  BY <1>1, <1>12, <1>13, <1>14, <1>15, <1>16, <1>17, <1>18, <1>19 DEF BuildInv

-----------------------------------------------------------------------------
(***************************************************************************)
(* Each step of building the tree keeps its invariant.                     *)
(***************************************************************************)
LEMMA InitBuildInv == KDInit => BuildInv
  <1>. SUFFICES ASSUME KDInit PROVE BuildInv
    OBVIOUS
  <1>1. PointsOK
    BY DEF KDInit, PointsOK
  <1>2. DOMAIN tree = {}
    BY DEF KDInit
  <1>. QED  BY <1>1, <1>2 DEF BuildInv, MadeOK, OrderOK, Laminar, BuiltUnder, Covered, KDInit

LEMMA BuildIndexBuilds ==
    ASSUME BuildInv, buildIndex
    PROVE  BuildInv'
  <1>1. /\ PointsOK /\ Root \in Part /\ Root.left = 0 /\ Root.right = Len(pts)
        /\ Len(pts) \in Nat /\ DOMAIN pts = 1..Len(pts) /\ within(Root) = 0 .. Len(pts) - 1
    BY RootPart DEF BuildInv
  <1>2. pts' = pts /\ PointsOK' /\ Root' = Root /\ within(Root)' = within(Root)
    BY <1>1 DEF buildIndex, PointsOK, Root, within
  <1>3. Len(pts) > 0 /\ DOMAIN pts # {}
    BY <1>1 DEF buildIndex, PointsOK
  <1>4. boundingBox(DOMAIN pts) \in Box
    BY <1>1, <1>3, BoxOfPoints
  <1>5. /\ DOMAIN tree' = {Root} /\ tree'[Root] \in Node /\ tree'[Root].pc = "called"
        /\ tree' \in [DOMAIN tree' -> Node]
    BY <1>4 DEF buildIndex, call, Node, Axis
  <1>6. MadeOK'
    BY <1>1, <1>2, <1>3, <1>5 DEF MadeOK
  <1>7. OrderOK'
    <2>1. vind' = [k \in 0 .. Len(pts) - 1 |-> k + 1]
      BY <1>1 DEF buildIndex
    <2>2. vind' \in [0 .. Len(pts) - 1 -> 1..Len(pts)]
      BY <1>1, <2>1
    <2>3. \A j, k \in 0 .. Len(pts) - 1 : vind'[j] = vind'[k] => j = k
      BY <1>1, <2>1
    <2>4. ASSUME NEW p \in 1..Len(pts)
          PROVE  \E k \in 0 .. Len(pts) - 1 : vind'[k] = p
      <3>1. p - 1 \in 0 .. Len(pts) - 1 /\ (p - 1) + 1 = p
        BY <1>1
      <3>2. vind'[p - 1] = (p - 1) + 1
        BY <2>1, <3>1
      <3>. QED  BY <3>1, <3>2
    <2>. QED  BY <1>1, <1>2, <2>2, <2>3, <2>4 DEF OrderOK
  <1>8. Laminar'
    BY <1>5 DEF Laminar
  <1>9. BuiltUnder'
    BY <1>5 DEF BuiltUnder
  <1>10. Covered'
    BY <1>2, <1>5 DEF Covered, Cut, within
  <1>11. NodeOK(Root)'
    BY <1>2, <1>5 DEF NodeOK, splitting, built, at
  <1>. QED  BY <1>2, <1>5, <1>6, <1>7, <1>8, <1>9, <1>10, <1>11 DEF BuildInv

LEMMA MakeLeafBuilds ==
    ASSUME BuildInv, NEW c \in DOMAIN tree, makeLeaf(c)
    PROVE  BuildInv'
  <1>. DEFINE box == boundingBox(pointsOf(c))
              n == [tree[c] EXCEPT !.pc = "leaf", !.bbox = box]
  <1>1. box \in Box /\ TightBox(c, box)
    BY BoxOfPart DEF BuildInv
  <1>2. tree[c] \in Node /\ tree[c].pc = "called" /\ pts' = pts /\ vind' = vind
    BY MadeNode DEF BuildInv, makeLeaf, at
  <1>3. tree' = [tree EXCEPT ![c] = n]
    BY <1>2 DEF makeLeaf
  <1>. HIDE DEF box
  <1>4. n \in Node /\ n.pc = "leaf" /\ n.bbox = box
    BY <1>1, <1>2 DEF Node
  <1>. HIDE DEF n
  <1>5. tree'[c] = n /\ c \in DOMAIN tree'
    BY <1>3
  <1>6. NodeOK(c)'
    <2>1. TightBox(c, box)'
      <3>1. \A i, k : coordinate(k, i)' = coordinate(k, i)
        BY <1>2 DEF coordinate
      <3>2. box' = box
        BY <1>2 DEF box, boundingBox, pointsOf
      <3>. QED  BY <1>1, <3>1, <3>2 DEF TightBox
    <2>2. box' = box
      BY <1>2 DEF box, boundingBox, pointsOf
    <2>. QED  BY <1>4, <1>5, <2>1, <2>2 DEF NodeOK, splitting, built, at
  <1>7. ~built(c) /\ ~at(c, "first") /\ ~Cut(c)
    BY <1>2 DEF built, at, Cut
  <1>8. \A d \in DOMAIN tree : ~Under(d, c)
    BY <1>7 DEF Under
  <1>. QED  BY <1>2, <1>3, <1>4, <1>6, <1>7, <1>8, OwnStep

\* The cut is in a dimension of the points, and not beyond them.
LEMMA CutChoice ==
    ASSUME BuildInv, NEW c \in DOMAIN tree
    PROVE  /\ cutFeature(c) \in Axis
           /\ \A f \in Axis : /\ cutValue(c, f) \in Int
                              /\ boundingBox(pointsOf(c))[f].low <= cutValue(c, f)
                              /\ cutValue(c, f) <= boundingBox(pointsOf(c))[f].high
  <1>. DEFINE elems == boundingBox(pointsOf(c))
  <1>1. elems \in Box /\ tree[c].bbox \in Box /\ TightBox(c, elems)
    BY BoxOfPart, MadeNode DEF BuildInv, Node
  <1>2. \A i \in Axis : /\ elems[i].low \in Int /\ elems[i].high \in Int
                        /\ tree[c].bbox[i].low \in Int /\ tree[c].bbox[i].high \in Int
                        /\ elems[i].low <= elems[i].high
    <2>1. \A i \in Axis : /\ elems[i].low \in Int /\ elems[i].high \in Int
                          /\ tree[c].bbox[i].low \in Int /\ tree[c].bbox[i].high \in Int
      <3>. HIDE DEF elems
      <3>. QED  BY <1>1 DEF Box
    <2>2. ASSUME NEW i \in Axis PROVE elems[i].low <= elems[i].high
      <3>. HIDE DEF elems
      <3>1. PICK k \in within(c) : elems[i].low = coordinate(k, i)
        BY <1>1 DEF TightBox
      <3>2. coordinate(k, i) <= elems[i].high
        BY <1>1 DEF TightBox
      <3>. QED  BY <3>1, <3>2
    <2>. QED  BY <2>1, <2>2
  <1>3. cutFeature(c) \in Axis
    <2>. DEFINE span(i) == tree[c].bbox[i].high - tree[c].bbox[i].low
                spread(i) == elems[i].high - elems[i].low
                maxSpan == Max({span(i) : i \in Axis})
                long == {i \in Axis : 100000 * span(i) > 99999 * maxSpan}
                widest == {i \in long : \A j \in long : spread(j) <= spread(i)}
    <2>1. cutFeature(c) = IF long = {} THEN 1 ELSE Min(widest)
      BY DEF cutFeature
    <2>2. ASSUME long # {} PROVE Min(widest) \in Axis
      <3>. DEFINE f == [i \in long |-> spread(i)]
                  S == {f[i] : i \in long}
      <3>1. long \in SUBSET Axis /\ IsFiniteSet(long)
        <4>1. long \in SUBSET Axis
          OBVIOUS
        <4>. HIDE DEF long
        <4>. QED  BY <4>1, AxisFinite, FS_Subset
      <3>2. \A i \in long : f[i] \in Int /\ f[i] = spread(i)
        <4>. HIDE DEF long, elems
        <4>. QED  BY <1>2, <3>1
      <3>3. IsFiniteSet(S)
        <4>. HIDE DEF long, f
        <4>. QED  BY <3>1, ImageFinite
      <3>4. S \in SUBSET Int /\ S # {}
        <4>. HIDE DEF long, f
        <4>. QED  BY <2>2, <3>2
      <3>5. Max(S) \in S /\ \A x \in S : x <= Max(S)
        <4>. HIDE DEF S
        <4>. QED  BY <3>3, <3>4, MaxOf
      <3>6. PICK i \in long : Max(S) = f[i]
        <4>. HIDE DEF long, f
        <4>. QED  BY <3>5
      <3>7. \A j \in long : f[j] <= f[i]
        <4>. HIDE DEF long, f
        <4>. QED  BY <3>5, <3>6
      <3>8. i \in widest
        <4>1. \A j \in long : spread(j) <= spread(i)
          <5>. HIDE DEF long, f
          <5>. QED  BY <3>2, <3>7
        <4>. HIDE DEF long
        <4>. QED  BY <4>1
      <3>9. widest \in SUBSET Int /\ widest \in SUBSET Axis /\ IsFiniteSet(widest)
        <4>1. widest \in SUBSET long
          <5>. HIDE DEF long
          <5>. QED  OBVIOUS
        <4>. HIDE DEF widest, long
        <4>2. IsFiniteSet(widest)
          BY <3>1, <4>1, FS_Subset
        <4>. QED  BY <3>1, <4>1, <4>2, AxisFinite
      <3>. HIDE DEF widest
      <3>10. Min(widest) \in widest
        BY <3>8, <3>9, MinOf
      <3>11. widest \subseteq Axis
        BY <3>9
      <3>. QED  BY <3>10, <3>11
    <2>. HIDE DEF long, widest
    <2>. QED  BY <2>1, <2>2, AxisFinite
  <1>4. ASSUME NEW f \in Axis
        PROVE  /\ cutValue(c, f) \in Int
               /\ elems[f].low <= cutValue(c, f) /\ cutValue(c, f) <= elems[f].high
    <2>. DEFINE middle == (tree[c].bbox[f].low + tree[c].bbox[f].high) \div 2
    <2>1. middle \in Int
      <3>1. tree[c].bbox[f].low + tree[c].bbox[f].high \in Int
        BY <1>2
      <3>. QED  BY <3>1
    <2>2. /\ elems[f].low \in Int /\ elems[f].high \in Int /\ elems[f].low <= elems[f].high
      BY <1>2
    <2>3. cutValue(c, f) = IF middle < elems[f].low THEN elems[f].low
                           ELSE IF middle > elems[f].high THEN elems[f].high ELSE middle
      BY DEF cutValue
    <2>. HIDE DEF middle, elems
    <2>. QED  BY <2>1, <2>2, <2>3
  <1>. QED  BY <1>3, <1>4

LEMMA MiddleSplitBuilds ==
    ASSUME BuildInv, NEW c \in DOMAIN tree, middleSplit_(c)
    PROVE  BuildInv'
  <1>. DEFINE f == cutFeature(c)
              n == [tree[c] EXCEPT !.pc = "below", !.divfeat = f, !.cutval = cutValue(c, f),
                                   !.left = c.left, !.right = c.right - 1]
              elems == boundingBox(pointsOf(c))
  <1>1. /\ f \in Axis /\ cutValue(c, f) \in Int
        /\ elems[f].low <= cutValue(c, f) /\ cutValue(c, f) <= elems[f].high
        /\ TightBox(c, elems) /\ elems \in Box
    BY CutChoice, BoxOfPart DEF BuildInv
  <1>2. /\ tree[c] \in Node /\ tree[c].pc = "called" /\ pts' = pts /\ vind' = vind
        /\ c.left \in Nat /\ c.right \in Nat /\ c.left + 1 < c.right
        /\ within(c) \subseteq within(Root)
    BY MadeNode, KDTreeAssumption DEF BuildInv, middleSplit_, at, size
  <1>3. tree' = [tree EXCEPT ![c] = n]
    BY <1>2 DEF middleSplit_
  <1>4. \E k \in within(c) : coordinate(k, f) <= cutValue(c, f)
    <2>1. PICK k \in within(c) : elems[f].low = coordinate(k, f)
      BY <1>1 DEF TightBox
    <2>. QED  BY <1>1, <2>1
  <1>5. \E k \in within(c) : coordinate(k, f) >= cutValue(c, f)
    <2>1. PICK k \in within(c) : elems[f].high = coordinate(k, f)
      BY <1>1 DEF TightBox
    <2>2. coordinate(k, f) \in Int
      BY <1>1, <1>2, Coordinates DEF BuildInv
    <2>. QED  BY <1>1, <2>1, <2>2
  <1>. HIDE DEF f, elems
  <1>6. /\ n \in Node /\ n.pc = "below" /\ n.divfeat = f /\ n.cutval = cutValue(c, f)
        /\ n.left = c.left /\ n.right = c.right - 1
    <2>1. c.left \in Int /\ c.right - 1 \in Int /\ cutValue(c, f) \in Int
      BY <1>1, <1>2
    <2>. DEFINE cut == cutValue(c, f)
    <2>. HIDE DEF cut
    <2>2. n = [tree[c] EXCEPT !.pc = "below", !.divfeat = f, !.cutval = cut,
                              !.left = c.left, !.right = c.right - 1]
      BY DEF cut
    <2>3. cut \in Int
      BY <2>1 DEF cut
    <2>. HIDE DEF n
    <2>4. n \in Node
      BY <1>1, <1>2, <2>1, <2>2, <2>3 DEF Node
    <2>5. /\ n.pc = "below" /\ n.divfeat = f /\ n.cutval = cut
          /\ n.left = c.left /\ n.right = c.right - 1
      BY <1>2, <2>2 DEF Node
    <2>. QED  BY <2>4, <2>5 DEF cut
  <1>. HIDE DEF n
  <1>7. tree'[c] = n /\ c \in DOMAIN tree'
    BY <1>3
  <1>8. NodeOK(c)'
    <2>1. \A k : value(c, k)' = coordinate(k, f)
      BY <1>2, <1>6, <1>7 DEF value, coordinate
    <2>2. Splits(c)'
      BY <1>2, <1>4, <1>5, <1>6, <1>7, <2>1 DEF Splits, within
    <2>. QED  BY <1>6, <1>7, <2>2 DEF NodeOK, splitting, built, at
  <1>9. ~built(c) /\ ~at(c, "first") /\ ~Cut(c)
    BY <1>2 DEF built, at, Cut
  <1>. QED  BY <1>2, <1>3, <1>6, <1>8, <1>9, OwnStep

\* What the state of a call of planeSplit is.
LEMMA SplitState ==
    ASSUME BuildInv, NEW c \in DOMAIN tree, splitting(c)
    PROVE  /\ tree[c] \in Node /\ tree[c].pc \in {"below", "upTo"}
           /\ c.left \in Nat /\ c.right \in Nat /\ c.left < c.right
           /\ tree[c].left \in Int /\ tree[c].right \in Int /\ tree[c].lim1 \in Int
           /\ tree[c].cutval \in Int /\ tree[c].divfeat \in Axis
           /\ \A k \in within(c) : value(c, k) \in Int
           /\ \A k : k \in within(c) <=> k \in Int /\ c.left <= k /\ k < c.right
           /\ Splits(c)
           /\ ~built(c) /\ ~at(c, "first") /\ ~Cut(c)
  <1>1. tree[c].pc \in {"below", "upTo"}
    BY DEF splitting, at
  <1>2. Splits(c) /\ ~built(c) /\ ~at(c, "first") /\ ~Cut(c)
    BY <1>1 DEF BuildInv, NodeOK, built, at, Cut
  <1>3. /\ tree[c] \in Node /\ c.left \in Nat /\ c.right \in Nat /\ c.left < c.right
        /\ within(c) \subseteq within(Root)
        /\ \A k : k \in within(c) <=> k \in Int /\ c.left <= k /\ k < c.right
    BY MadeNode DEF BuildInv
  <1>4. /\ tree[c].left \in Int /\ tree[c].right \in Int /\ tree[c].lim1 \in Int
        /\ tree[c].cutval \in Int /\ tree[c].divfeat \in Axis
    BY <1>3 DEF Node
  <1>5. \A k \in within(c) : value(c, k) \in Int
    BY <1>3, <1>4, Coordinates DEF BuildInv, value
  <1>. QED  BY <1>1, <1>2, <1>3, <1>4, <1>5

\* A step of planeSplit that moves no point.
LEMMA SplitStep ==
    ASSUME BuildInv, pts' = pts, vind' = vind, NEW c \in DOMAIN tree, splitting(c),
           NEW n \in Node, n.pc \in {"below", "upTo"}, tree' = [tree EXCEPT ![c] = n],
           Splits(c)'
    PROVE  BuildInv'
  <1>1. tree'[c] = n /\ c \in DOMAIN tree'
    OBVIOUS
  <1>2. NodeOK(c)'
    BY <1>1 DEF NodeOK, splitting, built, at
  <1>3. ~built(c) /\ ~at(c, "first") /\ ~Cut(c)
    BY SplitState
  <1>. QED  BY <1>2, <1>3, OwnStep

\* left <= right, and what is at left is not to go to the front.
LEMMA LeftWaits ==
    ASSUME BuildInv, NEW c \in DOMAIN tree, splitting(c), leftWaits(c)
    PROVE  /\ tree[c].left \in within(c) /\ tree[c].left <= tree[c].right
           /\ tree[c].pc = "below" => value(c, tree[c].left) >= tree[c].cutval
           /\ tree[c].pc = "upTo" => value(c, tree[c].left) > tree[c].cutval
  <1>1. /\ tree[c].left <= tree[c].right /\ ~front(c, tree[c].left)
        /\ tree[c].left \in within(c) /\ value(c, tree[c].left) \in Int /\ tree[c].cutval \in Int
    BY SplitState DEF leftWaits, Splits
  <1>. QED  BY <1>1 DEF front, at, value

LEMMA AdvanceLeftBuilds ==
    ASSUME BuildInv, NEW c \in DOMAIN tree, advanceLeft(c)
    PROVE  BuildInv'
  <1>. DEFINE n == [tree[c] EXCEPT !.left = tree[c].left + 1]
  <1>1. /\ splitting(c) /\ pts' = pts /\ vind' = vind
        /\ tree[c].left <= tree[c].right /\ front(c, tree[c].left)
    BY DEF advanceLeft
  <1>2. /\ tree[c] \in Node /\ tree[c].pc \in {"below", "upTo"}
        /\ c.left \in Nat /\ c.right \in Nat
        /\ tree[c].left \in Int /\ tree[c].right \in Int /\ tree[c].lim1 \in Int
        /\ tree[c].cutval \in Int
        /\ \A k \in within(c) : value(c, k) \in Int
        /\ \A k : k \in within(c) <=> k \in Int /\ c.left <= k /\ k < c.right
        /\ Splits(c)
    BY <1>1, SplitState
  <1>3. tree' = [tree EXCEPT ![c] = n]
    BY <1>2 DEF advanceLeft
  <1>4. /\ n \in Node /\ n.pc = tree[c].pc /\ n.left = tree[c].left + 1 /\ n.right = tree[c].right
        /\ n.lim1 = tree[c].lim1 /\ n.cutval = tree[c].cutval /\ n.divfeat = tree[c].divfeat
    BY <1>2 DEF Node
  <1>. HIDE DEF n
  <1>5. tree'[c] = n /\ c \in DOMAIN tree'
    BY <1>3
  <1>6. \A k : value(c, k)' = value(c, k) /\ within(c)' = within(c)
    BY <1>1, <1>4, <1>5 DEF value, coordinate, within
  <1>7. /\ tree[c].pc = "below" => value(c, tree[c].left) < tree[c].cutval
        /\ tree[c].pc = "upTo" => value(c, tree[c].left) <= tree[c].cutval
    BY <1>1 DEF front, at, value
  <1>8. Splits(c)'
    BY <1>1, <1>2, <1>4, <1>5, <1>6, <1>7 DEF Splits
  <1>. QED  BY <1>1, <1>2, <1>3, <1>4, <1>8, SplitStep

LEMMA AdvanceRightBuilds ==
    ASSUME BuildInv, NEW c \in DOMAIN tree, advanceRight(c)
    PROVE  BuildInv'
  <1>. DEFINE n == [tree[c] EXCEPT !.right = tree[c].right - 1]
  <1>1. /\ splitting(c) /\ pts' = pts /\ vind' = vind
        /\ leftWaits(c) /\ tree[c].right > c.left /\ ~front(c, tree[c].right)
    BY DEF advanceRight
  <1>2. /\ tree[c] \in Node /\ tree[c].pc \in {"below", "upTo"}
        /\ c.left \in Nat /\ c.right \in Nat
        /\ tree[c].left \in Int /\ tree[c].right \in Int /\ tree[c].lim1 \in Int
        /\ tree[c].cutval \in Int
        /\ \A k \in within(c) : value(c, k) \in Int
        /\ \A k : k \in within(c) <=> k \in Int /\ c.left <= k /\ k < c.right
        /\ Splits(c)
    BY <1>1, SplitState
  <1>3. tree' = [tree EXCEPT ![c] = n]
    BY <1>2 DEF advanceRight
  <1>4. /\ n \in Node /\ n.pc = tree[c].pc /\ n.left = tree[c].left /\ n.right = tree[c].right - 1
        /\ n.lim1 = tree[c].lim1 /\ n.cutval = tree[c].cutval /\ n.divfeat = tree[c].divfeat
    BY <1>2 DEF Node
  <1>. HIDE DEF n
  <1>5. tree'[c] = n /\ c \in DOMAIN tree'
    BY <1>3
  <1>6. \A k : value(c, k)' = value(c, k) /\ within(c)' = within(c)
    BY <1>1, <1>4, <1>5 DEF value, coordinate, within
  <1>7. tree[c].left <= tree[c].right
    BY <1>1 DEF leftWaits
  <1>8. /\ tree[c].pc = "below" => value(c, tree[c].right) >= tree[c].cutval
        /\ tree[c].pc = "upTo" => value(c, tree[c].right) > tree[c].cutval
    <2>1. tree[c].right \in within(c)
      BY <1>1, <1>2 DEF Splits
    <2>. QED  BY <1>1, <1>2, <2>1 DEF front, at, value
  <1>9. Splits(c)'
    BY <1>1, <1>2, <1>4, <1>5, <1>6, <1>7, <1>8 DEF Splits
  <1>. QED  BY <1>1, <1>2, <1>3, <1>4, <1>9, SplitStep

LEMMA NextLoopBuilds ==
    ASSUME BuildInv, NEW c \in DOMAIN tree, nextLoop(c)
    PROVE  BuildInv'
  <1>. DEFINE n == [tree[c] EXCEPT !.pc = "upTo", !.lim1 = tree[c].left, !.right = c.right - 1]
  <1>1. /\ splitting(c) /\ pts' = pts /\ vind' = vind /\ tree[c].pc = "below"
        /\ \/ tree[c].left > tree[c].right
           \/ leftWaits(c) /\ tree[c].right = c.left
    BY DEF nextLoop, swept, splitting, at
  <1>2. /\ tree[c] \in Node
        /\ c.left \in Nat /\ c.right \in Nat
        /\ tree[c].left \in Int /\ tree[c].right \in Int /\ tree[c].lim1 \in Int
        /\ tree[c].cutval \in Int
        /\ \A k \in within(c) : value(c, k) \in Int
        /\ \A k : k \in within(c) <=> k \in Int /\ c.left <= k /\ k < c.right
        /\ Splits(c)
    BY <1>1, SplitState
  <1>3. tree' = [tree EXCEPT ![c] = n]
    BY <1>2 DEF nextLoop
  <1>4. /\ n \in Node /\ n.pc = "upTo" /\ n.left = tree[c].left /\ n.right = c.right - 1
        /\ n.lim1 = tree[c].left /\ n.cutval = tree[c].cutval /\ n.divfeat = tree[c].divfeat
    <2>1. c.right - 1 \in Int
      BY <1>2
    <2>2. n \in Node
      BY <1>2, <2>1 DEF Node
    <2>. QED  BY <1>2, <2>2 DEF Node
  <1>. HIDE DEF n
  <1>5. tree'[c] = n /\ c \in DOMAIN tree'
    BY <1>3
  <1>6. \A k : value(c, k)' = value(c, k) /\ within(c)' = within(c)
    BY <1>1, <1>4, <1>5 DEF value, coordinate, within
  <1>7. \A k \in tree[c].left .. c.right - 1 : value(c, k) >= tree[c].cutval
    <2>1. CASE tree[c].left > tree[c].right
      BY <1>1, <1>2, <2>1 DEF Splits
    <2>2. CASE leftWaits(c) /\ tree[c].right = c.left
      BY <1>1, <1>2, <2>2, LeftWaits DEF Splits
    <2>. QED  BY <1>1, <2>1, <2>2
  <1>8. Splits(c)'
    BY <1>1, <1>2, <1>4, <1>5, <1>6, <1>7 DEF Splits
  <1>. QED  BY <1>1, <1>2, <1>3, <1>4, <1>8, SplitStep

\* Where c is at one side of a cut, so is each of its positions.
LEMMA SameSide ==
    ASSUME BuildInv, NEW c \in DOMAIN tree, NEW d \in DOMAIN tree, Under(c, d),
           NEW j \in within(c), NEW k \in within(c)
    PROVE  /\ j \in within(d) /\ k \in within(d)
           /\ j < tree[d].mid <=> k < tree[d].mid
  <1>1. /\ c.left \in Nat /\ c.right \in Nat /\ d.left \in Nat /\ d.right \in Nat
        /\ j \in Int /\ c.left <= j /\ j < c.right /\ k \in Int /\ c.left <= k /\ k < c.right
        /\ \A i : i \in within(d) <=> i \in Int /\ d.left <= i /\ i < d.right
    BY MadeNode DEF BuildInv
  <1>2. tree[d].mid \in Nat /\ d.left < tree[d].mid /\ tree[d].mid < d.right
    BY CutInside DEF Under
  <1>3. InLower(c, d) \/ InUpper(c, d)
    BY DEF Under
  <1>. QED  BY <1>1, <1>2, <1>3 DEF InLower, InUpper

LEMMA SwapBuilds ==
    ASSUME BuildInv, NEW c \in DOMAIN tree, swap(c)
    PROVE  BuildInv'
  <1>0. PICK a, b : a = tree[c].left /\ b = tree[c].right
    OBVIOUS
  <1>. DEFINE n == [tree[c] EXCEPT !.left = a + 1, !.right = b - 1]
  <1>1. /\ splitting(c) /\ pts' = pts /\ leftWaits(c) /\ b > c.left /\ front(c, b)
        /\ vind' = [vind EXCEPT ![a] = vind[b], ![b] = vind[a]]
    BY <1>0 DEF swap
  <1>2. /\ tree[c] \in Node /\ tree[c].pc \in {"below", "upTo"}
        /\ c.left \in Nat /\ c.right \in Nat
        /\ a \in Int /\ b \in Int /\ tree[c].lim1 \in Int
        /\ tree[c].cutval \in Int
        /\ \A k \in within(c) : value(c, k) \in Int
        /\ \A k : k \in within(c) <=> k \in Int /\ c.left <= k /\ k < c.right
        /\ Splits(c) /\ ~built(c) /\ ~at(c, "first") /\ ~Cut(c)
    BY <1>0, <1>1, SplitState
  <1>3. tree' = [tree EXCEPT ![c] = n]
    BY <1>0, <1>2 DEF swap
  <1>4. /\ n \in Node /\ n.pc = tree[c].pc /\ n.left = a + 1 /\ n.right = b - 1
        /\ n.lim1 = tree[c].lim1 /\ n.cutval = tree[c].cutval /\ n.divfeat = tree[c].divfeat
    <2>1. a + 1 \in Int /\ b - 1 \in Int
      BY <1>2
    <2>. QED  BY <1>2, <2>1 DEF Node
  <1>. HIDE DEF n
  <1>5. /\ DOMAIN tree' = DOMAIN tree /\ tree'[c] = n
        /\ \A d \in DOMAIN tree : d # c => tree'[d] = tree[d]
    BY <1>3
  <1>6. /\ a \in within(c) /\ b \in within(c) /\ a <= b
        /\ tree[c].pc = "below" => value(c, a) >= tree[c].cutval
        /\ tree[c].pc = "upTo" => value(c, a) > tree[c].cutval
    BY <1>0, <1>1, <1>2, LeftWaits DEF Splits
  <1>7. /\ tree[c].pc = "below" => value(c, b) < tree[c].cutval
        /\ tree[c].pc = "upTo" => value(c, b) <= tree[c].cutval
    BY <1>1 DEF front, at, value
  <1>8. a < b
    <2>1. value(c, a) \in Int /\ value(c, b) \in Int
      BY <1>2, <1>6
    <2>2. a # b
      BY <1>2, <1>6, <1>7, <2>1
    <2>. QED  BY <1>2, <1>6, <2>2
  <1>9. /\ vind \in [within(Root) -> DOMAIN pts] /\ a \in within(Root) /\ b \in within(Root)
        /\ within(c) \subseteq within(Root) /\ within(Root)' = within(Root)
        /\ Root' = Root /\ within(c)' = within(c)
    BY <1>1, <1>6, MadeNode DEF BuildInv, OrderOK, Root, within
  <1>10. /\ vind'[a] = vind[b] /\ vind'[b] = vind[a]
         /\ \A k \in within(Root) : k # a /\ k # b => vind'[k] = vind[k]
         /\ vind' \in [within(Root) -> DOMAIN pts]
    BY <1>1, <1>8, <1>9
  <1>11. OrderOK'
    <2>1. \A j, k \in within(Root) : vind'[j] = vind'[k] => j = k
      BY <1>9, <1>10 DEF BuildInv, OrderOK
    <2>2. \A p \in DOMAIN pts : \E k \in within(Root) : vind'[k] = p
      BY <1>9, <1>10 DEF BuildInv, OrderOK
    <2>. QED  BY <1>1, <1>5, <1>9, <1>10, <2>1, <2>2 DEF OrderOK
  <1>12. /\ \A i : coordinate(a, i)' = coordinate(b, i) /\ coordinate(b, i)' = coordinate(a, i)
         /\ \A k \in within(Root) : k # a /\ k # b =>
               \A i : coordinate(k, i)' = coordinate(k, i)
    <2>1. pts' = pts
      BY <1>1
    <2>. QED  BY <1>10, <2>1 DEF coordinate
  <1>13. NodeOK(c)'
    <2>1. /\ value(c, a)' = value(c, b) /\ value(c, b)' = value(c, a)
          /\ \A k \in within(c) : k # a /\ k # b => value(c, k)' = value(c, k)
      <3>1. PICK f : f = tree[c].divfeat
        OBVIOUS
      <3>2. \A k : value(c, k) = coordinate(k, f) /\ value(c, k)' = coordinate(k, f)'
        BY <1>4, <1>5, <3>1 DEF value, coordinate
      <3>. QED  BY <1>9, <1>12, <3>2
    <2>. DEFINE w(k) == value(c, k)'
    <2>2. /\ w(a) = value(c, b) /\ w(b) = value(c, a)
          /\ \A k \in within(c) : k # a /\ k # b => w(k) = value(c, k)
      BY <2>1
    <2>. HIDE DEF w
    <2>3. tree[c].left = a /\ tree[c].right = b
      BY <1>0
    <2>4. Splits(c)'
      <3>1. /\ c.left <= a + 1 /\ a + 1 <= (b - 1) + 1 /\ c.left <= b - 1 /\ b - 1 < c.right
            /\ c.left + 1 < c.right
        BY <1>1, <1>2, <1>6, <1>8, <2>3 DEF Splits
      <3>2. /\ \E k \in within(c) : w(k) <= n.cutval
            /\ \E k \in within(c) : w(k) >= n.cutval
        BY <1>2, <1>4, <1>6, <2>2 DEF Splits
      <3>3. n.pc = "below" =>
              /\ \A k \in c.left .. (a + 1) - 1 : w(k) < n.cutval
              /\ \A k \in (b - 1) + 1 .. c.right - 1 : w(k) >= n.cutval
        BY <1>2, <1>4, <1>6, <1>7, <1>8, <2>2, <2>3 DEF Splits
      <3>4. n.pc = "upTo" =>
              /\ c.left <= n.lim1 /\ n.lim1 <= a + 1
              /\ \A k \in c.left .. n.lim1 - 1 : w(k) < n.cutval
              /\ \A k \in n.lim1 .. c.right - 1 : w(k) >= n.cutval
              /\ \A k \in n.lim1 .. (a + 1) - 1 : w(k) <= n.cutval
              /\ \A k \in (b - 1) + 1 .. c.right - 1 : w(k) > n.cutval
        BY <1>2, <1>4, <1>6, <1>7, <1>8, <2>2, <2>3 DEF Splits
      <3>. QED  BY <1>4, <1>5, <1>9, <3>1, <3>2, <3>3, <3>4 DEF Splits, w
    <2>. QED  BY <1>2, <1>4, <1>5, <2>4 DEF NodeOK, splitting, built, at
  <1>14. ASSUME NEW d \in DOMAIN tree, d # c
         PROVE  NodeOK(d)'
    <2>1. /\ NodeOK(d) /\ tree'[d] = tree[d] /\ within(d) \subseteq within(Root)
          /\ within(d)' = within(d)
      BY <1>5, <1>14, MadeNode DEF BuildInv, within
    <2>2. /\ \A e \in DOMAIN tree : built(e) => built(e)' /\ tree'[e] = tree[e]
          /\ built(d)' <=> built(d)
          /\ splitting(d)' <=> splitting(d)
          /\ at(d, "first")' <=> at(d, "first")
          /\ at(d, "second")' <=> at(d, "second")
          /\ at(d, "inner")' <=> at(d, "inner")
      <3>1. \A e \in DOMAIN tree : built(e) => built(e)' /\ tree'[e] = tree[e]
        BY <1>2, <1>5 DEF built, at
      <3>2. /\ at(d, "first")' <=> at(d, "first")
            /\ at(d, "second")' <=> at(d, "second")
            /\ at(d, "inner")' <=> at(d, "inner")
        BY <1>5, <1>14 DEF at
      <3>3. (built(d)' <=> built(d)) /\ (splitting(d)' <=> splitting(d))
        BY <1>5, <1>14 DEF built, splitting, at
      <3>. QED  BY <3>1, <3>2, <3>3
    <2>11. PICK f : f = tree[d].divfeat
      OBVIOUS
    <2>12. \A k : value(d, k) = coordinate(k, f) /\ value(d, k)' = coordinate(k, f)'
      BY <2>1, <2>11 DEF value, coordinate
    <2>3. Apart(c, d) \/ Under(c, d)
      BY <1>2, <1>14, NoneUnder
    <2>5. ASSUME Apart(c, d), NEW k \in within(d) PROVE \A i : coordinate(k, i)' = coordinate(k, i)
      <3>1. k # a /\ k # b
        BY <1>2, <1>6, <2>5, MadeNode DEF Apart, BuildInv
      <3>. QED  BY <1>12, <2>1, <2>5, <3>1
    <2>6. ASSUME splitting(d) PROVE Splits(d)'
      <3>1. ~Cut(d) /\ Splits(d) /\ d.left \in Nat /\ d.right \in Nat
            /\ tree[d].left \in Int /\ tree[d].right \in Int /\ tree[d].lim1 \in Int
            /\ \A k : k \in within(d) <=> k \in Int /\ d.left <= k /\ k < d.right
        BY <2>6, SplitState
      <3>2. Apart(c, d)
        BY <2>3, <3>1 DEF Under
      <3>3. \A k \in within(d) : value(d, k)' = value(d, k)
        BY <2>5, <2>12, <3>2
      <3>. QED  BY <2>1, <3>1, <3>3 DEF Splits
    <2>7. ASSUME built(d) PROVE Apart(c, d)
      BY <1>2, <2>3, <2>7 DEF BuildInv, BuiltUnder
    <2>8. ASSUME built(d) PROVE TightBox(d, tree[d].bbox)'
      <3>1. TightBox(d, tree[d].bbox)
        BY <2>1, <2>8 DEF NodeOK
      <3>2. \A i : \A k \in within(d) : coordinate(k, i)' = coordinate(k, i)
        BY <2>5, <2>7, <2>8
      <3>. QED  BY <2>1, <3>1, <3>2 DEF TightBox
    <2>9. ASSUME at(d, "inner") PROVE Divides(d)'
      <3>1. Divides(d)
        BY <2>1, <2>9 DEF NodeOK
      <3>. QED  BY <2>1, <2>2, <3>1 DEF Divides, built, at
    <2>10. ASSUME at(d, "first") \/ at(d, "second") PROVE Waits(d)'
      <3>1. /\ Waits(d) /\ d.left \in Nat /\ d.right \in Nat
            /\ \A k : k \in within(d) <=> k \in Int /\ d.left <= k /\ k < d.right
        BY <2>1, <2>10, MadeNode DEF NodeOK, BuildInv
      <3>2. tree[d].mid \in Nat /\ d.left < tree[d].mid /\ tree[d].mid < d.right
        BY <2>10, CutInside DEF Cut, at
      <3>3. \A k \in within(d) : \E j \in within(d) :
               value(d, k)' = value(d, j) /\ (j < tree[d].mid <=> k < tree[d].mid)
        <4>. SUFFICES ASSUME NEW k \in within(d)
                      PROVE  \E j \in within(d) :
                                value(d, k)' = value(d, j) /\ (j < tree[d].mid <=> k < tree[d].mid)
          OBVIOUS
        <4>2. CASE k # a /\ k # b
          BY <1>12, <2>1, <2>12, <4>2
        <4>3. ASSUME k = a \/ k = b PROVE Under(c, d)
          <5>1. ~Apart(c, d)
            BY <1>2, <1>6, <3>1, <4>3 DEF Apart
          <5>. QED  BY <2>3, <5>1
        <4>4. CASE k = a
          <5>1. b \in within(d) /\ (b < tree[d].mid <=> a < tree[d].mid)
            BY <1>6, <4>3, <4>4, SameSide
          <5>2. value(d, a)' = value(d, b)
            BY <1>12, <2>12
          <5>. QED  BY <4>4, <5>1, <5>2
        <4>5. CASE k = b
          <5>1. a \in within(d) /\ (a < tree[d].mid <=> b < tree[d].mid)
            BY <1>6, <4>3, <4>5, SameSide
          <5>2. value(d, b)' = value(d, a)
            BY <1>12, <2>12
          <5>. QED  BY <4>5, <5>1, <5>2
        <4>. QED  BY <4>2, <4>4, <4>5
      <3>4. \A k \in d.left .. tree[d].mid - 1 : value(d, k)' <= tree[d].cutval
        BY <3>1, <3>2, <3>3 DEF Waits
      <3>5. \A k \in tree[d].mid .. d.right - 1 : value(d, k)' >= tree[d].cutval
        BY <3>1, <3>2, <3>3 DEF Waits
      <3>6. \A e : InUpper(e, d)' <=> InUpper(e, d)
        BY <2>1 DEF InUpper
      <3>7. \A e : built(e) => built(e)'
        BY <2>2 DEF built, at
      <3>8. tree[d].pc = "first" => \A e \in DOMAIN tree' : ~InUpper(e, d)'
        BY <1>5, <3>1, <3>6 DEF Waits
      <3>9. tree[d].pc = "second" => built(lower(d, tree[d].mid))'
        BY <2>1, <3>1, <3>7 DEF Waits
      <3>10. /\ tree[d].pc = "first" => lower(d, tree[d].mid) \in DOMAIN tree'
             /\ tree[d].pc = "second" => upper(d, tree[d].mid) \in DOMAIN tree'
        BY <1>5, <3>1 DEF Waits
      <3>. QED  BY <2>1, <3>2, <3>4, <3>5, <3>8, <3>9, <3>10 DEF Waits
    <2>. QED  BY <2>1, <2>2, <2>6, <2>8, <2>9, <2>10 DEF NodeOK
  <1>15. \A d \in DOMAIN tree : NodeOK(d)'
    BY <1>13, <1>14
  <1>16. /\ n.pc # "first" /\ (n.pc \in {"first", "second", "inner"} <=> Cut(c))
         /\ n.pc \notin {"leaf", "inner"}
    BY <1>2, <1>4
  <1>. QED  BY <1>1, <1>2, <1>3, <1>4, <1>11, <1>15, <1>16, SameNodes

-----------------------------------------------------------------------------
(***************************************************************************)
(* The steps that make children, and the one that joins them.              *)
(***************************************************************************)
\* Both sides get points, and what is not beyond the cut is on the right side.
LEMMA SplitPoint ==
    ASSUME BuildInv, NEW c \in DOMAIN tree, swept(c, "upTo"),
           NEW mid, mid = c.left + splitIndex(size(c), tree[c].lim1 - c.left, tree[c].left - c.left)
    PROVE  /\ mid \in Nat /\ c.left < mid /\ mid < c.right
           /\ \A k \in c.left .. mid - 1 : value(c, k) <= tree[c].cutval
           /\ \A k \in mid .. c.right - 1 : value(c, k) >= tree[c].cutval
  <1>. DEFINE n == tree[c]
  <1>1. /\ n.pc = "upTo" /\ splitting(c)
        /\ \/ n.left > n.right
           \/ leftWaits(c) /\ n.right = c.left
    BY DEF swept, splitting, at
  <1>2. /\ c.left \in Nat /\ c.right \in Nat
        /\ n.left \in Int /\ n.right \in Int /\ n.lim1 \in Int /\ n.cutval \in Int
        /\ \A k \in within(c) : value(c, k) \in Int
        /\ \A k : k \in within(c) <=> k \in Int /\ c.left <= k /\ k < c.right
        /\ Splits(c)
    BY <1>1, SplitState
  <1>3. /\ c.left + 1 < c.right /\ c.left <= n.lim1 /\ n.lim1 <= n.left /\ n.left <= c.right
        /\ \A k \in c.left .. n.left - 1 : value(c, k) <= n.cutval
        /\ \A k \in n.lim1 .. c.right - 1 : value(c, k) >= n.cutval
    <2>1. /\ c.left + 1 < c.right /\ c.left <= n.lim1 /\ n.lim1 <= n.left /\ n.left <= c.right
          /\ \A k \in n.lim1 .. c.right - 1 : value(c, k) >= n.cutval
          /\ \A k \in c.left .. n.lim1 - 1 : value(c, k) < n.cutval
          /\ \A k \in n.lim1 .. n.left - 1 : value(c, k) <= n.cutval
      BY <1>1, <1>2 DEF Splits
    <2>2. \A k \in c.left .. n.left - 1 : value(c, k) <= n.cutval
      <3>. SUFFICES ASSUME NEW k \in c.left .. n.left - 1 PROVE value(c, k) <= n.cutval
        OBVIOUS
      <3>1. value(c, k) \in Int
        BY <1>2, <2>1
      <3>2. CASE k < n.lim1
        BY <1>2, <2>1, <3>1, <3>2
      <3>3. CASE k >= n.lim1
        BY <1>2, <2>1, <3>3
      <3>. QED  BY <1>2, <3>2, <3>3
    <2>. QED  BY <2>1, <2>2
  <1>4. n.lim1 < c.right
    <2>1. PICK k \in within(c) : value(c, k) >= n.cutval
      BY <1>2 DEF Splits
    <2>. SUFFICES ASSUME n.lim1 >= c.right PROVE FALSE
      BY <1>2
    <2>2. k \in c.left .. n.lim1 - 1 /\ value(c, k) \in Int
      BY <1>2, <2>1
    <2>3. value(c, k) < n.cutval
      BY <1>1, <1>2, <2>2 DEF Splits
    <2>. QED  BY <1>2, <2>1, <2>2, <2>3
  <1>5. c.left < n.left
    <2>1. PICK k \in within(c) : value(c, k) <= n.cutval
      BY <1>2 DEF Splits
    <2>. SUFFICES ASSUME n.left = c.left PROVE FALSE
      BY <1>2, <1>3
    <2>2. k \in Int /\ c.left <= k /\ k < c.right /\ value(c, k) \in Int
      BY <1>2, <2>1
    <2>3. \A j \in n.right + 1 .. c.right - 1 : value(c, j) > n.cutval
      BY <1>1, <1>2 DEF Splits
    <2>4. value(c, k) > n.cutval
      <3>1. CASE n.left > n.right
        BY <1>2, <2>2, <2>3, <3>1
      <3>2. CASE leftWaits(c) /\ n.right = c.left
        <4>1. value(c, c.left) > n.cutval
          BY <1>1, <3>2, LeftWaits
        <4>. QED  BY <1>2, <2>2, <2>3, <3>2, <4>1
      <3>. QED  BY <1>1, <3>1, <3>2
    <2>. QED  BY <1>2, <2>1, <2>2, <2>4
  <1>. DEFINE count == c.right - c.left
              lim1 == n.lim1 - c.left
              lim2 == n.left - c.left
              idx == splitIndex(count, lim1, lim2)
  <1>6. /\ count \in Int /\ lim1 \in Int /\ lim2 \in Int /\ 1 < count
        /\ lim1 < count /\ 0 < lim2 /\ lim1 <= lim2
    BY <1>2, <1>3, <1>4, <1>5
  <1>7. /\ idx \in Int /\ 0 < idx /\ idx < count /\ lim1 <= idx /\ idx <= lim2
    <2>. HIDE DEF count, lim1, lim2
    <2>1. count \div 2 \in Int /\ 0 < count \div 2 /\ count \div 2 < count
      BY <1>6
    <2>. DEFINE half == count \div 2
    <2>2. idx = IF lim1 > half THEN lim1 ELSE IF lim2 < half THEN lim2 ELSE half
      BY DEF splitIndex
    <2>3. half \in Int /\ 0 < half /\ half < count
      BY <2>1
    <2>. HIDE DEF half, idx
    <2>4. lim2 < half => lim2 < count
      BY <1>6, <2>3
    <2>5. lim1 > half => lim1 > 0
      BY <1>6, <2>3
    <2>. QED  BY <1>6, <2>2, <2>3, <2>4, <2>5
  <1>8. mid = c.left + idx
    BY DEF size
  <1>. HIDE DEF idx
  <1>9. /\ mid \in Int /\ c.left < mid /\ mid < c.right
        /\ n.lim1 <= mid /\ mid <= n.left
    BY <1>2, <1>7, <1>8
  <1>. HIDE DEF n, count, lim1, lim2
  <1>10. /\ \A k \in c.left .. mid - 1 : value(c, k) <= n.cutval
         /\ \A k \in mid .. c.right - 1 : value(c, k) >= n.cutval
    BY <1>2, <1>3, <1>9
  <1>. QED  BY <1>2, <1>9, <1>10 DEF n

LEMMA FirstChildBuilds ==
    ASSUME BuildInv, NEW c \in DOMAIN tree, firstChild(c)
    PROVE  BuildInv'
  <1>0. PICK mid : mid = c.left + splitIndex(size(c), tree[c].lim1 - c.left, tree[c].left - c.left)
    OBVIOUS
  <1>. DEFINE n == [tree[c] EXCEPT !.pc = "first", !.mid = mid]
              x == lower(c, mid)
              box == [tree[c].bbox EXCEPT ![tree[c].divfeat].high = tree[c].cutval]
  <1>1. swept(c, "upTo") /\ splitting(c) /\ tree[c].pc = "upTo" /\ pts' = pts /\ vind' = vind
    BY DEF firstChild, swept, splitting, at
  <1>2. /\ mid \in Nat /\ c.left < mid /\ mid < c.right
        /\ \A k \in c.left .. mid - 1 : value(c, k) <= tree[c].cutval
        /\ \A k \in mid .. c.right - 1 : value(c, k) >= tree[c].cutval
    BY <1>0, <1>1, SplitPoint
  <1>3. /\ tree[c] \in Node /\ tree[c].cutval \in Int /\ tree[c].divfeat \in Axis
        /\ c.left \in Nat /\ c.right \in Nat /\ c \in Part
        /\ ~built(c) /\ ~at(c, "second") /\ ~Cut(c)
    BY <1>1, SplitState, MadeNode DEF BuildInv, at
  <1>4. tree' = call([tree EXCEPT ![c] = n], x, box)
    <2>1. [tree EXCEPT ![c].pc = "first", ![c].mid = mid] = [tree EXCEPT ![c] = n]
      BY <1>3
    <2>. QED  BY <1>0, <2>1 DEF firstChild
  <1>5. x \in Part /\ x.left = c.left /\ x.right = mid
    BY <1>2, <1>3, Halves
  <1>6. box \in Box
    BY <1>3 DEF Node, Box
  <1>7. /\ n \in Node /\ n.pc = "first" /\ n.mid = mid /\ n.cutval = tree[c].cutval
        /\ n.divfeat = tree[c].divfeat
    <2>1. mid \in Int
      BY <1>2
    <2>2. n \in Node
      BY <1>3, <2>1 DEF Node
    <2>. QED  BY <1>3, <2>2 DEF Node
  <1>8. \A d \in DOMAIN tree : d = c \/ Apart(c, d) \/ Under(c, d)
    BY <1>3, NoneUnder
  <1>9. /\ tree'[c] = n /\ c \in DOMAIN tree' /\ x \in DOMAIN tree'
        /\ DOMAIN tree' = DOMAIN tree \cup {x}
    <2>1. x # c
      BY <1>2, <1>5
    <2>. HIDE DEF n, x, box
    <2>. QED  BY <1>4, <2>1 DEF call
  <1>10. NodeOK(c)'
    <2>. HIDE DEF n, box
    <2>1. \A k : value(c, k)' = value(c, k)
      BY <1>1, <1>7, <1>9 DEF value, coordinate
    <2>2. ASSUME NEW d \in DOMAIN tree' PROVE ~InUpper(d, c)'
      <3>. SUFFICES ASSUME mid <= d.left, d.right <= c.right PROVE FALSE
        BY <1>7, <1>9 DEF InUpper
      <3>1. CASE d = x \/ d = c
        BY <1>2, <1>3, <1>5, <3>1
      <3>2. CASE d \in DOMAIN tree /\ d # c
        <4>1. d.left \in Nat /\ d.right \in Nat /\ d.left < d.right
          BY <3>2, MadeNode DEF BuildInv
        <4>2. ~Apart(c, d)
          BY <1>2, <1>3, <4>1 DEF Apart
        <4>3. Cut(d) /\ (InLower(c, d) \/ InUpper(c, d))
          BY <1>8, <3>2, <4>2 DEF Under
        <4>4. tree[d].mid \in Nat /\ d.left < tree[d].mid /\ tree[d].mid < d.right
          BY <3>2, <4>3, CutInside
        <4>. QED  BY <1>2, <1>3, <4>1, <4>3, <4>4 DEF InLower, InUpper
      <3>. QED  BY <1>9, <3>1, <3>2
    <2>3. Waits(c)'
      BY <1>2, <1>7, <1>9, <2>1, <2>2 DEF Waits
    <2>. QED  BY <1>7, <1>9, <2>3 DEF NodeOK, splitting, built, at
  <1>11. x.left < x.right /\ c.left <= x.left /\ x.right <= c.right /\ x # c
    BY <1>2, <1>3, <1>5
  <1>. HIDE DEF n, box
  <1>. QED  BY <1>1, <1>2, <1>3, <1>4, <1>5, <1>6, <1>7, <1>8, <1>10, <1>11, ChildStep

LEMMA SecondChildBuilds ==
    ASSUME BuildInv, NEW c \in DOMAIN tree, secondChild(c)
    PROVE  BuildInv'
  <1>0. PICK mid : mid = tree[c].mid
    OBVIOUS
  <1>. DEFINE n == [tree[c] EXCEPT !.pc = "second"]
              x == upper(c, mid)
              box == [tree[c].bbox EXCEPT ![tree[c].divfeat].low = tree[c].cutval]
  <1>1. /\ at(c, "first") /\ tree[c].pc = "first" /\ built(lower(c, mid))
        /\ pts' = pts /\ vind' = vind
    BY <1>0 DEF secondChild, at
  <1>2. Cut(c) /\ ~built(c) /\ ~at(c, "second")
    BY <1>1 DEF Cut, built, at
  <1>3. /\ tree[c] \in Node /\ tree[c].cutval \in Int /\ tree[c].divfeat \in Axis
        /\ c.left \in Nat /\ c.right \in Nat /\ c \in Part
        /\ mid \in Nat /\ c.left < mid /\ mid < c.right
    BY <1>0, <1>2, MadeNode, CutInside DEF BuildInv, Node
  <1>4. Waits(c)
    BY <1>1 DEF BuildInv, NodeOK
  <1>5. tree' = call([tree EXCEPT ![c] = n], x, box)
    <2>1. [tree EXCEPT ![c].pc = "second"] = [tree EXCEPT ![c] = n]
      BY <1>3
    <2>. QED  BY <1>0, <2>1 DEF secondChild
  <1>6. x \in Part /\ x.left = mid /\ x.right = c.right
    BY <1>3, Halves
  <1>7. box \in Box
    BY <1>3 DEF Node, Box
  <1>8. /\ n \in Node /\ n.pc = "second" /\ n.mid = mid /\ n.cutval = tree[c].cutval
        /\ n.divfeat = tree[c].divfeat
    BY <1>0, <1>3 DEF Node
  <1>9. ASSUME NEW d \in DOMAIN tree
        PROVE  d = c \/ Apart(c, d) \/ Under(c, d) \/ Apart(x, d)
    <2>. SUFFICES ASSUME d # c, ~Apart(c, d), ~Under(c, d)
                  PROVE  Apart(x, d)
      OBVIOUS
    <2>1. InLower(d, c) \/ InUpper(d, c)
      BY DEF BuildInv, Laminar, Apart, Under
    <2>2. ~InUpper(d, c)
      BY <1>1, <1>4 DEF Waits
    <2>. QED  BY <1>0, <1>3, <1>6, <2>1, <2>2 DEF InLower, Apart
  <1>10. x # c
    BY <1>3, <1>6
  <1>11. /\ tree'[c] = n /\ c \in DOMAIN tree' /\ x \in DOMAIN tree'
         /\ DOMAIN tree' = DOMAIN tree \cup {x}
         /\ \A d \in DOMAIN tree : d # c /\ d # x => tree'[d] = tree[d]
    <2>. HIDE DEF n, x, box
    <2>. QED  BY <1>5, <1>10 DEF call
  <1>12. built(lower(c, mid))'
    <2>1. lower(c, mid) # c /\ lower(c, mid) # x
      <3>1. lower(c, mid).left = c.left /\ lower(c, mid).right = mid
        BY <1>3, Halves
      <3>. QED  BY <1>3, <1>6, <3>1
    <2>2. lower(c, mid) \in DOMAIN tree
      BY <1>1 DEF built, at
    <2>. QED  BY <1>1, <1>11, <2>1, <2>2 DEF built, at
  <1>13. NodeOK(c)'
    <2>. HIDE DEF n, box
    <2>1. \A k : value(c, k)' = value(c, k)
      BY <1>1, <1>8, <1>11 DEF value, coordinate
    <2>2. Waits(c)'
      BY <1>0, <1>3, <1>4, <1>8, <1>11, <1>12, <2>1 DEF Waits
    <2>. QED  BY <1>8, <1>11, <2>2 DEF NodeOK, splitting, built, at
  <1>14. x.left < x.right /\ c.left <= x.left /\ x.right <= c.right
    BY <1>3, <1>6
  <1>. HIDE DEF n, box
  <1>. QED  BY <1>0, <1>1, <1>2, <1>3, <1>5, <1>6, <1>7, <1>8, <1>9, <1>10, <1>13, <1>14, ChildStep

\* What is under a part with a built node is built.
LEMMA WithinBuilt ==
    ASSUME BuildInv, NEW x \in DOMAIN tree, built(x), NEW d \in DOMAIN tree,
           x.left <= d.left, d.right <= x.right
    PROVE  built(d)
  <1>1. /\ x \in Part /\ d \in Part /\ x.left \in Nat /\ x.right \in Nat
        /\ d.left \in Nat /\ d.right \in Nat /\ d.left < d.right
    BY MadeNode DEF BuildInv
  <1>2. ~Apart(d, x)
    BY <1>1 DEF Apart
  <1>3. ~Under(x, d)
    <2>. SUFFICES ASSUME Cut(d), InLower(x, d) \/ InUpper(x, d) PROVE FALSE
      BY DEF Under
    <2>1. tree[d].mid \in Nat /\ d.left < tree[d].mid /\ tree[d].mid < d.right
      BY CutInside
    <2>. QED  BY <1>1, <2>1 DEF InLower, InUpper
  <1>. QED  BY <1>2, <1>3 DEF BuildInv, Laminar, BuiltUnder

LEMMA JoinBuilds ==
    ASSUME BuildInv, NEW c \in DOMAIN tree, join(c)
    PROVE  BuildInv'
  <1>0. PICK mid, f, x, y, box1, box2 :
            /\ mid = tree[c].mid /\ f = tree[c].divfeat
            /\ x = lower(c, mid) /\ y = upper(c, mid)
            /\ box1 = tree[x].bbox /\ box2 = tree[y].bbox
    OBVIOUS
  <1>. DEFINE box == [i \in Axis |-> [low |-> least(box1[i].low, box2[i].low),
                                      high |-> greatest(box1[i].high, box2[i].high)]]
              n == [tree[c] EXCEPT !.pc = "inner", !.divlow = box1[f].high,
                                   !.divhigh = box2[f].low, !.bbox = box]
  <1>1. /\ at(c, "second") /\ tree[c].pc = "second" /\ built(y)
        /\ pts' = pts /\ vind' = vind
    BY <1>0 DEF join, at
  <1>2. Cut(c) /\ ~built(c) /\ ~at(c, "first")
    BY <1>1 DEF Cut, built, at
  <1>3. /\ tree[c] \in Node /\ tree[c].cutval \in Int /\ f \in Axis
        /\ c.left \in Nat /\ c.right \in Nat /\ c \in Part /\ within(c) \subseteq within(Root)
        /\ mid \in Nat /\ c.left < mid /\ mid < c.right
        /\ \A k : k \in within(c) <=> k \in Int /\ c.left <= k /\ k < c.right
    BY <1>0, <1>2, MadeNode, CutInside DEF BuildInv, Node
  <1>4. Waits(c) /\ built(x)
    BY <1>0, <1>1 DEF BuildInv, NodeOK, Waits
  <1>5. /\ x \in Part /\ x.left = c.left /\ x.right = mid
        /\ y \in Part /\ y.left = mid /\ y.right = c.right
    BY <1>0, <1>3, Halves
  <1>6. /\ x \in DOMAIN tree /\ y \in DOMAIN tree /\ x # c /\ y # c
        /\ TightBox(x, box1) /\ TightBox(y, box2) /\ box1 \in Box /\ box2 \in Box
    <2>1. x \in DOMAIN tree /\ y \in DOMAIN tree
      BY <1>1, <1>4 DEF built, at
    <2>2. TightBox(x, box1) /\ TightBox(y, box2)
      BY <1>0, <1>1, <1>4, <2>1 DEF BuildInv, NodeOK
    <2>3. box1 \in Box /\ box2 \in Box
      BY <1>0, <2>1, MadeNode DEF BuildInv, Node
    <2>. QED  BY <1>3, <1>5, <2>1, <2>2, <2>3
  <1>7. /\ \A i \in Axis : /\ box1[i].low \in Int /\ box1[i].high \in Int
                           /\ box2[i].low \in Int /\ box2[i].high \in Int
        /\ \A k \in within(c) : \A i \in Axis : coordinate(k, i) \in Int
    BY <1>3, <1>6, Coordinates DEF Box, BuildInv
  <1>8. tree' = [tree EXCEPT ![c] = n]
    BY <1>0, <1>3 DEF join
  <1>9. /\ \A k : k \in within(x) <=> k \in Int /\ c.left <= k /\ k < mid
        /\ \A k : k \in within(y) <=> k \in Int /\ mid <= k /\ k < c.right
    BY <1>3, <1>5 DEF within
  <1>10. TightBox(c, box)
    <2>. SUFFICES ASSUME NEW i \in Axis
                  PROVE  /\ \A k \in within(c) : /\ box[i].low <= coordinate(k, i)
                                                 /\ coordinate(k, i) <= box[i].high
                         /\ \E k \in within(c) : box[i].low = coordinate(k, i)
                         /\ \E k \in within(c) : box[i].high = coordinate(k, i)
      BY DEF TightBox
    <2>1. /\ box[i].low = least(box1[i].low, box2[i].low)
          /\ box[i].high = greatest(box1[i].high, box2[i].high)
      OBVIOUS
    <2>. HIDE DEF box
    <2>2. /\ \A k \in within(x) : box1[i].low <= coordinate(k, i) /\ coordinate(k, i) <= box1[i].high
          /\ \E k \in within(x) : box1[i].low = coordinate(k, i)
          /\ \E k \in within(x) : box1[i].high = coordinate(k, i)
      BY <1>6 DEF TightBox
    <2>3. /\ \A k \in within(y) : box2[i].low <= coordinate(k, i) /\ coordinate(k, i) <= box2[i].high
          /\ \E k \in within(y) : box2[i].low = coordinate(k, i)
          /\ \E k \in within(y) : box2[i].high = coordinate(k, i)
      BY <1>6 DEF TightBox
    <2>4. \A k \in within(c) : k \in within(x) \/ k \in within(y)
      BY <1>3, <1>9
    <2>5. \A k : k \in within(x) \/ k \in within(y) => k \in within(c)
      BY <1>3, <1>9
    <2>6. /\ box1[i].low \in Int /\ box1[i].high \in Int
          /\ box2[i].low \in Int /\ box2[i].high \in Int
          /\ \A k \in within(c) : coordinate(k, i) \in Int
      BY <1>7
    <2>. QED  BY <2>1, <2>2, <2>3, <2>4, <2>5, <2>6 DEF least, greatest
  <1>11. box1[f].high <= box2[f].low
    <2>1. PICK j \in within(x) : box1[f].high = coordinate(j, f)
      BY <1>3, <1>6 DEF TightBox
    <2>2. PICK k \in within(y) : box2[f].low = coordinate(k, f)
      BY <1>3, <1>6 DEF TightBox
    <2>3. coordinate(j, f) <= tree[c].cutval
      BY <1>0, <1>3, <1>4, <1>9, <2>1 DEF Waits, value
    <2>4. coordinate(k, f) >= tree[c].cutval
      BY <1>0, <1>3, <1>4, <1>9, <2>2 DEF Waits, value
    <2>. QED  BY <1>3, <1>7, <2>1, <2>2, <2>3, <2>4
  <1>12. box \in Box
    <2>1. \A i \in Axis : /\ least(box1[i].low, box2[i].low) \in Int
                          /\ greatest(box1[i].high, box2[i].high) \in Int
      BY <1>7 DEF least, greatest
    <2>. QED  BY <2>1 DEF Box
  <1>. HIDE DEF box
  <1>13. /\ n \in Node /\ n.pc = "inner" /\ n.mid = mid /\ n.divfeat = f
         /\ n.divlow = box1[f].high /\ n.divhigh = box2[f].low /\ n.bbox = box
    <2>1. box1[f].high \in Int /\ box2[f].low \in Int
      BY <1>3, <1>7
    <2>2. n \in Node
      BY <1>3, <1>12, <2>1 DEF Node
    <2>3. n.pc = "inner" /\ n.mid = tree[c].mid /\ n.divfeat = tree[c].divfeat
      BY <1>3 DEF Node
    <2>4. n.divlow = box1[f].high /\ n.divhigh = box2[f].low /\ n.bbox = box
      <3>. DEFINE lo == box1[f].high
                  hi == box2[f].low
      <3>. HIDE DEF lo, hi
      <3>1. n = [tree[c] EXCEPT !.pc = "inner", !.divlow = lo, !.divhigh = hi, !.bbox = box]
        BY DEF lo, hi
      <3>2. n.divlow = lo /\ n.divhigh = hi /\ n.bbox = box
        BY <1>3, <3>1 DEF Node
      <3>. QED  BY <3>2 DEF lo, hi
    <2>. QED  BY <1>0, <2>2, <2>3, <2>4
  <1>. HIDE DEF n
  <1>14. /\ tree'[c] = n /\ DOMAIN tree' = DOMAIN tree
         /\ tree'[x] = tree[x] /\ tree'[y] = tree[y]
    BY <1>6, <1>8
  <1>15. built(x)' /\ built(y)'
    BY <1>1, <1>4, <1>14 DEF built, at
  <1>16. NodeOK(c)'
    <2>1. TightBox(c, box)'
      <3>1. \A i, k : coordinate(k, i)' = coordinate(k, i)
        BY <1>1 DEF coordinate
      <3>2. within(c)' = within(c) /\ box' = box
        BY DEF within, box, least, greatest
      <3>. QED  BY <1>10, <3>1, <3>2 DEF TightBox
    <2>2. TightBox(c, tree[c].bbox)'
      <3>1. tree'[c].bbox = box /\ box' = box
        BY <1>13, <1>14 DEF box, least, greatest
      <3>. QED  BY <2>1, <3>1 DEF TightBox
    <2>3. Divides(c)'
      <3>1. tree'[c].mid = mid /\ tree'[c].divfeat = f
        BY <1>13, <1>14
      <3>. QED  BY <1>0, <1>3, <1>11, <1>13, <1>14, <1>15, <3>1 DEF Divides
    <2>. QED  BY <1>13, <1>14, <2>2, <2>3 DEF NodeOK, splitting, built, at
  <1>17. ASSUME NEW d \in DOMAIN tree, Under(d, c) PROVE built(d)
    <2>1. InLower(d, c) \/ InUpper(d, c)
      BY <1>17 DEF Under
    <2>2. CASE InLower(d, c)
      <3>1. x.left <= d.left /\ d.right <= x.right
        BY <1>0, <1>5, <2>2 DEF InLower
      <3>. QED  BY <1>4, <1>6, <3>1, WithinBuilt
    <2>3. CASE InUpper(d, c)
      <3>1. y.left <= d.left /\ d.right <= y.right
        BY <1>0, <1>5, <2>3 DEF InUpper
      <3>. QED  BY <1>1, <1>6, <3>1, WithinBuilt
    <2>. QED  BY <2>1, <2>2, <2>3
  <1>. QED  BY <1>0, <1>1, <1>2, <1>8, <1>13, <1>16, <1>17, OwnStep

LEMMA BuildStepBuilds == BuildInv /\ buildStep => BuildInv'
  <1>. SUFFICES ASSUME BuildInv, buildStep PROVE BuildInv'
    OBVIOUS
  <1>1. CASE buildIndex
    BY <1>1, BuildIndexBuilds
  <1>2. ASSUME NEW c \in DOMAIN tree, divideTree(c) PROVE BuildInv'
    BY <1>2, MakeLeafBuilds, MiddleSplitBuilds, AdvanceLeftBuilds, AdvanceRightBuilds,
       SwapBuilds, NextLoopBuilds, FirstChildBuilds, SecondChildBuilds, JoinBuilds DEF divideTree
  <1>. QED  BY <1>1, <1>2 DEF buildStep

\* Without a change to points, order and nodes the invariant stays.
LEMMA SameTree == BuildInv /\ UNCHANGED <<pts, vind, tree>> => BuildInv'
  <1>. SUFFICES ASSUME BuildInv, pts' = pts, vind' = vind, tree' = tree PROVE BuildInv'
    OBVIOUS
  <1>1. /\ Root' = Root /\ within(Root)' = within(Root)
        /\ \A c, d : Under(c, d)' <=> Under(c, d)
        /\ \A c : /\ built(c)' <=> built(c)
                  /\ Cut(c)' <=> Cut(c)
                  /\ at(c, "first")' <=> at(c, "first")
    BY DEF Root, within, Under, InLower, InUpper, Cut, built, at
  <1>2. PointsOK' /\ MadeOK' /\ OrderOK'
    BY <1>1 DEF BuildInv, PointsOK, MadeOK, OrderOK
  <1>3. Laminar' /\ BuiltUnder'
    BY <1>1 DEF BuildInv, Laminar, BuiltUnder, Apart
  <1>4. Covered'
    BY <1>1 DEF BuildInv, Covered, within
  <1>5. ASSUME NEW d \in DOMAIN tree PROVE NodeOK(d)'
    <2>1. NodeOK(d)
      BY DEF BuildInv
    <2>2. \A e \in DOMAIN tree : InUpper(e, d)' <=> InUpper(e, d)
      BY DEF InUpper
    <2>. QED  BY <2>1, <2>2, NodeStays
  <1>. QED  BY <1>2, <1>3, <1>4, <1>5 DEF BuildInv

LEMMA NextBuilds == BuildInv /\ [KDNext]_kdVars => BuildInv'
  <1>. SUFFICES ASSUME BuildInv, [KDNext]_kdVars PROVE BuildInv'
    OBVIOUS
  <1>1. CASE buildStep
    BY <1>1, BuildStepBuilds
  <1>2. CASE searchStep
    <2>1. UNCHANGED <<pts, vind, tree>>
      BY <1>2 DEF searchStep, leaveOut, searchLeaf, visit, searchLevel
    <2>. QED  BY <2>1, SameTree
  <1>3. CASE \E l \in Query : getNearestNodes(l)
    <2>1. UNCHANGED <<pts, vind, tree>>
      BY <1>3 DEF getNearestNodes
    <2>. QED  BY <2>1, SameTree
  <1>4. CASE UNCHANGED kdVars
    <2>1. UNCHANGED <<pts, vind, tree>>
      BY <1>4 DEF kdVars
    <2>. QED  BY <2>1, SameTree
  <1>. QED  BY <1>1, <1>2, <1>3, <1>4 DEF KDNext

LEMMA AlwaysBuildInv == KDSpec => []BuildInv
  BY InitBuildInv, NextBuilds, PTL DEF KDSpec

-----------------------------------------------------------------------------
(***************************************************************************)
(* The tree divides the points.                                            *)
(***************************************************************************)
LEMMA AllBuilt ==
    ASSUME BuildInv, built(Root), NEW c \in DOMAIN tree
    PROVE  built(c)
  <1>1. Root \in DOMAIN tree
    BY DEF built, at
  <1>2. /\ Root.left = 0 /\ Root.right = Len(pts) /\ c.left \in Nat /\ c.right <= Len(pts)
    BY RootPart, MadeNode DEF BuildInv
  <1>. QED  BY <1>1, <1>2, WithinBuilt

\* Each position is in a leaf.
LEMMA LeafOf ==
    ASSUME BuildInv, built(Root), NEW k \in within(Root)
    PROVE  \E c \in DOMAIN tree : at(c, "leaf") /\ k \in within(c)
  <1>1. DOMAIN tree # {}
    BY DEF built, at
  <1>2. PICK c \in DOMAIN tree : k \in within(c) /\ (~Cut(c) \/ (at(c, "first") /\ k >= tree[c].mid))
    BY <1>1 DEF BuildInv, Covered
  <1>3. built(c)
    BY AllBuilt
  <1>4. at(c, "leaf")
    BY <1>2, <1>3 DEF built, at, Cut
  <1>. QED  BY <1>2, <1>4

\* A position is in one leaf only.
LEMMA OneLeaf ==
    ASSUME BuildInv, NEW c \in DOMAIN tree, NEW d \in DOMAIN tree, at(c, "leaf"), at(d, "leaf"),
           NEW k \in within(c), k \in within(d)
    PROVE  c = d
  <1>1. ~Under(c, d) /\ ~Under(d, c)
    BY DEF Under, Cut, at
  <1>2. ~Apart(c, d)
    BY MadeNode DEF Apart, BuildInv
  <1>. QED  BY <1>1, <1>2 DEF BuildInv, Laminar

\* The values of a part whose box is tight.
LEMMA TightValues ==
    ASSUME BuildInv, NEW c \in DOMAIN tree, built(c), NEW f \in Axis
    PROVE  LET values == {coordinate(k, f) : k \in within(c)}
           IN Min(values) = tree[c].bbox[f].low /\ Max(values) = tree[c].bbox[f].high
  <1>. DEFINE values == {coordinate(k, f) : k \in within(c)}
              box == tree[c].bbox[f]
  <1>1. TightBox(c, tree[c].bbox)
    BY DEF BuildInv, NodeOK
  <1>2. /\ \A v \in values : box.low <= v /\ v <= box.high
        /\ box.low \in values /\ box.high \in values
    BY <1>1 DEF TightBox
  <1>3. values \in SUBSET Int
    BY MadeNode, Coordinates DEF BuildInv
  <1>. HIDE DEF values, box
  <1>4. Min(values) = box.low /\ Max(values) = box.high
    BY <1>2, <1>3, LeastIs, GreatestIs
  <1>. QED  BY <1>4 DEF values, box

LEMMA InnerSeparates ==
    ASSUME BuildInv, NEW c \in DOMAIN tree, at(c, "inner")
    PROVE  separates(c)
  <1>0. PICK mid, f, x, y : /\ mid = tree[c].mid /\ f = tree[c].divfeat
                            /\ x = lower(c, mid) /\ y = upper(c, mid)
    OBVIOUS
  <1>1. Divides(c) /\ f \in Axis
    BY <1>0, MadeNode DEF BuildInv, NodeOK, Node
  <1>2. /\ c.left < mid /\ mid < c.right /\ built(x) /\ built(y)
        /\ tree[c].divlow = tree[x].bbox[f].high /\ tree[c].divhigh = tree[y].bbox[f].low
        /\ tree[c].divlow <= tree[c].divhigh
    BY <1>0, <1>1 DEF Divides
  <1>3. x \in DOMAIN tree /\ y \in DOMAIN tree
    BY <1>2 DEF built, at
  <1>. DEFINE values(d) == {coordinate(k, f) : k \in within(d)}
  <1>4. tree[c].divlow = Max(values(x)) /\ tree[c].divhigh = Min(values(y))
    BY <1>1, <1>2, <1>3, TightValues
  <1>. QED  BY <1>0, <1>2, <1>4 DEF separates

LEMMA BuildInvDivides == BuildInv => TreeDividesPoints
  <1>. SUFFICES ASSUME BuildInv, built(Root) PROVE TreeDividesPoints
    BY DEF TreeDividesPoints
  <1>1. ASSUME NEW p \in DOMAIN pts
        PROVE  \E c \in DOMAIN tree : {d \in DOMAIN tree : at(d, "leaf") /\ p \in pointsOf(d)} = {c}
    <2>1. DOMAIN tree # {}
      BY DEF built, at
    <2>2. PICK k \in within(Root) : vind[k] = p
      BY <2>1 DEF BuildInv, OrderOK
    <2>3. PICK c \in DOMAIN tree : at(c, "leaf") /\ k \in within(c)
      BY LeafOf
    <2>4. p \in pointsOf(c)
      BY <2>2, <2>3 DEF pointsOf
    <2>5. ASSUME NEW d \in DOMAIN tree, at(d, "leaf"), p \in pointsOf(d)
          PROVE  d = c
      <3>1. PICK j \in within(d) : vind[j] = p
        BY <2>5 DEF pointsOf
      <3>2. j \in within(Root)
        BY MadeNode DEF BuildInv
      <3>3. j = k
        BY <2>1, <2>2, <3>1, <3>2 DEF BuildInv, OrderOK
      <3>. QED  BY <2>3, <2>5, <3>1, <3>3, OneLeaf
    <2>. QED  BY <2>3, <2>4, <2>5
  <1>2. ASSUME NEW c \in DOMAIN tree
        PROVE  (at(c, "leaf") /\ pointsOf(c) # {}) \/ (at(c, "inner") /\ separates(c))
    <2>1. built(c)
      BY AllBuilt
    <2>2. pointsOf(c) # {}
      <3>1. c.left \in within(c)
        BY MadeNode DEF BuildInv
      <3>. QED  BY <3>1 DEF pointsOf
    <2>. QED  BY <2>1, <2>2, InnerSeparates DEF built
  <1>. QED  BY <1>1, <1>2 DEF TreeDividesPoints

\* buildIndex divides the points of any list, for leaves of any size: planeSplit
\* leaves each point in one leaf, and no leaf without one, and a cut separates the
\* points on its two sides by the gap that the node says (divlow, divhigh).
THEOREM TreeDividesPointsCorrect == KDSpec => []TreeDividesPoints
  BY AlwaysBuildInv, BuildInvDivides, PTL

-----------------------------------------------------------------------------
(***************************************************************************)
(* The invariant of the search.  Each position is in a call to come, or    *)
(* still to be scanned, or settled: it is in the result set, or the set is *)
(* full and its worst point is as near.                                    *)
(***************************************************************************)
pointDist(p) == evalMetric(query, pts[p])

InSet(p) == \E j \in DOMAIN resultSet : resultSet[j].index = p

\* The set is full, and nothing in it is farther than p.
Beaten(p) ==
    Len(resultSet) = NearestCount /\ resultSet[NearestCount].dist <= pointDist(p)

\* The result set is sorted, without repetitions, and has the true distances.
SetOK ==
    /\ resultSet \in Seq(Found) /\ Len(resultSet) <= NearestCount
    /\ \A i, j \in DOMAIN resultSet : i < j => resultSet[i].dist <= resultSet[j].dist
    /\ \A i, j \in DOMAIN resultSet : i < j => resultSet[i].index # resultSet[j].index
    /\ \A i \in DOMAIN resultSet : /\ resultSet[i].index \in DOMAIN pts
                                   /\ resultSet[i].dist = pointDist(resultSet[i].index)

\* mindistsq is a lower bound of the distances, made of one for each dimension.
CallOK(x) ==
    /\ built(x.node) /\ x.mindistsq = total(x.dists)
    /\ \A k \in within(x.node) : \A i \in Axis :
          x.dists[i] <= accum_dist(query[i], coordinate(k, i))

scanned == scan.at .. scan.to - 1

ScanOK ==
    /\ scan \in Scan /\ scan.at <= scan.to
    /\ scanned \subseteq within(Root)
    /\ scan.worst # MaxDistance =>
          Len(resultSet) = NearestCount /\ resultSet[NearestCount].dist <= scan.worst

\* The calls to come.
TodoOK ==
    /\ todo \in Seq(Call)
    /\ \A i \in DOMAIN todo : CallOK(todo[i])
    /\ \A i, j \in DOMAIN todo : i < j => Apart(todo[i].node, todo[j].node)

Waiting(k) == k \in scanned \/ \E i \in DOMAIN todo : k \in within(todo[i].node)

\* What waits is not in the set, and nothing waits twice.
WaitOK ==
    /\ \A k \in scanned : \A i \in DOMAIN todo : k \notin within(todo[i].node)
    /\ \A k \in within(Root) : Waiting(k) => ~InSet(vind[k])
    /\ \A k \in within(Root) : Waiting(k) \/ InSet(vind[k]) \/ Beaten(vind[k])

SearchInv ==
    /\ query = NoQuery => todo = <<>> /\ scan = NoScan
    /\ query # NoQuery => /\ query \in Query /\ (pts # <<>> => built(Root))
                          /\ SetOK /\ ScanOK /\ TodoOK /\ WaitOK

LEMMA PointDistances ==
    ASSUME PointsOK, NEW q \in Query, NEW p \in DOMAIN pts
    PROVE  q \in [Axis -> Int] /\ pts[p] \in [Axis -> Int] /\ evalMetric(q, pts[p]) \in Int
  <1>1. pts[p] \in Point
    BY RootPart DEF PointsOK
  <1>2. q \in [Axis -> Int] /\ pts[p] \in [Axis -> Int]
    BY <1>1, KDTreeAssumption
  <1>. QED  BY <1>2, Distances

LEMMA FoundPoints ==
    ASSUME SetOK
    PROVE  /\ Len(resultSet) \in Nat /\ DOMAIN resultSet = 1..Len(resultSet)
           /\ \A j \in DOMAIN resultSet : /\ resultSet[j] \in Found
                                         /\ resultSet[j].dist \in Int
                                         /\ resultSet[j].index \in Nat
  <1>1. resultSet \in Seq(Found)
    BY DEF SetOK
  <1>2. Len(resultSet) \in Nat /\ DOMAIN resultSet = 1..Len(resultSet)
    BY <1>1
  <1>3. \A j \in DOMAIN resultSet : resultSet[j] \in Found
    BY <1>1
  <1>. QED  BY <1>2, <1>3 DEF Found

\* Where a point goes in the result set: behind those as near, before the others.
LEMMA Rank ==
    ASSUME SetOK, NEW dist \in Int, NEW i,
           i = Max({0} \cup {j \in DOMAIN resultSet : resultSet[j].dist <= dist})
    PROVE  /\ i \in 0 .. Len(resultSet)
           /\ \A j \in DOMAIN resultSet : j <= i => resultSet[j].dist <= dist
           /\ \A j \in DOMAIN resultSet : i < j => dist < resultSet[j].dist
  <1>. DEFINE S == {0} \cup {j \in DOMAIN resultSet : resultSet[j].dist <= dist}
  <1>1. /\ Len(resultSet) \in Nat /\ DOMAIN resultSet = 1..Len(resultSet)
        /\ \A j \in DOMAIN resultSet : resultSet[j].dist \in Int
    BY FoundPoints
  <1>2. S \in SUBSET Int /\ S # {} /\ S \subseteq 0..Len(resultSet)
    BY <1>1
  <1>3. IsFiniteSet(S)
    <2>1. IsFiniteSet(0..Len(resultSet))
      BY <1>1, FS_Interval
    <2>. HIDE DEF S
    <2>. QED  BY <1>2, <2>1, FS_Subset
  <1>4. i \in S /\ \A j \in S : j <= i
    <2>. HIDE DEF S
    <2>1. Max(S) \in S /\ \A x \in S : x <= Max(S)
      BY <1>2, <1>3, MaxOf
    <2>2. i = Max(S)
      BY DEF S
    <2>. QED  BY <2>1, <2>2
  <1>5. i \in 0..Len(resultSet)
    BY <1>2, <1>4
  <1>6. ASSUME NEW j \in DOMAIN resultSet, j <= i
        PROVE  resultSet[j].dist <= dist
    <2>1. i \in DOMAIN resultSet /\ resultSet[i].dist <= dist
      BY <1>1, <1>4, <1>5, <1>6
    <2>2. j < i => resultSet[j].dist <= resultSet[i].dist
      BY <2>1 DEF SetOK
    <2>. QED  BY <1>1, <1>5, <1>6, <2>1, <2>2
  <1>7. ASSUME NEW j \in DOMAIN resultSet, i < j
        PROVE  dist < resultSet[j].dist
    <2>1. j \notin S
      BY <1>1, <1>4, <1>5, <1>7
    <2>. QED  BY <1>1, <1>7, <2>1
  <1>. QED  BY <1>5, <1>6, <1>7

\* addPoint keeps the nearest points.
LEMMA AddPoint ==
    ASSUME PointsOK, query \in Query, SetOK, pts' = pts, query' = query,
           NEW p \in DOMAIN pts, ~InSet(p), resultSet' = addPoint(pointDist(p), p)
    PROVE  /\ SetOK'
           /\ InSet(p)' \/ Beaten(p)'
           /\ \A q \in DOMAIN pts : InSet(q) => InSet(q)' \/ Beaten(q)'
           /\ \A q \in DOMAIN pts : InSet(q)' => InSet(q) \/ q = p
           /\ Len(resultSet) = NearestCount =>
                 /\ Len(resultSet') = NearestCount
                 /\ resultSet'[NearestCount].dist <= resultSet[NearestCount].dist
  <1>0. PICK dist, i, n, r, m :
            /\ dist = pointDist(p)
            /\ i = Max({0} \cup {j \in DOMAIN resultSet : resultSet[j].dist <= dist})
            /\ n = Len(resultSet)
            /\ r = [dist |-> dist, index |-> p]
            /\ m = least(n + 1, NearestCount)
    OBVIOUS
  <1>1. /\ dist \in Int /\ n \in Nat /\ n <= NearestCount /\ NearestCount \in Nat /\ NearestCount > 0
        /\ DOMAIN resultSet = 1..n
        /\ \A j \in 1..n : resultSet[j] \in Found /\ resultSet[j].dist \in Int
    <2>1. /\ Len(resultSet) \in Nat /\ DOMAIN resultSet = 1..Len(resultSet)
          /\ \A j \in DOMAIN resultSet : resultSet[j] \in Found /\ resultSet[j].dist \in Int
          /\ Len(resultSet) <= NearestCount
      BY FoundPoints DEF SetOK
    <2>2. dist \in Int
      BY <1>0, PointDistances DEF pointDist
    <2>. QED  BY <1>0, <2>1, <2>2, KDTreeAssumption
  <1>2. /\ i \in 0 .. n
        /\ \A j \in 1..n : j <= i => resultSet[j].dist <= dist
        /\ \A j \in 1..n : i < j => dist < resultSet[j].dist
    BY <1>0, <1>1, Rank
  <1>3. r \in Found /\ r.dist = dist /\ r.index = p
    BY <1>0, <1>1, RootPart DEF Found
  <1>4. m \in Nat /\ m <= NearestCount /\ m <= n + 1 /\ (m = n + 1 \/ (m = n /\ n = NearestCount))
    BY <1>0, <1>1 DEF least
  <1>5. /\ resultSet' \in Seq(Found) /\ Len(resultSet') = m /\ DOMAIN resultSet' = 1..m
        /\ \A j \in 1..m : resultSet'[j] = IF j <= i THEN resultSet[j]
                                           ELSE IF j = i + 1 THEN r ELSE resultSet[j - 1]
    <2>. DEFINE e(j) == IF j <= i THEN resultSet[j]
                        ELSE IF j = i + 1 THEN r ELSE resultSet[j - 1]
    <2>1. resultSet' = [j \in 1..m |-> e(j)]
      BY <1>0 DEF addPoint
    <2>2. \A j \in 1..m : e(j) \in Found
      BY <1>1, <1>2, <1>3, <1>4
    <2>. HIDE DEF e
    <2>3. resultSet' \in Seq(Found) /\ Len(resultSet') = m /\ DOMAIN resultSet' = 1..m
      BY <1>4, <2>1, <2>2
    <2>4. \A j \in 1..m : resultSet'[j] = e(j)
      BY <2>1
    <2>. QED  BY <2>3, <2>4 DEF e
  <1>6. /\ \A j \in 1..m : j <= i => resultSet'[j] = resultSet[j] /\ j \in 1..n
        /\ \A j \in 1..m : j = i + 1 => resultSet'[j] = r
        /\ \A j \in 1..m : j > i + 1 => resultSet'[j] = resultSet[j - 1] /\ j - 1 \in 1..n /\ j - 1 > i
    BY <1>1, <1>2, <1>4, <1>5
  <1>7. \A q : pointDist(q)' = pointDist(q)
    BY DEF pointDist, evalMetric, total, accum_dist
  <1>8. \A j \in 1..n : resultSet[j].index # p
    BY <1>1 DEF InSet
  <1>9. /\ \A j, k \in 1..n : j < k => resultSet[j].dist <= resultSet[k].dist
        /\ \A j, k \in 1..n : j < k => resultSet[j].index # resultSet[k].index
        /\ \A j \in 1..n : /\ resultSet[j].index \in DOMAIN pts
                           /\ resultSet[j].dist = pointDist(resultSet[j].index)
    BY <1>1 DEF SetOK
  <1>10. ASSUME NEW j \in 1..m, NEW k \in 1..m, j < k
         PROVE  /\ resultSet'[j].dist <= resultSet'[k].dist
                /\ resultSet'[j].index # resultSet'[k].index
    <2>1. CASE k <= i
      BY <1>2, <1>6, <1>9, <1>10, <2>1
    <2>2. CASE k = i + 1
      <3>1. j <= i /\ resultSet'[j] = resultSet[j] /\ j \in 1..n /\ resultSet'[k] = r
        BY <1>2, <1>6, <1>10, <2>2
      <3>. QED  BY <1>2, <1>3, <1>8, <3>1
    <2>3. CASE k > i + 1
      <3>1. resultSet'[k] = resultSet[k - 1] /\ k - 1 \in 1..n /\ k - 1 > i
        BY <1>6, <2>3
      <3>2. CASE j <= i
        BY <1>2, <1>6, <1>9, <3>1, <3>2
      <3>3. CASE j = i + 1
        <4>1. resultSet'[j] = r /\ dist < resultSet[k - 1].dist
          BY <1>2, <1>6, <3>1, <3>3
        <4>. QED  BY <1>1, <1>3, <1>8, <3>1, <4>1
      <3>4. CASE j > i + 1
        <4>1. resultSet'[j] = resultSet[j - 1] /\ j - 1 \in 1..n /\ j - 1 < k - 1
          BY <1>4, <1>6, <1>10, <3>4
        <4>. QED  BY <1>9, <3>1, <4>1
      <3>. QED  BY <1>2, <3>2, <3>3, <3>4
    <2>. QED  BY <1>2, <2>1, <2>2, <2>3
  <1>11. ASSUME NEW j \in 1..m
         PROVE  /\ resultSet'[j].index \in DOMAIN pts
                /\ resultSet'[j].dist = pointDist(resultSet'[j].index)
                /\ resultSet'[j].index = p \/ InSet(resultSet'[j].index)
    <2>1. CASE j <= i
      BY <1>1, <1>6, <1>9, <2>1 DEF InSet
    <2>2. CASE j = i + 1
      BY <1>0, <1>3, <1>6, <2>2
    <2>3. CASE j > i + 1
      BY <1>1, <1>6, <1>9, <2>3 DEF InSet
    <2>. QED  BY <1>2, <2>1, <2>2, <2>3
  <1>12. SetOK'
    <2>1. \A j \in DOMAIN resultSet' :
             /\ resultSet'[j].index \in DOMAIN pts'
             /\ resultSet'[j].dist = evalMetric(query', pts'[resultSet'[j].index])
      BY <1>5, <1>11 DEF pointDist
    <2>. QED  BY <1>1, <1>4, <1>5, <1>10, <2>1 DEF SetOK, pointDist
  <1>13. Len(resultSet) = NearestCount =>
            /\ Len(resultSet') = NearestCount
            /\ resultSet'[NearestCount].dist <= resultSet[NearestCount].dist
    <2>. SUFFICES ASSUME n = NearestCount
                  PROVE  m = n /\ resultSet'[n].dist <= resultSet[n].dist
      BY <1>0, <1>5
    <2>1. m = n /\ n \in 1..m /\ n \in 1..n
      BY <1>1, <1>4
    <2>2. CASE n <= i
      BY <1>1, <1>6, <2>1, <2>2
    <2>3. CASE n = i + 1
      BY <1>1, <1>2, <1>3, <1>6, <2>1, <2>3
    <2>4. CASE n > i + 1
      <3>1. resultSet'[n] = resultSet[n - 1] /\ n - 1 \in 1..n /\ n - 1 < n
        BY <1>1, <1>6, <2>1, <2>4
      <3>. QED  BY <1>9, <2>1, <3>1
    <2>. QED  BY <1>2, <2>1, <2>2, <2>3, <2>4
  <1>14. InSet(p)' \/ Beaten(p)'
    <2>1. CASE i + 1 <= m
      <3>1. i + 1 \in DOMAIN resultSet' /\ resultSet'[i + 1].index = p
        BY <1>2, <1>3, <1>5, <1>6, <2>1
      <3>. QED  BY <3>1 DEF InSet
    <2>2. CASE i + 1 > m
      <3>1. /\ m = NearestCount /\ i = m /\ m \in 1..m /\ m \in 1..n
        BY <1>1, <1>2, <1>4, <2>2
      <3>2. resultSet'[m].dist <= dist
        BY <1>2, <1>6, <3>1
      <3>. QED  BY <1>0, <1>5, <1>7, <3>1, <3>2 DEF Beaten
    <2>. QED  BY <1>2, <1>4, <2>1, <2>2
  <1>15. ASSUME NEW q \in DOMAIN pts, InSet(q)
         PROVE  InSet(q)' \/ Beaten(q)'
    <2>1. PICK j \in 1..n : resultSet[j].index = q
      BY <1>1, <1>15 DEF InSet
    <2>2. CASE j <= i
      <3>1. CASE j <= m
        BY <1>5, <1>6, <2>1, <2>2, <3>1 DEF InSet
      <3>. QED  BY <1>1, <1>4, <2>1, <3>1
    <2>3. CASE j > i /\ j + 1 <= m
      <3>1. j + 1 \in 1..m /\ j + 1 > i + 1 /\ (j + 1) - 1 = j
        BY <1>2, <2>1, <2>3
      <3>2. resultSet'[j + 1] = resultSet[j]
        BY <1>6, <3>1
      <3>. QED  BY <1>5, <2>1, <3>1, <3>2 DEF InSet
    <2>4. CASE j > i /\ j + 1 > m
      <3>1. m = NearestCount /\ n = NearestCount /\ j = n
        BY <1>1, <1>4, <2>1, <2>4
      <3>2. resultSet'[NearestCount].dist <= pointDist(q)
        BY <1>0, <1>9, <1>13, <2>1, <3>1
      <3>. QED  BY <1>5, <1>7, <3>1, <3>2 DEF Beaten
    <2>. QED  BY <1>2, <1>4, <2>1, <2>2, <2>3, <2>4
  <1>16. \A q \in DOMAIN pts : InSet(q)' => InSet(q) \/ q = p
    BY <1>5, <1>11 DEF InSet
  <1>. QED  BY <1>12, <1>13, <1>14, <1>15, <1>16

-----------------------------------------------------------------------------
(***************************************************************************)
(* Each step of the search keeps its invariant.                            *)
(***************************************************************************)
LEMMA InitSearchInv == KDInit => SearchInv
  BY DEF KDInit, SearchInv

\* What does not change while a search goes on.
LEMMA SearchFrame ==
    ASSUME pts' = pts, vind' = vind, tree' = tree, query' = query
    PROVE  /\ Root' = Root /\ within(Root)' = within(Root)
           /\ \A c : built(c)' <=> built(c)
           /\ \A x : CallOK(x)' <=> CallOK(x)
           /\ \A p : pointDist(p)' = pointDist(p)
  <1>1. \A c : built(c)' <=> built(c)
    BY DEF built, at
  <1>2. \A k, i : coordinate(k, i)' = coordinate(k, i)
    BY DEF coordinate
  <1>3. \A x : CallOK(x)' <=> CallOK(x)
    BY <1>1, <1>2 DEF CallOK
  <1>4. \A p : pointDist(p)' = pointDist(p)
    BY DEF pointDist
  <1>. QED  BY <1>1, <1>3, <1>4 DEF Root, within

\* The calls that are left when the next one is taken.
LEMMA TakeCall ==
    ASSUME TodoOK, todo # <<>>, pts' = pts, vind' = vind, tree' = tree, query' = query,
           todo' = Tail(todo)
    PROVE  /\ TodoOK'
           /\ next \in Call /\ CallOK(next) /\ next = todo[1] /\ 1 \in DOMAIN todo
           /\ \A k : (\E i \in DOMAIN todo : k \in within(todo[i].node)) <=>
                        \/ k \in within(next.node)
                        \/ \E i \in DOMAIN todo' : k \in within(todo'[i].node)
           /\ \A i \in DOMAIN todo' : Apart(next.node, todo'[i].node)
  <1>1. /\ Len(todo) \in Nat /\ Len(todo) > 0 /\ DOMAIN todo = 1..Len(todo)
        /\ 1 \in DOMAIN todo /\ Head(todo) = todo[1]
        /\ todo' \in Seq(Call) /\ DOMAIN todo' = 1..Len(todo) - 1
        /\ \A i \in DOMAIN todo' : todo'[i] = todo[i + 1] /\ i + 1 \in DOMAIN todo /\ 1 < i + 1
    BY DEF TodoOK
  <1>2. /\ \A i \in DOMAIN todo : CallOK(todo[i])
        /\ \A i, j \in DOMAIN todo : i < j => Apart(todo[i].node, todo[j].node)
    BY DEF TodoOK
  <1>3. next = todo[1] /\ todo[1] \in Call
    BY <1>1 DEF next, TodoOK
  <1>4. \A i \in DOMAIN todo' : CallOK(todo'[i])
    BY <1>1, <1>2
  <1>5. \A i \in DOMAIN todo' : CallOK(todo[i])'
    BY <1>4, SearchFrame
  <1>6. \A i, j \in DOMAIN todo' : i < j => Apart(todo'[i].node, todo'[j].node)
    <2>. SUFFICES ASSUME NEW i \in DOMAIN todo', NEW j \in DOMAIN todo', i < j
                  PROVE  Apart(todo'[i].node, todo'[j].node)
      OBVIOUS
    <2>1. i + 1 < j + 1 /\ todo'[i] = todo[i + 1] /\ todo'[j] = todo[j + 1]
          /\ i + 1 \in DOMAIN todo /\ j + 1 \in DOMAIN todo
      BY <1>1
    <2>. QED  BY <1>2, <2>1
  <1>7. TodoOK'
    BY <1>1, <1>5, <1>6 DEF TodoOK, Apart
  <1>8. \A i \in DOMAIN todo' : Apart(todo[1].node, todo'[i].node)
    BY <1>1, <1>2
  <1>9. ASSUME NEW k
        PROVE  (\E i \in DOMAIN todo : k \in within(todo[i].node)) <=>
                  \/ k \in within(todo[1].node)
                  \/ \E i \in DOMAIN todo' : k \in within(todo'[i].node)
    <2>1. ASSUME NEW i \in DOMAIN todo, k \in within(todo[i].node), i # 1
          PROVE  \E j \in DOMAIN todo' : k \in within(todo'[j].node)
      <3>1. i - 1 \in DOMAIN todo' /\ (i - 1) + 1 = i
        BY <1>1, <2>1
      <3>2. todo'[i - 1] = todo[i]
        BY <1>1, <3>1
      <3>. QED  BY <2>1, <3>1, <3>2
    <2>2. ASSUME NEW i \in DOMAIN todo', k \in within(todo'[i].node)
          PROVE  \E j \in DOMAIN todo : k \in within(todo[j].node)
      BY <1>1, <2>2
    <2>. QED  BY <1>1, <2>1, <2>2
  <1>. QED  BY <1>1, <1>2, <1>3, <1>7, <1>8, <1>9

\* The node of a call is in the tree.
LEMMA CallNode ==
    ASSUME BuildInv, NEW x, CallOK(x)
    PROVE  /\ x.node \in DOMAIN tree
           /\ x.node.left \in Nat /\ x.node.right \in Nat /\ x.node.left < x.node.right
           /\ x.node.right <= Len(pts) /\ within(x.node) \subseteq within(Root)
           /\ \A k : k \in within(x.node) <=> k \in Int /\ x.node.left <= k /\ k < x.node.right
  <1>1. x.node \in DOMAIN tree
    BY DEF CallOK, built, at
  <1>. QED  BY <1>1, MadeNode DEF BuildInv

\* The bound of a call is a bound.
LEMMA CallBounds ==
    ASSUME BuildInv, query \in Query, NEW x \in Call, CallOK(x), NEW k \in within(x.node)
    PROVE  x.mindistsq <= pointDist(vind[k]) /\ x.mindistsq \in Int /\ pointDist(vind[k]) \in Int
  <1>1. k \in within(Root) /\ DOMAIN tree # {}
    BY CallNode
  <1>2. vind[k] \in DOMAIN pts
    BY <1>1, Coordinates, AxisFinite DEF BuildInv
  <1>3. query \in [Axis -> Int] /\ pts[vind[k]] \in [Axis -> Int] /\ pointDist(vind[k]) \in Int
    BY <1>2, PointDistances DEF BuildInv, pointDist
  <1>4. /\ x.dists \in [Axis -> Int] /\ x.mindistsq \in Int /\ x.mindistsq = total(x.dists)
        /\ \A i \in Axis : x.dists[i] <= accum_dist(query[i], pts[vind[k]][i])
    BY DEF Call, CallOK, coordinate
  <1>. QED  BY <1>3, <1>4, Totals DEF pointDist

LEMMA LeaveOutSearches ==
    ASSUME BuildInv, SearchInv, query # NoQuery, leaveOut
    PROVE  SearchInv'
  <1>1. /\ pts' = pts /\ vind' = vind /\ tree' = tree /\ query' = query
        /\ scan' = scan /\ resultSet' = resultSet /\ todo' = Tail(todo)
        /\ todo # <<>> /\ scan.at = scan.to /\ tooFar
    BY DEF leaveOut, due
  <1>2. /\ query \in Query /\ (pts # <<>> => built(Root))
        /\ SetOK /\ ScanOK /\ TodoOK /\ WaitOK
    BY DEF SearchInv
  <1>3. PICK x : x = next
    OBVIOUS
  <1>4. /\ TodoOK' /\ x \in Call /\ CallOK(x)
        /\ \A k : (\E i \in DOMAIN todo : k \in within(todo[i].node)) <=>
                     \/ k \in within(x.node)
                     \/ \E i \in DOMAIN todo' : k \in within(todo'[i].node)
    BY <1>1, <1>2, <1>3, TakeCall
  <1>5. SetOK' /\ ScanOK' /\ (pts' # <<>> => built(Root)')
    BY <1>1, <1>2, SearchFrame DEF SetOK, ScanOK, pointDist, scanned, Root, built, at
  <1>6. scanned = {} /\ scanned' = {}
    BY <1>1, <1>2 DEF scanned, ScanOK, Scan
  <1>7. ASSUME NEW k \in within(x.node)
        PROVE  Beaten(vind[k])
    <2>1. /\ Len(resultSet) = NearestCount
          /\ x.mindistsq > resultSet[NearestCount].dist
      BY <1>1, <1>3 DEF tooFar, worstDist
    <2>2. x.mindistsq <= pointDist(vind[k]) /\ x.mindistsq \in Int /\ pointDist(vind[k]) \in Int
      BY <1>2, <1>4, CallBounds
    <2>3. resultSet[NearestCount].dist \in Int
      BY <1>2, <2>1, FoundPoints, KDTreeAssumption
    <2>. QED  BY <2>1, <2>2, <2>3 DEF Beaten
  <1>8. WaitOK'
    <2>1. \A k : Waiting(k) <=> k \in within(x.node) \/ Waiting(k)'
      BY <1>4, <1>6 DEF Waiting, within
    <2>2. \A p : (InSet(p)' <=> InSet(p)) /\ (Beaten(p)' <=> Beaten(p))
      BY <1>1 DEF InSet, Beaten, pointDist
    <2>3. \A k : vind'[k] = vind[k]
      BY <1>1
    <2>4. within(Root)' = within(Root)
      BY <1>1, SearchFrame
    <2>5. \A k \in within(Root) : Waiting(k)' => ~InSet(vind[k])'
      BY <1>1, <1>2, <2>1 DEF WaitOK, InSet
    <2>6. \A k \in within(Root) : Waiting(k)' \/ InSet(vind[k])' \/ Beaten(vind[k])'
      <3>. SUFFICES ASSUME NEW k \in within(Root)
                    PROVE  Waiting(k)' \/ InSet(vind[k])' \/ Beaten(vind[k])'
        OBVIOUS
      <3>1. Waiting(k)' \/ InSet(vind[k]) \/ Beaten(vind[k])
        BY <1>2, <1>7, <2>1 DEF WaitOK
      <3>2. /\ InSet(vind[k]) => InSet(vind[k])'
            /\ Beaten(vind[k]) => Beaten(vind[k])'
        BY <1>1 DEF InSet, Beaten, pointDist
      <3>. QED  BY <3>1, <3>2
    <2>. QED  BY <1>6, <2>4, <2>5, <2>6 DEF WaitOK
  <1>9. query' # NoQuery /\ query' \in Query
    BY <1>1, <1>2
  <1>. QED  BY <1>4, <1>5, <1>8, <1>9 DEF SearchInv

LEMMA SearchLeafSearches ==
    ASSUME BuildInv, SearchInv, query # NoQuery, searchLeaf
    PROVE  SearchInv'
  <1>0. PICK x : x = next
    OBVIOUS
  <1>1. /\ pts' = pts /\ vind' = vind /\ tree' = tree /\ query' = query
        /\ resultSet' = resultSet /\ todo' = Tail(todo)
        /\ todo # <<>> /\ scan.at = scan.to
        /\ scan' = [at |-> x.node.left, to |-> x.node.right, worst |-> worstDist]
    BY <1>0 DEF searchLeaf, due
  <1>2. /\ query \in Query /\ (pts # <<>> => built(Root))
        /\ SetOK /\ ScanOK /\ TodoOK /\ WaitOK
    BY DEF SearchInv
  <1>3. /\ TodoOK' /\ x \in Call /\ CallOK(x)
        /\ \A k : (\E i \in DOMAIN todo : k \in within(todo[i].node)) <=>
                     \/ k \in within(x.node)
                     \/ \E i \in DOMAIN todo' : k \in within(todo'[i].node)
        /\ \A i \in DOMAIN todo' : Apart(x.node, todo'[i].node)
    BY <1>0, <1>1, <1>2, TakeCall
  <1>4. /\ x.node.left \in Nat /\ x.node.right \in Nat /\ x.node.left < x.node.right
        /\ within(x.node) \subseteq within(Root)
    BY <1>3, CallNode
  <1>5. SetOK' /\ (pts' # <<>> => built(Root)') /\ within(Root)' = within(Root)
    BY <1>1, <1>2, SearchFrame DEF SetOK, pointDist, Root, built, at
  <1>6. scanned = {} /\ scanned' = within(x.node)
    BY <1>1, <1>2 DEF scanned, within, ScanOK, Scan
  <1>7. ScanOK'
    <2>1. worstDist \in Int \cup {MaxDistance}
      <3>1. CASE Len(resultSet) = NearestCount
        <4>1. NearestCount \in DOMAIN resultSet
          BY <1>2, <3>1, FoundPoints, KDTreeAssumption
        <4>2. resultSet[NearestCount].dist \in Int
          BY <1>2, <4>1, FoundPoints
        <4>. QED  BY <3>1, <4>2 DEF worstDist
      <3>. QED  BY <3>1 DEF worstDist
    <2>2. scan' \in Scan
      BY <1>1, <1>4, <2>1 DEF Scan
    <2>3. worstDist # MaxDistance =>
             /\ Len(resultSet) = NearestCount /\ worstDist = resultSet[NearestCount].dist
             /\ worstDist \in Int
      BY <2>1 DEF worstDist
    <2>. QED  BY <1>1, <1>4, <1>5, <1>6, <2>2, <2>3 DEF ScanOK
  <1>8. WaitOK'
    <2>1. \A k : Waiting(k) <=> Waiting(k)'
      BY <1>3, <1>6 DEF Waiting, within
    <2>2. \A k : /\ InSet(vind[k])' <=> InSet(vind[k])
                 /\ Beaten(vind[k])' <=> Beaten(vind[k])
      BY <1>1 DEF InSet, Beaten, pointDist
    <2>3. \A k \in scanned' : \A i \in DOMAIN todo' : k \notin within(todo'[i].node)
      <3>. SUFFICES ASSUME NEW k \in within(x.node), NEW i \in DOMAIN todo'
                    PROVE  k \notin within(todo'[i].node)
        BY <1>6
      <3>1. Apart(x.node, todo'[i].node)
        BY <1>3
      <3>2. todo'[i].node \in Part
        <4>1. todo' \in Seq(Call)
          BY <1>3 DEF TodoOK
        <4>2. todo'[i] \in Call
          BY <4>1
        <4>. QED  BY <4>2 DEF Call
      <3>. QED  BY <1>4, <3>1, <3>2 DEF Apart, within, Part
    <2>. QED  BY <1>2, <1>5, <2>1, <2>2, <2>3 DEF WaitOK, within
  <1>9. query' # NoQuery /\ query' \in Query
    BY <1>1, <1>2
  <1>. QED  BY <1>3, <1>5, <1>7, <1>8, <1>9 DEF SearchInv

LEMMA VisitSearches ==
    ASSUME BuildInv, SearchInv, query # NoQuery, visit
    PROVE  SearchInv'
  <1>0. PICK a, p : a = scan.at /\ p = vind[a]
    OBVIOUS
  <1>1. /\ pts' = pts /\ vind' = vind /\ tree' = tree /\ query' = query /\ todo' = todo
        /\ scan.at < scan.to /\ scan' = [scan EXCEPT !.at = scan.at + 1]
        /\ resultSet' = IF scan.worst = MaxDistance \/ pointDist(p) < scan.worst
                        THEN addPoint(pointDist(p), p) ELSE resultSet
    BY <1>0 DEF visit, pointDist
  <1>2. /\ query \in Query /\ (pts # <<>> => built(Root))
        /\ SetOK /\ ScanOK /\ TodoOK /\ WaitOK /\ PointsOK
    BY DEF SearchInv, BuildInv
  <1>3. /\ scan \in Scan /\ scan.at \in Int /\ scan.to \in Int
        /\ scan.worst \in Int \cup {MaxDistance}
        /\ scan'.at = a + 1 /\ scan'.to = scan.to /\ scan'.worst = scan.worst /\ scan' \in Scan
    BY <1>0, <1>1, <1>2 DEF ScanOK, Scan
  <1>4. /\ a \in scanned /\ \A k : k \in scanned' <=> k \in scanned /\ k # a
    BY <1>0, <1>1, <1>3 DEF scanned
  <1>5. within(Root)' = within(Root) /\ \A q : pointDist(q)' = pointDist(q)
    BY <1>1, SearchFrame
  <1>6. a \in within(Root) /\ DOMAIN tree # {} /\ Waiting(a)
    <2>1. a \in within(Root)
      BY <1>2, <1>4 DEF ScanOK
    <2>2. pts # <<>>
      BY <1>2, <2>1, RootPart
    <2>. QED  BY <1>2, <1>4, <2>1, <2>2 DEF Waiting, built, at
  <1>7. p \in DOMAIN pts /\ ~InSet(p) /\ pointDist(p) \in Int
    <2>1. p \in DOMAIN pts
      BY <1>0, <1>6, Coordinates, AxisFinite DEF BuildInv
    <2>2. ~InSet(p)
      BY <1>0, <1>2, <1>6 DEF WaitOK
    <2>. QED  BY <1>2, <2>1, <2>2, PointDistances DEF pointDist
  <1>8. /\ SetOK'
        /\ InSet(p)' \/ Beaten(p)'
        /\ \A q \in DOMAIN pts : InSet(q) => InSet(q)' \/ Beaten(q)'
        /\ \A q \in DOMAIN pts : InSet(q)' => InSet(q) \/ q = p
        /\ Len(resultSet) = NearestCount =>
              /\ Len(resultSet') = NearestCount
              /\ resultSet'[NearestCount].dist <= resultSet[NearestCount].dist
    <2>1. CASE scan.worst = MaxDistance \/ pointDist(p) < scan.worst
      BY <1>1, <1>2, <1>7, <2>1, AddPoint
    <2>2. CASE ~(scan.worst = MaxDistance \/ pointDist(p) < scan.worst)
      <3>1. resultSet' = resultSet
        BY <1>1, <2>2
      <3>2. SetOK'
        BY <1>1, <1>2, <1>5, <3>1 DEF SetOK
      <3>3. \A q : InSet(q)' <=> InSet(q)
        BY <3>1 DEF InSet
      <3>4. Len(resultSet) = NearestCount /\ resultSet[NearestCount].dist <= scan.worst
        BY <1>2, <2>2 DEF ScanOK
      <3>5. resultSet[NearestCount].dist \in Int
        BY <1>2, <3>4, FoundPoints, KDTreeAssumption
      <3>6. Beaten(p)'
        BY <1>3, <1>5, <1>7, <2>2, <3>1, <3>4, <3>5 DEF Beaten
      <3>. QED  BY <3>1, <3>2, <3>3, <3>4, <3>5, <3>6
    <2>. QED  BY <2>1, <2>2
  <1>9. \A q \in DOMAIN pts : Beaten(q) => Beaten(q)'
    <2>. SUFFICES ASSUME NEW q \in DOMAIN pts, Beaten(q) PROVE Beaten(q)'
      OBVIOUS
    <2>1. pointDist(q) \in Int
      BY <1>2, PointDistances DEF pointDist
    <2>2. /\ Len(resultSet) = NearestCount /\ Len(resultSet') = NearestCount
          /\ resultSet'[NearestCount].dist <= resultSet[NearestCount].dist
          /\ resultSet[NearestCount].dist <= pointDist(q)
      BY <1>8 DEF Beaten
    <2>3. resultSet[NearestCount].dist \in Int
      BY <1>2, <2>2, FoundPoints, KDTreeAssumption
    <2>4. resultSet'[NearestCount].dist \in Int
      <3>1. resultSet' \in Seq(Found)
        BY <1>8 DEF SetOK
      <3>2. resultSet'[NearestCount] \in Found
        BY <2>2, <3>1, KDTreeAssumption
      <3>. QED  BY <3>2 DEF Found
    <2>. QED  BY <1>5, <2>1, <2>2, <2>3, <2>4 DEF Beaten
  <1>10. ScanOK'
    <2>1. scan'.at <= scan'.to
      BY <1>0, <1>1, <1>3
    <2>2. scanned' \subseteq within(Root)
      BY <1>2, <1>4 DEF ScanOK
    <2>3. scan.worst # MaxDistance =>
             Len(resultSet') = NearestCount /\ resultSet'[NearestCount].dist <= scan.worst
      <3>. SUFFICES ASSUME scan.worst # MaxDistance
                    PROVE  Len(resultSet') = NearestCount /\ resultSet'[NearestCount].dist <= scan.worst
        OBVIOUS
      <3>1. /\ Len(resultSet) = NearestCount /\ resultSet[NearestCount].dist <= scan.worst
            /\ Len(resultSet') = NearestCount
            /\ resultSet'[NearestCount].dist <= resultSet[NearestCount].dist
        BY <1>2, <1>8 DEF ScanOK
      <3>2. resultSet[NearestCount].dist \in Int
        BY <1>2, <3>1, FoundPoints, KDTreeAssumption
      <3>3. resultSet'[NearestCount].dist \in Int
        <4>1. resultSet' \in Seq(Found)
          BY <1>8 DEF SetOK
        <4>2. resultSet'[NearestCount] \in Found
          BY <3>1, <4>1, KDTreeAssumption
        <4>. QED  BY <4>2 DEF Found
      <3>. QED  BY <1>3, <3>1, <3>2, <3>3
    <2>. QED  BY <1>3, <1>5, <2>1, <2>2, <2>3 DEF ScanOK
  <1>11. TodoOK'
    <2>1. \A i \in DOMAIN todo : CallOK(todo[i])'
      BY <1>1, <1>2, SearchFrame DEF TodoOK
    <2>. QED  BY <1>1, <1>2, <2>1 DEF TodoOK, Apart
  <1>12. \A k \in within(Root) : vind[k] \in DOMAIN pts /\ (vind[k] = p => k = a)
    BY <1>0, <1>6 DEF BuildInv, OrderOK
  <1>13. \A k \in within(Root) : /\ Waiting(k)' => Waiting(k) /\ k # a
                                 /\ Waiting(k) /\ k # a => Waiting(k)'
    BY <1>1, <1>2, <1>4 DEF Waiting, WaitOK, within
  <1>14. WaitOK'
    <2>1. \A k \in scanned' : \A i \in DOMAIN todo : k \notin within(todo[i].node)
      BY <1>2, <1>4 DEF WaitOK
    <2>2. ASSUME NEW k \in within(Root), Waiting(k)' PROVE ~InSet(vind[k])'
      <3>1. Waiting(k) /\ k # a
        BY <1>13, <2>2
      <3>2. ~InSet(vind[k])
        BY <1>2, <3>1 DEF WaitOK
      <3>3. PICK q : q = vind[k]
        OBVIOUS
      <3>4. ~InSet(q)'
        BY <1>8, <1>12, <3>1, <3>2, <3>3
      <3>. QED  BY <1>1, <3>3, <3>4 DEF InSet
    <2>3. ASSUME NEW k \in within(Root) PROVE Waiting(k)' \/ InSet(vind[k])' \/ Beaten(vind[k])'
      <3>1. PICK q : q = vind[k]
        OBVIOUS
      <3>2. Waiting(k)' \/ InSet(q)' \/ Beaten(q)'
        <4>1. CASE k = a
          BY <1>0, <1>8, <3>1, <4>1
        <4>2. CASE k # a
          <5>1. Waiting(k) \/ InSet(q) \/ Beaten(q)
            BY <1>2, <3>1 DEF WaitOK
          <5>. QED  BY <1>8, <1>9, <1>12, <1>13, <3>1, <4>2, <5>1
        <4>. QED  BY <4>1, <4>2
      <3>. QED  BY <1>1, <3>1, <3>2 DEF InSet, Beaten, pointDist
    <2>. QED  BY <1>1, <1>5, <2>1, <2>2, <2>3 DEF WaitOK, within
  <1>15. query' # NoQuery /\ query' \in Query /\ (pts' # <<>> => built(Root)')
    BY <1>1, <1>2, SearchFrame DEF Root, built, at
  <1>. QED  BY <1>8, <1>10, <1>11, <1>14, <1>15 DEF SearchInv

-----------------------------------------------------------------------------
(***************************************************************************)
(* The step down the tree, and the call that starts a search.              *)
(***************************************************************************)
\* The sequence of calls, when the first is replaced by two.
LEMMA TwoCalls ==
    ASSUME TodoOK, todo # <<>>, NEW best \in Call, NEW other \in Call,
           todo' = <<best, other>> \o Tail(todo)
    PROVE  /\ todo' \in Seq(Call) /\ DOMAIN todo' = 1..Len(todo) + 1
           /\ todo'[1] = best /\ todo'[2] = other
           /\ \A i \in 3..Len(todo) + 1 : todo'[i] = todo[i - 1] /\ i - 1 \in DOMAIN todo /\ i - 1 > 1
           /\ DOMAIN todo = 1..Len(todo) /\ Len(todo) \in Nat /\ Len(todo) > 0
  <1>1. todo \in Seq(Call) /\ Len(todo) \in Nat /\ Len(todo) > 0 /\ DOMAIN todo = 1..Len(todo)
    BY DEF TodoOK
  <1>2. /\ Tail(todo) \in Seq(Call) /\ Len(Tail(todo)) = Len(todo) - 1
        /\ \A i \in 1..Len(todo) - 1 : Tail(todo)[i] = todo[i + 1]
    BY <1>1
  <1>3. <<best, other>> \in Seq(Call) /\ Len(<<best, other>>) = 2
    OBVIOUS
  <1>4. todo' \in Seq(Call) /\ Len(todo') = Len(todo) + 1
    BY <1>1, <1>2, <1>3
  <1>5. todo'[1] = best /\ todo'[2] = other
    BY <1>1, <1>2
  <1>6. ASSUME NEW i \in 3..Len(todo) + 1
        PROVE  todo'[i] = todo[i - 1] /\ i - 1 \in DOMAIN todo /\ i - 1 > 1
    <2>1. todo'[i] = Tail(todo)[i - 2]
      BY <1>1, <1>2, <1>3
    <2>2. i - 2 \in 1..Len(todo) - 1 /\ (i - 2) + 1 = i - 1
      BY <1>1
    <2>3. Tail(todo)[i - 2] = todo[(i - 2) + 1]
      BY <1>2, <2>2
    <2>. QED  BY <1>1, <2>1, <2>2, <2>3
  <1>. QED  BY <1>1, <1>4, <1>5, <1>6

\* What is beyond a cut is as far away as the cut.
LEMMA BeyondCut ==
    ASSUME NEW q \in Int, NEW v \in Int, NEW low \in Int, NEW high \in Int, low <= high
    PROVE  /\ (q - low) + (q - high) < 0 /\ high <= v => accum_dist(q, high) <= accum_dist(q, v)
           /\ ~((q - low) + (q - high) < 0) /\ v <= low => accum_dist(q, low) <= accum_dist(q, v)
  <1>1. (q - low) + (q - high) < 0 => q <= high
    OBVIOUS
  <1>2. ~((q - low) + (q - high) < 0) => low <= q
    OBVIOUS
  <1>. QED  BY <1>1, <1>2, Squares

LEMMA SearchLevelSearches ==
    ASSUME BuildInv, SearchInv, query # NoQuery, searchLevel
    PROVE  SearchInv'
  <1>0. PICK x, n, f, child1, child2, before, cut_dist, best, other :
            /\ x = next /\ n = tree[x.node] /\ f = n.divfeat
            /\ child1 = lower(x.node, n.mid) /\ child2 = upper(x.node, n.mid)
            /\ before = ((query[f] - n.divlow) + (query[f] - n.divhigh) < 0)
            /\ cut_dist = accum_dist(query[f], IF before THEN n.divhigh ELSE n.divlow)
            /\ best = [x EXCEPT !.node = IF before THEN child1 ELSE child2, !.other = FALSE]
            /\ other = [node |-> IF before THEN child2 ELSE child1,
                        mindistsq |-> bound(x.mindistsq, cut_dist, x.dists[f]),
                        dists |-> [x.dists EXCEPT ![f] = cut_dist], other |-> TRUE]
    OBVIOUS
  <1>1. /\ pts' = pts /\ vind' = vind /\ tree' = tree /\ query' = query
        /\ scan' = scan /\ resultSet' = resultSet
        /\ todo # <<>> /\ scan.at = scan.to /\ at(x.node, "inner")
        /\ todo' = <<best, other>> \o Tail(todo)
    BY <1>0 DEF searchLevel, due
  <1>2. /\ query \in Query /\ (pts # <<>> => built(Root))
        /\ SetOK /\ ScanOK /\ TodoOK /\ WaitOK
    BY DEF SearchInv
  <1>3. /\ x = todo[1] /\ 1 \in DOMAIN todo /\ x \in Call /\ CallOK(x)
    <2>1. todo \in Seq(Call) /\ \A i \in DOMAIN todo : CallOK(todo[i])
      BY <1>2 DEF TodoOK
    <2>2. 1 \in DOMAIN todo /\ todo[1] \in Call /\ Head(todo) = todo[1]
      BY <1>1, <2>1
    <2>3. x = todo[1]
      BY <1>0, <2>2 DEF next
    <2>. QED  BY <2>1, <2>2, <2>3
  <1>4. /\ x.node \in DOMAIN tree /\ x.node \in Part
        /\ x.node.left \in Nat /\ x.node.right \in Nat /\ within(x.node) \subseteq within(Root)
        /\ \A k : k \in within(x.node) <=> k \in Int /\ x.node.left <= k /\ k < x.node.right
        /\ n \in Node /\ f \in Axis /\ n.divlow \in Int /\ n.divhigh \in Int
    BY <1>0, <1>3, CallNode, MadeNode DEF BuildInv, Node
  <1>5. /\ n.mid \in Nat /\ x.node.left < n.mid /\ n.mid < x.node.right
        /\ built(child1) /\ built(child2)
        /\ n.divlow = tree[child1].bbox[f].high /\ n.divhigh = tree[child2].bbox[f].low
        /\ n.divlow <= n.divhigh
    <2>1. Divides(x.node) /\ Cut(x.node)
      BY <1>1, <1>4 DEF BuildInv, NodeOK, Cut, at
    <2>2. n.mid \in Nat
      BY <1>0, <1>4, <2>1, CutInside
    <2>. QED  BY <1>0, <2>1, <2>2 DEF Divides
  <1>6. /\ child1 \in Part /\ child1.left = x.node.left /\ child1.right = n.mid
        /\ child2 \in Part /\ child2.left = n.mid /\ child2.right = x.node.right
        /\ \A k : k \in within(x.node) <=> k \in within(child1) \/ k \in within(child2)
        /\ \A k : ~(k \in within(child1) /\ k \in within(child2))
    <2>1. /\ child1 \in Part /\ child1.left = x.node.left /\ child1.right = n.mid
          /\ child2 \in Part /\ child2.left = n.mid /\ child2.right = x.node.right
      <3>1. child1 = lower(x.node, n.mid) /\ child2 = upper(x.node, n.mid)
        BY <1>0
      <3>. QED  BY <1>4, <1>5, <3>1, Halves
    <2>2. /\ \A k : k \in within(child1) <=> k \in Int /\ x.node.left <= k /\ k < n.mid
          /\ \A k : k \in within(child2) <=> k \in Int /\ n.mid <= k /\ k < x.node.right
      BY <1>4, <1>5, <2>1 DEF within
    <2>. QED  BY <1>4, <1>5, <2>1, <2>2
  <1>7. query \in [Axis -> Int] /\ x.dists \in [Axis -> Int] /\ x.mindistsq \in Int
        /\ x.mindistsq = total(x.dists) /\ before \in BOOLEAN
    <2>1. query \in [Axis -> Int]
      BY <1>2, KDTreeAssumption
    <2>2. x.dists \in [Axis -> Int] /\ x.mindistsq \in Int
      BY <1>3 DEF Call
    <2>3. x.mindistsq = total(x.dists)
      BY <1>3 DEF CallOK
    <2>4. before \in BOOLEAN
      BY <1>0
    <2>. QED  BY <2>1, <2>2, <2>3, <2>4
  <1>8. query[f] \in Int /\ x.dists[f] \in Int
    BY <1>4, <1>7
  <1>9. cut_dist \in Int
    <2>1. PICK v : v = IF before THEN n.divhigh ELSE n.divlow
      OBVIOUS
    <2>2. v \in Int /\ cut_dist = accum_dist(query[f], v)
      BY <1>0, <1>4, <2>1
    <2>. QED  BY <1>8, <2>2 DEF accum_dist
  <1>10. /\ best \in Call /\ best.node = (IF before THEN child1 ELSE child2)
         /\ best.mindistsq = x.mindistsq /\ best.dists = x.dists
    BY <1>0, <1>3, <1>6 DEF Call
  <1>11. /\ other \in Call /\ other.node = (IF before THEN child2 ELSE child1)
         /\ other.mindistsq = x.mindistsq + cut_dist - x.dists[f]
         /\ other.dists = [x.dists EXCEPT ![f] = cut_dist]
    <2>1. bound(x.mindistsq, cut_dist, x.dists[f]) = x.mindistsq + cut_dist - x.dists[f]
      BY DEF bound
    <2>2. x.mindistsq + cut_dist - x.dists[f] \in Int
      BY <1>7, <1>8, <1>9
    <2>3. [x.dists EXCEPT ![f] = cut_dist] \in [Axis -> Int]
      BY <1>7, <1>9
    <2>. QED  BY <1>0, <1>6, <2>1, <2>2, <2>3 DEF Call
  <1>12. \A k \in within(x.node) : \A i \in Axis :
            x.dists[i] <= accum_dist(query[i], coordinate(k, i)) /\ coordinate(k, i) \in Int
    <2>1. \A k \in within(x.node) : \A i \in Axis :
             x.dists[i] <= accum_dist(query[i], coordinate(k, i))
      BY <1>3 DEF CallOK
    <2>2. \A k \in within(x.node) : \A i \in Axis : coordinate(k, i) \in Int
      BY <1>4, Coordinates DEF BuildInv
    <2>. QED  BY <2>1, <2>2
  <1>13. CallOK(best)
    <2>1. built(best.node)
      BY <1>5, <1>10
    <2>2. \A k \in within(best.node) : k \in within(x.node)
      BY <1>6, <1>10
    <2>. QED  BY <1>7, <1>10, <1>12, <2>1, <2>2 DEF CallOK
  <1>14. CallOK(other)
    <2>1. built(other.node)
      BY <1>5, <1>11
    <2>2. other.mindistsq = total(other.dists)
      BY <1>4, <1>7, <1>9, <1>11, TotalExcept
    <2>3. ASSUME NEW k \in within(other.node), NEW i \in Axis
          PROVE  other.dists[i] <= accum_dist(query[i], coordinate(k, i))
      <3>1. k \in within(x.node)
        BY <1>6, <1>11, <2>3
      <3>2. CASE i # f
        BY <1>7, <1>11, <1>12, <3>1, <3>2
      <3>3. CASE i = f
        <4>1. other.dists[i] = cut_dist
          BY <1>4, <1>7, <1>11, <3>3
        <4>2. PICK v : v = coordinate(k, f)
          OBVIOUS
        <4>3. v \in Int
          BY <1>4, <1>12, <3>1, <4>2
        <4>4. CASE before
          <5>1. k \in within(child2) /\ child2 \in DOMAIN tree
            BY <1>5, <1>11, <2>3, <4>4 DEF built, at
          <5>2. n.divhigh <= v
            <6>1. TightBox(child2, tree[child2].bbox)
              BY <1>5, <5>1 DEF BuildInv, NodeOK
            <6>. QED  BY <1>4, <1>5, <4>2, <5>1, <6>1 DEF TightBox
          <5>3. cut_dist <= accum_dist(query[f], v)
            BY <1>0, <1>4, <1>5, <1>8, <4>3, <4>4, <5>2, BeyondCut
          <5>. QED  BY <3>3, <4>1, <4>2, <5>3
        <4>5. CASE ~before
          <5>1. k \in within(child1) /\ child1 \in DOMAIN tree
            BY <1>5, <1>11, <2>3, <4>5 DEF built, at
          <5>2. v <= n.divlow
            <6>1. TightBox(child1, tree[child1].bbox)
              BY <1>5, <5>1 DEF BuildInv, NodeOK
            <6>. QED  BY <1>4, <1>5, <4>2, <5>1, <6>1 DEF TightBox
          <5>3. cut_dist <= accum_dist(query[f], v)
            BY <1>0, <1>4, <1>5, <1>8, <4>3, <4>5, <5>2, BeyondCut
          <5>. QED  BY <3>3, <4>1, <4>2, <5>3
        <4>. QED  BY <4>4, <4>5
      <3>. QED  BY <3>2, <3>3
    <2>. QED  BY <2>1, <2>2, <2>3 DEF CallOK
  <1>15. /\ todo' \in Seq(Call) /\ DOMAIN todo' = 1..Len(todo) + 1
         /\ todo'[1] = best /\ todo'[2] = other
         /\ \A i \in 3..Len(todo) + 1 : todo'[i] = todo[i - 1] /\ i - 1 \in DOMAIN todo /\ i - 1 > 1
         /\ DOMAIN todo = 1..Len(todo) /\ Len(todo) \in Nat /\ Len(todo) > 0
    BY <1>1, <1>2, <1>10, <1>11, TwoCalls
  <1>16. TodoOK'
    <2>1. ASSUME NEW i \in DOMAIN todo' PROVE CallOK(todo'[i])
      <3>1. i = 1 \/ i = 2 \/ i \in 3..Len(todo) + 1
        BY <1>15
      <3>2. \A j \in DOMAIN todo : CallOK(todo[j])
        BY <1>2 DEF TodoOK
      <3>. QED  BY <1>13, <1>14, <1>15, <3>1, <3>2
    <2>2. \A i \in DOMAIN todo' : CallOK(todo[i])'
      BY <1>1, <2>1, SearchFrame
    <2>3. /\ Apart(best.node, other.node)
          /\ \A d \in Part : Apart(x.node, d) => Apart(best.node, d) /\ Apart(other.node, d)
      BY <1>4, <1>5, <1>6, <1>10, <1>11 DEF Apart, Part
    <2>4. ASSUME NEW i \in DOMAIN todo', NEW j \in DOMAIN todo', i < j
          PROVE  Apart(todo'[i].node, todo'[j].node)
      <3>0. /\ \A h, l \in DOMAIN todo : h < l => Apart(todo[h].node, todo[l].node)
            /\ \A h \in DOMAIN todo : todo[h].node \in Part
        <4>1. \A h \in DOMAIN todo : todo[h] \in Call
          BY <1>2 DEF TodoOK
        <4>. QED  BY <1>2, <4>1 DEF TodoOK, Call
      <3>1. CASE i = 1 /\ j = 2
        BY <1>15, <2>3, <3>1
      <3>2. CASE i \in {1, 2} /\ j \in 3..Len(todo) + 1
        <4>1. todo'[j] = todo[j - 1] /\ j - 1 \in DOMAIN todo /\ 1 < j - 1
          BY <1>15, <3>2
        <4>2. Apart(x.node, todo[j - 1].node) /\ todo[j - 1].node \in Part
          BY <1>3, <3>0, <4>1
        <4>3. Apart(best.node, todo[j - 1].node) /\ Apart(other.node, todo[j - 1].node)
          BY <2>3, <4>2
        <4>. QED  BY <1>15, <3>2, <4>1, <4>3
      <3>3. CASE i \in 3..Len(todo) + 1 /\ j \in 3..Len(todo) + 1
        <4>1. /\ todo'[i] = todo[i - 1] /\ i - 1 \in DOMAIN todo
              /\ todo'[j] = todo[j - 1] /\ j - 1 \in DOMAIN todo /\ i - 1 < j - 1
          BY <1>15, <2>4, <3>3
        <4>. QED  BY <3>0, <4>1
      <3>. QED  BY <1>15, <2>4, <3>1, <3>2, <3>3
    <2>. QED  BY <1>15, <2>2, <2>4 DEF TodoOK, Apart
  <1>17. \A k : (\E i \in DOMAIN todo : k \in within(todo[i].node))
                   <=> \E i \in DOMAIN todo' : k \in within(todo'[i].node)
    <2>. SUFFICES ASSUME NEW k
                  PROVE  (\E i \in DOMAIN todo : k \in within(todo[i].node))
                            <=> \E i \in DOMAIN todo' : k \in within(todo'[i].node)
      OBVIOUS
    <2>1. k \in within(x.node) <=> k \in within(best.node) \/ k \in within(other.node)
      BY <1>6, <1>7, <1>10, <1>11
    <2>2. ASSUME NEW i \in DOMAIN todo, k \in within(todo[i].node)
          PROVE  \E j \in DOMAIN todo' : k \in within(todo'[j].node)
      <3>1. CASE i = 1
        <4>1. 1 \in DOMAIN todo' /\ 2 \in DOMAIN todo'
          BY <1>15
        <4>. QED  BY <1>3, <1>15, <2>1, <2>2, <3>1, <4>1
      <3>2. CASE i # 1
        <4>1. i + 1 \in 3..Len(todo) + 1 /\ i + 1 \in DOMAIN todo' /\ (i + 1) - 1 = i
          BY <1>15, <3>2
        <4>2. todo'[i + 1] = todo[i]
          BY <1>15, <4>1
        <4>. QED  BY <2>2, <4>1, <4>2
      <3>. QED  BY <3>1, <3>2
    <2>3. ASSUME NEW i \in DOMAIN todo', k \in within(todo'[i].node)
          PROVE  \E j \in DOMAIN todo : k \in within(todo[j].node)
      <3>1. CASE i = 1 \/ i = 2
        BY <1>3, <1>15, <2>1, <2>3, <3>1
      <3>2. CASE i \in 3..Len(todo) + 1
        BY <1>15, <2>3, <3>2
      <3>. QED  BY <1>15, <3>1, <3>2
    <2>. QED  BY <2>2, <2>3
  <1>18. scanned = {} /\ scanned' = {}
    BY <1>1, <1>2 DEF scanned, ScanOK, Scan
  <1>19. WaitOK'
    <2>1. \A k : Waiting(k)' <=> Waiting(k)
      BY <1>17, <1>18 DEF Waiting, within
    <2>2. \A k : /\ InSet(vind[k])' <=> InSet(vind[k])
                 /\ Beaten(vind[k])' <=> Beaten(vind[k])
      BY <1>1 DEF InSet, Beaten, pointDist
    <2>3. within(Root)' = within(Root)
      BY <1>1, SearchFrame
    <2>. QED  BY <1>2, <1>18, <2>1, <2>2, <2>3 DEF WaitOK
  <1>20. SetOK' /\ ScanOK' /\ (pts' # <<>> => built(Root)')
    BY <1>1, <1>2, SearchFrame DEF SetOK, ScanOK, pointDist, scanned, Root, built, at
  <1>21. query' # NoQuery /\ query' \in Query
    BY <1>1, <1>2
  <1>. QED  BY <1>16, <1>19, <1>20, <1>21 DEF SearchInv

-----------------------------------------------------------------------------
(***************************************************************************)
(* The call that starts a search, and all steps.                           *)
(***************************************************************************)
\* No point is nearer than the box around all of them.
LEMMA RootCall ==
    ASSUME BuildInv, built(Root), NEW l \in Query, NEW x,
           x = [node |-> Root, mindistsq |-> total(initialDists(l)),
                dists |-> initialDists(l), other |-> FALSE]
    PROVE  /\ x \in Call /\ x.node = Root /\ x.mindistsq = total(x.dists)
           /\ \A k \in within(Root) : \A i \in Axis :
                 x.dists[i] <= accum_dist(l[i], coordinate(k, i))
  <1>1. /\ Root \in DOMAIN tree /\ Root \in Part /\ tree[Root].bbox \in Box
        /\ TightBox(Root, tree[Root].bbox)
    <2>1. Root \in DOMAIN tree
      BY DEF built, at
    <2>2. Root \in Part /\ tree[Root] \in Node
      BY <2>1, MadeNode DEF BuildInv
    <2>. QED  BY <2>1, <2>2 DEF BuildInv, NodeOK, Node
  <1>2. PICK box : box = tree[Root].bbox
    OBVIOUS
  <1>3. l \in [Axis -> Int]
    BY KDTreeAssumption
  <1>4. \A i \in Axis : l[i] \in Int /\ box[i].low \in Int /\ box[i].high \in Int
    <2>1. \A i \in Axis : box[i] \in [low : Int, high : Int]
      BY <1>1, <1>2 DEF Box
    <2>. QED  BY <1>3, <2>1
  <1>. DEFINE d(i) == IF l[i] < box[i].low THEN accum_dist(l[i], box[i].low)
                      ELSE IF l[i] > box[i].high THEN accum_dist(l[i], box[i].high)
                      ELSE 0
  <1>5. initialDists(l) = [i \in Axis |-> d(i)]
    BY <1>2 DEF initialDists
  <1>6. ASSUME NEW i \in Axis
        PROVE  /\ d(i) \in Int
               /\ \A k \in within(Root) : d(i) <= accum_dist(l[i], coordinate(k, i))
    <2>1. d(i) \in Int
      <3>1. \A a, b \in Int : accum_dist(a, b) \in Int
        BY DEF accum_dist
      <3>2. PICK q, low, high : q = l[i] /\ low = box[i].low /\ high = box[i].high
        OBVIOUS
      <3>3. q \in Int /\ low \in Int /\ high \in Int
        BY <1>4, <3>2
      <3>4. accum_dist(q, low) \in Int /\ accum_dist(q, high) \in Int
        BY <3>1, <3>3
      <3>. QED  BY <3>2, <3>4
    <2>2. ASSUME NEW k \in within(Root)
          PROVE  d(i) <= accum_dist(l[i], coordinate(k, i))
      <3>1. PICK q, v, low, high : /\ q = l[i] /\ v = coordinate(k, i)
                                   /\ low = box[i].low /\ high = box[i].high
        OBVIOUS
      <3>2. v \in Int /\ low \in Int /\ high \in Int /\ q \in Int
        BY <1>1, <1>4, <3>1, Coordinates DEF BuildInv
      <3>3. low <= v /\ v <= high
        BY <1>1, <1>2, <3>1 DEF TightBox
      <3>4. q < low => accum_dist(q, low) <= accum_dist(q, v)
        BY <3>2, <3>3, Squares
      <3>5. q > high => accum_dist(q, high) <= accum_dist(q, v)
        BY <3>2, <3>3, Squares
      <3>6. 0 <= accum_dist(q, v)
        BY <3>2, Squares
      <3>. QED  BY <3>1, <3>2, <3>4, <3>5, <3>6
    <2>. QED  BY <2>1, <2>2
  <1>. HIDE DEF d
  <1>7. /\ initialDists(l) \in [Axis -> Int]
        /\ \A i \in Axis : initialDists(l)[i] = d(i)
    <2>1. \A i \in Axis : d(i) \in Int
      BY <1>6
    <2>. QED  BY <1>5, <2>1
  <1>8. total(initialDists(l)) \in Int
    BY <1>7 DEF total, Axis
  <1>9. x \in Call
    BY <1>1, <1>7, <1>8 DEF Call
  <1>. QED  BY <1>6, <1>7, <1>9

LEMMA GetNearestNodesSearches ==
    ASSUME BuildInv, SearchInv, NEW l \in Query, getNearestNodes(l)
    PROVE  SearchInv'
  <1>1. /\ pts' = pts /\ vind' = vind /\ tree' = tree
        /\ query' = l /\ resultSet' = <<>> /\ scan' = NoScan
        /\ pts # <<>> => built(Root)
    BY DEF getNearestNodes
  <1>2. l # NoQuery /\ PointsOK /\ l \in [Axis -> Int]
    BY KDTreeAssumption DEF BuildInv
  <1>3. SetOK'
    BY <1>1, KDTreeAssumption DEF SetOK
  <1>4. scanned' = {} /\ scan' \in Scan /\ scan'.at = scan'.to /\ scan'.worst = MaxDistance
    BY <1>1 DEF scanned, NoScan, Scan
  <1>5. ScanOK'
    BY <1>4 DEF ScanOK, Scan
  <1>6. \A k : ~InSet(vind[k])'
    BY <1>1 DEF InSet
  <1>7. (pts # <<>> => built(Root))'
    BY <1>1 DEF built, at, Root
  <1>8. CASE pts = <<>>
    <2>1. todo' = <<>>
      BY <1>8 DEF getNearestNodes
    <2>2. TodoOK'
      BY <2>1 DEF TodoOK
    <2>3. within(Root)' = {}
      <3>1. within(Root) = {}
        BY <1>2, <1>8, RootPart
      <3>. QED  BY <1>1, <3>1 DEF within, Root
    <2>4. WaitOK'
      BY <1>4, <2>3 DEF WaitOK
    <2>. QED  BY <1>1, <1>2, <1>3, <1>5, <1>7, <2>2, <2>4 DEF SearchInv
  <1>9. CASE pts # <<>>
    <2>1. PICK x : x = [node |-> Root, mindistsq |-> total(initialDists(l)),
                        dists |-> initialDists(l), other |-> FALSE]
      OBVIOUS
    <2>2. todo' = <<x>>
      BY <1>9, <2>1 DEF getNearestNodes
    <2>3. built(Root)
      BY <1>1, <1>9
    <2>4. /\ x \in Call /\ x.node = Root /\ x.mindistsq = total(x.dists)
          /\ \A k \in within(Root) : \A i \in Axis :
                x.dists[i] <= accum_dist(l[i], coordinate(k, i))
      BY <2>1, <2>3, RootCall
    <2>5. todo' \in Seq(Call) /\ DOMAIN todo' = {1} /\ todo'[1] = x
      BY <2>2, <2>4
    <2>6. built(Root)' /\ Root' = Root /\ within(Root)' = within(Root)
      BY <1>1, <2>3 DEF built, at, Root, within
    <2>7. CallOK(x)'
      <3>1. built(x.node)'
        BY <1>1, <2>3, <2>4 DEF built, at
      <3>2. \A k, i : coordinate(k, i)' = coordinate(k, i)
        BY <1>1 DEF coordinate
      <3>3. within(x.node)' = within(Root)
        BY <2>4 DEF within
      <3>4. \A k \in within(Root) : \A i \in Axis :
               x.dists[i] <= accum_dist(query'[i], coordinate(k, i)')
        BY <1>1, <2>4, <3>2
      <3>. QED  BY <2>4, <3>1, <3>3, <3>4 DEF CallOK
    <2>8. TodoOK'
      BY <2>5, <2>7 DEF TodoOK
    <2>9. \A k \in within(Root) : Waiting(k)'
      BY <2>4, <2>5 DEF Waiting, within
    <2>10. WaitOK'
      BY <1>4, <1>6, <2>6, <2>9 DEF WaitOK
    <2>. QED  BY <1>1, <1>2, <1>3, <1>5, <1>7, <2>8, <2>10 DEF SearchInv
  <1>. QED  BY <1>8, <1>9

\* Nothing is built any more when there is a query.
LEMMA BuildStepSearches == BuildInv /\ SearchInv /\ buildStep => SearchInv'
  <1>. SUFFICES ASSUME BuildInv, SearchInv, buildStep
                PROVE  SearchInv'
    OBVIOUS
  <1>1. UNCHANGED searchVars
    <2>1. CASE buildIndex
      BY <2>1 DEF buildIndex
    <2>2. CASE \E c \in DOMAIN tree : divideTree(c)
      BY <2>2 DEF divideTree, makeLeaf, middleSplit_, advanceLeft, advanceRight, swap,
                  nextLoop, firstChild, secondChild, join
    <2>. QED  BY <2>1, <2>2 DEF buildStep
  <1>2. CASE query = NoQuery
    BY <1>1, <1>2 DEF SearchInv, searchVars, NoScan
  <1>3. CASE query # NoQuery
    <2>1. pts # <<>> => built(Root)
      BY <1>3 DEF SearchInv
    <2>2. CASE buildIndex
      <3>1. tree = <<>> /\ built(Root)
        BY <2>1, <2>2 DEF buildIndex
      <3>. QED  BY <3>1 DEF built, at
    <2>3. CASE \E c \in DOMAIN tree : divideTree(c)
      <3>1. PICK c \in DOMAIN tree : divideTree(c)
        BY <2>3
      <3>2. pts # <<>>
        <4>1. c.left < c.right /\ c.right <= Len(pts) /\ c.left \in Nat /\ c.right \in Nat
          BY MadeNode DEF BuildInv
        <4>. QED  BY <4>1
      <3>3. at(c, "leaf") \/ at(c, "inner")
        BY <2>1, <3>2, AllBuilt DEF built
      <3>4. ~divideTree(c)
        BY <3>3 DEF divideTree, makeLeaf, middleSplit_, advanceLeft, advanceRight, swap,
                    nextLoop, swept, splitting, firstChild, secondChild, join, at
      <3>. QED  BY <3>1, <3>4
    <2>. QED  BY <2>2, <2>3 DEF buildStep
  <1>. QED  BY <1>2, <1>3

\* Without a query there is nothing to do.
LEMMA SearchStepSearches == BuildInv /\ SearchInv /\ searchStep => SearchInv'
  <1>. SUFFICES ASSUME BuildInv, SearchInv, searchStep
                PROVE  SearchInv'
    OBVIOUS
  <1>1. query # NoQuery
    <2>. SUFFICES ASSUME query = NoQuery PROVE FALSE
      OBVIOUS
    <2>1. todo = <<>> /\ scan.at = scan.to
      BY DEF SearchInv, NoScan
    <2>2. ~due /\ ~visit
      BY <2>1 DEF SearchInv, NoScan, due, visit
    <2>. QED  BY <2>2 DEF searchStep, leaveOut, searchLeaf, searchLevel
  <1>. QED  BY <1>1, LeaveOutSearches, SearchLeafSearches, VisitSearches, SearchLevelSearches
            DEF searchStep

LEMMA SameSearch == SearchInv /\ UNCHANGED kdVars => SearchInv'
  <1>. SUFFICES ASSUME SearchInv, UNCHANGED kdVars
                PROVE  SearchInv'
    OBVIOUS
  <1>1. UNCHANGED <<pts, vind, tree, query, todo, scan, resultSet>>
    BY DEF kdVars, searchVars
  <1>2. CASE query = NoQuery
    BY <1>1, <1>2 DEF SearchInv, NoScan
  <1>3. CASE query # NoQuery
    <2>1. SetOK /\ ScanOK /\ TodoOK /\ WaitOK /\ query \in Query /\ (pts # <<>> => built(Root))
      BY <1>3 DEF SearchInv
    <2>2. SetOK' /\ ScanOK' /\ (pts # <<>> => built(Root))'
      BY <1>1, <2>1, SearchFrame DEF SetOK, ScanOK, pointDist, scanned, built, at, Root
    <2>3. TodoOK'
      BY <1>1, <2>1, SearchFrame DEF TodoOK, Apart
    <2>4. WaitOK'
      <3>1. \A k : Waiting(k)' <=> Waiting(k)
        BY <1>1 DEF Waiting, scanned, within
      <3>2. \A p : /\ InSet(p)' <=> InSet(p)
                   /\ Beaten(p)' <=> Beaten(p)
        BY <1>1 DEF InSet, Beaten, pointDist
      <3>3. within(Root)' = within(Root) /\ scanned' = scanned
        BY <1>1, SearchFrame DEF scanned
      <3>4. \A k \in scanned : \A i \in DOMAIN todo' : k \notin within(todo'[i].node)
        BY <1>1, <2>1 DEF WaitOK
      <3>5. \A k \in scanned' : \A i \in DOMAIN todo' : k \notin within(todo[i].node)'
        BY <3>3, <3>4 DEF within
      <3>6. \A k \in within(Root)' : Waiting(k)' => ~InSet(vind[k])'
        BY <1>1, <2>1, <3>1, <3>2, <3>3 DEF WaitOK
      <3>7. \A k \in within(Root)' : Waiting(k)' \/ InSet(vind[k])' \/ Beaten(vind[k])'
        BY <1>1, <2>1, <3>1, <3>2, <3>3 DEF WaitOK
      <3>. QED  BY <3>5, <3>6, <3>7 DEF WaitOK
    <2>. QED  BY <1>1, <2>1, <2>2, <2>3, <2>4 DEF SearchInv
  <1>. QED  BY <1>2, <1>3

LEMMA AlwaysSearchInv == KDSpec => [](BuildInv /\ SearchInv)
  <1>1. BuildInv /\ SearchInv /\ [KDNext]_kdVars => SearchInv'
    BY BuildStepSearches, SearchStepSearches, GetNearestNodesSearches, SameSearch DEF KDNext
  <1>2. KDInit => SearchInv
    BY InitSearchInv
  <1>. QED  BY <1>1, <1>2, AlwaysBuildInv, PTL DEF KDSpec

-----------------------------------------------------------------------------
(***************************************************************************)
(* What a search has found when it is at its end.                          *)
(***************************************************************************)
LEMMA AllSettled ==
    ASSUME BuildInv, SearchInv, query # NoQuery, idle, NEW p \in DOMAIN pts
    PROVE  InSet(p) \/ Beaten(p)
  <1>1. /\ pts # <<>> => built(Root)
        /\ ScanOK /\ TodoOK /\ WaitOK /\ OrderOK
    BY DEF SearchInv, BuildInv
  <1>2. built(Root) /\ DOMAIN tree # {}
    <2>1. pts # <<>>
      BY RootPart DEF BuildInv
    <2>. QED  BY <1>1, <2>1 DEF built, at
  <1>3. PICK k \in within(Root) : vind[k] = p
    BY <1>1, <1>2 DEF OrderOK
  <1>4. ~Waiting(k)
    <2>1. scanned = {}
      BY <1>1 DEF scanned, ScanOK, Scan, idle
    <2>2. DOMAIN todo = {}
      BY DEF idle
    <2>. QED  BY <2>1, <2>2 DEF Waiting
  <1>. QED  BY <1>1, <1>3, <1>4 DEF WaitOK

\* There are as many as asked for, or as there are points.
LEMMA CountFound ==
    ASSUME BuildInv, SearchInv, query # NoQuery, idle
    PROVE  Len(resultSet) = IF Len(pts) < NearestCount THEN Len(pts) ELSE NearestCount
  <1>1. SetOK
    BY DEF SearchInv
  <1>2. PICK n, m : n = Len(resultSet) /\ m = Len(pts)
    OBVIOUS
  <1>3. /\ n \in Nat /\ m \in Nat /\ n <= NearestCount /\ NearestCount \in Nat
        /\ DOMAIN resultSet = 1..n /\ DOMAIN pts = 1..m
        /\ \A i \in 1..n : resultSet[i].index \in 1..m
        /\ \A i, j \in 1..n : i < j => resultSet[i].index # resultSet[j].index
    BY <1>1, <1>2, FoundPoints, RootPart, KDTreeAssumption DEF BuildInv, SetOK
  <1>4. /\ IsFiniteSet(1..n) /\ Cardinality(1..n) = n
        /\ IsFiniteSet(1..m) /\ Cardinality(1..m) = m
    <2>1. \A k \in Nat : IsFiniteSet(1..k) /\ Cardinality(1..k) = IF 1 > k THEN 0 ELSE k - 1 + 1
      BY FS_Interval
    <2>2. \A k \in Nat : (IF 1 > k THEN 0 ELSE k - 1 + 1) = k
      OBVIOUS
    <2>. QED  BY <1>3, <2>1, <2>2
  <1>5. n <= m
    <2>. SUFFICES ASSUME m < n PROVE FALSE
      BY <1>3
    <2>. DEFINE f == [i \in 1..n |-> resultSet[i].index]
    <2>1. f \in [1..n -> 1..m]
      BY <1>3
    <2>2. \E i, j \in 1..n : i # j /\ f[i] = f[j]
      <3>. HIDE DEF f
      <3>. QED  BY <1>4, <2>1, FS_PigeonHole
    <2>3. PICK i, j \in 1..n : i # j /\ resultSet[i].index = resultSet[j].index
      BY <2>2
    <2>4. i < j \/ j < i
      BY <2>3
    <2>. QED  BY <1>3, <2>3, <2>4
  <1>6. n < NearestCount => m <= n
    <2>. SUFFICES ASSUME n < NearestCount, n < m PROVE FALSE
      BY <1>3
    <2>1. \A p \in 1..m : \E i \in 1..n : resultSet[i].index = p
      <3>1. \A p : ~Beaten(p)
        BY <1>2, <1>3 DEF Beaten
      <3>. QED  BY <1>3, <3>1, AllSettled DEF InSet
    <2>. DEFINE g == [p \in 1..m |-> CHOOSE i \in 1..n : resultSet[i].index = p]
    <2>2. \A p \in 1..m : g[p] \in 1..n /\ resultSet[g[p]].index = p
      BY <2>1
    <2>3. g \in [1..m -> 1..n]
      BY <2>2
    <2>4. \E p, q \in 1..m : p # q /\ g[p] = g[q]
      <3>. HIDE DEF g
      <3>. QED  BY <1>4, <2>3, FS_PigeonHole
    <2>. HIDE DEF g
    <2>. QED  BY <2>2, <2>4
  <1>. QED  BY <1>2, <1>3, <1>5, <1>6

\* A point that was not found is not nearer than one that was.
LEMMA OthersFarther ==
    ASSUME BuildInv, SearchInv, query # NoQuery, idle, NEW p \in DOMAIN pts, ~InSet(p),
           NEW j \in DOMAIN resultSet
    PROVE  resultSet[j].dist <= pointDist(p)
  <1>1. Beaten(p) /\ SetOK
    BY AllSettled DEF SearchInv
  <1>2. PICK n : n = NearestCount
    OBVIOUS
  <1>3. /\ Len(resultSet) = n /\ n \in Nat /\ n > 0 /\ DOMAIN resultSet = 1..n
        /\ \A i \in 1..n : resultSet[i].dist \in Int
        /\ resultSet[n].dist <= pointDist(p)
    BY <1>1, <1>2, FoundPoints, KDTreeAssumption DEF Beaten
  <1>4. n \in 1..n /\ j \in 1..n
    BY <1>3
  <1>5. j < n => resultSet[j].dist <= resultSet[n].dist
    BY <1>1, <1>3, <1>4 DEF SetOK
  <1>6. pointDist(p) \in Int
    BY PointDistances DEF pointDist, SearchInv, BuildInv
  <1>. QED  BY <1>3, <1>4, <1>5, <1>6

LEMMA SearchInvFinds == BuildInv /\ SearchInv => NearestFound
  <1>. SUFFICES ASSUME BuildInv, SearchInv, idle, query # NoQuery
                PROVE  ret_indices \in Network!getNearestNodes(pts, query)
    BY DEF NearestFound
  <1>1. SetOK /\ query \in Query /\ PointsOK
    BY DEF SearchInv, BuildInv
  <1>2. PICK n : n = Len(resultSet)
    OBVIOUS
  <1>3. /\ n \in Nat /\ n <= NearestCount /\ NearestCount \in Nat /\ DOMAIN resultSet = 1..n
        /\ 1..n \subseteq 1..NearestCount
    BY <1>1, <1>2, FoundPoints, KDTreeAssumption DEF SetOK
  <1>4. Network!found(pts) = n
    BY <1>2, CountFound DEF Network!found
  <1>. DEFINE r == ret_indices
              distance(i) == [q \in Query |-> [p \in Point |-> evalMetric(q, p)]][query][pts[i]]
  <1>5. \A p \in DOMAIN pts : distance(p) = pointDist(p)
    <2>1. \A p \in DOMAIN pts : pts[p] \in Point
      BY <1>1, RootPart DEF PointsOK
    <2>. QED  BY <1>1, <2>1 DEF pointDist
  <1>6. /\ DOMAIN r = 1..NearestCount /\ r = [i \in 1..NearestCount |-> r[i]]
        /\ \A i \in 1..n : r[i] = resultSet[i].index
        /\ \A i \in 1..NearestCount \ 1..n : r[i] = 1
    BY <1>3 DEF ret_indices
  <1>. HIDE DEF r
  <1>7. \A i \in 1..n : r[i] \in DOMAIN pts /\ pointDist(r[i]) = resultSet[i].dist
    BY <1>1, <1>3, <1>6 DEF SetOK
  <1>8. r \in [1..NearestCount -> DOMAIN pts \cup {1}]
    BY <1>6, <1>7
  <1>9. \A i, j \in 1..n : i < j => r[i] # r[j] /\ distance(r[i]) <= distance(r[j])
    <2>1. \A i, j \in 1..n : i < j => /\ resultSet[i].index # resultSet[j].index
                                      /\ resultSet[i].dist <= resultSet[j].dist
      BY <1>1, <1>3 DEF SetOK
    <2>. HIDE DEF distance
    <2>. QED  BY <1>5, <1>6, <1>7, <2>1
  <1>10. \A p \in DOMAIN pts \ {r[j] : j \in 1..n} : \A j \in 1..n : distance(r[j]) <= distance(p)
    <2>. HIDE DEF distance
    <2>1. \A p \in DOMAIN pts \ {r[j] : j \in 1..n} : ~InSet(p)
      BY <1>3, <1>6 DEF InSet
    <2>. QED  BY <1>3, <1>5, <1>7, <2>1, OthersFarther
  <1>11. \A i \in 1..NearestCount \ 1..n : r[i] = 1
    BY <1>6
  <1>12. r \in {indices \in [1..NearestCount -> DOMAIN pts \cup {1}] :
              /\ \A i, j \in 1..n : i < j => /\ indices[i] # indices[j]
                                             /\ distance(indices[i]) <= distance(indices[j])
              /\ \A i \in DOMAIN pts \ {indices[j] : j \in 1..n} :
                    \A j \in 1..n : distance(indices[j]) <= distance(i)
              /\ \A i \in 1..NearestCount \ 1..n : indices[i] = 1}
    <2>. HIDE DEF distance
    <2>. QED  BY <1>8, <1>9, <1>10, <1>11
  <1>. QED  BY <1>4, <1>12 DEF Network!getNearestNodes, r

\* What Geo::getNearestNodes returns are the nearest points, in order: what a search
\* leaves out is behind a cut and cannot be as near as what is found.
THEOREM NearestFoundCorrect == KDSpec => []NearestFound
  BY AlwaysSearchInv, SearchInvFinds, PTL

=============================================================================
