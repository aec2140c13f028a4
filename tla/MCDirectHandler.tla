-------------------------- MODULE MCDirectHandler --------------------------
(***************************************************************************)
(* TLC instances of DirectHandler: three edge nodes of which two are       *)
(* given, at different distances from two places, and reports that add,    *)
(* drop and spoil entries; or one edge node and a cache in use.            *)
(***************************************************************************)
EXTENDS DirectHandler, TLC

CONSTANTS n1, n2, n3, p1, p2

MCDistance ==
    p1 :> (n1 :> 1 @@ n2 :> 2 @@ n3 :> 3) @@ p2 :> (n1 :> 3 @@ n2 :> 2 @@ n3 :> 2)

NoDistance == [p \in Place |-> [n \in Node |-> 0]]

\* Any nodes may be usable; the others have old heartbeats.
StaleReport == [Node -> {"live", "stale"}]
AllLive == {[n \in Node |-> "live"]}

MCResponse == {[status |-> 200, html |-> TRUE, len |-> 1],
               [status |-> 200, html |-> FALSE, len |-> 2]}
=============================================================================
