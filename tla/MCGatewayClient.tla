--------------------------- MODULE MCGatewayClient --------------------------
(***************************************************************************)
(* The TLC instance of GatewayClient: a gateway with two addresses, two    *)
(* descriptors, and reports in two pieces on two edge nodes: both, one or  *)
(* none of them usable.                                                    *)
(***************************************************************************)
EXTENDS GatewayClient, TLC

CONSTANTS n1, n2

MCReport == {n1 :> "live" @@ n2 :> "live", n1 :> "stale" @@ n2 :> "live",
             n1 :> "malformed" @@ n2 :> "empty"}
NoDistance == [p \in Place |-> [n \in Node |-> 0]]
=============================================================================
