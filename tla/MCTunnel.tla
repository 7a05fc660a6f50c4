------------------------------ MODULE MCTunnel ------------------------------
(* Small instances of Tunnel for TLC. *)
EXTENDS Tunnel, TLC

CONSTANTS p1, p2, p3, a1, a2, a3, hem

MCTwo == <<p1, p2>>
MCThree == <<p1, p2, p3>>

MCEndpoint == p1 :> a1 @@ p2 :> a2 @@ p3 :> a3
MCEndpointTwo == p1 :> a1 @@ p2 :> a2

(* Every peer takes every endpoint, and the first one the HEM as well. *)
MCWide == [p \in Peers |-> IF p = p1 THEN Addrs ELSE Addrs \ {HEM}]

(* The first peer takes everything, the second takes one range. *)
MCNarrow == p1 :> {a1, a2, hem} @@ p2 :> {a1}
=============================================================================
