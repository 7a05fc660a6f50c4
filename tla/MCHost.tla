------------------------------- MODULE MCHost -------------------------------
(* Small instances of Host for TLC: a few processes started in any order.   *)
EXTENDS Host, TLC

CONSTANTS p1, p2, d1, d2

(* A wg-hem up, and a tunnel of one of the other programs. *)
MCKinds == p1 :> {"hem"} @@ p2 :> {"quick", "component"}

(* The component alone. *)
MCService == p1 :> {"component"}
=============================================================================
