------------------------------- MODULE MCHSM -------------------------------
(* Instances of HSM for TLC.  The configuration gives the bounds. *)
EXTENDS HSM

CONSTANTS w1, w2
=============================================================================
