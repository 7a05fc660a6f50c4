------------------------------ MODULE MCWindow ------------------------------
(* The instance of Window for TLC: two connections, or one and two of a     *)
(* Disconnect, a renewal, the module coming or going, and a failed read.    *)
EXTENDS Window
=============================================================================
