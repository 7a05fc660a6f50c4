------------------------------- MODULE MCWire -------------------------------
(* Small instances of Wire for TLC. *)
EXTENDS Wire

CONSTANTS handler, reporter
=============================================================================
