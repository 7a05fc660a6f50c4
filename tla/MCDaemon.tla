------------------------------ MODULE MCDaemon ------------------------------
(* Small instances of Daemon for TLC. *)
EXTENDS Daemon, TLC

CONSTANTS c1, c2, c3, alice, bob

(* A window of each user, and a caller nobody can identify. *)
MCWhoThree == c1 :> alice @@ c2 :> bob @@ c3 :> Anonymous

(* One window each. *)
MCWhoPair == c1 :> alice @@ c2 :> bob

MCRenew == [c \in Conns |-> {"start", "refresh"}]

(* Everything a tunnel can be asked from one window, the least from the others. *)
MCMixed ==
  c1 :> {"start", "stop", "refresh", "oversize"} @@ c2 :> {"start", "whoami", "unfit"}
  @@ c3 :> {"start"}
=============================================================================
