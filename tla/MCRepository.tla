---------------------------- MODULE MCRepository ----------------------------
(* A small instance of Repository for TLC. *)
EXTENDS Repository, TLC

(* Identities, peers and processes are each interchangeable. *)
Alike == Permutations(Ids) \cup Permutations(Peers) \cup Permutations(Procs)
=============================================================================
