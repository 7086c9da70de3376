------------------------ MODULE MCConnectionService ------------------------
(* ConnectionService for TLC: requests, users and names are interchangeable. *)
EXTENDS ConnectionService

Symmetry == Permutations(Requests) \cup Permutations(Users) \cup Permutations(Names)
=============================================================================
