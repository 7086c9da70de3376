----------------------------- MODULE MCAccounts -----------------------------
(* Accounts for TLC: requests, addresses and Google accounts are interchangeable. *)
EXTENDS Accounts, TLC

Symmetry == Permutations(Requests) \cup Permutations(Emails) \cup Permutations(Subs)
=============================================================================
