------------------------------- MODULE MCAccounts -------------------------------
(* Instances of Accounts for TLC. *)
EXTENDS Accounts, TLC

\* Requests, wallets and emails are interchangeable.
Symmetry ==
  Permutations(Requests) \cup Permutations(Wallets) \cup Permutations(Emails)
===============================================================================
