------------------------------ MODULE MCSessions ------------------------------
(* Two browsers of one user, for TLC. *)
EXTENDS Sessions, TLC

Symmetry ==
  Permutations(Browsers) \cup Permutations(Requests) \cup Permutations(Rows)
===============================================================================
