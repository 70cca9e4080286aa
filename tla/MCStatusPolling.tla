---------------------------- MODULE MCStatusPolling ----------------------------
(* A few transactions of one resale, polled by overlapping requests.        *)
EXTENDS StatusPolling, TLC

CONSTANTS p1, p2, c1, c2, s1, r1, r2

\* The transactions of one kind are alike, and so are the requests.
Symmetry ==
  Permutations(Purchases) \cup Permutations(Cancels) \cup Permutations(Requests)
===============================================================================
