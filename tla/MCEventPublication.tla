--------------------------- MODULE MCEventPublication ---------------------------
(* Instances of EventPublication and EventSearch for TLC. *)
EXTENDS EventSearch, TLC

\* Transactions and requests are interchangeable.
Symmetry == Permutations(Txs) \cup Permutations(Requests)
===============================================================================
