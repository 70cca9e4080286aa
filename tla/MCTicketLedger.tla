----------------------------- MODULE MCTicketLedger -----------------------------
(* A small tier for TLC. *)
EXTENDS TicketQueries, TLC

CONSTANTS a, b, o

\* The two wallets are registered or not alike, so they may be swapped.
Symmetry == Permutations(Wallets)
===============================================================================
