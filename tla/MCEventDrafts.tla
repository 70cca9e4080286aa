----------------------------- MODULE MCEventDrafts -----------------------------
(* Three requests about the drafts of one organizer, for TLC: behaviours    *)
(* with two tiers to a payload and behaviours with two classes.             *)
EXTENDS EventDrafts, TLC

MCShapes == {[tiers |-> 2, classes |-> 1], [tiers |-> 1, classes |-> 2]}

Symmetry == Permutations(Requests) \cup Permutations(Names)
===============================================================================
