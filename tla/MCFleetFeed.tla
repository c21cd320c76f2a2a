----------------------------- MODULE MCFleetFeed -----------------------------
(* Small instances of FleetFeed. *)
EXTENDS FleetFeed, TLC

Symmetry == Permutations(Writers) \cup Permutations(Rows)
=============================================================================
