----------------------------- MODULE MCFleetModel -----------------------------
(* Small instances of FleetModel. *)
EXTENDS FleetModel

MCWindows == {<<1, 2>>, <<1, 3>>}

Symmetry == Permutations(CarIds) \cup Permutations(ResIds) \cup Permutations(Cells)
=============================================================================
