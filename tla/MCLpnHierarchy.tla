------------------------------ MODULE MCLpnHierarchy ------------------------------
(* Instances of LpnHierarchy for TLC. *)
EXTENDS LpnHierarchy, TLC

CONSTANTS Pallet1, Pallet2, Carton1, Carton2

(* Two pallets and two cartons. *)
PalletsAndCartons ==
    Pallet1 :> 5 @@ Pallet2 :> 5 @@ Carton1 :> 4 @@ Carton2 :> 4

Symmetry ==
    Permutations(Desks) \cup Permutations({Pallet1, Pallet2})
    \cup Permutations({Carton1, Carton2})
================================================================================
