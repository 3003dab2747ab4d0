------------------------------ MODULE MCAllocation ------------------------------
(* Instances of Allocation for TLC: every order has one line, for two units. *)
EXTENDS Allocation, TLC

CONSTANTS Plenty, PlentyUnits

MCOrderOf == [l \in Lines |-> l]
MCRequested == [l \in Lines |-> 2]

(* Most of the stock is at one location, one unit at each other one. *)
MCOnHand == [r \in Rows |-> IF r[1] = Plenty THEN PlentyUnits ELSE 1]
MCReserved == [r \in Rows |-> 0]
MCFilters == {Locations}
================================================================================
