------------------------- MODULE MCInventoryTransaction -------------------------
(* Instances of InventoryTransaction for TLC. *)
EXTENDS InventoryTransaction, TLC

Call(place, type, quantity) == [place |-> place, type |-> type, quantity |-> quantity]

At == CHOOSE loc \in Locations : TRUE
Lot == CHOOSE l \in Lots : TRUE

(* Goods arrive, are picked and are noted without a location. *)
MCGoodsCalls ==
    {Call(<<At, Lot>>, "RECEIPT", 2), Call(<<At, Lot>>, "PICK", 1),
     Call(<<NoLocation, Lot>>, "PICK", 1)}

(* Negative quantities get through as well: a receipt that takes stock away,  *)
(* and a pick that adds some at another location under the same lot's lock.   *)
MCQuantities == {-1, 1, 2}
MCCalls ==
    MCGoodsCalls \cup {Call(<<At, Lot>>, "RECEIPT", -1)}
    \cup {Call(<<loc, Lot>>, "PICK", -1) : loc \in Locations \ {At}}

Symmetry == Permutations(Requests)
================================================================================
