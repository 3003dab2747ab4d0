\* The instance of InventoryTransaction.cfg without its negative quantities, asked
\* whether every ledger row adds up when locks may lapse.
CONSTANTS
    Requests = {q1, q2}
    Locations = {a1, a2}
    Lots = {l1}
    NoLocation = NoLocation
    NilLot = NilLot
    Types = {"RECEIPT", "PICK"}
    Quantities = {1, 2}
    Calls <- MCGoodsCalls
    MaxLedger = 3
    NoRequest = NoRequest
    NoDto = NoDto
SYMMETRY Symmetry
SPECIFICATION Spec
INVARIANT LedgerRowsAddUp
