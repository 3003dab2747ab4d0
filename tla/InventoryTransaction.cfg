\* Two requests on the rows of one lot at two locations: enough for a holder whose
\* lock lapsed to delete the lock of the other one, and to be let in again beside it.
CONSTANTS
    Requests = {q1, q2}
    Locations = {a1, a2}
    Lots = {l1}
    NoLocation = NoLocation
    NilLot = NilLot
    Types = {"RECEIPT", "PICK"}
    Quantities <- MCQuantities
    Calls <- MCCalls
    MaxLedger = 3
    NoRequest = NoRequest
    NoDto = NoDto
SYMMETRY Symmetry
SPECIFICATION Spec
INVARIANTS
    TypeOK
    UnbrokenAccount
PROPERTIES
    ImplementsStockLedger
