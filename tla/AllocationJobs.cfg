\* Two orders that together want one unit more than the first location holds, each
\* tried up to twice: the jobs compete for its stock and spill over to the second.
CONSTANTS
    Plenty = a1
    PlentyUnits = 3
    Orders = {o1, o2}
    Lines = {o1, o2}
    OrderOf <- MCOrderOf
    Requested <- MCRequested
    HardOrders = {o1}
    Locations = {a1, a2}
    Lots = {lot1}
    OnHand <- MCOnHand
    Reserved <- MCReserved
    Filters <- MCFilters
    StockQueryRuns = TRUE
    Nodes = {}
    Desks = {}
    MaxAttempts = 2
    MaxAllocs = 4
    MaxCalls = 0
    NoLine = NoLine
    NoRow = NoRow
    NoCopy = NoCopy
SPECIFICATION Spec
INVARIANTS
    RetriesBounded
    AllocatedInFull
CHECK_DEADLOCK FALSE
