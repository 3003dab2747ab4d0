\* One order whose job may be tried twice, the cron of two nodes, and a desk that
\* makes a call: any two of them may release the same allocation, and a retry or a
\* second cron meets what the first one left. Four units let a hard lock of two
\* succeed, which asks for them twice over.
CONSTANTS
    Plenty = a1
    PlentyUnits = 4
    Orders = {o1}
    Lines = {o1}
    OrderOf <- MCOrderOf
    Requested <- MCRequested
    HardOrders = {o1}
    Locations = {a1, a2}
    Lots = {lot1}
    OnHand <- MCOnHand
    Reserved <- MCReserved
    Filters <- MCFilters
    StockQueryRuns = TRUE
    Nodes = {n1, n2}
    Desks = {d1}
    MaxAttempts = 2
    MaxAllocs = 2
    MaxCalls = 1
    NoLine = NoLine
    NoRow = NoRow
    NoCopy = NoCopy
SPECIFICATION FairSpec
INVARIANTS
    TypeOK
    NothingStranded
    BooksExact
PROPERTIES
    ExpiredIsReleased
CHECK_DEADLOCK FALSE
