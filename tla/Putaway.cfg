\* One receipt of two units scanned by two devices onto one package; a job of the
\* queue that may fail half way and run again; two operators who may confirm the same
\* task; one intervention, of the web, of quality control or of the office; two nodes
\* that run the nightly repair.
CONSTANTS
    Receipts = {g1}
    Expected = 2
    Lpns = {p1}
    Quantities = {1}
    Typed = {1}
    Devices = {d1, d2}
    Dock = Dock
    MaxScans = 2
    MaxInterventions = 1
    Locations = {a1}
    Workers = {w1}
    Operators = {o1, o2}
    Nodes = {n1, n2}
    MaxJobs = 1
    MaxAttempts = 2
    MaxTasks = 2
    Moves <- MCMoves
    NoReceipt = NoReceipt
SPECIFICATION FairSpec
INVARIANTS
    TypeOK
    NothingClaimed
    ScansAddUp
    StockIsStored
PROPERTIES
    PhantomsRepaired
CHECK_DEADLOCK FALSE
