\* One package with all a line expects, scanned by one device, and one job of the
\* queue for its receipt. Nobody intervenes.
CONSTANTS
    Receipts = {g1}
    Expected = 1
    Lpns = {p1}
    Quantities = {1}
    Typed = {1}
    Devices = {d1}
    Dock = Dock
    MaxScans = 1
    MaxInterventions = 0
    Locations = {a1}
    Workers = {w1}
    Operators = {o1}
    Nodes = {n1}
    MaxJobs = 1
    MaxAttempts = 1
    MaxTasks = 1
    Moves <- MCMoves
    NoReceipt = NoReceipt
SPECIFICATION FairSpec
PROPERTIES
    JobsCreateTasks
CHECK_DEADLOCK FALSE
