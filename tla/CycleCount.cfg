\* One count of one row, two of every actor: devices that submit the same line, calls
\* that finalise the same count, approvers of the same approval. One unit less than
\* recorded is within the automatic limit, two units more are beyond it.
CONSTANTS
    Counts = {c1}
    Locations = {a1}
    Lots = {lot1}
    Stocks = {1, 2, 4}
    Recorded = {2}
    AutoAdjusting = {c1}
    AutoLimit = 1
    AdhocMethods = {"KNOWN"}
    Devices = {d1, d2}
    Offices = {f1, f2}
    Approvers = {p1, p2}
    MaxMoves = 1
    MaxFinalizations = 2
    MaxApprovals = 2
    NoLine = NoLine
    NoCount = NoCount
    Nobody = Nobody
SPECIFICATION Spec
INVARIANTS
    TypeOK
    CountCorrects
    LedgerAgrees
SYMMETRY Symmetry
CHECK_DEADLOCK FALSE
