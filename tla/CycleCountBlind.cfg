\* An ad hoc BLIND count and nothing else: no movement, no second actor.
CONSTANTS
    Counts = {c1}
    Locations = {a1}
    Lots = {lot1}
    Stocks = {1, 2, 4}
    Recorded = {2}
    AutoAdjusting = {c1}
    AutoLimit = 10
    AdhocMethods = {"BLIND"}
    Devices = {d1}
    Offices = {f1}
    Approvers = {p1}
    MaxMoves = 0
    MaxFinalizations = 1
    MaxApprovals = 2
    NoLine = NoLine
    NoCount = NoCount
    Nobody = Nobody
SPECIFICATION Spec
INVARIANTS
    CountCorrects
CHECK_DEADLOCK FALSE
