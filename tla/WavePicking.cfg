\* One order of two lines, released twice, picked by two users.
CONSTANTS
    Lines = {1, 2}
    Allocations = {1, 2}
    LineOf <- MCLineOf
    Quantity <- MCQuantity
    Stock = 1
    Waves = {w1}
    Releasers = {r1, r2}
    Pickers = {p1, p2}
    Scans = {1}
    LateEvents = 0
    ByHand = {"ALLOCATED"}
    MaxByHand = 1
    MaxReleases = 2
    MaxAssignments = 2
    MaxPicks = 2
    MaxTasks = 3
    NoWave = NoWave
SPECIFICATION Spec
SYMMETRY TwoActors
INVARIANTS TypeOK PickedByOneTask PicksAddUp
PROPERTIES NotOfferedAgain
CHECK_DEADLOCK FALSE
