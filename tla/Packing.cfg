\* Two sessions one after the other or at once, two calls at a time.
CONSTANTS
    Sessions = {s1, s2}
    Stations = {st1}
    Callers = {k1, k2}
    MaxCalls = 3
    MaxContainers = 4
    NoSession = NoSession
    NoStation = NoStation
SPECIFICATION Spec
SYMMETRY AnyCaller
INVARIANTS TypeOK ItemsAddUp ClosedIsSealed NumbersFree
PROPERTIES StaysClosed
CHECK_DEADLOCK FALSE
