\* Two pallets and two cartons, two desks that nest, unnest and delete them at once,
\* and statuses given in between; at most five calls and statuses.
CONSTANTS
    Pallet1 = P1
    Pallet2 = P2
    Carton1 = C1
    Carton2 = C2
    Lpns = {P1, P2, C1, C2}
    Rank <- PalletsAndCartons
    Desks = {d1, d2}
    MaxCalls = 5
    NoLpn = NoLpn
SPECIFICATION Spec
INVARIANTS
    TypeOK
    NoneInsideItself
    NestedIsInside
PROPERTIES
    OnlyRootsTakeIn
SYMMETRY Symmetry
CHECK_DEADLOCK FALSE
