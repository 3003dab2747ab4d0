\* Three requests with one key, one with another, one with none; two slots.
CONSTANTS
    r1 = r1
    r2 = r2
    r3 = r3
    r4 = r4
    r5 = r5
    k1 = k1
    k2 = k2
    Requests = {r1, r2, r3, r4, r5}
    RfRequests = {r1, r4}
    Keys = {k1, k2}
    NoKey = NoKey
    KeyOf <- MCKeyOf
    MaxConcurrent = 2
    CacheOverflows = TRUE
SPECIFICATION Spec
INVARIANTS TypeOK SlotsReturned ProcessedOnce KeysReturned DatabaseOutlivesRequests
PROPERTIES Exits
CHECK_DEADLOCK FALSE
