SPECIFICATION FairSpec
CONSTANTS
    d1 = d1
    d2 = d2
    d3 = d3
    k1 = k1
    k2 = k2
    NoOne = NoOne
    Deliveries = {d1, d2, d3}
    Keys = {k1, k2}
    Key <- MCKey
    Swallowing = {}
    Faults = {"insert", "before", "after", "store"}
    MaxFaults = 3
    Scheduled = TRUE
INVARIANTS EffectsAccounted
PROPERTIES Delivered
CHECK_DEADLOCK FALSE
