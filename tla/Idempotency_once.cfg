SPECIFICATION Spec
CONSTANTS
    d1 = d1
    d2 = d2
    d3 = d3
    k1 = k1
    k2 = k2
    NoOne = NoOne
    Deliveries = {d1, d2, d3}
    Keys = {k1, k2}
    Key <- MCKey
    Swallowing = {d2}
    Faults = {"insert", "before", "delete", "crash"}
    MaxFaults = 4
    Scheduled = FALSE
INVARIANTS EffectOnce Exclusive
PROPERTIES ImplementsOnceOnly
CHECK_DEADLOCK FALSE
