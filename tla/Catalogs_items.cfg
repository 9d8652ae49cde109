SPECIFICATION Spec
CONSTANTS
    r1 = r1  r2 = r2  r3 = r3  i1 = i1  i2 = i2  i3 = i3
    Reqs = {r1, r2, r3}
    Items = {i1, i2, i3}
    MaxPrice = 2
    Capacity = 2
    PlanAllows = TRUE
SYMMETRY Interchangeable
INVARIANTS TypeOK CapacityKept
PROPERTIES NoItemLost OnlyOwnChanges ImplementsLimits
CHECK_DEADLOCK FALSE
