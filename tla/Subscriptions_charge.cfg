SPECIFICATION Spec
CONSTANTS
    r1 = r1  r2 = r2  r3 = r3  p1 = p1  p2 = p2
    Reqs = {r1, r2, r3}
    Pres = {p1, p2}
    None = None
    Never = Never
    Periods <- Signed
    MaxMonths = 1
SYMMETRY Interchangeable
CONSTRAINTS Early Few
INVARIANTS TypeOK ChargeRecorded StatusFollows
PROPERTY OnlyOwnChanges
CHECK_DEADLOCK FALSE
