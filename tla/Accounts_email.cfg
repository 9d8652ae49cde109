SPECIFICATION Spec
CONSTANTS
    r1 = r1  r2 = r2  r3 = r3  u1 = u1  u2 = u2  u3 = u3  c1 = c1  c2 = c2  c3 = c3
    Reqs = {r1, r2, r3}
    Ids = {u1, u2, u3}
    Codes = {c1, c2, c3}
    Old = Old
    None = None
SYMMETRY Interchangeable
INVARIANTS TypeOK OneAccount HasRole CodeOnce
PROPERTY OwnChanges
CHECK_DEADLOCK FALSE
