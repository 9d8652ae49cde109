SPECIFICATION Spec
CONSTANTS
    r1 = r1  r2 = r2  c1 = c1  c2 = c2  c3 = c3  c4 = c4  c5 = c5
    Reqs = {r1, r2}
    Cats = {c1, c2, c3, c4, c5}
    Commerces = {shop}
    Own = Own
    Limits = {0, 1}
SYMMETRY Interchangeable
INVARIANT Bounded
CHECK_DEADLOCK FALSE
