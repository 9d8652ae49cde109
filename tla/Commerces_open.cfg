SPECIFICATION Spec
CONSTANTS
    r1 = r1  r2 = r2  s1 = s1  s2 = s2  s3 = s3
    x1 = x1  x2 = x2  x3 = x3  x4 = x4
    Reqs = {r1, r2}
    Admins = {}
    Ids = {s1, s2, s3}
    Rows = {x1, x2, x3, x4}
    Seeds = {x1, x2}
    Contexts = {general, retail}
    General = general
    Synced = {general}
    None = None
    MaxCommerces = 1
SYMMETRY Interchangeable
INVARIANTS TypeOK CommerceLimit KeepsAccess GrantedOnce
CHECK_DEADLOCK FALSE
