SPECIFICATION Spec
CONSTANTS
    s1 = s1  s2 = s2  s3 = s3  r1 = r1  r2 = r2
    Scans = {s1, s2, s3}
    PathScans = {s3}
    Regens = {r1, r2}
    Hooks = {h1}
    Changes = {"REFUNDED"}
    MaxCode = 3
SYMMETRY Interchangeable
INVARIANT UsedByEntry
PROPERTIES NeverRevived NoSecondEntry
CHECK_DEADLOCK FALSE
