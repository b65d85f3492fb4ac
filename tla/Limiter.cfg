SPECIFICATION Spec
CONSTANTS
    Reqs = {r1, r2, r3, r4, r5, r6}
    Keys = {k1, k2}
    Burst = 2
    Crowd = 1
    MaxTime = 5
    MaxLag = 1
    None = None
SYMMETRY Interchangeable
CHECK_DEADLOCK FALSE
INVARIANTS
    TypeOK
    WindowIsKept
