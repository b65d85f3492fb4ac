SPECIFICATION Spec
CONSTANTS
    Users = {u1, u2}
    Protected = {}
    Reqs = {r1, r2}
    None = None
SYMMETRY Interchangeable
CHECK_DEADLOCK FALSE
PROPERTY SomebodyCanGrantItBack
