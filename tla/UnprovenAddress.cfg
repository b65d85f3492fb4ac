SPECIFICATION Spec
CONSTANTS
    Users = {u1}
    Emails = {e1, e2, e3}
    Passwords = {p1}
    Reqs = {r1, r2, r3}
    None = None
    MaxAttempts = 1
    MaxResets = 0
    MaxChanges = 2
SYMMETRY Interchangeable
CHECK_DEADLOCK FALSE
PROPERTY NewAddressIsProven
