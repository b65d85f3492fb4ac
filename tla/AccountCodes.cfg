SPECIFICATION Spec
CONSTANTS
    Users = {u1, u2}
    Emails = {e1, e2}
    Passwords = {p1, p2}
    Reqs = {r1, r2, r3}
    None = None
    MaxAttempts = 2
    MaxResets = 2
    MaxChanges = 2
SYMMETRY Interchangeable
CHECK_DEADLOCK FALSE
INVARIANTS
    TypeOK
    OpenCodeIsBelowTheCap
    RedeemedCodeIsSpent
    NoTwoAccountsShareAnAddress
PROPERTY
    SpentStaysSpent
