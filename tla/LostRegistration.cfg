SPECIFICATION Spec
CONSTANTS
    Users = {u1}
    Emails = {e1}
    Invites = {i1}
    Roles = {}
    Reqs = {r1, r2}
    None = None
    MaxTokens = 1
SYMMETRY Interchangeable
CHECK_DEADLOCK FALSE
PROPERTY RetryMeansLookedAfter
