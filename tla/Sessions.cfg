SPECIFICATION Spec
CONSTANTS
    Users = {u1}
    Devices = {d1, d2}
    Passwords = {p1, p2}
    Reqs = {r1, r2, r3}
    None = None
    MaxAttempts = 1
    MaxEpoch = 2
    MaxChallenges = 2
SYMMETRY Interchangeable
CHECK_DEADLOCK FALSE
INVARIANTS
    TypeOK
    AcceptedTokenProvesCurrentPassword
    OneCodeOneSession
    CapHoldsForRedemption
    TrustIsEarned
    SecondFactorStands
    BearerCheckIsLinearizable
PROPERTIES
    DeadTokenStaysDead
    KeepsItsPromise
