SPECIFICATION FairSpec
CONSTANTS
    Users = {u1, u2}
    Memberships = {m1}
    Owner = Owner
    Admin = Admin
    CustomRoles = {}
    Reqs = {r1, r2}
    None = None
    PermissionSets <- Nothing
CHECK_DEADLOCK FALSE
PROPERTY LockIsPassedOn
