SPECIFICATION Spec
CONSTANTS
    Users = {u1, u2}
    Memberships = {m1, m2}
    Owner = Owner
    Admin = Admin
    CustomRoles = {c1}
    Reqs = {r1, r2}
    None = None
    PermissionSets <- Updating
SYMMETRY Interchangeable
CHECK_DEADLOCK FALSE
INVARIANT TypeOK
PROPERTIES
    LastOwnerIsKept
    DeletedRoleIsUnheld
