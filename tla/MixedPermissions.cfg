SPECIFICATION Spec
CONSTANTS
    Users = {u1}
    Memberships = {m1}
    Owner = Owner
    Admin = Admin
    CustomRoles = {c1}
    Reqs = {r1, r2}
    None = None
    PermissionSets <- Deleting
SYMMETRY Interchangeable
CHECK_DEADLOCK FALSE
PROPERTY PermissionsAreReplaced
