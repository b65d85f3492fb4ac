SPECIFICATION Spec
CONSTANTS
    Users = {u1, u2}
    Org = Org
    FileIds = {f1, f2, f3}
    Reqs = {r1, r2, r3}
    None = None
SYMMETRY Interchangeable
CHECK_DEADLOCK FALSE
INVARIANTS
    TypeOK
    AvatarIsThere
    RowHasItsBlob
    StoredIsThere
    DeletionCanBeRepeated
    DeletedMeansGone
    NothingIsLeftBehind
