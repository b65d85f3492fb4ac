SPECIFICATION Spec
CONSTANTS
    Users = {u1}
    Emails = {e1, e2}
    Invites = {i1, i2}
    Roles = {q1}
    Reqs = {r1, r2, r3}
    None = None
    MaxTokens = 2
SYMMETRY Interchangeable
CHECK_DEADLOCK FALSE
INVARIANTS
    TypeOK
    OneMembershipPerInvitation
PROPERTIES
    EndedOfferAdmitsNobody
    JoinsWithWhatWasOffered
    OfferIsNotPreempted
