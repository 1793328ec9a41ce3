\* Three requests and four links: room for any two requests to overlap and for a third
\* to see what they left.
SPECIFICATION Spec
CONSTANTS
    Users = {u1, u2, u3}
    Names = {admin, n1}
    AdminName = admin
    Requests = {r1, r2, r3}
    MaxLinks = 4
    LockAfter = 2
    None = None
SYMMETRY Symmetry
INVARIANTS
    TypeOK
    InvitationsSpentOnce
    NewestLinkOnly
    AdministratorRemains
    LockIsEarned
PROPERTIES
    ResetTokensAreOneTime
CHECK_DEADLOCK FALSE
