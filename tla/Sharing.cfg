SPECIFICATION SharingSpec
CONSTANTS
    Users = {u1, u2, u3}
    Teams = {t1}
    Invitations = {i1, i2}
    Folders = {f1}
    Shares = {s1, s2}
    Requests = {r1, r2}
    None = None
SYMMETRY SharingSymmetry
CONSTRAINT SharesLast
INVARIANTS
    SharingTypeOK
    InvitationAdmitsOne
    RolesAreGranted
    AccessFollowsShares
CHECK_DEADLOCK FALSE
