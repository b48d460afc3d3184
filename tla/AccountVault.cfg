SPECIFICATION AccountVaultSpec
CONSTANTS
    Emails = {e1}
    Secrets = {p1, p2}
    InitialSecret = p1
    Codes = {c1, c2}
    Tokens = {k1, k2}
    Requests = {r1, r2}
    NumCodes = 2
    Saves = {s1}
    MaxVersion = 4
    None = None
SYMMETRY AccountVaultSymmetry
INVARIANTS
    SerialVaultOpensWithSecret
CHECK_DEADLOCK FALSE
