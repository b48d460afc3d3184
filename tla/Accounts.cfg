SPECIFICATION FairSpec
CONSTANTS
    Emails = {e1}
    Secrets = {p1, p2}
    Codes = {c1, c2}
    Tokens = {k1, k2}
    Requests = {r1, r2}
    NumCodes = 1
    None = None
INVARIANTS
    CodesResetOnce
    RevokedSessionsAreGone
PROPERTIES
    RequestsAnswered
    KeyReplacedOnlyByRecovery
CHECK_DEADLOCK FALSE
