SPECIFICATION WebAuthnSpec
CONSTANTS
    Users = {u1}
    Passkeys = {k1}
    Challenges = {h1, h2, h3}
    Requests = {r1, r2}
    None = None
    MaxUncleared = 1
SYMMETRY WebAuthnSymmetry
INVARIANTS
    WebAuthnTypeOK
    OpenedCeremoniesAreOver
    OneCeremonyAtATime
    DeletedPasskeysStayDeleted
PROPERTIES
    SignCountNeverGoesBack
CHECK_DEADLOCK FALSE
