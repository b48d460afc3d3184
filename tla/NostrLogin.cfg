SPECIFICATION NamesSpec
CONSTANTS
    Challenges = {c1, c2}
    Pubkeys = {p1, p2}
    Requests = {r1, r2}
    Addresses = {own, far}
    Served = {own}
    Checks = {v1, v2}
    None = None
    TTL = 1
    Keep = 1
    MaxTime = 4
SYMMETRY NostrSymmetry
CONSTRAINT Apart
INVARIANTS
    OneAccountPerPubkey
    SessionsRestOnChallenges
    NamesWereGiven
    OwnNamesAreNeverGiven
PROPERTIES
    ChallengesAreTickets
CHECK_DEADLOCK FALSE
