SPECIFICATION AccessSpec
CONSTANTS
    Requests = {r1, r2}
    Clients = {c1}
    Routes = {"login", "list", "names"}
    Limit <- OneBucket
    Window = 2
    TTL = 1
    Timeout = 1
    PoolSize = 2
    MaxCrashes = 1
INVARIANTS
    AccessTypeOK
    AdmissionsBounded
PROPERTIES
    RetriesGetThrough
    EndedSessionsAreForgotten
    RequestsEnd
CHECK_DEADLOCK FALSE
