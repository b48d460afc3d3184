SPECIFICATION CatalogueSpec
CONSTANTS
    Entries = {e1, e2}
    Tags = {t1, t2}
    SystemTags = {t2}
    Secrets = {s1}
    Edits = {d1, d2, d3}
    Inserts = {i1, i2}
    Requests = {r1, r2}
    None = None
    Limit = 2
SYMMETRY CatalogueSymmetry
CONSTRAINT OneAspect
INVARIANTS
    CatalogueTypeOK
    UpdatesSetTags
    UsageCountsEntries
    SerialEditsAreKept
    RotationStampsValue
    AttachmentsBounded
CHECK_DEADLOCK FALSE
