SPECIFICATION StoreSpec
CONSTANTS
    Saves = {s1, s2}
    Blobs = {b0, b1}
    InitialBlob = b0
    MaxVersion = 4
SYMMETRY SaveSymmetry
INVARIANTS
    VersionWithinWrites
    VersionCountsWrites
PROPERTIES
    UnopposedSaveIsCompareAndSwap
CHECK_DEADLOCK FALSE
