SPECIFICATION Spec
CONSTANTS
    t1 = t1
    t2 = t2
    o1 = o1
    o2 = o2
    Tabs = {t1, t2}
    Saves = {o1, o2}
    TabOf <- OneEach
    Edits = {e1, e2}
    Actions = {"add", "revoke"}
    Enrolled = "dek"
    Null = Null
    MaxUnlocks = 2
    MaxVersion = 3
SYMMETRY ClientSymmetry

    
PROPERTIES
    SerialSavesKeepEntries
CHECK_DEADLOCK FALSE
