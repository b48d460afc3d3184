SPECIFICATION Spec
CONSTANTS
    t1 = t1
    t2 = t2
    o1 = o1
    o2 = o2
    Tabs = {t1}
    Saves = {o1, o2}
    TabOf <- BothInOne
    Edits = {e1, e2}
    Actions = {"add"}
    Enrolled = "none"
    Null = Null
    MaxUnlocks = 2
    MaxVersion = 4
INVARIANT VaultStaysReadable
CHECK_DEADLOCK FALSE
