SPECIFICATION FolderSpec
CONSTANTS
    Folders = {f1, f2, f3}
    Entries = {e1}
    Requests = {r1, r2}
    Root = Root
    None = None
SYMMETRY FolderSymmetry
INVARIANTS
    CheckedMovesKeepForest
PROPERTIES
    DeleteTakesNothingAlong
CHECK_DEADLOCK FALSE
