CONSTANTS
    Walker = {"w1", "w2"}
    Root = "root"
    Entries <- Tree
    Links <- TreeLinks
    Canonical <- RootPath
    RootIsCanonical = FALSE
    Wanted = {"file"}
    Excluded = {}
    Limits = {0}
    MaxReadErrors = 0
SPECIFICATION WalkSpec
INVARIANT WalkReportsAll
