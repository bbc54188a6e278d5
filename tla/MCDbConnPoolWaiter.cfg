CONSTANTS
    Client = {c1, c2}
    MaxConnections = 1
    MinIdles = {0}
    Recycles = TRUE
    MayFail = FALSE
    MayCancel = FALSE
SPECIFICATION FairSpec
PROPERTY GetWaitsOnlyAtCapacity
