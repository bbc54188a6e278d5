CONSTANTS
    Client = {c1, c2}
    MaxConnections = 1
    MinIdles = {0, 1}
    Recycles = TRUE
    MayFail = TRUE
    MayCancel = TRUE
SPECIFICATION FairSpec
INVARIANTS
    TypeOK
    CountExact
    ReturnFits
    CloseWaitsForPuts
PROPERTIES
    FullPoolServes
    CloseReturns
