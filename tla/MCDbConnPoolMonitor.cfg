CONSTANTS
    Client = {c1}
    MaxConnections = 1
    MinIdles = {0}
    Recycles = FALSE
    MayFail = FALSE
    MayCancel = FALSE
SPECIFICATION Spec
INVARIANT MonitorExitsInOrder
