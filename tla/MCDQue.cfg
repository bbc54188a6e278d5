CONSTANTS
    Item = {a, b, c, d, e}
    ItemsPerSegment = 2
    Consumer = {c1, c2}
    Faults = {"write", "short", "create", "close", "unlink", "open", "list", "stat"}
    MaxFaults = 2
    MaxCrashes = 2
SYMMETRY Values
SPECIFICATION Spec
INVARIANTS
    TypeOK
    QueueCountsExact
    ServesTheOldest
    NoLostWakeup
    OnlyTornFilesFail
PROPERTY ImplementsFifo
