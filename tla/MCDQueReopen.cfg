CONSTANTS
    Item = {a, b}
    ItemsPerSegment = 2
    Consumer = {}
    Faults = {}
    MaxFaults = 0
    MaxCrashes = 1
SPECIFICATION Spec
INVARIANT AlwaysReopens
