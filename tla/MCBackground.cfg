CONSTANTS
    w1 = w1
    w2 = w2
    Walker = {w1, w2}
    Root = "root"
    Entries <- Tree
    Links <- TreeLinks
    Canonical <- RootPath
    RootIsCanonical = FALSE
    Wanted = {"file"}
    Excluded = {}
    Limits = {0, 1}
    MaxReadErrors = 1
    QueueItem = {"x", "y"}
    MinCapacity = 2
    InitialCap = 2
    MaxItems = 5
    Image = {"good", "bad"}
    Decodable = {"good"}
    Starts <- DiscoveryStarts
    Worker = {w1, w2}
    MinWorkers = 1
    MaxRefusals = 1
    IndexFile = {"f1", "f2"}
    MaxRebuilds = 2
    MaxPages = 1
    BatchSize = 2
    MaxFaults = 2
    Job = {"once", "hourly"}
    Recurring = {"hourly"}
    StartTimes = {0, 1}
    Period = 1
    MaxConcurrent = 2
    Horizon = 1
    MaxOverlap = 2
    Visit = {v1, v2}
    PreloadRoute = {"p", "q"}
    MaxSchedulers = 2
    Target = {"a", "b", "c"}
    Stored = {"c"}
    Loader = {l1, l2}
    LoadWorker = {k1}
    JobQueueSize = 1
    MaxCrashes = 1
    MaxAsks = 2
SPECIFICATION BackgroundSpec
INVARIANTS
    BackgroundTypeOK
    WalkSafety
    DiscoverySafety
    TasksAreBounded
    PreloadSafety
    OrderlyExit
PROPERTIES
    RingIsDeque
    FolderIndexSafety
    BackgroundEnds
